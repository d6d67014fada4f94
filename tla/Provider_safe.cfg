SPECIFICATION FairSpec
CONSTANTS
    MaxTunnels = 2
    MaxEvents = 3
    Paths <- TwoPaths
    Wifi = Wifi
    Cell = Cell
    Down = Down
    NoPath = NoPath
    StopsEarly = TRUE
INVARIANTS TypeOK NoLostEngine StoppedMeansNoEngine FileNeverMisstates
PROPERTIES SupersededNeverRuns RestartHappens NeverUpAndDead
CHECK_DEADLOCK FALSE
