SPECIFICATION Spec
CONSTANTS
    MaxTunnels = 2
    MaxEvents = 3
    Paths <- TwoPaths
    Wifi = Wifi
    Cell = Cell
    Down = Down
    NoPath = NoPath
    StopsEarly = FALSE
INVARIANT RestartStaysInItsTunnel
CHECK_DEADLOCK FALSE
