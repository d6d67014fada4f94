SPECIFICATION FairSpec
CONSTANTS
    MaxEngines = 1
    MaxSessions = 1
    MaxPackets = 3
    QueueDepth = 2
    Dns <- OneQuery
    Interceptors <- WithDns
    JoinTimeout = TRUE
    AsyncStop = TRUE
INVARIANTS
    TypeOK
    WireOrder
PROPERTIES
    QueueDrains
    StopBlockingReturns
    AbortedTasksEnd
CHECK_DEADLOCK FALSE
