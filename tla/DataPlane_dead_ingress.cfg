SPECIFICATION Spec
CONSTANTS
    MaxEngines = 1
    MaxSessions = 1
    MaxPackets = 2
    QueueDepth = 1
    Dns <- NoQuery
    Interceptors <- PlainOnly
    JoinTimeout = FALSE
    AsyncStop = FALSE
INVARIANT RejectsOnlyWhenStopped
CHECK_DEADLOCK FALSE
