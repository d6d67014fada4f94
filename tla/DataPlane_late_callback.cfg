SPECIFICATION Spec
CONSTANTS
    MaxEngines = 1
    MaxSessions = 1
    MaxPackets = 1
    QueueDepth = 1
    Dns <- OneQuery
    Interceptors <- WithDns
    JoinTimeout = FALSE
    AsyncStop = FALSE
INVARIANT NoUseAfterRelease
CHECK_DEADLOCK FALSE
