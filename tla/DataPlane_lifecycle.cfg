SPECIFICATION Spec
CONSTANTS
    MaxEngines = 2
    MaxSessions = 3
    MaxPackets = 1
    QueueDepth = 1
    Dns <- NoQuery
    Interceptors <- PlainOnly
    JoinTimeout = FALSE
    AsyncStop = FALSE
INVARIANTS
    NoUseAfterRelease
    NoOrphanTask
    OneDelivery
PROPERTY
    ImplementsWriterContract
CHECK_DEADLOCK FALSE
