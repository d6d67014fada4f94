SPECIFICATION Spec
CONSTANTS
    Questions <- SharedId
    DnsRemote <- Remote
    MaxQueries = 3
    MaxReplies = 1
INVARIANT CleanReplyReaddressed
CHECK_DEADLOCK FALSE
