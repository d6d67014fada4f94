SPECIFICATION Spec
CONSTANTS
    Questions <- FreshIds
    DnsRemote <- Remote
    MaxQueries = 3
    MaxReplies = 1
INVARIANT AnswersItsQuestion
CHECK_DEADLOCK FALSE
