SPECIFICATION ConversationsFairSpec
CONSTANTS
    Group = TRUE
    MaxSessions = 2
    MaxAsks = 1
    MaxRequests = 2
    SweepBatch = 1
    MaxMessages = 2
    MaxPolicies = 1
    MaxFaults = 1
INVARIANT ConversationsTypeOK
INVARIANT RefusedStaysUnexecuted
PROPERTY DecisionIsFinal
PROPERTY OverdueSettles
CHECK_DEADLOCK FALSE
