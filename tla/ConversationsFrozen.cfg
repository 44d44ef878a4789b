SPECIFICATION ConversationsFairSpec
CONSTANTS
    Group = TRUE
    MaxSessions = 1
    MaxAsks = 1
    MaxRequests = 1
    SweepBatch = 1
    MaxMessages = 1
    MaxPolicies = 0
    MaxFaults = 0
PROPERTY DecisionReachesEve
CHECK_DEADLOCK FALSE
