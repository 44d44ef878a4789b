SPECIFICATION LiveSpec
CONSTANTS
    MaxClaims = 2
    MaxMoves = 0
    MaxFaults = 1
    MaxAttempts = 2
    Recurring = FALSE
    External = TRUE
INVARIANT HistoryServesRun
PROPERTY LeaseEndsUnlessStranded
CHECK_DEADLOCK FALSE
