SPECIFICATION LiveSpec
CONSTANTS
    MaxClaims = 1
    MaxMoves = 0
    MaxFaults = 0
    MaxAttempts = 1
    Recurring = TRUE
    External = FALSE
PROPERTY LeaseEnds
CHECK_DEADLOCK FALSE
