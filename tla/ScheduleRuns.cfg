SPECIFICATION Spec
CONSTANTS
    MaxClaims = 2
    MaxMoves = 1
    MaxFaults = 1
    MaxAttempts = 2
    Recurring = TRUE
    External = FALSE
INVARIANT TypeOK
INVARIANT ActiveRunHoldsLease
INVARIANT HandedOnce
INVARIANT OutcomeIsTold
INVARIANT AnswerKeepsRun
PROPERTY ScheduleWaitsForRun
CHECK_DEADLOCK FALSE
