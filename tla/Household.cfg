SPECIFICATION HouseholdSpec
CONSTANTS
    Nobody = Nobody
    Reminders = {r1}
    ReminderTokens = 2
    ReminderAttempts = 2
    MaxArms = 2
    MaxTaskMoves = 1
    MaxReminderChanges = 1
    MaxReminderFaults = 1
    Callers = {c1, c2}
    Couriers = {w1, w2}
    MaxErrandChanges = 3
    MaxErrandFaults = 3
    Reviewers = {v1, v2}
    LaneMessages = 2
    PassSize = 1
    RidingMinimum = 1
    MaxPasses = 4
    MaxReviewFlaws = 1
    Orders = {o1, o2}
    NoOrder = NoOrder
    VideoPasses = {x1, x2}
    NoPass = NoPass
    VideoLimit = 1
    MaxVideoFlaws = 2
INVARIANT HouseholdTypesOK
INVARIANT ReminderSentOnce
INVARIANT RecordedReachesTimeline
INVARIANT ErrandDoneOnce
INVARIANT ErrandIsAccountedFor
INVARIANT ReviewStrandsAndRepeatsNothing
INVARIANT PaidFromHold
INVARIANT VideoShownOnce
PROPERTY QueuesDrain
CHECK_DEADLOCK FALSE
