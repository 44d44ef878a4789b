SPECIFICATION Spec
CONSTANTS
    d1 = d1
    d2 = d2
    b1 = b1
    q1 = q1
    q2 = q2
    a1 = a1
    a2 = a2
    Updates = {1, 2, 3}
    Queues = {q1}
    Queue <- ChatQueue
    Shape <- VoiceShape
    Author <- ChatAuthor
    Private = {}
    AnyDrains = {d1, d2}
    CallbackDrains = {}
    SeriesMax = 1
    MaxRotations = 3
    MaxFaults = 2
    Faults = {"crash", "expiry", "db_error", "dispatch_error", "migration", "release_error"}
SYMMETRY DrainSymmetry
INVARIANT TypeOK
INVARIANT EntersEveOnce
INVARIANT BilledOnce
PROPERTY InOrder
