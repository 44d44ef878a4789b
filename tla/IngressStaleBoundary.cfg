SPECIFICATION Spec
CONSTANTS
    d1 = d1
    d2 = d2
    b1 = b1
    q1 = q1
    q2 = q2
    a1 = a1
    a2 = a2
    Updates = {1, 2}
    Queues = {q1}
    Queue <- PairQueue
    Shape <- PairShape
    Author <- PairAuthor
    Private = {}
    AnyDrains = {d1, d2}
    CallbackDrains = {}
    SeriesMax = 1
    MaxRotations = 3
    MaxFaults = 2
    Faults = {"crash"}
INVARIANT OwnBoundary
