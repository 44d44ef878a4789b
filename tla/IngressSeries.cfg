SPECIFICATION Spec
CONSTANTS
    d1 = d1
    d2 = d2
    b1 = b1
    q1 = q1
    q2 = q2
    a1 = a1
    a2 = a2
    Updates = {1, 2, 3}
    Queues = {q1}
    Queue <- ChatQueue
    Shape <- ChatShape
    Author <- SeriesAuthor
    Private = {}
    AnyDrains = {d1, d2}
    CallbackDrains = {}
    SeriesMax = 2
    MaxRotations = 3
    MaxFaults = 0
    Faults = {"boundary_lost"}
SYMMETRY DrainSymmetry
INVARIANT TurnsKeepApart
