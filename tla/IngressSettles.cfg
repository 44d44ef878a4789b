SPECIFICATION FairSpec
CONSTANTS
    d1 = d1
    d2 = d2
    b1 = b1
    q1 = q1
    q2 = q2
    a1 = a1
    a2 = a2
    Updates = {1, 2, 3}
    Queues = {q1, q2}
    Queue <- SharedQueue
    Shape <- SharedShape
    Author <- SharedAuthor
    Private = {}
    AnyDrains = {d1}
    CallbackDrains = {b1}
    SeriesMax = 1
    MaxRotations = 2
    MaxFaults = 1
    Faults = {"crash", "db_error", "boundary_lost", "late_arrival", "rotation_error"}
PROPERTY EveryUpdateSettles
PROPERTY PressNotStarved
