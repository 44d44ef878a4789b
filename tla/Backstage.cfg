SPECIFICATION BackstageSpec
CONSTANTS
    Checkers = {k1}
    Owners = {h1, h2}
    LastVersion = 2
    MaxOwnerChanges = 1
    MaxUpdateFaults = 2
    People = {p1, p2}
    NoPerson = NoPerson
    TaskCount = 2
    TaskWorkers = {t1, t2}
    MaxTaskCalls = 2
    MaxTaskFaults = 1
    Doers = {d1, d2}
    FirstYear = 2027
    Anchors = {15, 30, 31}
    RecurrenceDays = {14, 31, 58, 59, 60, 90, 425}
    Intervals = {1, 2}
    MaxDateMoves = 1
    SearchSteps = 3
    SandboxCalls = {1, 2}
    Sweeps = {s1}
    Policies = {y1, y2}
    Nil = Nil
    MaxSandboxCalls = 2
    MaxSandboxStops = 1
    MaxSandboxFaults = 1
INVARIANT BackstageTypesOK
INVARIANT SandboxKept
PROPERTY TasksChangeByConsent
PROPERTY NextDateIsNearest
PROPERTY InstalledByConsent
PROPERTY FailedIsRestored
PROPERTY NothingHangs
CHECK_DEADLOCK FALSE
