SPECIFICATION Spec
CONSTANTS
    Executors = {e1, e2, e3}
    None = none
    Chunks <- SmallChunks
    FailedTurns = {f1}
SYMMETRY ExecutorSymmetry
INVARIANT TypeOK
INVARIANT SentOnce
INVARIANT ReceiptsAreTrue
INVARIANT SentAsIntended
 
CHECK_DEADLOCK FALSE
