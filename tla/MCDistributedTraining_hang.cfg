SPECIFICATION FairSpec
CONSTANTS
    t1 = t1
    t2 = t2
    t3 = t3
    Threads <- TwoThreads
    Root = t1
    LayerCount = 1
    Batches <- EmptyOrNot
    Careful = FALSE
    MayFail = FALSE
    MaxOps = 3
PROPERTY
    OperationsReturn
CHECK_DEADLOCK FALSE
