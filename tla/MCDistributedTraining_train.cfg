SPECIFICATION FairSpec
CONSTANTS
    t1 = t1
    t2 = t2
    t3 = t3
    Threads <- ThreeThreads
    Root = t1
    LayerCount = 2
    Batches <- EmptyOrNot
    Careful = TRUE
    MayFail = TRUE
    MaxOps = 4
INVARIANTS
    ParamsAgree
    WeightsSumToOne
    CollectiveCallsMatch
PROPERTY
    OperationsReturn
CHECK_DEADLOCK FALSE
