SPECIFICATION FairSpec
CONSTANTS
    t1 = t1
    t2 = t2
    Threads <- TwoThreads
    Root = t1
    Program <- BroadcastThenReduce
    MaxBarriers = 8
    MayFail = TRUE
    MaxRuns = 2
    Reuse = TRUE
INVARIANTS
    HandlesCollected
    BuffersHeld
PROPERTY
    ImplementsCollective
    RunsEnd
    AbortFrees
CHECK_DEADLOCK FALSE
