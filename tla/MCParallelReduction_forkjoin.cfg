SPECIFICATION RFairSpec
CONSTANTS
    c1 = c1
    NoTask = NoTask
    NumThreads = 4
    Clients <- OneClient
    Owner = c1
    MaxCalls = 2
    Uses <- LibraryUses
    Tasks <- IntervalsAndBoxes
    MinTasks = 2
INVARIANTS
    NoWorkerSleepsOnWork
    ElementsReducedOnce
PROPERTIES
    ParallelRunReturns
    DeleteCompletes
CHECK_DEADLOCK FALSE
