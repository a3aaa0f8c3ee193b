SPECIFICATION FairSpec
CONSTANTS
    c1 = c1
    c2 = c2
    NoTask = NoTask
    NumThreads = 2
    Clients <- OneClient
    Owner = c1
    MaxCalls = 3
    Uses <- QueueUses
PROPERTY
    WaitAllTaskReturns
CHECK_DEADLOCK FALSE
