SPECIFICATION Spec
CONSTANTS
    c1 = c1
    c2 = c2
    NoTask = NoTask
    NumThreads = 2
    Clients <- TwoClients
    Owner = c1
    MaxCalls = 2
    Uses <- AllUses
INVARIANTS
    ExecutedInOrder
    NoTaskOutlivesItsWait
PROPERTY
    ImplementsService
CHECK_DEADLOCK FALSE
