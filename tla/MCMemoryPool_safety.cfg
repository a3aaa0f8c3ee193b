SPECIFICATION Spec
CONSTANTS
    t1 = t1
    t2 = t2
    a1 = a1
    a2 = a2
    a3 = a3
    Threads <- TwoThreads
    Addresses <- ThreeAddresses
    BufferSizes <- TwoSizes
    Requests <- ThreeRequests
    memoryLimit = 9
    defaultReuseMemoryMode = FALSE
    RawMayFail = TRUE
SYMMETRY Symmetry
INVARIANTS
    BlocksOwned
    RequestsHonoured
    Accounting
    NoLeak
CHECK_DEADLOCK FALSE
