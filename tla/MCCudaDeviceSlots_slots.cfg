SPECIFICATION Spec
CONSTANTS
    a = a
    b = b
    None = None
    Pids = {1, 2}
    Threads = {a, b}
    Callers <- ThreeCallers
    NumSlots = 2
    Unreadable = {2}
    MaxStarts = 3
    MaxCalls = 2
INVARIANTS
    SlotsExclusive
    CaptureComplete
    NoSlotLost
    LocksHeldInCalls
CHECK_DEADLOCK FALSE
