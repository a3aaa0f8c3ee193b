SPECIFICATION Spec
CONSTANTS
    a1 = a1
    a2 = a2
    a3 = a3
    a4 = a4
    NoBuffer = NoBuffer
    Addresses <- FourAddresses
    Requests <- Sizes
    memoryAlignment = 2
    StackBlockQuantum = 4
    MaxAlloc = 26
    MaxHandles = 4
    IntHalf = 32
    SizeModulus = 1000
    HeapMayFail = FALSE
SYMMETRY Symmetry
INVARIANTS
    PointerBelongsToHead
    HandlesDisjoint
    SizesAgree
    OneBlockForSettledUse
CHECK_DEADLOCK FALSE
