SPECIFICATION Spec
CONSTANTS
    Layers = {1, 2, 3, 4, 5, 6}
    Networks <- OneProduct
    Learnable = {2}
    BackwardForced = {}
    InPlaceLayers = {3, 4}
    FixedOutput = {2}
    BlobsForBackward <- ProductBlobs
    BlobsForLearn <- LearnBlobs
    Sizes = {1, 2}
    BigSizes = {2}
    Uses = {}
    MayFail <- NoFailures
    Careful = TRUE
    MaxCalls = 2
    MaxUses = 2
INVARIANT
    NeededBlobsHeld
CHECK_DEADLOCK FALSE
