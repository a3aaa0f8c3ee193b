SPECIFICATION FairSpec
CONSTANTS
    Layers = {1, 2, 3, 4, 5, 6}
    Networks <- AllNetworks
    Learnable = {2}
    BackwardForced = {}
    InPlaceLayers = {3, 4}
    FixedOutput = {2}
    BlobsForBackward <- BackwardBlobs
    BlobsForLearn <- LearnBlobs
    Sizes = {1, 2}
    BigSizes = {2}
    Uses = {"resize", "layerLearning", "netLearning", "cleanUp", "edit"}
    MayFail <- Failures
    Careful = TRUE
    MaxCalls = 2
    MaxUses = 2
INVARIANTS
    InputsCurrent
    NeededBlobsHeld
    GradientsComplete
    ResultsIntact
    ShapesCurrent
PROPERTIES
    ImplementsDataflow
    NetworkRunsEnd
CHECK_DEADLOCK FALSE
