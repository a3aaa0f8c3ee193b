SPECIFICATION Spec
CONSTANTS
    Layers = {1, 2, 3, 4, 5, 6, 7, 8, 9, 10, 11, 12}
    Nets <- AllNets
    Order <- RunOrders
    Sources = {1, 2}
    OneItem = {2}
    BackLinks = {3, 4}
    CaptureOf <- CaptureSinks
    Learnable = {5, 7}
    InPlaceLayers = {6, 8}
    BlobsForBackward <- BackwardBlobs
    BlobsForLearn <- LearnBlobs
    InputsNeedBackward = TRUE
    Lengths = {1, 3}
    Repeats = {1, 2}
    MaxRuns = 2
    MaxUses = 1
INVARIANTS
    StepsReadTheirInputs
    OutputsComplete
    BackwardHasItsBlobs
    DiffsThroughTime
    TrainingComplete
CHECK_DEADLOCK FALSE
