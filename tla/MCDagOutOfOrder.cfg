SPECIFICATION FusionSpecification
CONSTANTS
    Graphs <- AnyOrderGraphs
    Strategies = {"MINIMAL"}
    StreamConfigs = {0}
    SegmentSizes = {0, 17}
    MaxStageInputs = 2
    MaxStageOutputs = 8
    MaxBuffers = 32
    KernelLengths = {2, 3, 4}
    ColoringOptions = {TRUE}
INVARIANT LevelsTopological
CHECK_DEADLOCK FALSE
