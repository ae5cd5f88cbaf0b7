SPECIFICATION Spec
CONSTANTS
    Graphs <- SharedBufferGraph
    Strategies = {"MINIMAL"}
    StreamConfigs = {0}
    ColoringOptions = {TRUE}
    MaxRuns = 1
    MaxFailures = 0
    Callers <- CompressDefault
INVARIANTS
    MemoryMapped
CHECK_DEADLOCK FALSE
