SPECIFICATION Spec
CONSTANTS
    Graphs <- AliasGraph
    Strategies = {"PREALLOCATE"}
    StreamConfigs = {0}
    ColoringOptions = {TRUE}
    MaxRuns = 1
    MaxFailures = 0
    Callers <- CompressDefault
INVARIANTS
    InputsIntact
CHECK_DEADLOCK FALSE
