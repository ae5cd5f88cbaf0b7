SPECIFICATION PipelineSpec
CONSTANTS
    Components = {"pool", "plan", "exec", "lifecycle"}
    p1 = p1
    p2 = p2
    p3 = p3
    Never = Never
    Ptrs <- MCPtrs
    Thresholds <- MCThresholds
    DefaultSize = 3
    MaxSize = 2
    Modulus = 16
    MaxAllocs = 4
    Graphs <- PipelineGraphs
    Strategies = {"MINIMAL", "PREALLOCATE"}
    StreamConfigs = {0, 2}
    ColoringOptions = {TRUE, FALSE}
    SegmentSizes = {0, 17}
    MaxStageInputs = 2
    MaxStageOutputs = 8
    MaxBuffers = 32
    KernelLengths = {2, 3, 4}
    MaxRuns = 2
    MaxFailures = 1
    Callers <- ExecCallers
    Configs <- AllPipelines
    Sizes = {2, 3, 4}
    MaxCalls = 4
    MaxFaults = 1
INVARIANTS
    TrackedExactly
    PersistentBytesExact
    UsageExact
    CycleCheckExact
    LevelsTopologicalInOrder
    SameLevelDistinctStreams
    ColoringSound
    ColoringTotal
    InverseRestores
    DecodableWhenItFits
    FusionSound
    DependenciesComplete
    InputsIntact
    MemoryMapped
    OutputsDelivered
    IntermediatesReleased
    RefCountExact
    MetadataDescribesLive
    EagerRoundTripSize
    RoundTripRight
    ArchiveConsistent
PROPERTY FinalizeEnds
CHECK_DEADLOCK FALSE
