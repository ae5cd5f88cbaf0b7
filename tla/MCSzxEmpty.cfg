SPECIFICATION CodecSpec
CONSTANTS
    StageConfigs <- MCSzxEmptied
    StageInputs <- MCInputs
    StageCalls = 2
    FuseByte = 2
    FuseThreads = 16
    FuseLanes = 8
    FuseParts = 4
    Kinds = {}
INVARIANTS
    StageFits
CHECK_DEADLOCK FALSE
