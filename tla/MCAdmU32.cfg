SPECIFICATION StagesSpec
CONSTANTS
    Parts = {"adm"}
    NumBlocks = 5
    BlocksPerWarp = 2
    WindowLanes = 2
    Residency = 2
    LbLaunches = 2
    BlockCost <- MCBlockCost
    NumAdmBlocks = 4
    WarpsPerBlock = 2
    AdmResidency = 3
    AdmLaunches = 2
    SignalLength <- MCLength
    Before <- MCBefore
    Elements = {1, 2, 3}
    WarpOf <- MCWarpOf
    Eb = 2
    Radius = 4
    CodeBits = 3
    Threshold = 100
    Dither <- MCDither
    RawBase = 60
    QConfigs <- MCQConfigs
    QInputs <- MCQInputs
    QSecondInputs <- MCQSecond
    DiffStep = 3
    AdmChunk = 4
    AdmLanes = 2
    ByteBits = 2
    CounterRange = 16
    SumRange = 100
    Paths = {"decoupled", "thrust"}
    AdmInputs <- MCAdmInputs
    AdmTails <- MCAdmTails
    LcCoders = {"RRE", "RZE", "RARE", "RAZE"}
    SubChunks = 2
    Fan = 2
    TPB = 8
    WS = 4
    Garbage = {0, 3}
    LcGeometries <- MCGeometries
    LcInputs <- MCLcInputs
    LcCalls = 1
    Widths = {32}
    StageConfigs <- MCConfigs
    StageInputs <- MCInputs
    StageCalls = 2
    FuseByte = 2
    FuseThreads = 16
    FuseLanes = 8
    FuseParts = 4
    Kinds = {"golomb"}
INVARIANT
    AdmLossless
CHECK_DEADLOCK FALSE
