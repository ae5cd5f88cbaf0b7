SPECIFICATION LifeSpec
CONSTANTS
    Configs <- PaddingPipeline
    Sizes = {2, 3, 4}
    MaxCalls = 3
    MaxFaults = 0
INVARIANTS
    DocumentedCapacitySuffices
CHECK_DEADLOCK FALSE
