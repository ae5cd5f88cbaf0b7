SPECIFICATION LifeSpec
CONSTANTS
    Configs <- GraphPipeline
    Sizes = {2, 3, 4}
    MaxCalls = 4
    MaxFaults = 0
INVARIANTS
    RoundTripSize
CHECK_DEADLOCK FALSE
