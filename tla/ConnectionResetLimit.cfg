SPECIFICATION MCSpec
CONSTANTS
    Configs <- ServerOnly
    SkipUnknown = FALSE
    MaxId = 2
    ResetMax = 1
    RatioWindow = 4
    RatioMin = 2
    None = None
    StreamIds = {1, 2, 3, 4}
    MaxResets = 2
    ResetDuration = 1
    MaxTime = 3
INVARIANTS
    FinalMessageAlways
CHECK_DEADLOCK FALSE
