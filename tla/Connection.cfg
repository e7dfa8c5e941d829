SPECIFICATION MCSpec
CONSTANTS
    Configs <- MCConfigs
    SkipUnknown = FALSE
    MaxId = 2
    ResetMax = 1
    RatioWindow = 4
    RatioMin = 2
    None = None
    StreamIds = {1, 2, 3, 4}
    MaxResets = 2
    ResetDuration = 1
    MaxTime = 3
INVARIANTS
    ActiveMatches
    MapIsOpenStreams
    DrainedIsClosed
    FinalMessage
    WireOrder
    GracefulGoAway
    NotForgottenEarly
PROPERTIES
    ImplementsPendingSet
CHECK_DEADLOCK FALSE
