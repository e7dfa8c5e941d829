SPECIFICATION Spec
CONSTANTS
    DEFAULT_MAX_FRAME_SIZE = 13
    MAX_MAX_FRAME_SIZE = 16777215
    Header <- MCHeader
    RepLen = 5
    TableCap = 1
    Configs <- MCConfigs
    Messages <- MCMessages
    Samples <- MCSamples
    HeaderLists <- MCHeaderLists
    Layouts <- MCLayouts
    Broken <- MCBroken
    Chunks = {7, 60}
    MaxNet = 39
    PoolSize = 1
    None = None
INVARIANTS
    FramesAsSent
    PartialBound
    NothingStuck
    LoadedBySpec
CHECK_DEADLOCK FALSE
