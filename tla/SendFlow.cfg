SPECIFICATION Spec
CONSTANTS
    Streams = {s1, s2}
    MaxWindow = 1
    MaxLen = 2
    InitWindow = 1
    InitCon = 1
INVARIANTS
    NoLostWake
PROPERTIES
    WithinWindows
    WaitEnds
CHECK_DEADLOCK FALSE
