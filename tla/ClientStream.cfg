SPECIFICATION Spec
CONSTANTS
    MaxLen = 2
    MaxBody = 3
    MaxQueue = 3
    None = None
    NoContent = NoContent
    Unparsed = Unparsed
INVARIANTS
    ResponseWellFormed
    HandlesRelease
PROPERTIES
    RecvEnds
CHECK_DEADLOCK FALSE
