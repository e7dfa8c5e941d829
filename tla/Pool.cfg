SPECIFICATION Spec
CONSTANTS
    Callers = {f1, f2}
    ReadyCallers = {r1}
    Conns = {c1, c2}
    MinConn = 1
    MaxConn = 2
    InitLimit = 1
    Limits = {0, 1}
    None = None
INVARIANTS
    PoolBound
    WakeUpAhead
PROPERTIES
    CallWoken
CHECK_DEADLOCK FALSE
