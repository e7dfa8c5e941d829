SPECIFICATION Spec
CONSTANTS
    Senders = {s1, s2}
    ReadyCallers = {w1}
    Reservers = {r1}
    MaxStreamId = 3
    NoLimit = NoLimit
    InitLimit = 1
    Limits = {0, 1}
PROPERTIES
    SendNotStranded
CHECK_DEADLOCK FALSE
