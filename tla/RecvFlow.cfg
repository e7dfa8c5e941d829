SPECIFICATION Spec
CONSTANTS
    Streams = {s1, s2}
    Configs <- MCConfigs
    MaxFlight = 2
SYMMETRY Symmetry
INVARIANTS
    PeerNotFailed
    ConWindowMatches
    BufferBound
    PeerMaySend
CHECK_DEADLOCK FALSE
