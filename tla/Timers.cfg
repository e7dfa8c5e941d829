SPECIFICATION Spec
CONSTANTS
    Streams = {s1, s2}
    Configs <- MCConfigs
    Second = 2
    Extra = 1
    Delay = 2
    Slack = 1
    MaxTime = 11
    None = None
INVARIANTS
    TimerInStep
    LivePeerKept
    SilentPeerClosed
PROPERTIES
    CapacityTimeoutOnTime
CHECK_DEADLOCK FALSE
