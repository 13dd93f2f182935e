CONSTANTS
    Host = {a}
    Loop = Loop
    Viewer = {v1}
    Client = {c1}
    Debounce = 2
    TTL = 3
    Start = 3
    MaxTime = 6
    MaxFaults = 1
SPECIFICATION Spec
INVARIANTS
    TypeOK
    RestartForgetsLittle
PROPERTY
    StoredSightingOnlyGains
CHECK_DEADLOCK FALSE
