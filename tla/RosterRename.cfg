CONSTANTS
    Dev = {m1}
    Addr = {a1}
    Typed = {den}
    Answer = {nas}
    Empty = Empty
    Port = {}
    Client = {c1}
    Resolution = {r1}
    MaxFaults = 0
SPECIFICATION Spec
PROPERTY
    ResolveKeepsManualName
CHECK_DEADLOCK FALSE
