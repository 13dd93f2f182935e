CONSTANTS
    Mac = {m1}
    Addr = {a1}
    NoIP = NoIP
    Handler = {h1}
    Requests = {"track", "patch", "untrack", "edit"}
    Boot = Boot
    Stored <- MCStored
    MaxTime = 1
    MaxEvents = 1
    MaxFaults = 1
SPECIFICATION Spec
INVARIANTS
    TypeOK
    UnsavedIsQueued
    CleanShutdownPersists
    NoStaleLiveness
PROPERTIES
    CoherenceIsKept
    DurablePresence
    LastSeenUpMovesForward
CHECK_DEADLOCK FALSE
