CONSTANTS
    Mac = {m1}
    Addr = {}
    NoIP = NoIP
    Handler = {h1, h2}
    Requests = {"track", "untrack"}
    Boot = Boot
    Stored <- MCStored
    MaxTime = 1
    MaxEvents = 0
    MaxFaults = 0
SPECIFICATION Spec
SYMMETRY Symmetry
INVARIANT
    TrackedConverged
CHECK_DEADLOCK FALSE
