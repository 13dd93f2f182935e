CONSTANTS
    Mac = {m1}
    Addr = {a1}
    NoIP = NoIP
    Handler = {}
    Requests = {}
    Boot = Boot
    Stored <- MCStored
    MaxTime = 3
    MaxEvents = 2
    MaxFaults = 1
SPECIFICATION Spec
INVARIANT
    HistoryInTimeOrder
CHECK_DEADLOCK FALSE
