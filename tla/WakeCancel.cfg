CONSTANTS
    Mac = {m1}
    MaxTasks = 2
    Timeout = 3
    ResendEvery = 2
SPECIFICATION Spec
INVARIANT
    CancelReachesEveryWake
