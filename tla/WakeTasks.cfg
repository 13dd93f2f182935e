CONSTANTS
    Mac = {m1}
    MaxTasks = 2
    Timeout = 3
    ResendEvery = 2
SPECIFICATION FairSpec
INVARIANTS
    TypeOK
    RegistryIsNewest
    AtMostOneBlindBarrage
    BarrageCadence
PROPERTY
    EveryWakeEnds
