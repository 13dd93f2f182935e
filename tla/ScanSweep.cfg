CONSTANTS
    Width = 4
    MaxHosts = 8
    Local <- LastHalf
    Workers = {w1, w2}
    MaxScans = 2
SPECIFICATION FairSpec
INVARIANTS
    TypeOK
    OneSweepHoldsFlag
    FinalEventIsLast
    ResultCoversTarget
PROPERTY
    EveryScanEnds
CHECK_DEADLOCK FALSE
