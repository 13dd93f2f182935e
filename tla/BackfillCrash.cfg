CONSTANTS
    Dev = {m1}
    Logs <- MCLogs
    Start = 3
    MaxTime = 4
    MaxFaults = 1
SPECIFICATION FairSpec
INVARIANTS
    TypeOK
    NothingIsLost
    MigrationRepeats
PROPERTIES
    RecordedNeverRecedes
    LogIsCollapsed
CHECK_DEADLOCK FALSE
