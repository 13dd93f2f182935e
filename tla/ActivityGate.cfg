CONSTANTS
    Page = {p1}
    Interval = 2
    Grace = 6
    Latency = 1
    MaxIdle = 8
    Host = {h1}
    NoHost = NoHost
    Cap = 1
    LookupTime = 1
    TTL = 2
    ProbeEvery = 1
    NamesEvery = 2
    ProbeTime = 1
SPECIFICATION FairSpec
INVARIANTS
    TypeOK
    OneLostPulseIsHarmless
    VerdictsExpire
    LookupsGoQuiet
PROPERTIES
    NoHammering
    WatchedDashboardIsProbed
