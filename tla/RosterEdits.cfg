CONSTANTS
    Dev = {m1}
    Addr = {a1}
    Typed = {den}
    Answer = {nas}
    Empty = Empty
    Port = {p1, p2}
    Client = {c1, c2}
    Resolution = {r1, r2}
    MaxFaults = 2
SPECIFICATION Spec
SYMMETRY Symmetry
INVARIANTS
    TypeOK
    ResolvedMarkIsEarned
    OrphansWereAskedFor
PROPERTY
    ManualNameStands
CHECK_DEADLOCK FALSE
