CONSTANTS
    Procs = {p1, p2, p3}
    Sessions = {s1, s2}
    None = None
    Empty = Empty
    Torn = Torn
    Unknown = Unknown
    MaxOps = 5
SYMMETRY Symmetry
SPECIFICATION Spec
CHECK_DEADLOCK FALSE
INVARIANTS
    TypeOK
    LastWordHolds
    SessionNotLost
