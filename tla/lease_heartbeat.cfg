SPECIFICATION Spec
CONSTANTS
    Proc = {p1, p2, p3}
    RequireHeartbeat = TRUE
    MaxSpins = 1
    MaxLife = 1
    NoFile = NoFile
    Garbage = Garbage
    Nobody = Nobody
INVARIANTS
    HolderOwnsFile
CHECK_DEADLOCK FALSE
SYMMETRY AnyPid
