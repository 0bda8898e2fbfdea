SPECIFICATION Spec
CONSTANTS
    Proc = {p1, p2, p3}
    RequireHeartbeat = FALSE
    MaxSpins = 2
    MaxLife = 1
    NoFile = NoFile
    Garbage = Garbage
    Nobody = Nobody
INVARIANTS
    MutualExclusion
CHECK_DEADLOCK FALSE
