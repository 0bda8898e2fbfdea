SPECIFICATION FairSpec
CONSTANTS
    Proc = {p1, p2}
    RequireHeartbeat = FALSE
    MaxSpins = 2
    MaxLife = 1
    NoFile = NoFile
    Garbage = Garbage
    Nobody = Nobody
PROPERTIES
    ImplementsMutex
    ZeroTimeoutAnswers
    BoundedWaitAnswers
    DeadOwnerReclaimed
CHECK_DEADLOCK FALSE
