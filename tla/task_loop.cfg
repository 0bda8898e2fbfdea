SPECIFICATION FairSpec
CONSTANTS
    MaxRepair = 1
    NCmds = 2
    HasPreconditions = FALSE
    ProhibitMutation = TRUE
    RemoteRequired = TRUE
    MaxGen = 3
    MaxRev = 1
INVARIANTS
    CompletedWorkIsVerified
    AttemptsAccounted
    GateIsFresh
PROPERTIES
    NoRelaunch
    ImplementsProgress
    InvocationEnds
