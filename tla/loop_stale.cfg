SPECIFICATION Spec
CONSTANTS
    MaxRepair = 1
    NCmds = 2
    HasPreconditions = FALSE
    ProhibitMutation = FALSE
    RemoteRequired = TRUE
    MaxGen = 2
    MaxRev = 0
INVARIANT
    RepairRerunsCommands
