SPECIFICATION Spec
CONSTANTS
    Paths <- MCPaths
    InScope <- MCInScope
    Unsafe <- MCUnsafe
    Base <- MCBase
    Folder <- MCFolder
    Depth <- MCDepth
    StagedSets <- MCStaged
    MaxLaunches = 1
    MaxUserEdits = 0
INVARIANTS
    EveryChangeAttributed
    OnlyExecutorWork
    InputsKeepAdmission
CHECK_DEADLOCK FALSE
