SPECIFICATION FairSpec
CONSTANTS
    Paths <- MCPaths
    InScope <- MCInScope
    Unsafe <- MCUnsafe
    Base <- MCBase
    Folder <- MCFolder
    Depth <- MCDepth
    StagedSets <- MCStaged
    MaxLaunches = 2
    MaxUserEdits = 1
INVARIANTS
    SettledEditsSurvive
    WindowIsAllOrNothing
    AttributionIsExact
    StaysInBounds
    NothingLeftInDocker
PROPERTY WindowEnds
CHECK_DEADLOCK FALSE
