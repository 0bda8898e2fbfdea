SPECIFICATION Spec
CONSTANTS
    Reports <- AnyReport
    RemoteRequired = TRUE
    MaxRepairs = 1
    MaxRevs = 1
    MaxWorks = 2
    MaxCalls = 2
INVARIANTS
    CompletionIsStated
    CompletionHasFacts
    AttemptsAreExplained
CHECK_DEADLOCK FALSE
