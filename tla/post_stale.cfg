SPECIFICATION Spec
CONSTANTS
    t1 = t1
    t2 = t2
    Task = {t1, t2}
    Callers <- MCCallers
    MaxCalls = 2
    MaxRev = 1
INVARIANTS
    CommitVerifiesTree
CHECK_DEADLOCK FALSE
