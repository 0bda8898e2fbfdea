SPECIFICATION Spec
CONSTANTS
    t1 = t1
    t2 = t2
    Task = {t1, t2}
    Callers <- MCCallers
    MaxCalls = 3
    MaxRev = 2
INVARIANTS
    TailIsSound
    ApprovalNotInherited
PROPERTIES
    PassedStagesStay
CHECK_DEADLOCK FALSE
