SPECIFICATION Spec
CONSTANTS
    Clients = {c1, c2}
    RunIds = {1}
    Names = {n1, l1}
    Logs = {l1}
    Keys = {k1}
    OpIds = {o1}
    Inherited <- Documents
    ReadPolicies = {"ignore", "preserve"}
    StatusCalls <- Calls
    SingleActive = FALSE
    MaxRevision <- Revisions
    None = None
INVARIANTS
    EvidencePublished
CHECK_DEADLOCK FALSE
