SPECIFICATION Spec
CONSTANTS
  NoBound = NoBound
  Order <- MCOrder
  Drafts <- MCDrafts
  Requests <- MCRequests
  Amendments <- MCAmendments
  Heads = {h1, h2}
  Source = "f"
  Replacement = "f-recovery-codex"
  MaxCalls = 3
  MaxChanges = 1
  MaxAmends = 1
INVARIANT RunsStayAdmissible
PROPERTY GovernedByRecord ControlsImmutable NeverReplacesWork
CHECK_DEADLOCK FALSE
SYMMETRY HeadSymmetry
