SPECIFICATION BoardSpec
CONSTANTS
  Runs = {"old", "new"}
  ScopeOf <- MCScopeOf
  Retired = {"g"}
  Declared <- MCDeclared
  Registry <- MCRegistry
  Listing <- MCListing
  MaxEdits = 1
  MaxCalls = 3
INVARIANT ResumeRepairs ResultsAreBacked
PROPERTY ProjectionIsExact CardsLeaveOnEvidence
CHECK_DEADLOCK FALSE
