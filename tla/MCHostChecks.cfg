SPECIFICATION FairSpec
CONSTANTS
  Checks <- MCChecks
  Filter <- MCFilter
  Timeout = TRUE
  MaxGor = 3
INVARIANTS
  LateRunsAccounted
  ContainerUndisturbed
PROPERTIES
  RunReturns
  Recovers
