SPECIFICATION FileFairSpec
CONSTANTS
  MaxLines = 3
  MaxTime = 2
  MaxRuns = 3
  Faults = TRUE
INVARIANTS CoveredLinesWereSeen
PROPERTY EventuallyHandled
CHECK_DEADLOCK FALSE
