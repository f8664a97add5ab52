SPECIFICATION FileSpec
CONSTANTS
  MaxLines = 1
  MaxTime = 1
  MaxRuns = 3
  Faults = FALSE
PROPERTY RestartDoesNotRepeat
CHECK_DEADLOCK FALSE
