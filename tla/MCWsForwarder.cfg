SPECIFICATION FairSpec
CONSTANTS
  MaxConns = 2
  MaxAge = TRUE
INVARIANTS
  FramesExclusive
PROPERTIES
  Drains
  ReplacedEnd
  DeadReplaced
CHECK_DEADLOCK FALSE
