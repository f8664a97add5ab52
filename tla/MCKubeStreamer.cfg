SPECIFICATION FairSpec
CONSTANTS
  File = {f1, f2}
  MaxEvents = 1
  BadLines = TRUE
  LookupErrors = TRUE
INVARIANTS OneTailPerFile NoOrphanTail
PROPERTIES StopReturns DeadMonitorReplaced
CHECK_DEADLOCK FALSE
