SPECIFICATION FairSpec
CONSTANTS
  Cont = {"a", "b"}
  IP <- MCIP
  Flows <- MCFlows
INVARIANTS
  RoundsApart
  ContainersApart
  HostRoundComplete
PROPERTY
  StopReturns
CHECK_DEADLOCK FALSE
