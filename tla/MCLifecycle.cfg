SPECIFICATION ProgramFairSpec
CONSTANT Configs <- MCConfigs
 
PROPERTIES
  SignalExits
  StartErrorReturns
CHECK_DEADLOCK FALSE
