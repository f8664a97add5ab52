SPECIFICATION FairSpec
CONSTANTS
  Handler = {h1, h2}
  Msg = {1, 2}
  Key = {"id", "name"}
  Names <- MCNames
  AppNames <- MCAppNames
  CacheSize = 1
  Route <- MCRoute
  Buffer = {1, 2, 3, 4, 5}
INVARIANTS DataOfItsKey BuffersHold
PROPERTY HandleReturns
