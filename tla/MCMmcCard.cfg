SPECIFICATION FairSpec
CONSTANTS
  q = q  w = w
  Queue = {q}
  Watchers = {w}
  Nobody = Nobody
  Setups <- FourSetups
CHECK_DEADLOCK FALSE
INVARIANTS
  ServedAwake
  BusAgrees
  FieldsTrue
  
  ToldAtShutdown
PROPERTIES
  GetReturns
