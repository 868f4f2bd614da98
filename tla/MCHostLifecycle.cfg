CONSTANTS
  Kinds <- MmcOnly
  None = None
  Freqs = 2
  MaxMoves = 3
  MaxSleeps = 2
SPECIFICATION FairSpec
INVARIANTS
  CallbackSafe
  StopFinal
PROPERTIES
  StopReturns
  RemovalNoticed
CHECK_DEADLOCK FALSE
