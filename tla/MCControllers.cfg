CONSTANTS
  a = a
  b = b
  None = None
  Mrqs <- MCMrqs
  Tags <- MCTags
  TagOf <- MCTagOf
  PromptIrq = TRUE
  LowBits = 2
  HighBits = 1
  Word = 64
  Slow = 13
  Hosts <- MCHosts
  Clocks <- MCClocks
SPECIFICATION ControllersSpec
INVARIANTS
  QueueAccounting
  RecoveryMarksOne
  OffMeansIdle
  BestClock
  ActualIsDriven
PROPERTIES
  NoFalseCompletion
  RecoveryEnds
