CONSTANTS
  Kinds <- AllKinds
  None = None
  Freqs = 2
  MaxMoves = 3
  MaxSleeps = 2
SPECIFICATION Spec
INVARIANT CardsCanBeRemoved
CHECK_DEADLOCK FALSE
