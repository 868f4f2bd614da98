SPECIFICATION Spec
CONSTANTS
  Freqs = 2
  Retries = 2
CHECK_DEADLOCK FALSE
INVARIANT FreedOnce
