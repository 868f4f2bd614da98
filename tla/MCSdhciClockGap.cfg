CONSTANTS
  LowBits = 2
  HighBits = 1
  Word = 64
  Slow = 13
  Hosts <- MCHosts
  Clocks <- MCClocks
SPECIFICATION ClockSpec
INVARIANT ProgOnlyIfReached
