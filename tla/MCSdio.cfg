\* Two functions on each kind of host; four driver calls, two failures.
\* The system may come to rest: no call under way and nobody's interrupt on.
SPECIFICATION SdioSpec
CONSTANTS
  N = 2
  ByteLimit = 3
  BlockLimit = 2
  Word = 4
  Geometry <- OneGeometry
  FuncBlk = 2
  Radix = 4
  Chains <- SomeChains
  BlockSizes = {4}
  Sizes = {7, 8}
  RuntimePm = {2}
  PowerOff = TRUE
  f1 = f1  f2 = f2
  IrqFuncs = {f1, f2}
  Modes = {"thread", "poll", "work"}
  MaxOps = 4
  MaxFaults = 2
  None = None
CHECK_DEADLOCK FALSE
INVARIANTS
  FastPathSafe QuietWhenUnused MaskedWhileDispatched
  CardOutlives Reclaimed PmBalanced QuietAfterRemove TransferExact
PROPERTIES InterruptServed StopReturns
