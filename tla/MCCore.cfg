\* t1 and t2 claim for themselves, t3 in the name of a context; t2 can be
\* aborted.  Each may hold two nested claims.  One retry, one poll and one
\* tuning block.
SPECIFICATION CoreSpec
CONSTANTS
  t1 = t1  t2 = t2  t3 = t3  ctx = ctx
  Tasks = {t1, t2, t3}
  Ctxs = {ctx}
  DefaultCtx = DefaultCtx
  None = None
  CtxOf <- MixedCtx
  Abortable = {t2}
  MaxNest = 2
  CmdRetries = 1
  MaxPolls = 1
  MaxTuning = 1
  Ops <- AllOps
INVARIANTS
  HolderPowered PmBalanced NoStrandedWaiter
  HoldBalanced HeldNotTuned CommandLineExclusive
PROPERTIES
  AbortReturns LockSpec
  TimingRestored RequestReturns
