\* The doc of mmc_wait_for_req, on a transfer and a command.
SPECIFICATION CoreSpec
CONSTANTS
  t1 = t1  t2 = t2  t3 = t3  ctx = ctx
  Tasks = {t1, t2, t3}
  Ctxs = {ctx}
  DefaultCtx = DefaultCtx
  None = None
  CtxOf <- MixedCtx
  Abortable = {t2}
  MaxNest = 1
  CmdRetries = 0
  MaxPolls = 0
  MaxTuning = 1
  Ops = {"hs", "cmd3", "tfr"}
INVARIANT FurtherCommands
