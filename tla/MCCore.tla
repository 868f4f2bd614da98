-------------------------------- MODULE MCCore --------------------------------
(***************************************************************************)
(* Claims and requests for TLC.  The claim of the host and the request     *)
(* engine share no state (the engine runs in whichever task has the host), *)
(* so a behaviour of this module is one of HostClaim or one of MmcRequest: *)
(* the union of the two state spaces, not their product.                   *)
(***************************************************************************)
EXTENDS HostClaim, MmcRequest, TLC

VARIABLE part    \* which of the two runs

CONSTANTS t1, t2, t3, ctx

MixedCtx == [t \in {t1, t2, t3} |-> IF t = t3 THEN ctx ELSE None]

AllOps == {"cmd3", "sdio", "data", "tfr", "switch", "switchSanitize", "sleep",
           "detect", "hs", "hs200", "start_bkops", "stop_bkops", "cqe"}

coreVars == <<part, claimVars, vars>>

CoreInit ==
  /\ ClaimInit /\ Init /\ part \in {"claim", "request"}
  /\ part = "claim" => ~cardBusy

CoreNext ==
  \/ part = "claim" /\ ClaimNext /\ UNCHANGED <<part, vars>>
  \/ part = "request" /\ Next /\ UNCHANGED <<part, claimVars>>

CoreSpec ==
  /\ CoreInit /\ [][CoreNext]_coreVars
  /\ \A t \in Tasks : /\ WF_claimVars(part = "claim" /\ GoesOn(t))
                      /\ WF_claimVars(part = "claim" /\ KthreadStopWakes(t))
  /\ WF_vars(part = "request" /\ Run)
===============================================================================
