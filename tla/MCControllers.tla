---------------------------- MODULE MCControllers -----------------------------
(***************************************************************************)
(* The two controller libraries for TLC.  The command queue engine and the *)
(* clock of an SDHCI controller share no state, so a behaviour of this     *)
(* module is one of Cqhci or one of SdhciClock.                            *)
(*                                                                         *)
(* Two slots, each with a request that is queued in it again and again;    *)
(* and controllers of both versions, with and without programmable mode,   *)
(* whose product of clock and multiplier is on either side of Word.        *)
(***************************************************************************)
EXTENDS Cqhci, MCSdhciClock

VARIABLE part    \* which of the two runs

CONSTANTS a, b

MCMrqs == {a, b}
MCTags == {0, 1}
MCTagOf == [m \in MCMrqs |-> IF m = b THEN 1 ELSE 0]

controllerVars == <<part, vars, clockVars>>

ControllersInit ==
  /\ Init /\ ClockInit /\ part \in {"cqe", "clock"}
  /\ part = "cqe" => host = CHOOSE h \in Hosts : TRUE

ControllersNext ==
  \/ part = "cqe" /\ Next /\ UNCHANGED <<part, clockVars>>
  \/ part = "clock" /\ ClockNext /\ UNCHANGED <<part, vars>>

ControllersSpec ==
  /\ ControllersInit /\ [][ControllersNext]_controllerVars
  /\ WF_vars(part = "cqe" /\ Irq) /\ WF_vars(part = "cqe" /\ GoesOn)
  /\ SF_vars(part = "cqe" /\ Recovery)
===============================================================================
