-------------------------------- MODULE MCSdio --------------------------------
(***************************************************************************)
(* SDIO for TLC.  The interrupts of a card (SdioIrq) and its functions     *)
(* (SdioFunc) are modelled without shared state, so a behaviour of this    *)
(* module is one of the one or of the other.                               *)
(***************************************************************************)
EXTENDS SdioIrq, MCSdioFunc

VARIABLE part    \* which of the two runs

CONSTANTS f1, f2

sdioVars == <<part, irqVars, vars>>

SdioInit ==
  /\ IrqInit /\ Init /\ part \in {"irq", "func"}
  /\ part = "func" => mode = CHOOSE m \in Modes : TRUE

SdioNext ==
  \/ part = "irq" /\ IrqNext /\ UNCHANGED <<part, vars>>
  \/ part = "func" /\ Next /\ UNCHANGED <<part, irqVars>>

SdioSpec ==
  /\ SdioInit /\ [][SdioNext]_sdioVars
  /\ WF_irqVars(part = "irq" /\ Thread) /\ WF_irqVars(part = "irq" /\ Work)
  /\ WF_irqVars(part = "irq" /\ HostIrq)
  /\ \A f \in IrqFuncs : WF_irqVars(part = "irq" /\ Driver(f))
===============================================================================
