------------------------------ MODULE SdioIrqProofs ------------------------------
(***************************************************************************)
(* The safety properties of SdioIrq, for any number of functions, of calls *)
(* and of failures.                                                        *)
(***************************************************************************)
EXTENDS SdioIrq, Integers, FiniteSetTheorems, TLAPS

HostTypes ==
  /\ mode \in Modes
  /\ claimer \in IrqFuncs \cup {"irqd", "work", None}
  /\ sdioIrqs \in Int
  /\ single \in IrqFuncs \cup {None}
  /\ ops \in 0 .. MaxOps /\ faults \in 0 .. MaxFaults

FlagTypes ==
  /\ pending \in BOOLEAN /\ enabled \in BOOLEAN
  /\ abort \in BOOLEAN /\ stop \in BOOLEAN /\ woken \in BOOLEAN

SetTypes == asserted \subseteq IrqFuncs /\ ien \subseteq IrqFuncs /\ handler \subseteq IrqFuncs

PlaceTypes ==
  /\ tpc \in {"none", "start", "claim", "process", "clear", "clear backoff",
               "backoff", "arm", "enable", "nap", "exit"}
  /\ work \in {"idle", "queued", "claim", "claim queued", "run", "run queued"}

Stages == {"idle", "claim", "get", "release", "stop", "join", "sync", "unmask", "leave"}

Types == /\ HostTypes /\ FlagTypes /\ SetTypes /\ PlaceTypes
         /\ dpc \in [IrqFuncs -> Stages]

CountInv == sdioIrqs = Cardinality(handler)

(* Who works with the host claimed is where it works.                      *)
HolderInv ==
  /\ \A f \in IrqFuncs : dpc[f] # "idle" <=> claimer = f
  /\ \A f \in IrqFuncs : dpc[f] = "get" => f \notin handler
  /\ claimer = "irqd" <=> tpc \in {"process", "clear", "clear backoff"}
  /\ claimer = "work" <=> work \in {"run", "run queued"}

(* The short cut is wrong only while a driver releases its interrupt.      *)
SingleInv ==
  single # None /\ (\A f \in IrqFuncs : dpc[f] \notin {"stop", "join", "sync"})
    => handler = {single}

(* A thread without interrupts to serve is being stopped; a host has a     *)
(* thread or a work item.                                                  *)
ThreadInv ==
  /\ tpc # "none" =>
       mode # "work" /\ (sdioIrqs > 0 \/ \E f \in IrqFuncs : dpc[f] \in {"stop", "join"})
  /\ work # "idle" => mode = "work"

(* The thread unmasks the interrupt only when it is about to sleep, and    *)
(* nothing then wakes it, up to the next interrupt, but who stops it.      *)
MaskInv ==
  /\ mode = "poll" => ~enabled
  /\ mode = "work" /\ enabled => sdioIrqs > 0
  /\ mode = "thread" /\ enabled => tpc \in {"nap", "exit"}
  /\ mode = "thread" /\ woken /\ (tpc = "enable" \/ (tpc = "nap" /\ enabled)) => stop

IInv == Types /\ CountInv /\ HolderInv /\ SingleInv /\ ThreadInv /\ MaskInv

-----------------------------------------------------------------------------
LEMMA HandlerFinite ==
  ASSUME IInv
  PROVE  IsFiniteSet(handler) /\ handler \subseteq IrqFuncs /\ Cardinality(handler) \in Nat
<1>1. handler \in SUBSET IrqFuncs
  BY DEF IInv, Types, SetTypes
<1> QED
  BY <1>1, FS_Subset, FS_CardinalityType, SdioIrqAssumption

LEMMA FaultsType ==
  ASSUME IInv, faults' = faults \/ (faults < MaxFaults /\ faults' = faults + 1)
  PROVE  faults' \in 0 .. MaxFaults
BY SdioIrqAssumption DEF IInv, Types, HostTypes

(* The call of one function's driver, the others being idle.               *)
LEMMA CallInv ==
  ASSUME IInv, NEW f \in IrqFuncs, claimer = f, claimer' = f, work' = work,
         NEW stage \in Stages \ {"idle", "get"},
         \A g \in IrqFuncs : dpc'[g] = IF g = f THEN stage ELSE "idle",
         tpc' = tpc \/ tpc' = "start"
  PROVE  HolderInv'
<1>1. f \notin {"irqd", "work"}
  BY SdioIrqAssumption
<1>2. \A g \in IrqFuncs : (dpc'[g] # "idle" <=> claimer' = g) /\ dpc'[g] # "get"
  OBVIOUS
<1>3. /\ tpc' \notin {"process", "clear", "clear backoff"}
      /\ work' \notin {"run", "run queued"}
  BY <1>1 DEF IInv, HolderInv
<1> QED
  BY <1>1, <1>2, <1>3 DEF HolderInv

LEMMA ThreadStartKeeps ==
  ASSUME IInv, ThreadStart
  PROVE  IInv'
<1> USE DEF IInv, ThreadStart, hostVars, cardVars, threadAux, threadVars
<1>1. Types'
  <2>1. HostTypes'
    BY SdioIrqAssumption DEF Types, HostTypes
  <2>2. FlagTypes'
    BY DEF Types, FlagTypes
  <2>3. SetTypes'
    BY DEF Types, SetTypes
  <2>4. PlaceTypes'
    BY DEF Types, PlaceTypes
  <2>5. dpc' \in [IrqFuncs -> Stages]
    BY DEF Types, Stages
  <2> QED
    BY <2>1, <2>2, <2>3, <2>4, <2>5 DEF Types
<1>2. CountInv'
  BY DEF CountInv
<1>3. HolderInv'
  BY DEF HolderInv
<1>4. SingleInv'
  BY DEF SingleInv
<1>5. ThreadInv'
  BY DEF ThreadInv
<1>6. MaskInv'
  BY DEF MaskInv
<1> QED
  BY <1>1, <1>2, <1>3, <1>4, <1>5, <1>6

LEMMA ThreadClaimKeeps ==
  ASSUME IInv, ThreadClaim
  PROVE  IInv'
<1> USE DEF IInv, ThreadClaim, hostVars, cardVars, threadAux, threadVars
<1>1. Types'
  <2>1. HostTypes'
    BY SdioIrqAssumption DEF Types, HostTypes
  <2>2. FlagTypes'
    BY DEF Types, FlagTypes
  <2>3. SetTypes'
    BY DEF Types, SetTypes
  <2>4. PlaceTypes'
    BY DEF Types, PlaceTypes
  <2>5. dpc' \in [IrqFuncs -> Stages]
    BY DEF Types, Stages
  <2> QED
    BY <2>1, <2>2, <2>3, <2>4, <2>5 DEF Types
<1>2. CountInv'
  BY DEF CountInv
<1>3. HolderInv'
  BY SdioIrqAssumption DEF HolderInv
<1>4. SingleInv'
  BY DEF SingleInv
<1>5. ThreadInv'
  BY DEF ThreadInv
<1>6. MaskInv'
  BY DEF MaskInv
<1> QED
  BY <1>1, <1>2, <1>3, <1>4, <1>5, <1>6

LEMMA ThreadAbortClaimKeeps ==
  ASSUME IInv, ThreadAbortClaim
  PROVE  IInv'
<1> USE DEF IInv, ThreadAbortClaim, hostVars, cardVars, threadAux, threadVars
<1>1. Types'
  <2>1. HostTypes'
    BY SdioIrqAssumption DEF Types, HostTypes
  <2>2. FlagTypes'
    BY DEF Types, FlagTypes
  <2>3. SetTypes'
    BY DEF Types, SetTypes
  <2>4. PlaceTypes'
    BY DEF Types, PlaceTypes
  <2>5. dpc' \in [IrqFuncs -> Stages]
    BY DEF Types, Stages
  <2> QED
    BY <2>1, <2>2, <2>3, <2>4, <2>5 DEF Types
<1>2. CountInv'
  BY DEF CountInv
<1>3. HolderInv'
  BY DEF HolderInv
<1>4. SingleInv'
  BY DEF SingleInv
<1>5. ThreadInv'
  BY DEF ThreadInv
<1>6. MaskInv'
  BY DEF MaskInv
<1> QED
  BY <1>1, <1>2, <1>3, <1>4, <1>5, <1>6

LEMMA ThreadProcessKeeps ==
  ASSUME IInv, ThreadProcess
  PROVE  IInv'
<1> USE DEF IInv, ThreadProcess, process_sdio_pending_irqs, Serve, Outcome,
   hostVars, cardVars, threadAux, threadVars
<1>1. Types'
  <2>1. HostTypes'
    <3>1. faults' \in 0 .. MaxFaults
      <4>1. faults' = faults \/ (faults < MaxFaults /\ faults' = faults + 1)
        OBVIOUS
      <4> QED
        BY <4>1, FaultsType
    <3> QED
      BY <3>1 DEF Types, HostTypes
  <2>2. FlagTypes'
    BY DEF Types, FlagTypes
  <2>3. SetTypes'
    BY DEF Types, SetTypes
  <2>4. PlaceTypes'
    BY DEF Types, PlaceTypes
  <2>5. dpc' \in [IrqFuncs -> Stages]
    BY DEF Types, Stages
  <2> QED
    BY <2>1, <2>2, <2>3, <2>4, <2>5 DEF Types
<1>2. CountInv'
  BY DEF CountInv
<1>3. HolderInv'
  BY DEF HolderInv
<1>4. SingleInv'
  BY DEF SingleInv
<1>5. ThreadInv'
  BY DEF ThreadInv
<1>6. MaskInv'
  BY DEF MaskInv
<1> QED
  BY <1>1, <1>2, <1>3, <1>4, <1>5, <1>6

LEMMA ThreadClearKeeps ==
  ASSUME IInv, ThreadClear
  PROVE  IInv'
<1> USE DEF IInv, ThreadClear, hostVars, cardVars, threadAux, threadVars
<1>1. Types'
  <2>1. HostTypes'
    BY SdioIrqAssumption DEF Types, HostTypes
  <2>2. FlagTypes'
    BY DEF Types, FlagTypes
  <2>3. SetTypes'
    BY DEF Types, SetTypes
  <2>4. PlaceTypes'
    BY DEF Types, PlaceTypes
  <2>5. dpc' \in [IrqFuncs -> Stages]
    BY DEF Types, Stages
  <2> QED
    BY <2>1, <2>2, <2>3, <2>4, <2>5 DEF Types
<1>2. CountInv'
  BY DEF CountInv
<1>3. HolderInv'
  BY SdioIrqAssumption DEF HolderInv
<1>4. SingleInv'
  BY DEF SingleInv
<1>5. ThreadInv'
  BY DEF ThreadInv
<1>6. MaskInv'
  BY DEF MaskInv
<1> QED
  BY <1>1, <1>2, <1>3, <1>4, <1>5, <1>6

LEMMA ThreadBackoffKeeps ==
  ASSUME IInv, ThreadBackoff
  PROVE  IInv'
<1> USE DEF IInv, ThreadBackoff, hostVars, cardVars, threadAux, threadVars
<1>1. Types'
  <2>1. HostTypes'
    BY SdioIrqAssumption DEF Types, HostTypes
  <2>2. FlagTypes'
    BY DEF Types, FlagTypes
  <2>3. SetTypes'
    BY DEF Types, SetTypes
  <2>4. PlaceTypes'
    BY DEF Types, PlaceTypes
  <2>5. dpc' \in [IrqFuncs -> Stages]
    BY DEF Types, Stages
  <2> QED
    BY <2>1, <2>2, <2>3, <2>4, <2>5 DEF Types
<1>2. CountInv'
  BY DEF CountInv
<1>3. HolderInv'
  BY DEF HolderInv
<1>4. SingleInv'
  BY DEF SingleInv
<1>5. ThreadInv'
  BY DEF ThreadInv
<1>6. MaskInv'
  BY DEF MaskInv
<1> QED
  BY <1>1, <1>2, <1>3, <1>4, <1>5, <1>6

LEMMA ThreadArmKeeps ==
  ASSUME IInv, ThreadArm
  PROVE  IInv'
<1> USE DEF IInv, ThreadArm, hostVars, cardVars, threadAux, threadVars
<1>1. Types'
  <2>1. HostTypes'
    BY SdioIrqAssumption DEF Types, HostTypes
  <2>2. FlagTypes'
    BY DEF Types, FlagTypes
  <2>3. SetTypes'
    BY DEF Types, SetTypes
  <2>4. PlaceTypes'
    BY DEF Types, PlaceTypes
  <2>5. dpc' \in [IrqFuncs -> Stages]
    BY DEF Types, Stages
  <2> QED
    BY <2>1, <2>2, <2>3, <2>4, <2>5 DEF Types
<1>2. CountInv'
  BY DEF CountInv
<1>3. HolderInv'
  BY DEF HolderInv
<1>4. SingleInv'
  BY DEF SingleInv
<1>5. ThreadInv'
  BY DEF ThreadInv
<1>6. MaskInv'
  BY DEF MaskInv
<1> QED
  BY <1>1, <1>2, <1>3, <1>4, <1>5, <1>6

LEMMA ThreadEnableKeeps ==
  ASSUME IInv, ThreadEnable
  PROVE  IInv'
<1> USE DEF IInv, ThreadEnable, CapIrq, hostVars, cardVars, threadAux, threadVars
<1>1. Types'
  <2>1. HostTypes'
    BY SdioIrqAssumption DEF Types, HostTypes
  <2>2. FlagTypes'
    BY DEF Types, FlagTypes
  <2>3. SetTypes'
    BY DEF Types, SetTypes
  <2>4. PlaceTypes'
    BY DEF Types, PlaceTypes
  <2>5. dpc' \in [IrqFuncs -> Stages]
    BY DEF Types, Stages
  <2> QED
    BY <2>1, <2>2, <2>3, <2>4, <2>5 DEF Types
<1>2. CountInv'
  BY DEF CountInv
<1>3. HolderInv'
  BY DEF HolderInv
<1>4. SingleInv'
  BY DEF SingleInv
<1>5. ThreadInv'
  BY DEF ThreadInv
<1>6. MaskInv'
  BY DEF ThreadInv, MaskInv
<1> QED
  BY <1>1, <1>2, <1>3, <1>4, <1>5, <1>6

LEMMA ThreadNapKeeps ==
  ASSUME IInv, ThreadNap
  PROVE  IInv'
<1> USE DEF IInv, ThreadNap, CapIrq, hostVars, cardVars, threadAux, threadVars
<1>1. Types'
  <2>1. HostTypes'
    BY SdioIrqAssumption DEF Types, HostTypes
  <2>2. FlagTypes'
    BY DEF Types, FlagTypes
  <2>3. SetTypes'
    BY DEF Types, SetTypes
  <2>4. PlaceTypes'
    BY DEF Types, PlaceTypes
  <2>5. dpc' \in [IrqFuncs -> Stages]
    BY DEF Types, Stages
  <2> QED
    BY <2>1, <2>2, <2>3, <2>4, <2>5 DEF Types
<1>2. CountInv'
  BY DEF CountInv
<1>3. HolderInv'
  BY DEF HolderInv
<1>4. SingleInv'
  BY DEF SingleInv
<1>5. ThreadInv'
  BY DEF ThreadInv
<1>6. MaskInv'
  BY DEF MaskInv
<1> QED
  BY <1>1, <1>2, <1>3, <1>4, <1>5, <1>6

LEMMA ThreadExitKeeps ==
  ASSUME IInv, ThreadExit
  PROVE  IInv'
<1> USE DEF IInv, ThreadExit, CapIrq, hostVars, cardVars, threadAux, threadVars
<1>1. Types'
  <2>1. HostTypes'
    BY SdioIrqAssumption DEF Types, HostTypes
  <2>2. FlagTypes'
    BY DEF Types, FlagTypes
  <2>3. SetTypes'
    BY DEF Types, SetTypes
  <2>4. PlaceTypes'
    BY DEF Types, PlaceTypes
  <2>5. dpc' \in [IrqFuncs -> Stages]
    BY DEF Types, Stages
  <2> QED
    BY <2>1, <2>2, <2>3, <2>4, <2>5 DEF Types
<1>2. CountInv'
  BY DEF CountInv
<1>3. HolderInv'
  BY DEF HolderInv
<1>4. SingleInv'
  BY DEF SingleInv
<1>5. ThreadInv'
  BY DEF ThreadInv
<1>6. MaskInv'
  BY DEF MaskInv
<1> QED
  BY <1>1, <1>2, <1>3, <1>4, <1>5, <1>6

LEMMA WorkStartKeeps ==
  ASSUME IInv, WorkStart
  PROVE  IInv'
<1> USE DEF IInv, WorkStart, hostVars, cardVars, threadAux, threadVars
<1>1. Types'
  <2>1. HostTypes'
    BY SdioIrqAssumption DEF Types, HostTypes
  <2>2. FlagTypes'
    BY DEF Types, FlagTypes
  <2>3. SetTypes'
    BY DEF Types, SetTypes
  <2>4. PlaceTypes'
    BY DEF Types, PlaceTypes
  <2>5. dpc' \in [IrqFuncs -> Stages]
    BY DEF Types, Stages
  <2> QED
    BY <2>1, <2>2, <2>3, <2>4, <2>5 DEF Types
<1>2. CountInv'
  BY DEF CountInv
<1>3. HolderInv'
  BY DEF HolderInv
<1>4. SingleInv'
  BY DEF SingleInv
<1>5. ThreadInv'
  BY DEF ThreadInv
<1>6. MaskInv'
  BY DEF MaskInv
<1> QED
  BY <1>1, <1>2, <1>3, <1>4, <1>5, <1>6

LEMMA WorkClaimKeeps ==
  ASSUME IInv, WorkClaim
  PROVE  IInv'
<1> USE DEF IInv, WorkClaim, hostVars, cardVars, threadAux, threadVars
<1>1. Types'
  <2>1. HostTypes'
    BY SdioIrqAssumption DEF Types, HostTypes
  <2>2. FlagTypes'
    BY DEF Types, FlagTypes
  <2>3. SetTypes'
    BY DEF Types, SetTypes
  <2>4. PlaceTypes'
    BY DEF Types, PlaceTypes
  <2>5. dpc' \in [IrqFuncs -> Stages]
    BY DEF Types, Stages
  <2> QED
    BY <2>1, <2>2, <2>3, <2>4, <2>5 DEF Types
<1>2. CountInv'
  BY DEF CountInv
<1>3. HolderInv'
  BY SdioIrqAssumption DEF HolderInv
<1>4. SingleInv'
  BY DEF SingleInv
<1>5. ThreadInv'
  BY DEF ThreadInv
<1>6. MaskInv'
  BY DEF MaskInv
<1> QED
  BY <1>1, <1>2, <1>3, <1>4, <1>5, <1>6

LEMMA WorkRunKeeps ==
  ASSUME IInv, WorkRun
  PROVE  IInv'
<1> USE DEF IInv, WorkRun, process_sdio_pending_irqs, Serve, Outcome, hostVars,
   cardVars, threadAux, threadVars
<1>1. Types'
  <2>1. HostTypes'
    <3>1. faults' \in 0 .. MaxFaults
      <4>1. faults' = faults \/ (faults < MaxFaults /\ faults' = faults + 1)
        OBVIOUS
      <4> QED
        BY <4>1, FaultsType
    <3> QED
      BY <3>1 DEF Types, HostTypes
  <2>2. FlagTypes'
    BY DEF Types, FlagTypes
  <2>3. SetTypes'
    BY DEF Types, SetTypes
  <2>4. PlaceTypes'
    BY DEF Types, PlaceTypes
  <2>5. dpc' \in [IrqFuncs -> Stages]
    BY DEF Types, Stages
  <2> QED
    BY <2>1, <2>2, <2>3, <2>4, <2>5 DEF Types
<1>2. CountInv'
  BY DEF CountInv
<1>3. HolderInv'
  BY SdioIrqAssumption DEF HolderInv
<1>4. SingleInv'
  BY DEF SingleInv
<1>5. ThreadInv'
  BY DEF ThreadInv
<1>6. MaskInv'
  <2>2. mode = "work"
    BY DEF ThreadInv
  <2>3. enabled' => enabled \/ sdioIrqs > 0
    OBVIOUS
  <2> QED
    BY <2>2, <2>3 DEF MaskInv
<1> QED
  BY <1>1, <1>2, <1>3, <1>4, <1>5, <1>6

LEMMA HostIrqKeeps ==
  ASSUME IInv, HostIrq
  PROVE  IInv'
<1> USE DEF IInv, HostIrq, NoThread, hostVars, cardVars, threadAux, threadVars
<1>1. Types'
  <2>1. HostTypes'
    BY SdioIrqAssumption DEF Types, HostTypes
  <2>2. FlagTypes'
    BY DEF Types, FlagTypes
  <2>3. SetTypes'
    BY DEF Types, SetTypes
  <2>4. PlaceTypes'
    BY DEF Types, PlaceTypes
  <2>5. dpc' \in [IrqFuncs -> Stages]
    BY DEF Types, Stages
  <2> QED
    BY <2>1, <2>2, <2>3, <2>4, <2>5 DEF Types
<1>2. CountInv'
  BY DEF CountInv
<1>3. HolderInv'
  BY DEF HolderInv
<1>4. SingleInv'
  BY DEF SingleInv
<1>5. ThreadInv'
  BY DEF ThreadInv
<1>6. MaskInv'
  BY DEF MaskInv
<1> QED
  BY <1>1, <1>2, <1>3, <1>4, <1>5, <1>6

LEMMA CardAssertKeeps ==
  ASSUME IInv, NEW f \in IrqFuncs, CardAssert(f)
  PROVE  IInv'
<1> USE DEF IInv, CardAssert, hostVars, cardVars, threadAux, threadVars
<1>1. Types'
  <2>1. HostTypes'
    BY SdioIrqAssumption DEF Types, HostTypes
  <2>2. FlagTypes'
    BY DEF Types, FlagTypes
  <2>3. SetTypes'
    BY DEF Types, SetTypes
  <2>4. PlaceTypes'
    BY DEF Types, PlaceTypes
  <2>5. dpc' \in [IrqFuncs -> Stages]
    BY DEF Types, Stages
  <2> QED
    BY <2>1, <2>2, <2>3, <2>4, <2>5 DEF Types
<1>2. CountInv'
  BY DEF CountInv
<1>3. HolderInv'
  BY DEF HolderInv
<1>4. SingleInv'
  BY DEF SingleInv
<1>5. ThreadInv'
  BY DEF ThreadInv
<1>6. MaskInv'
  BY DEF MaskInv
<1> QED
  BY <1>1, <1>2, <1>3, <1>4, <1>5, <1>6

LEMMA CallWithHostKeeps ==
  ASSUME IInv, NEW f \in IrqFuncs, NEW op \in {"claim", "release"}, CallWithHost(f, op)
  PROVE  IInv'
<1> USE DEF IInv, CallWithHost, hostVars, cardVars, threadAux, threadVars
<1>1. Types'
  <2>1. HostTypes'
    BY SdioIrqAssumption DEF Types, HostTypes
  <2>2. FlagTypes'
    BY DEF Types, FlagTypes
  <2>3. SetTypes'
    BY DEF Types, SetTypes
  <2>4. PlaceTypes'
    BY DEF Types, PlaceTypes
  <2>5. dpc' \in [IrqFuncs -> Stages]
    BY DEF Types, Stages
  <2> QED
    BY <2>1, <2>2, <2>3, <2>4, <2>5 DEF Types
<1>2. CountInv'
  BY DEF CountInv
<1>3. HolderInv'
  BY SdioIrqAssumption DEF Types, HolderInv
<1>4. SingleInv'
  BY DEF SingleInv
<1>5. ThreadInv'
  BY DEF ThreadInv
<1>6. MaskInv'
  BY DEF MaskInv
<1> QED
  BY <1>1, <1>2, <1>3, <1>4, <1>5, <1>6

LEMMA ClaimIrqKeeps ==
  ASSUME IInv, NEW f \in IrqFuncs, sdio_claim_irq(f)
  PROVE  IInv'
<1> USE DEF IInv, sdio_claim_irq, Outcome, hostVars, cardVars, threadAux, threadVars
<1>1. Types'
  <2>1. HostTypes'
    BY SdioIrqAssumption DEF Types, HostTypes
  <2>2. FlagTypes'
    BY DEF Types, FlagTypes
  <2>3. SetTypes'
    BY DEF Types, SetTypes
  <2>4. PlaceTypes'
    BY DEF Types, PlaceTypes
  <2>5. dpc' \in [IrqFuncs -> Stages]
    BY DEF Types, Stages
  <2> QED
    BY <2>1, <2>2, <2>3, <2>4, <2>5 DEF Types
<1>2. CountInv'
  BY DEF CountInv
<1>3. HolderInv'
  BY SdioIrqAssumption DEF Types, HolderInv
<1>4. SingleInv'
  BY DEF Types, SingleInv
<1>5. ThreadInv'
  BY DEF Types, ThreadInv
<1>6. MaskInv'
  BY DEF MaskInv
<1> QED
  BY <1>1, <1>2, <1>3, <1>4, <1>5, <1>6

LEMMA CardIrqGetKeeps ==
  ASSUME IInv, NEW f \in IrqFuncs, CardIrqGet(f)
  PROVE  IInv'
<1> USE DEF IInv, CardIrqGet, Outcome, FirstThreaded, NoThread, CapIrq,
   sdio_single_irq_set, hostVars, cardVars, threadAux, threadVars
<1>1. Types'
  <2>1. HostTypes'
    <3>1. faults' \in 0 .. MaxFaults
      BY SdioIrqAssumption DEF Types, HostTypes
    <3>2. single' \in IrqFuncs \cup {None}
      BY DEF Types, HostTypes, SetTypes
    <3> QED
      BY <3>1, <3>2 DEF Types, HostTypes
  <2>2. FlagTypes'
    BY DEF Types, FlagTypes
  <2>3. SetTypes'
    BY DEF Types, SetTypes
  <2>4. PlaceTypes'
    BY DEF Types, PlaceTypes
  <2>5. dpc' \in [IrqFuncs -> Stages]
    BY DEF Types, Stages
  <2> QED
    BY <2>1, <2>2, <2>3, <2>4, <2>5 DEF Types
<1>2. /\ dpc[f] = "get" /\ claimer = f /\ f \notin handler
      /\ \A g \in IrqFuncs \ {f} : dpc[g] = "idle"
  BY DEF Types, Stages, HolderInv
<1>3. \/ handler' = handler \cup {f} /\ sdioIrqs' = sdioIrqs + 1
      \/ handler' = handler /\ sdioIrqs' = sdioIrqs /\ sdioIrqs = 0
  OBVIOUS
<1>4. CountInv' /\ IsFiniteSet(handler')
  BY <1>2, <1>3, HandlerFinite, FS_AddElement DEF CountInv
<1>5. HolderInv'
  <2>1. \A g \in IrqFuncs : dpc'[g] = IF g = f THEN "leave" ELSE "idle"
    BY <1>2 DEF Types
  <2>2. tpc' = tpc \/ tpc' = "start"
    OBVIOUS
  <2>3. claimer' = f /\ work' = work /\ "leave" \in Stages \ {"idle", "get"}
    BY <1>2 DEF Stages
  <2> QED
    BY <1>2, <2>1, <2>2, <2>3, CallInv
<1>6. SingleInv'
  <2>1. SUFFICES ASSUME single' # None PROVE handler' = {single'}
    BY DEF SingleInv
  <2>2. single' \in handler' /\ sdioIrqs' = 1
    BY <2>1
  <2> QED
    BY <1>4, <2>2, FS_Singleton DEF CountInv
<1>7. FirstThreaded => tpc = "none"
  BY <1>2 DEF ThreadInv
<1>8. ThreadInv'
  BY <1>2, <1>3, <1>7, HandlerFinite DEF Types, Stages, ThreadInv, CountInv
<1>9. MaskInv'
  <2>1. sdioIrqs \in Nat
    BY HandlerFinite DEF CountInv
  <2>2. /\ enabled' => enabled \/ mode = "work"
        /\ mode = "work" => sdioIrqs' = sdioIrqs + 1
        /\ mode' = mode /\ woken' = woken
    OBVIOUS
  <2>3. CASE FirstThreaded
    <3>1. tpc' \in {"none", "start"}
      BY <1>7, <2>3
    <3>2. mode = "thread" => ~enabled
      BY <1>7, <2>3 DEF MaskInv
    <3> QED
      BY <2>1, <2>2, <3>1, <3>2 DEF MaskInv
  <2>4. CASE ~FirstThreaded
    <3>1. tpc' = tpc /\ (stop' <=> stop)
      BY <2>4 DEF Types, FlagTypes
    <3>2. mode = "thread" => (enabled' => enabled)
      BY <2>2
    <3> QED
      BY <2>1, <2>2, <3>1, <3>2 DEF MaskInv
  <2> QED
    BY <2>3, <2>4
<1> QED
  BY <1>1, <1>4, <1>5, <1>6, <1>8, <1>9

LEMMA CardIrqPutKeeps ==
  ASSUME IInv, NEW f \in IrqFuncs, CardIrqPut(f)
  PROVE  IInv'
<1> USE DEF IInv, CardIrqPut, LastThreaded, NoThread, hostVars, cardVars,
   threadAux, threadVars
<1>1. Types'
  <2>1. HostTypes'
    BY SdioIrqAssumption DEF Types, HostTypes
  <2>2. FlagTypes'
    BY DEF Types, FlagTypes
  <2>3. SetTypes'
    BY DEF Types, SetTypes
  <2>4. PlaceTypes'
    BY DEF Types, PlaceTypes
  <2>5. dpc' \in [IrqFuncs -> Stages]
    BY DEF Types, Stages
  <2> QED
    BY <2>1, <2>2, <2>3, <2>4, <2>5 DEF Types
<1>2. /\ dpc[f] = "release" /\ claimer = f
      /\ \A g \in IrqFuncs \ {f} : dpc[g] = "idle"
  BY DEF Types, Stages, HolderInv
<1>3. CASE f \notin handler
  <2>1. /\ UNCHANGED <<mode, handler, sdioIrqs, enabled, single, tpc, work, stop, woken>>
        /\ claimer' = f /\ dpc' = [dpc EXCEPT ![f] = "unmask"]
    BY <1>2, <1>3
  <2>2. \A g \in IrqFuncs : dpc[g] \notin {"stop", "join", "sync", "get"}
    BY <1>2
  <2>3. CountInv' /\ SingleInv' /\ HolderInv'
    <3>1. \A g \in IrqFuncs : dpc'[g] = IF g = f THEN "unmask" ELSE "idle"
      BY <1>2, <2>1 DEF Types
    <3>2. HolderInv'
      BY <1>2, <2>1, <3>1, CallInv DEF Stages
    <3> QED
      BY <1>2, <2>1, <2>2, <3>2 DEF CountInv, SingleInv
  <2>4. ThreadInv' /\ MaskInv'
    BY <2>1, <2>2 DEF ThreadInv, MaskInv
  <2> QED
    BY <1>1, <2>3, <2>4
<1>4. CASE f \in handler
  <2>1. /\ UNCHANGED <<mode, single, tpc, work, stop, woken>> /\ sdioIrqs' = sdioIrqs - 1
        /\ claimer' = f /\ handler' = handler \ {f}
        /\ enabled' = (enabled /\ ~(sdioIrqs = 1 /\ NoThread))
        /\ dpc' = [dpc EXCEPT ![f] = IF LastThreaded THEN "stop" ELSE "sync"]
    BY <1>2, <1>4
  <2>2. CountInv'
    BY <1>4, <2>1, HandlerFinite, FS_RemoveElement DEF CountInv
  <2>3. HolderInv'
    <3>1. PICK stage \in {"stop", "sync"} :
            \A g \in IrqFuncs : dpc'[g] = IF g = f THEN stage ELSE "idle"
      BY <1>2, <2>1 DEF Types
    <3> QED
      BY <1>2, <2>1, <3>1, CallInv DEF Stages
  <2>4. sdioIrqs \in Nat \ {0}
    BY <1>4, HandlerFinite, FS_EmptySet DEF CountInv
  <2>5. dpc'[f] = IF LastThreaded THEN "stop" ELSE "sync"
    BY <2>1 DEF Types
  <2>6. SingleInv'
    BY <2>5 DEF SingleInv
  <2>7. ThreadInv'
    <3>1. tpc # "none" => sdioIrqs' > 0 \/ dpc'[f] = "stop"
      BY <2>1, <2>4, <2>5 DEF ThreadInv
    <3> QED
      BY <2>1, <3>1 DEF ThreadInv
  <2>8. MaskInv'
    <3>1. enabled' => enabled /\ ~(sdioIrqs = 1 /\ mode = "work")
      BY <2>1
    <3>2. mode = "work" /\ enabled' => sdioIrqs' > 0
      BY <2>1, <2>4, <3>1
    <3> QED
      BY <2>1, <3>1, <3>2 DEF MaskInv
  <2> QED
    BY <1>1, <2>2, <2>3, <2>6, <2>7, <2>8
<1> QED
  BY <1>3, <1>4

LEMMA KthreadStopKeeps ==
  ASSUME IInv, NEW f \in IrqFuncs, KthreadStop(f)
  PROVE  IInv'
<1> USE DEF IInv, KthreadStop, hostVars, cardVars, threadAux, threadVars
<1>1. Types'
  <2>1. HostTypes'
    BY SdioIrqAssumption DEF Types, HostTypes
  <2>2. FlagTypes'
    BY DEF Types, FlagTypes
  <2>3. SetTypes'
    BY DEF Types, SetTypes
  <2>4. PlaceTypes'
    BY DEF Types, PlaceTypes
  <2>5. dpc' \in [IrqFuncs -> Stages]
    BY DEF Types, Stages
  <2> QED
    BY <2>1, <2>2, <2>3, <2>4, <2>5 DEF Types
<1>2. CountInv'
  BY DEF CountInv
<1>3. HolderInv'
  BY SdioIrqAssumption DEF Types, HolderInv
<1>4. SingleInv'
  BY DEF SingleInv
<1>5. ThreadInv'
  BY DEF ThreadInv
<1>6. MaskInv'
  BY DEF MaskInv
<1> QED
  BY <1>1, <1>2, <1>3, <1>4, <1>5, <1>6

LEMMA CardIrqPutDoneKeeps ==
  ASSUME IInv, NEW f \in IrqFuncs, CardIrqPutDone(f)
  PROVE  IInv'
<1> USE DEF IInv, CardIrqPutDone, sdio_single_irq_set, CapIrq, hostVars, cardVars,
   threadAux, threadVars
<1>1. Types'
  <2>1. HostTypes'
    <3>1. faults' \in 0 .. MaxFaults
      BY SdioIrqAssumption DEF Types, HostTypes
    <3>2. single' \in IrqFuncs \cup {None}
      BY DEF Types, HostTypes, SetTypes
    <3> QED
      BY <3>1, <3>2 DEF Types, HostTypes
  <2>2. FlagTypes'
    BY DEF Types, FlagTypes
  <2>3. SetTypes'
    BY DEF Types, SetTypes
  <2>4. PlaceTypes'
    BY DEF Types, PlaceTypes
  <2>5. dpc' \in [IrqFuncs -> Stages]
    BY DEF Types, Stages
  <2> QED
    BY <2>1, <2>2, <2>3, <2>4, <2>5 DEF Types
<1>2. CountInv'
  BY DEF CountInv
<1>3. HolderInv'
  BY SdioIrqAssumption DEF Types, HolderInv
<1>4. SingleInv'
  <2>1. SUFFICES ASSUME single' # None PROVE handler = {single'}
    BY DEF SingleInv
  <2>2. single' \in handler /\ sdioIrqs = 1
    BY <2>1
  <2> QED
    <3>1. Cardinality(handler) = 1
      BY <2>2 DEF CountInv
    <3>2. PICK x : handler = {x}
      BY <3>1, HandlerFinite, FS_Singleton
    <3> QED
      BY <2>2, <3>2
<1>5. ThreadInv'
  BY DEF ThreadInv
<1>6. MaskInv'
  BY DEF MaskInv
<1> QED
  BY <1>1, <1>2, <1>3, <1>4, <1>5, <1>6

LEMMA ReleaseIrqKeeps ==
  ASSUME IInv, NEW f \in IrqFuncs, ReleaseIrq(f)
  PROVE  IInv'
<1> USE DEF IInv, ReleaseIrq, Outcome, hostVars, cardVars, threadAux, threadVars
<1>1. Types'
  <2>1. HostTypes'
    BY SdioIrqAssumption DEF Types, HostTypes
  <2>2. FlagTypes'
    BY DEF Types, FlagTypes
  <2>3. SetTypes'
    BY DEF Types, SetTypes
  <2>4. PlaceTypes'
    BY DEF Types, PlaceTypes
  <2>5. dpc' \in [IrqFuncs -> Stages]
    BY DEF Types, Stages
  <2> QED
    BY <2>1, <2>2, <2>3, <2>4, <2>5 DEF Types
<1>2. CountInv'
  BY DEF CountInv
<1>3. HolderInv'
  BY SdioIrqAssumption DEF Types, HolderInv
<1>4. SingleInv'
  BY DEF SingleInv
<1>5. ThreadInv'
  BY DEF ThreadInv
<1>6. MaskInv'
  BY DEF MaskInv
<1> QED
  BY <1>1, <1>2, <1>3, <1>4, <1>5, <1>6

LEMMA LeaveHostKeeps ==
  ASSUME IInv, NEW f \in IrqFuncs, LeaveHost(f)
  PROVE  IInv'
<1> USE DEF IInv, LeaveHost, hostVars, cardVars, threadAux, threadVars
<1>1. Types'
  <2>1. HostTypes'
    BY SdioIrqAssumption DEF Types, HostTypes
  <2>2. FlagTypes'
    BY DEF Types, FlagTypes
  <2>3. SetTypes'
    BY DEF Types, SetTypes
  <2>4. PlaceTypes'
    BY DEF Types, PlaceTypes
  <2>5. dpc' \in [IrqFuncs -> Stages]
    BY DEF Types, Stages
  <2> QED
    BY <2>1, <2>2, <2>3, <2>4, <2>5 DEF Types
<1>2. CountInv'
  BY DEF CountInv
<1>3. HolderInv'
  BY SdioIrqAssumption DEF Types, HolderInv
<1>4. SingleInv'
  BY DEF SingleInv
<1>5. ThreadInv'
  BY DEF ThreadInv
<1>6. MaskInv'
  BY DEF MaskInv
<1> QED
  BY <1>1, <1>2, <1>3, <1>4, <1>5, <1>6

-----------------------------------------------------------------------------
LEMMA InitIInv ==
  ASSUME IrqInit
  PROVE  IInv
<1>1. Types
  <2>1. HostTypes
    BY SdioIrqAssumption DEF IrqInit, HostTypes
  <2>2. FlagTypes /\ SetTypes /\ PlaceTypes
    BY DEF IrqInit, FlagTypes, SetTypes, PlaceTypes
  <2>3. dpc \in [IrqFuncs -> Stages]
    BY DEF IrqInit, Stages
  <2> QED
    BY <2>1, <2>2, <2>3 DEF Types
<1>2. CountInv
  BY FS_EmptySet DEF IrqInit, CountInv
<1>3. HolderInv /\ SingleInv /\ ThreadInv /\ MaskInv
  BY SdioIrqAssumption DEF IrqInit, HolderInv, SingleInv, ThreadInv, MaskInv
<1> QED
  BY <1>1, <1>2, <1>3 DEF IInv

LEMMA NextIInv ==
  ASSUME IInv, [IrqNext]_irqVars
  PROVE  IInv'
<1>1. CASE Thread
  BY <1>1, ThreadStartKeeps, ThreadClaimKeeps, ThreadAbortClaimKeeps,
     ThreadProcessKeeps, ThreadClearKeeps, ThreadBackoffKeeps, ThreadArmKeeps,
     ThreadEnableKeeps, ThreadNapKeeps, ThreadExitKeeps
  DEF Thread
<1>2. CASE Work
  BY <1>2, WorkStartKeeps, WorkClaimKeeps, WorkRunKeeps DEF Work
<1>3. CASE HostIrq
  BY <1>3, HostIrqKeeps
<1>4. ASSUME NEW f \in IrqFuncs, Driver(f)
      PROVE  IInv'
  BY <1>4, ClaimIrqKeeps, CardIrqGetKeeps, CardIrqPutKeeps, KthreadStopKeeps,
     CardIrqPutDoneKeeps, ReleaseIrqKeeps, LeaveHostKeeps
  DEF Driver
<1>5. ASSUME NEW f \in IrqFuncs,
             CardAssert(f) \/ \E op \in {"claim", "release"} : CallWithHost(f, op)
      PROVE  IInv'
  BY <1>5, CardAssertKeeps, CallWithHostKeeps
<1>6. CASE UNCHANGED irqVars
  <2> USE <1>6 DEF IInv, irqVars, hostVars, cardVars, threadVars, threadAux
  <2>1. Types'
    <3>1. HostTypes' /\ SetTypes'
      BY DEF Types, HostTypes, SetTypes
    <3>2. FlagTypes' /\ PlaceTypes'
      BY DEF Types, FlagTypes, PlaceTypes
    <3>3. dpc' \in [IrqFuncs -> Stages]
      BY DEF Types
    <3> QED
      BY <3>1, <3>2, <3>3 DEF Types
  <2>2. CountInv' /\ HolderInv' /\ SingleInv' /\ ThreadInv' /\ MaskInv'
    BY DEF CountInv, HolderInv, SingleInv, ThreadInv, MaskInv
  <2> QED
    BY <2>1, <2>2
<1> QED
  BY <1>1, <1>2, <1>3, <1>4, <1>5, <1>6 DEF IrqNext

(* Every variable keeps its type; sdio_irqs stays within the number of     *)
(* functions.                                                              *)
THEOREM TypeCorrect == IrqSpec => []IrqTypeOK
<1>1. IInv => IrqTypeOK
  <2>1. SUFFICES ASSUME IInv PROVE IrqTypeOK
    OBVIOUS
  <2>2. sdioIrqs \in 0 .. Cardinality(IrqFuncs)
    <3>1. Cardinality(handler) <= Cardinality(IrqFuncs) /\ Cardinality(IrqFuncs) \in Nat
      BY <2>1, HandlerFinite, FS_Subset, FS_CardinalityType, SdioIrqAssumption
    <3> QED
      BY <2>1, <3>1, HandlerFinite DEF IInv, CountInv
  <2> QED
    BY <2>1, <2>2
    DEF IInv, Types, HostTypes, FlagTypes, SetTypes, PlaceTypes, Stages, IrqTypeOK
<1> QED
  BY <1>1, InitIInv, NextIInv, PTL DEF IrqSpec

(* The short cut of process_sdio_pending_irqs, which calls the handler of  *)
(* the function it remembers without looking, calls one that is there.     *)
THEOREM FastPathIsSafe == IrqSpec => []FastPathSafe
<1>1. IInv => FastPathSafe
  <2>1. SUFFICES ASSUME IInv, claimer \in {"irqd", "work"}, single # None
                 PROVE  handler = {single}
    BY DEF FastPathSafe
  <2>2. \A f \in IrqFuncs : dpc[f] = "idle"
    BY <2>1, SdioIrqAssumption DEF IInv, HolderInv
  <2> QED
    BY <2>1, <2>2 DEF IInv, SingleInv
<1> QED
  BY <1>1, InitIInv, NextIInv, PTL DEF IrqSpec

(* sdio_irqs counts the functions with a handler, also when the thread     *)
(* could not be started.                                                   *)
THEOREM IrqsCounted == IrqSpec => []CountsHandlers
<1>1. IInv => CountsHandlers
  BY DEF IInv, CountInv, CountsHandlers
<1> QED
  BY <1>1, InitIInv, NextIInv, PTL DEF IrqSpec

(* The host's card interrupt is off while no function wants it, and the    *)
(* thread that it would wake exists while it is on.                        *)
THEOREM QuietHolds == IrqSpec => []QuietWhenUnused
<1>1. IInv => QuietWhenUnused
  <2>1. SUFFICES ASSUME IInv PROVE QuietWhenUnused
    OBVIOUS
  <2>2. mode \in {"thread", "poll", "work"}
    BY <2>1, SdioIrqAssumption DEF IInv, Types, HostTypes, AllModes
  <2>3. ASSUME claimer = None, handler = {}
        PROVE  ~enabled /\ tpc = "none"
    <3>0. sdioIrqs = 0
      BY <2>1, <2>3, FS_EmptySet DEF IInv, CountInv
    <3>1. \A f \in IrqFuncs : dpc[f] = "idle"
      BY <2>1, <2>3, SdioIrqAssumption DEF IInv, HolderInv
    <3>2. tpc = "none"
      BY <2>1, <3>0, <3>1 DEF IInv, ThreadInv
    <3> QED
      BY <2>1, <2>2, <3>0, <3>2 DEF IInv, MaskInv
  <2> QED
    BY <2>1, <2>3 DEF IInv, MaskInv, QuietWhenUnused
<1> QED
  BY <1>1, InitIInv, NextIInv, PTL DEF IrqSpec

(* The thread clears sdio_irq_pending only while the interrupt is masked.  *)
THEOREM MaskedHolds == IrqSpec => []MaskedWhileDispatched
<1>1. IInv => MaskedWhileDispatched
  BY DEF IInv, HolderInv, MaskInv, MaskedWhileDispatched
<1> QED
  BY <1>1, InitIInv, NextIInv, PTL DEF IrqSpec

-----------------------------------------------------------------------------
(* The claims made here are those HostLock allows.                         *)
Claimants == IrqFuncs \cup {"irqd", "work"}

Lock == INSTANCE HostLock WITH Groups <- Claimants, Nobody <- None,
          owner <- claimer, depth <- IF claimer = None THEN 0 ELSE 1

LEMMA HolderSteps ==
  ASSUME IInv, [IrqNext]_irqVars
  PROVE  \/ claimer = None /\ claimer' \in Claimants
         \/ claimer # None /\ claimer' = None
         \/ UNCHANGED claimer
<1> USE DEF hostVars, irqVars
<1>1. CASE Thread
  BY <1>1, SdioIrqAssumption
  DEF IInv, HolderInv, Claimants, Thread, ThreadStart, ThreadClaim, ThreadAbortClaim,
      ThreadProcess, ThreadClear, ThreadBackoff, ThreadArm, ThreadEnable, ThreadNap,
      ThreadExit
<1>2. CASE Work
  BY <1>2, SdioIrqAssumption
  DEF IInv, HolderInv, Claimants, Work, WorkStart, WorkClaim, WorkRun
<1>3. ASSUME NEW f \in IrqFuncs, Driver(f) PROVE UNCHANGED claimer \/ claimer' = None
  BY <1>3 DEF Driver, sdio_claim_irq, CardIrqGet, CardIrqPut, KthreadStop, CardIrqPutDone,
              ReleaseIrq, LeaveHost
<1>4. ASSUME NEW f \in IrqFuncs, NEW op, CallWithHost(f, op)
      PROVE  claimer = None /\ claimer' \in Claimants
  BY <1>4 DEF CallWithHost, Claimants
<1>5. ASSUME HostIrq \/ (\E f \in IrqFuncs : CardAssert(f)) \/ UNCHANGED irqVars
      PROVE  UNCHANGED claimer
  BY <1>5 DEF HostIrq, CardAssert
<1> QED
  BY <1>1, <1>2, <1>3, <1>4, <1>5 DEF IrqNext

(* The interrupt thread, the work item and the function drivers take the   *)
(* host only when it is free, and only who has it gives it back: they use  *)
(* the lock mmc_claim_host and mmc_release_host promise.                   *)
THEOREM ClaimsAllowed == IrqSpec => Lock!Spec
<1>1. IrqInit => Lock!Init
  BY DEF IrqInit, Lock!Init
<1>2. IInv /\ [IrqNext]_irqVars => [Lock!Next]_(Lock!lockVars)
  <2>1. SUFFICES ASSUME IInv, [IrqNext]_irqVars
                 PROVE  Lock!Next \/ UNCHANGED Lock!lockVars
    OBVIOUS
  <2>2. ASSUME claimer = None, claimer' \in Claimants PROVE Lock!Acquire(claimer')
    BY <2>2, SdioIrqAssumption DEF Lock!Acquire, Claimants
  <2>3. ASSUME claimer # None, claimer' = None PROVE Lock!Release
    BY <2>3 DEF Lock!Release
  <2> QED
    BY <2>1, <2>2, <2>3, HolderSteps DEF Lock!Next, Lock!lockVars
<1> QED
  BY <1>1, <1>2, InitIInv, NextIInv, PTL DEF IrqSpec, Lock!Spec
=============================================================================
