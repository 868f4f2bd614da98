---------------------------- MODULE ControllerProofs ---------------------------
(***************************************************************************)
(* The safety properties of the two drivers of host controllers: of Cqhci, *)
(* for any number of slots and requests, and, from "The clock of an SDHCI  *)
(* controller" on, of SdhciClock, for any widths of its register and any   *)
(* controllers.  The two share nothing.                                    *)
(***************************************************************************)
EXTENDS Cqhci, SdhciClock, Integers, FiniteSetTheorems, WellFoundedInduction, TLAPS

BusySlots == {t \in Tags : Busy(t)}

(* The booleans of the driver, and the rest of its types; that qcnt stays  *)
(* within the number of slots follows from the accounting.                 *)
FlagTypes ==
  /\ enabled \in BOOLEAN /\ activated \in BOOLEAN /\ cqeOn \in BOOLEAN
  /\ recovery \in BOOLEAN /\ waiting \in BOOLEAN /\ woken \in BOOLEAN

DriverTypes ==
  /\ mrq \in [Tags -> Mrqs \cup {None}] /\ flags \in [Tags -> SUBSET Flags]
  /\ owner \in OwnerStages /\ current \in Mrqs \cup {None}
  /\ queued \subseteq Mrqs /\ timers \subseteq Mrqs
  /\ qcnt \in Int

EngineTypes ==
  /\ irq \in {"idle", "error", "notify", "complete"}
  /\ status \subseteq CQHCI_IS_MASK /\ comp \subseteq Tags
  /\ ctl \in {"off", "on", "halting", "halted"}
  /\ doorbell \subseteq Tags /\ tcn \subseteq Tags
  /\ is \subseteq CQHCI_IS_MASK /\ mask \in {{}, CQHCI_IS_MASK}
  /\ terri \subseteq Tags

(* What the owner knows at its stages: the slot of the request it is about *)
(* to queue is free, nothing is queued when it has waited, and a recovery  *)
(* goes on only while it is due.                                           *)
OwnerInv ==
  /\ owner = "request" => current \in Mrqs /\ TagOf[current] \notin Slots(queued)
  /\ owner = "quiet" => qcnt = 0
  /\ owner \in {"halting", "recovering", "finishHalting", "clear", "reset",
                "recover"} => recovery

IInv ==
  /\ FlagTypes /\ DriverTypes /\ EngineTypes
  /\ OwnerInv
  /\ QueueAccounting
  /\ NoLostWakeup
  /\ RecoveryMarksOne

(* Three disjoint sets of tasks: unfinished, finished, and those whose     *)
(* completion the handler is about to deliver.  Outside a recovery the     *)
(* requests of all of them are queued.                                     *)
TasksInv ==
  /\ doorbell \cap tcn = {} /\ comp \cap (doorbell \cup tcn) = {}
  /\ irq # "complete" => comp = {}
  /\ ~recovery => doorbell \cup tcn \cup comp \subseteq BusySlots
  /\ owner = "recover" => doorbell = {} /\ tcn = {}

(* The engine is idle while it is off, and on while a request is queued.   *)
OnInv ==
  /\ OffMeansIdle
  /\ owner = "request" => cqeOn

-----------------------------------------------------------------------------
(* The occupied slots are finitely many, and none exactly when qcnt is 0.  *)
LEMMA BusyCount ==
  ASSUME QueueAccounting
  PROVE  /\ IsFiniteSet(BusySlots) /\ Cardinality(BusySlots) <= Cardinality(Tags)
         /\ qcnt = Cardinality(BusySlots) /\ qcnt \in Nat
         /\ qcnt = 0 <=> BusySlots = {}
<1>1. BusySlots \in SUBSET Tags
  BY DEF BusySlots
<1>2. IsFiniteSet(BusySlots) /\ Cardinality(BusySlots) <= Cardinality(Tags)
  BY <1>1, FS_Subset, CqhciAssumption
<1>3. qcnt = Cardinality(BusySlots)
  BY DEF QueueAccounting, BusySlots
<1> QED
  BY <1>2, <1>3, FS_CardinalityType, FS_EmptySet

(* A set of slots has a first one.                                         *)
LEMMA FirstSlot ==
  ASSUME NEW S \in SUBSET Tags, S # {}
  PROVE  \E t \in S : \A u \in S : t <= u
<1>1. S \subseteq Nat
  BY CqhciAssumption
<1>2. PICK t \in S : \A u \in S : <<u, t>> \notin OpToRel(<, Nat)
  BY <1>1, NatLessThanWellFounded, WFMin
<1>3. ASSUME NEW u \in S PROVE t <= u
  <2>1. ~(u < t)
    BY <1>1, <1>2 DEF OpToRel
  <2> QED
    BY <1>1, <2>1
<1> QED
  BY <1>3

(* What the interrupt handler finishes leaves its slots, its count and the *)
(* set of queued requests; in a recovery nothing does.                     *)
LEMMA FinishEffect ==
  ASSUME DriverTypes, EngineTypes, QueueAccounting, IrqComplete
  PROVE  /\ mrq' \in [Tags -> Mrqs \cup {None}] /\ qcnt' \in Int
         /\ flags' \in [Tags -> SUBSET Flags]
         /\ queued' \subseteq queued /\ BusySlots' \subseteq BusySlots
         /\ QueueAccounting'
         /\ ~recovery => BusySlots' = BusySlots \ comp
<1> USE DEF DriverTypes, IrqComplete, cqhci_finish_mrqs
<1>1. flags' \in [Tags -> SUBSET Flags]
  <2>1. "COMPLETED" \in Flags
    BY DEF Flags
  <2>2. \A t \in Tags : flags[t] \in SUBSET Flags
    OBVIOUS
  <2>3. CASE recovery
    BY <2>1, <2>2, <2>3
  <2>4. CASE ~recovery
    BY <2>2, <2>4
  <2> QED
    BY <2>3, <2>4
<1>2. CASE recovery
  <2>1. UNCHANGED <<mrq, qcnt, queued>>
    BY <1>2
  <2> QED
    BY <1>1, <1>2, <2>1 DEF QueueAccounting, Busy, BusySlots
<1>3. CASE ~recovery
  <2>1. /\ mrq' = [t \in Tags |-> IF t \in Finished THEN None ELSE mrq[t]]
        /\ qcnt' = qcnt - Cardinality(Finished)
        /\ queued' = {m \in queued : TagOf[m] \notin Finished}
    BY <1>3
  <2>2. Finished = BusySlots \cap comp
    BY DEF Finished, BusySlots, Busy, EngineTypes
  <2>3. mrq' \in [Tags -> Mrqs \cup {None}]
    BY <2>1
  <2>4. BusySlots' = BusySlots \ Finished
    BY <2>1, CqhciAssumption DEF BusySlots, Busy
  <2>5. qcnt' = Cardinality(BusySlots') /\ qcnt' \in Int
    <3>1. qcnt = Cardinality(BusySlots) /\ qcnt \in Nat /\ IsFiniteSet(BusySlots)
      BY BusyCount
    <3>2. BusySlots \cap Finished = Finished
      BY <2>2
    <3>3. Cardinality(BusySlots \ Finished)
            = Cardinality(BusySlots) - Cardinality(BusySlots \cap Finished)
      BY <3>1, FS_Difference
    <3>4. Cardinality(Finished) \in Nat
      <4>1. Finished \in SUBSET BusySlots
        BY <2>2
      <4> QED
        BY <3>1, <4>1, FS_Subset, FS_CardinalityType
    <3> QED
      BY <2>1, <2>4, <3>1, <3>2, <3>3, <3>4
  <2>6. \A t \in Tags : Busy(t)' => mrq'[t] \in queued' /\ TagOf[mrq'[t]] = t
    BY <2>1, CqhciAssumption DEF QueueAccounting, Busy
  <2>7. \A m \in queued' : mrq'[TagOf[m]] = m
    BY <2>1, CqhciAssumption DEF QueueAccounting, Busy
  <2>8. QueueAccounting'
    BY <2>5, <2>6, <2>7 DEF QueueAccounting, BusySlots
  <2> QED
    BY <1>1, <1>3, <2>1, <2>2, <2>3, <2>4, <2>5, <2>8
<1> QED
  BY <1>2, <1>3

(* A request that is let in gets a free slot.                              *)
LEMMA AcceptEffect ==
  ASSUME IInv, RequestLocked, ~recovery
  PROVE  /\ current \in Mrqs /\ TagOf[current] \in Tags /\ Accept(current)
         /\ TagOf[current] \notin BusySlots
         /\ BusySlots' = BusySlots \cup {TagOf[current]}
<1>1. current \in Mrqs /\ TagOf[current] \in Tags /\ Accept(current)
  BY CqhciAssumption DEF IInv, OwnerInv, RequestLocked
<1>2. TagOf[current] \notin BusySlots
  BY DEF IInv, OwnerInv, QueueAccounting, RequestLocked, Slots, BusySlots
<1>3. BusySlots' = BusySlots \cup {TagOf[current]}
  BY <1>1, CqhciAssumption DEF IInv, DriverTypes, Accept, BusySlots, Busy
<1> QED
  BY <1>1, <1>2, <1>3

-----------------------------------------------------------------------------
(* Booleans, apart: their reasoning is propositional.                     *)
LEMMA FlagsKept ==
  ASSUME IInv, Next
  PROVE  FlagTypes'
<1> USE CqhciAssumption DEF IInv, FlagTypes, driver, thread, handler,
      engine
<1>1. CASE cqhci_enable \/ cqhci_off \/ (\E stay \in BOOLEAN :
          Deactivate(stay)) \/ (\E m \in Mrqs : RequestBegin(m))
  BY <1>1 DEF cqhci_enable, EngineFresh, cqhci_off, Deactivate,
     RequestBegin, Slots
<1>2. CASE RequestLocked \/ RequestUnmapped \/ cqhci_is_idle \/ Unquiet
  BY <1>2 DEF RequestLocked, Accept, RequestUnmapped, cqhci_is_idle,
     Unquiet
<1>3. CASE IrqBegin \/ cqhci_error_irq \/ IrqNotify \/ IrqComplete
  BY <1>3 DEF IrqBegin, cqhci_error_irq, wake_up, cqhci_recovery_needed,
     InError, Busy, IrqNotify, IrqComplete, Finished, cqhci_finish_mrqs
<1>4. CASE (\E m \in Mrqs : TimerFires(m)) \/ (\E m \in Mrqs :
          cqhci_timeout(m))
  BY <1>4 DEF TimerFires, cqhci_timeout, wake_up, cqhci_recovery_needed
<1>5. CASE RecoveryStart \/ RecoveryStarted \/ FinishHalt \/ FinishHalted
  BY <1>5 DEF RecoveryStart, HaltBegin, RecoveryStarted, Step, FinishHalt,
     FinishHalted
<1>6. CASE ClearTasks \/ ResetEngine \/ (\E t \in Tags :
          cqhci_recover_mrq(t)) \/ RecoveryDone
  BY <1>6 DEF ClearTasks, Step, EngineClears, ResetEngine,
     cqhci_recover_mrq, Busy, RecoveryDone
<1>7. CASE (\E t \in Tags : EngineFinishes(t)) \/ EngineFails \/ EngineHalts
  BY <1>7 DEF EngineFinishes, EngineFails, EngineHalts
<1> QED
  BY <1>1, <1>2, <1>3, <1>4, <1>5, <1>6, <1>7 DEF Next, Irq, Owner,
     Timeout, Recovery, Engine

(* The driver's other types.                                               *)
LEMMA DriverKept ==
  ASSUME IInv, Next
  PROVE  DriverTypes'
<1> USE CqhciAssumption DEF IInv, DriverTypes, OwnerInv, Flags,
      ErrorFlags, OwnerStages, driver, thread, handler, engine
<1>1. CASE cqhci_enable \/ cqhci_off \/ (\E stay \in BOOLEAN :
          Deactivate(stay)) \/ (\E m \in Mrqs : RequestBegin(m))
  BY <1>1 DEF cqhci_enable, EngineFresh, cqhci_off, Deactivate,
     RequestBegin, Slots
<1>2. CASE RequestLocked \/ RequestUnmapped \/ cqhci_is_idle \/ Unquiet
  BY <1>2 DEF RequestLocked, Accept, RequestUnmapped, cqhci_is_idle,
     Unquiet
<1>3. CASE IrqBegin \/ cqhci_error_irq \/ IrqNotify
  BY <1>3 DEF IrqBegin, cqhci_error_irq, wake_up, cqhci_recovery_needed,
     InError, Busy, IrqNotify
<1>4. CASE IrqComplete
  BY <1>4, FinishEffect DEF IrqComplete, wake_up
<1>5. CASE (\E m \in Mrqs : TimerFires(m)) \/ (\E m \in Mrqs :
          cqhci_timeout(m))
  BY <1>5 DEF TimerFires, cqhci_timeout, wake_up, cqhci_recovery_needed
<1>6. CASE RecoveryStart \/ RecoveryStarted \/ FinishHalt \/ FinishHalted
  BY <1>6 DEF RecoveryStart, HaltBegin, RecoveryStarted, Step, FinishHalt,
     FinishHalted
<1>7. CASE ClearTasks \/ ResetEngine \/ (\E t \in Tags :
          cqhci_recover_mrq(t)) \/ RecoveryDone
  BY <1>7 DEF ClearTasks, Step, EngineClears, ResetEngine,
     cqhci_recover_mrq, Busy, RecoveryDone
<1>8. CASE (\E t \in Tags : EngineFinishes(t)) \/ EngineFails \/ EngineHalts
  BY <1>8 DEF EngineFinishes, EngineFails, EngineHalts
<1> QED
  BY <1>1, <1>2, <1>3, <1>4, <1>5, <1>6, <1>7, <1>8 DEF Next, Irq, Owner,
     Timeout, Recovery, Engine

(* The types of the handler and of the engine.                             *)
LEMMA EngineKept ==
  ASSUME IInv, Next
  PROVE  EngineTypes'
<1> USE CqhciAssumption DEF IInv, EngineTypes, DriverTypes,
      CQHCI_IS_MASK, driver, thread, handler, engine
<1>1. CASE cqhci_enable \/ cqhci_off \/ (\E stay \in BOOLEAN :
          Deactivate(stay)) \/ (\E m \in Mrqs : RequestBegin(m))
  BY <1>1 DEF cqhci_enable, EngineFresh, cqhci_off, Deactivate,
     RequestBegin, Slots
<1>2. CASE RequestLocked
  <2>1. CASE recovery
    BY <1>2, <2>1 DEF RequestLocked
  <2>2. CASE ~recovery
    <3>1. TagOf[current] \in Tags
      BY <1>2 DEF RequestLocked, OwnerInv
    <3> QED
      BY <1>2, <2>2, <3>1 DEF RequestLocked, Accept
  <2> QED
    BY <2>1, <2>2
<1>3. CASE RequestUnmapped \/ cqhci_is_idle \/ Unquiet
  BY <1>3 DEF RequestUnmapped, cqhci_is_idle, Unquiet
<1>4. CASE IrqBegin \/ cqhci_error_irq \/ IrqNotify \/ IrqComplete
  BY <1>4 DEF IrqBegin, cqhci_error_irq, wake_up, cqhci_recovery_needed,
     InError, Busy, IrqNotify, IrqComplete, Finished, cqhci_finish_mrqs
<1>5. CASE (\E m \in Mrqs : TimerFires(m)) \/ (\E m \in Mrqs :
          cqhci_timeout(m))
  BY <1>5 DEF TimerFires, cqhci_timeout, wake_up, cqhci_recovery_needed
<1>6. CASE RecoveryStart \/ RecoveryStarted \/ FinishHalt \/ FinishHalted
  BY <1>6 DEF RecoveryStart, HaltBegin, RecoveryStarted, Step, FinishHalt,
     FinishHalted
<1>7. CASE ClearTasks \/ ResetEngine \/ (\E t \in Tags :
          cqhci_recover_mrq(t)) \/ RecoveryDone
  BY <1>7 DEF ClearTasks, Step, EngineClears, ResetEngine,
     cqhci_recover_mrq, Busy, RecoveryDone
<1>8. CASE (\E t \in Tags : EngineFinishes(t)) \/ EngineFails \/ EngineHalts
  BY <1>8 DEF EngineFinishes, EngineFails, EngineHalts
<1> QED
  BY <1>1, <1>2, <1>3, <1>4, <1>5, <1>6, <1>7, <1>8 DEF Next, Irq, Owner,
     Timeout, Recovery, Engine

(* What the owner knows stays true until it acts on it.                    *)
LEMMA OwnerKept ==
  ASSUME IInv, Next
  PROVE  OwnerInv'
<1> USE CqhciAssumption DEF IInv, DriverTypes, OwnerInv,
      QueueAccounting, Slots, Busy, driver, thread, handler, engine
<1>1. CASE cqhci_enable \/ cqhci_off \/ (\E stay \in BOOLEAN :
          Deactivate(stay)) \/ (\E m \in Mrqs : RequestBegin(m))
  BY <1>1 DEF cqhci_enable, EngineFresh, cqhci_off, Deactivate,
     RequestBegin
<1>2. CASE RequestLocked \/ RequestUnmapped \/ cqhci_is_idle \/ Unquiet
  BY <1>2 DEF RequestLocked, Accept, RequestUnmapped, cqhci_is_idle,
     Unquiet
<1>3. CASE IrqBegin \/ cqhci_error_irq \/ IrqNotify
  BY <1>3 DEF IrqBegin, cqhci_error_irq, wake_up, cqhci_recovery_needed,
     InError, IrqNotify
<1>4. CASE IrqComplete
  <2>1. queued' \subseteq queued
    BY <1>4, FinishEffect
  <2>2. qcnt = 0 => qcnt' = 0
    <3>1. BusySlots' \subseteq BusySlots /\ QueueAccounting'
      BY <1>4, FinishEffect
    <3>2. qcnt = 0 => BusySlots' = {}
      BY <3>1, BusyCount
    <3>3. BusySlots' = {} => Cardinality(BusySlots') = 0
      BY FS_EmptySet
    <3> QED
      BY <3>1, <3>2, <3>3 DEF QueueAccounting, BusySlots
  <2> QED
    BY <1>4, <2>1, <2>2 DEF IrqComplete, wake_up
<1>5. CASE (\E m \in Mrqs : TimerFires(m)) \/ (\E m \in Mrqs :
          cqhci_timeout(m))
  BY <1>5 DEF TimerFires, cqhci_timeout, wake_up, cqhci_recovery_needed
<1>6. CASE RecoveryStart \/ RecoveryStarted \/ FinishHalt \/ FinishHalted
  BY <1>6 DEF RecoveryStart, HaltBegin, RecoveryStarted, Step, FinishHalt,
     FinishHalted
<1>7. CASE ClearTasks \/ ResetEngine \/ (\E t \in Tags :
          cqhci_recover_mrq(t)) \/ RecoveryDone
  BY <1>7 DEF ClearTasks, Step, EngineClears, ResetEngine,
     cqhci_recover_mrq, RecoveryDone
<1>8. CASE (\E t \in Tags : EngineFinishes(t)) \/ EngineFails \/ EngineHalts
  BY <1>8 DEF EngineFinishes, EngineFails, EngineHalts
<1> QED
  BY <1>1, <1>2, <1>3, <1>4, <1>5, <1>6, <1>7, <1>8 DEF Next, Irq, Owner,
     Timeout, Recovery, Engine

(* Whoever makes the owner's condition true wakes it.                      *)
LEMMA WakeupKept ==
  ASSUME IInv, Next
  PROVE  NoLostWakeup'
<1> USE CqhciAssumption DEF IInv, DriverTypes, FlagTypes, OwnerInv,
      NoLostWakeup, driver, thread, handler, engine
<1>1. CASE cqhci_enable \/ cqhci_off \/ (\E stay \in BOOLEAN :
          Deactivate(stay)) \/ (\E m \in Mrqs : RequestBegin(m))
  BY <1>1 DEF cqhci_enable, EngineFresh, cqhci_off, Deactivate,
     RequestBegin, Slots
<1>2. CASE RequestLocked \/ RequestUnmapped \/ Unquiet
  BY <1>2 DEF RequestLocked, Accept, RequestUnmapped, Unquiet
<1>3. CASE cqhci_is_idle
  <2>1. qcnt = 0 \/ qcnt > 0
    BY BusyCount
  <2> QED
    BY <1>3, <2>1 DEF cqhci_is_idle
<1>4. CASE IrqBegin \/ cqhci_error_irq \/ IrqNotify
  BY <1>4 DEF IrqBegin, cqhci_error_irq, wake_up, cqhci_recovery_needed,
     InError, Busy, IrqNotify
<1>5. CASE IrqComplete
  <2>1. qcnt' \in Nat
    <3>1. QueueAccounting' /\ BusySlots' \in SUBSET BusySlots
      BY <1>5, FinishEffect
    <3>2. IsFiniteSet(BusySlots')
      BY <3>1, BusyCount, FS_Subset
    <3> QED
      BY <3>1, <3>2, FS_CardinalityType DEF QueueAccounting, BusySlots
  <2> QED
    BY <1>5, <2>1 DEF IrqComplete, wake_up
<1>6. CASE (\E m \in Mrqs : TimerFires(m)) \/ (\E m \in Mrqs :
          cqhci_timeout(m))
  BY <1>6 DEF TimerFires, cqhci_timeout, wake_up, cqhci_recovery_needed
<1>7. CASE RecoveryStart \/ RecoveryStarted \/ FinishHalt \/ FinishHalted
  BY <1>7 DEF RecoveryStart, HaltBegin, RecoveryStarted, Step, FinishHalt,
     FinishHalted
<1>8. CASE ClearTasks \/ ResetEngine \/ (\E t \in Tags :
          cqhci_recover_mrq(t)) \/ RecoveryDone
  BY <1>8 DEF ClearTasks, Step, EngineClears, ResetEngine,
     cqhci_recover_mrq, Busy, RecoveryDone
<1>9. CASE (\E t \in Tags : EngineFinishes(t)) \/ EngineFails \/ EngineHalts
  BY <1>9 DEF EngineFinishes, EngineFails, EngineHalts
<1> QED
  BY <1>1, <1>2, <1>3, <1>4, <1>5, <1>6, <1>7, <1>8, <1>9 DEF Next, Irq,
     Owner, Timeout, Recovery, Engine

LEMMA AccountingUntouched ==
  ASSUME QueueAccounting, UNCHANGED <<mrq, queued, qcnt>>
  PROVE  QueueAccounting'
BY DEF QueueAccounting, Busy

(* Slots, queue and count change together.                                 *)
LEMMA AccountingKept ==
  ASSUME IInv, Next
  PROVE  QueueAccounting'
<1> USE CqhciAssumption DEF IInv, DriverTypes, OwnerInv,
      QueueAccounting, Busy, driver, thread, handler, engine
<1>1. CASE cqhci_enable \/ cqhci_off \/ (\E stay \in BOOLEAN :
          Deactivate(stay)) \/ (\E m \in Mrqs : RequestBegin(m))
  BY <1>1 DEF cqhci_enable, EngineFresh, cqhci_off, Deactivate,
     RequestBegin, Slots
<1>2. CASE RequestLocked
  <2>1. CASE recovery
    BY <1>2, <2>1 DEF RequestLocked
  <2>2. CASE ~recovery
    <3> DEFINE t == TagOf[current]
    <3>1. current \in Mrqs /\ t \in Tags /\ Accept(current)
      BY <1>2, <2>2, AcceptEffect
    <3>2. t \notin BusySlots /\ BusySlots' = BusySlots \cup {t}
      BY <1>2, <2>2, AcceptEffect
    <3>3. Cardinality(BusySlots') = Cardinality(BusySlots) + 1
      BY <3>2, BusyCount, FS_AddElement
    <3>4. qcnt' = Cardinality(BusySlots')
      BY <3>1, <3>3, BusyCount DEF Accept
    <3>5. \A u \in Tags : Busy(u)' => mrq'[u] \in queued' /\ TagOf[mrq'[u]] = u
      BY <3>1 DEF Accept
    <3>6. \A m \in queued' : mrq'[TagOf[m]] = m
      BY <3>1, <3>2, CqhciAssumption DEF Accept, BusySlots
    <3> QED
      BY <3>4, <3>5, <3>6 DEF BusySlots
  <2> QED
    BY <2>1, <2>2
<1>3. CASE RequestUnmapped \/ Unquiet
  BY <1>3 DEF RequestUnmapped, Unquiet
<1>4. CASE cqhci_is_idle
  BY <1>4 DEF cqhci_is_idle
<1>5. CASE IrqBegin
  BY <1>5 DEF IrqBegin
<1>6. CASE cqhci_error_irq
  <2>1. UNCHANGED <<mrq, queued, qcnt>>
    BY <1>6 DEF cqhci_error_irq
  <2> QED
    BY <2>1, AccountingUntouched
<1>7. CASE IrqNotify
  BY <1>7 DEF IrqNotify
<1>8. CASE IrqComplete
  BY <1>8, FinishEffect
<1>9. CASE (\E m \in Mrqs : TimerFires(m)) \/ (\E m \in Mrqs :
          cqhci_timeout(m))
  <2>1. UNCHANGED <<mrq, queued, qcnt>>
    BY <1>9 DEF TimerFires, cqhci_timeout
  <2> QED
    BY <2>1, AccountingUntouched
<1>10. CASE RecoveryStart \/ RecoveryStarted \/ FinishHalt \/ FinishHalted
  <2>1. UNCHANGED <<mrq, queued, qcnt>>
    BY <1>10 DEF RecoveryStart, HaltBegin, RecoveryStarted, Step, FinishHalt, FinishHalted
  <2> QED
    BY <2>1, AccountingUntouched
<1>11. CASE ClearTasks
  BY <1>11 DEF ClearTasks, Step, EngineClears
<1>12. CASE ResetEngine
  BY <1>12 DEF ResetEngine, Step, EngineClears
<1>13. ASSUME NEW t \in Tags, cqhci_recover_mrq(t) PROVE QueueAccounting'
  <2>1. BusySlots' = BusySlots \ {t} /\ t \in BusySlots
    BY <1>13 DEF cqhci_recover_mrq, BusySlots
  <2>2. qcnt' = Cardinality(BusySlots')
    BY <1>13, <2>1, BusyCount, FS_RemoveElement DEF cqhci_recover_mrq
  <2>3. \A u \in Tags : Busy(u)' => mrq'[u] \in queued' /\ TagOf[mrq'[u]] = u
    BY <1>13 DEF cqhci_recover_mrq
  <2>4. \A m \in queued' : mrq'[TagOf[m]] = m
    BY <1>13, CqhciAssumption DEF cqhci_recover_mrq
  <2> QED
    BY <2>2, <2>3, <2>4 DEF BusySlots
<1>14. CASE RecoveryDone
  <2>1. UNCHANGED <<mrq, queued>> /\ qcnt' = 0 /\ BusySlots = {}
    BY <1>14 DEF RecoveryDone, BusySlots
  <2>2. qcnt' = qcnt
    BY <2>1, BusyCount
  <2>3. BusySlots' = BusySlots
    BY <2>1 DEF BusySlots, Busy
  <2> QED
    BY <2>1, <2>2, <2>3
<1>15. CASE (\E t \in Tags : EngineFinishes(t)) \/ EngineFails \/
          EngineHalts
  BY <1>15 DEF EngineFinishes, EngineFails, EngineHalts
<1> QED
  BY <1>1, <1>2, <1>3, <1>4, <1>5, <1>6, <1>7, <1>8, <1>9, <1>10, <1>11,
     <1>12, <1>13, <1>14, <1>15 DEF Next, Irq, Owner, Timeout, Recovery,
     Engine

(* A recovery begins with a marked request and keeps it until the walk.    *)
LEMMA MarksKept ==
  ASSUME IInv, Next
  PROVE  RecoveryMarksOne'
<1> USE CqhciAssumption DEF IInv, DriverTypes, FlagTypes, OwnerInv,
      QueueAccounting, RecoveryMarksOne, Busy, Flags, ErrorFlags, driver,
      thread, handler, engine
<1>1. CASE cqhci_enable \/ cqhci_off \/ (\E stay \in BOOLEAN :
          Deactivate(stay)) \/ (\E m \in Mrqs : RequestBegin(m))
  BY <1>1 DEF cqhci_enable, EngineFresh, cqhci_off, Deactivate,
     RequestBegin, Slots
<1>2. CASE RequestLocked \/ RequestUnmapped \/ cqhci_is_idle \/ Unquiet
  BY <1>2 DEF RequestLocked, Accept, RequestUnmapped, cqhci_is_idle,
     Unquiet
<1>3. CASE IrqBegin \/ IrqNotify
  BY <1>3 DEF IrqBegin, IrqNotify
<1>4. CASE cqhci_error_irq
  <2>1. CASE recovery \/ qcnt = 0
    BY <1>4, <2>1 DEF cqhci_error_irq
  <2>2. CASE ~recovery /\ qcnt # 0
    <3>1. \E t \in InError : t \in BusySlots
      <4>1. BusySlots # {} /\ BusySlots \in SUBSET Tags
        BY <2>2, BusyCount DEF BusySlots
      <4>2. \E t \in BusySlots : \A u \in BusySlots : t <= u
        BY <4>1, FirstSlot
      <4>3. CASE \E t \in terri : Busy(t)
        BY <4>3 DEF InError, BusySlots, EngineTypes
      <4>4. CASE ~\E t \in terri : Busy(t)
        <5>1. InError = {t \in Tags : Busy(t) /\ \A u \in Tags : Busy(u) => t <= u}
          BY <4>4 DEF InError
        <5>2. PICK t \in BusySlots : \A u \in BusySlots : t <= u
          BY <4>2
        <5> QED
          BY <5>1, <5>2 DEF BusySlots
      <4> QED
        BY <4>3, <4>4
    <3>2. /\ mrq' = mrq
          /\ flags' = [t \in Tags |-> IF t \in InError THEN {"HOST_ERROR"} ELSE flags[t]]
      BY <1>4, <2>2 DEF cqhci_error_irq
    <3>3. PICK t \in BusySlots : t \in InError
      BY <3>1
    <3>4. flags'[t] = {"HOST_ERROR"}
      BY <3>2, <3>3 DEF BusySlots
    <3> QED
      BY <3>2, <3>3, <3>4 DEF BusySlots
  <2> QED
    BY <2>1, <2>2
<1>5. CASE IrqComplete
  <2>1. recovery' = recovery /\ owner' = owner
    BY <1>5 DEF IrqComplete, wake_up
  <2>2. CASE recovery
    <3>1. /\ mrq' = mrq
          /\ \A t \in Tags : flags[t] \subseteq flags'[t]
      BY <1>5, <2>2 DEF IrqComplete, cqhci_finish_mrqs
    <3> QED
      BY <2>1, <3>1
  <2> QED
    BY <2>1, <2>2
<1>6. ASSUME NEW m \in Mrqs, TimerFires(m) PROVE RecoveryMarksOne'
  BY <1>6 DEF TimerFires
<1>7. ASSUME NEW m \in Mrqs, cqhci_timeout(m) PROVE RecoveryMarksOne'
  <2>1. CASE mrq[TagOf[m]] = m
    <3>1. TagOf[m] \in Tags /\ m # None
      OBVIOUS
    <3>2. mrq' = mrq /\ "EXTERNAL_TIMEOUT" \in flags'[TagOf[m]]
      BY <1>7, <2>1, <3>1 DEF cqhci_timeout
    <3> QED
      BY <2>1, <3>1, <3>2
  <2>2. CASE mrq[TagOf[m]] # m
    BY <1>7, <2>2 DEF cqhci_timeout
  <2> QED
    BY <2>1, <2>2
<1>8. CASE RecoveryStart \/ RecoveryStarted \/ FinishHalt \/ FinishHalted
  BY <1>8 DEF RecoveryStart, HaltBegin, RecoveryStarted, Step, FinishHalt,
     FinishHalted
<1>9. CASE ClearTasks \/ ResetEngine \/ (\E t \in Tags :
          cqhci_recover_mrq(t)) \/ RecoveryDone
  BY <1>9 DEF ClearTasks, Step, EngineClears, ResetEngine,
     cqhci_recover_mrq, RecoveryDone
<1>10. CASE (\E t \in Tags : EngineFinishes(t)) \/ EngineFails \/
          EngineHalts
  BY <1>10 DEF EngineFinishes, EngineFails, EngineHalts
<1> QED
  BY <1>1, <1>2, <1>3, <1>4, <1>5, <1>6, <1>7, <1>8, <1>9, <1>10 DEF Next,
     Irq, Owner, Timeout, Recovery, Engine

(* Tasks move from doorbell to tcn to comp, and a recovery forgets them.   *)
LEMMA TasksKept ==
  ASSUME IInv, TasksInv, PromptIrq, Next
  PROVE  TasksInv'
<1> USE CqhciAssumption DEF IInv, DriverTypes, EngineTypes, OwnerInv,
      TasksInv, Busy, BusySlots, driver, thread, handler, engine
<1>1. CASE cqhci_enable \/ cqhci_off \/ (\E stay \in BOOLEAN :
          Deactivate(stay)) \/ (\E m \in Mrqs : RequestBegin(m))
  BY <1>1 DEF cqhci_enable, EngineFresh, cqhci_off, Deactivate,
     RequestBegin, Slots
<1>2. CASE RequestLocked
  <2>1. CASE recovery
    BY <1>2, <2>1 DEF RequestLocked
  <2>2. CASE ~recovery
    <3>1. Accept(current) /\ TagOf[current] \notin BusySlots
          /\ BusySlots' = BusySlots \cup {TagOf[current]}
      BY <1>2, <2>2, AcceptEffect DEF IInv
    <3>2. /\ doorbell' = doorbell \cup {TagOf[current]} /\ owner' = "idle"
          /\ UNCHANGED <<tcn, comp, irq, recovery>>
      BY <1>2, <2>2, <3>1 DEF RequestLocked, Accept
    <3>3. TagOf[current] \notin doorbell \cup tcn \cup comp
      BY <2>2, <3>1
    <3>4. doorbell \cup tcn \cup comp \subseteq BusySlots
      BY <2>2
    <3>5. (doorbell \cup tcn \cup comp \subseteq BusySlots)'
      BY <3>1, <3>2, <3>4
    <3> QED
      BY <3>2, <3>3, <3>5
  <2> QED
    BY <2>1, <2>2
<1>3. CASE RequestUnmapped \/ cqhci_is_idle \/ Unquiet
  BY <1>3 DEF RequestUnmapped, cqhci_is_idle, Unquiet
<1>4. CASE IrqBegin \/ cqhci_error_irq \/ IrqNotify
  BY <1>4 DEF IrqBegin, cqhci_error_irq, wake_up, cqhci_recovery_needed,
     InError, IrqNotify
<1>5. CASE IrqComplete
  <2>1. UNCHANGED <<doorbell, tcn, owner, recovery>> /\ comp' = {} /\ irq' = "idle"
    BY <1>5 DEF IrqComplete
  <2>2. ~recovery => BusySlots' = BusySlots \ comp
    BY <1>5, FinishEffect
  <2> QED
    BY <2>1, <2>2 DEF BusySlots
<1>6. CASE (\E m \in Mrqs : TimerFires(m)) \/ (\E m \in Mrqs :
          cqhci_timeout(m))
  BY <1>6 DEF TimerFires, cqhci_timeout, wake_up, cqhci_recovery_needed
<1>7. CASE RecoveryStart \/ RecoveryStarted \/ FinishHalt \/ FinishHalted
  BY <1>7 DEF RecoveryStart, HaltBegin, RecoveryStarted, Step, FinishHalt,
     FinishHalted
<1>8. CASE ClearTasks \/ ResetEngine \/ (\E t \in Tags :
          cqhci_recover_mrq(t)) \/ RecoveryDone
  BY <1>8 DEF ClearTasks, Step, EngineClears, ResetEngine,
     cqhci_recover_mrq, RecoveryDone
<1>9. ASSUME NEW t \in Tags, EngineFinishes(t) PROVE TasksInv'
  BY <1>9 DEF EngineFinishes
<1>10. CASE EngineFails \/ EngineHalts
  BY <1>10 DEF EngineFails, EngineHalts
<1> QED
  BY <1>1, <1>2, <1>3, <1>4, <1>5, <1>6, <1>7, <1>8, <1>9, <1>10 DEF Next,
     Irq, Owner, Timeout, Recovery, Engine

(* The engine is turned off only when nothing is queued.                   *)
LEMMA OnKept ==
  ASSUME IInv, TasksInv, OnInv, PromptIrq, Next
  PROVE  OnInv'
<1> USE CqhciAssumption DEF IInv, FlagTypes, DriverTypes, OwnerInv,
      TasksInv, OnInv, OffMeansIdle, driver, thread, handler, engine
<1>1. CASE cqhci_enable \/ (\E stay \in BOOLEAN : Deactivate(stay)) \/ (\E m
          \in Mrqs : RequestBegin(m)) \/ RequestLocked
  BY <1>1 DEF cqhci_enable, EngineFresh, Deactivate, RequestBegin, Slots,
     RequestLocked, Accept
<1>2. CASE cqhci_off
  <2>1. ~recovery => doorbell = {}
    BY <1>2, BusyCount DEF cqhci_off
  <2> QED
    BY <1>2, <2>1 DEF cqhci_off
<1>3. CASE RequestUnmapped \/ cqhci_is_idle \/ Unquiet
  BY <1>3 DEF RequestUnmapped, cqhci_is_idle, Unquiet
<1>4. CASE IrqBegin \/ cqhci_error_irq \/ IrqNotify \/ IrqComplete
  BY <1>4 DEF IrqBegin, cqhci_error_irq, wake_up, cqhci_recovery_needed,
     InError, Busy, IrqNotify, IrqComplete, Finished, cqhci_finish_mrqs
<1>5. CASE (\E m \in Mrqs : TimerFires(m)) \/ (\E m \in Mrqs :
          cqhci_timeout(m))
  BY <1>5 DEF TimerFires, cqhci_timeout, wake_up, cqhci_recovery_needed
<1>6. CASE RecoveryStart \/ RecoveryStarted \/ FinishHalt \/ FinishHalted
  BY <1>6 DEF RecoveryStart, HaltBegin, RecoveryStarted, Step, FinishHalt,
     FinishHalted
<1>7. CASE ClearTasks \/ ResetEngine \/ (\E t \in Tags :
          cqhci_recover_mrq(t)) \/ RecoveryDone
  BY <1>7 DEF ClearTasks, Step, EngineClears, ResetEngine,
     cqhci_recover_mrq, Busy, RecoveryDone
<1>8. CASE (\E t \in Tags : EngineFinishes(t)) \/ EngineFails \/ EngineHalts
  BY <1>8 DEF EngineFinishes, EngineFails, EngineHalts
<1> QED
  BY <1>1, <1>2, <1>3, <1>4, <1>5, <1>6, <1>7, <1>8 DEF Next, Irq, Owner,
     Timeout, Recovery, Engine

-----------------------------------------------------------------------------
(* The state after cqhci_init.                                             *)
LEMMA InitIInv ==
  ASSUME Init
  PROVE  IInv /\ TasksInv /\ OnInv
<1>1. FlagTypes
  BY DEF Init, FlagTypes
<1>2. DriverTypes /\ EngineTypes
  BY DEF Init, DriverTypes, EngineTypes, OwnerStages
<1>3. QueueAccounting
  <2>1. {t \in Tags : Busy(t)} = {}
    BY DEF Init, Busy
  <2> QED
    BY <2>1, FS_EmptySet DEF Init, QueueAccounting, Busy
<1>4. OwnerInv /\ NoLostWakeup /\ RecoveryMarksOne /\ TasksInv /\ OnInv
  BY DEF Init, OwnerInv, NoLostWakeup, RecoveryMarksOne, TasksInv, OnInv, OffMeansIdle
<1> QED
  BY <1>1, <1>2, <1>3, <1>4 DEF IInv

(* Nothing moves.                                                          *)
LEMMA StutterKeeps ==
  ASSUME UNCHANGED vars
  PROVE  (IInv => IInv') /\ (TasksInv => TasksInv') /\ (OnInv => OnInv')
<1> USE DEF vars, driver, thread, handler, engine
<1>1. IInv => IInv'
  BY DEF IInv, FlagTypes, DriverTypes, EngineTypes, OwnerInv, QueueAccounting, Busy,
     NoLostWakeup, RecoveryMarksOne, Slots
<1>2. TasksInv => TasksInv'
  BY DEF TasksInv, BusySlots, Busy
<1>3. OnInv => OnInv'
  BY DEF OnInv, OffMeansIdle
<1> QED
  BY <1>1, <1>2, <1>3

(* IInv is an invariant, whether or not the handler can be slow.           *)
THEOREM Invariance == Spec => []IInv
<1>1. Init => IInv
  BY InitIInv
<1>2. IInv /\ [Next]_vars => IInv'
  <2> SUFFICES ASSUME IInv, [Next]_vars PROVE IInv'
    OBVIOUS
  <2>1. CASE Next
    <3>1. FlagTypes' /\ DriverTypes' /\ EngineTypes'
      BY <2>1, FlagsKept, DriverKept, EngineKept
    <3>2. OwnerInv' /\ NoLostWakeup' /\ QueueAccounting' /\ RecoveryMarksOne'
      BY <2>1, OwnerKept, WakeupKept, AccountingKept, MarksKept
    <3> QED
      BY <3>1, <3>2 DEF IInv
  <2>2. CASE UNCHANGED vars
    BY <2>2, StutterKeeps
  <2> QED
    BY <2>1, <2>2
<1> QED
  BY <1>1, <1>2, PTL DEF Spec

(* Every variable has its type; qcnt, which cqhci_recover_mrqs counts down *)
(* without the lock, stays between 0 and the number of slots.              *)
THEOREM TypeCorrect == Spec => []TypeOK
<1>1. IInv => TypeOK
  <2> SUFFICES ASSUME IInv PROVE TypeOK
    OBVIOUS
  <2>1. qcnt \in 0 .. Cardinality(Tags)
    <3>1. Cardinality(Tags) \in Nat
      BY CqhciAssumption, FS_CardinalityType
    <3>2. qcnt \in Nat /\ qcnt <= Cardinality(Tags)
      BY BusyCount DEF IInv
    <3> QED
      BY <3>1, <3>2
  <2>2. {enabled, activated, cqeOn, recovery, waiting, woken} \subseteq BOOLEAN
    BY DEF IInv, FlagTypes
  <2> QED
    BY <2>1, <2>2 DEF IInv, DriverTypes, EngineTypes, TypeOK
<1> QED
  BY <1>1, Invariance, PTL

(* A request is in its slot, and counted, from the moment it is accepted   *)
(* until it is handed back, once: cqhci_request, cqhci_finish_mrq,         *)
(* cqhci_recover_mrq.                                                      *)
THEOREM QueueAccountingHolds == Spec => []QueueAccounting
<1>1. IInv => QueueAccounting
  BY DEF IInv
<1> QED
  BY <1>1, Invariance, PTL

(* The owner never sleeps in cqhci_wait_for_idle with nobody to wake it.   *)
THEOREM NoLostWakeupHolds == Spec => []NoLostWakeup
<1>1. IInv => NoLostWakeup
  BY DEF IInv
<1> QED
  BY <1>1, Invariance, PTL

(* Whenever a recovery is due some queued request is in error, whatever    *)
(* tasks the engine has named: cqhci_error_irq.                            *)
THEOREM RecoveryMarksOneHolds == Spec => []RecoveryMarksOne
<1>1. IInv => RecoveryMarksOne
  BY DEF IInv
<1> QED
  BY <1>1, Invariance, PTL

-----------------------------------------------------------------------------
(* With a prompt interrupt handler the sets of tasks stay apart and the    *)
(* engine is idle when it is off.                                          *)
LEMMA PromptInvariance ==
  ASSUME PromptIrq
  PROVE  Spec => [](IInv /\ TasksInv /\ OnInv)
<1>1. Init => IInv /\ TasksInv /\ OnInv
  BY InitIInv
<1>2. IInv /\ TasksInv /\ OnInv /\ [Next]_vars => (TasksInv /\ OnInv)'
  <2> SUFFICES ASSUME IInv, TasksInv, OnInv, [Next]_vars PROVE (TasksInv /\ OnInv)'
    OBVIOUS
  <2>1. CASE Next
    BY <2>1, TasksKept, OnKept
  <2>2. CASE UNCHANGED vars
    BY <2>2, StutterKeeps
  <2> QED
    BY <2>1, <2>2
<1> QED
  BY <1>1, <1>2, Invariance, PTL DEF Spec

(* Outside a recovery, a queue that is off is empty: legacy requests, for  *)
(* which cqhci_off turns it off, have the bus to themselves.               *)
THEOREM OffMeansIdleHolds ==
  ASSUME PromptIrq
  PROVE  Spec => []OffMeansIdle
<1>1. OnInv => OffMeansIdle
  BY DEF OnInv
<1> QED
  BY <1>1, PromptInvariance, PTL

(* A step hands requests back only if it completes them or the recovery    *)
(* returns them.                                                           *)
LEMMA HandsBack ==
  ASSUME IInv, Next, ~IrqComplete, owner # "recover"
  PROVE  queued \subseteq queued'
<1> USE DEF driver, thread, handler, engine
<1>1. CASE RequestLocked
  BY <1>1 DEF RequestLocked, Accept
<1>2. CASE Irq
  BY <1>2 DEF Irq, IrqBegin, cqhci_error_irq, IrqNotify
<1>3. CASE Owner /\ ~RequestLocked
  BY <1>3 DEF Owner, cqhci_enable, cqhci_off, Deactivate, RequestBegin,
     RequestUnmapped, cqhci_is_idle, Unquiet
<1>4. CASE Timeout
  BY <1>4 DEF Timeout, TimerFires, cqhci_timeout
<1>5. CASE Recovery
  BY <1>5 DEF Recovery, RecoveryStart, RecoveryStarted, FinishHalt, FinishHalted,
     ClearTasks, ResetEngine, cqhci_recover_mrq, RecoveryDone, Step, HaltBegin
<1>6. CASE Engine
  BY <1>6 DEF Engine, EngineFinishes, EngineFails, EngineHalts
<1> QED
  BY <1>1, <1>2, <1>3, <1>4, <1>5, <1>6 DEF Next

(* The interrupt handler never completes a request that the engine has not *)
(* finished, if it is done with what it read before a recovery is over.    *)
THEOREM NoFalseCompletionHolds ==
  ASSUME PromptIrq
  PROVE  Spec => NoFalseCompletion
<1>1. ASSUME IInv, TasksInv, Next, irq = "complete", NEW m \in queued \ queued'
      PROVE  TagOf[m] \notin doorbell
  <2>1. CASE IrqComplete
    <3>1. TagOf[m] \in comp
      BY <1>1, <2>1 DEF IrqComplete, cqhci_finish_mrqs, Finished
    <3> QED
      BY <1>1, <3>1 DEF TasksInv
  <2>2. CASE owner = "recover"
    BY <1>1, <2>2 DEF TasksInv
  <2> QED
    BY <1>1, <2>1, <2>2, HandsBack
<1>2. IInv /\ TasksInv /\ OnInv /\ [Next]_vars =>
        [irq = "complete" => \A m \in queued \ queued' : TagOf[m] \notin doorbell]_vars
  BY <1>1
<1> QED
  BY <1>2, PromptInvariance, PTL DEF Spec, NoFalseCompletion

-----------------------------------------------------------------------------
(* The clock of an SDHCI controller.  First, integers: division, least     *)
(* elements and induction.                                                 *)

(* A set that holds 0 and, with a number, the next one holds them all.     *)
LEMMA Induction ==
  ASSUME NEW S, 0 \in S, \A n \in Nat : n \in S => n + 1 \in S
  PROVE  Nat \subseteq S
<1> DEFINE Missing == Nat \ S
<1>1. SUFFICES ASSUME Missing # {} PROVE FALSE
  OBVIOUS
<1>2. PICK n \in Missing : \A m \in Missing : <<m, n>> \notin OpToRel(<, Nat)
  BY <1>1, NatLessThanWellFounded, WFMin
<1>3. n \in Nat /\ n \notin S
  OBVIOUS
<1>4. PICK m \in Nat : n = m + 1
  <2>1. n # 0
    BY <1>3
  <2> QED
    BY <1>3, <2>1
<1>5. m \notin Missing
  <2>1. <<m, n>> \in OpToRel(<, Nat)
    BY <1>3, <1>4 DEF OpToRel
  <2> QED
    BY <1>2, <2>1
<1> QED
  BY <1>3, <1>4, <1>5

LEMMA Quotient ==
  ASSUME NEW a \in Nat, NEW d \in Nat \ {0}
  PROVE  /\ a \div d \in Nat
         /\ d * (a \div d) <= a
         /\ a < d * (a \div d) + d
  OBVIOUS

LEMMA TimesMonotonic ==
  ASSUME NEW x \in Nat, NEW y \in Nat, NEW d \in Nat, x <= y
  PROVE  d * x <= d * y /\ x * d <= y * d
  OBVIOUS

(* The quotient is the only number with these bounds.                      *)
LEMMA QuotientUnique ==
  ASSUME NEW a \in Nat, NEW d \in Nat \ {0}, NEW q \in Nat,
         d * q <= a, a < d * q + d
  PROVE  a \div d = q
<1> DEFINE p == a \div d
<1>1. p \in Nat /\ d * p <= a /\ a < d * p + d
  BY Quotient
<1>2. ASSUME NEW u \in Nat, NEW v \in Nat, d * u <= a, a < d * v + d PROVE ~(v < u)
  <2>1. SUFFICES ASSUME v + 1 <= u PROVE FALSE
    OBVIOUS
  <2>2. d * (v + 1) <= d * u
    BY <2>1, TimesMonotonic
  <2>3. d * (v + 1) = d * v + d
    OBVIOUS
  <2> QED
    BY <1>2, <2>2, <2>3
<1>3. ~(q < p) /\ ~(p < q)
  BY <1>1, <1>2
<1> QED
  BY <1>1, <1>3

(* A larger divisor makes a slower clock.                                  *)
LEMMA QuotientMonotonic ==
  ASSUME NEW a \in Nat, NEW d \in Nat \ {0}, NEW e \in Nat \ {0}, d <= e
  PROVE  a \div e <= a \div d
<1> DEFINE p == a \div d
           q == a \div e
<1>1. p \in Nat /\ q \in Nat /\ e * q <= a /\ a < d * p + d
  BY Quotient
<1>2. d * q <= e * q
  BY <1>1, TimesMonotonic
<1>3. SUFFICES ASSUME p + 1 <= q PROVE FALSE
  BY <1>1
<1>4. d * (p + 1) <= d * q /\ d * (p + 1) = d * p + d
  BY <1>1, <1>3, TimesMonotonic
<1>5. d * p \in Nat /\ d * q \in Nat /\ e * q \in Nat
  BY <1>1
<1> QED
  BY <1>1, <1>2, <1>4, <1>5

(* Clock and divisor multiplied by the same leave the quotient.            *)
LEMMA QuotientScaled ==
  ASSUME NEW a \in Nat, NEW d \in Nat \ {0}, NEW m \in Nat \ {0}
  PROVE  (a * m) \div (d * m) = a \div d
<1> DEFINE q == a \div d
<1>1. q \in Nat /\ d * q <= a /\ a + 1 <= d * q + d
  BY Quotient
<1>2. d * q \in Nat /\ a * m \in Nat /\ d * m \in Nat \ {0}
  BY <1>1
<1>3. (d * q) * m <= a * m /\ (a + 1) * m <= (d * q + d) * m
  BY <1>1, <1>2, TimesMonotonic
<1>4. (d * q) * m = (d * m) * q /\ (d * q + d) * m = (d * m) * q + d * m
  BY <1>1
<1>5. (a + 1) * m = a * m + m
  OBVIOUS
<1>6. (d * m) * q <= a * m /\ a * m < (d * m) * q + d * m
  BY <1>2, <1>3, <1>4, <1>5
<1> QED
  BY <1>1, <1>2, <1>6, QuotientUnique

-----------------------------------------------------------------------------
(* The divisors of version 2.00.                                           *)

(* There is a function as Doubled is defined to be: of the functions that  *)
(* double up to some n there is one for each n, and they agree.            *)
LEMMA DoubledExists ==
  \E f : f = [k \in Nat |-> IF k = 0 THEN 1 ELSE 2 * f[k - 1]]
<1> DEFINE G(n) == {g \in [0 .. n -> Nat] :
                      g[0] = 1 /\ \A k \in 1 .. n : g[k] = 2 * g[k - 1]}
           Some == {n \in Nat : G(n) # {}}
           Agree(m, n) == \A g \in G(m), h \in G(n) : g[m] = h[m]
           Agreed == {m \in Nat : \A n \in Nat : m <= n => Agree(m, n)}
<1>1. Nat \subseteq Some
  <2>1. 0 \in Some
    <3>1. [k \in 0 .. 0 |-> 1] \in G(0)
      OBVIOUS
    <3> QED
      BY <3>1
  <2>2. ASSUME NEW n \in Nat, n \in Some PROVE n + 1 \in Some
    <3>1. PICK g : g \in G(n)
      BY <2>2
    <3>2. /\ g \in [0 .. n -> Nat] /\ g[0] = 1
          /\ \A k \in 1 .. n : g[k] = 2 * g[k - 1]
      BY <3>1
    <3> DEFINE h == [k \in 0 .. n + 1 |-> IF k <= n THEN g[k] ELSE 2 * g[n]]
    <3>3. h \in [0 .. n + 1 -> Nat]
      BY <3>2
    <3>4. h[0] = 1
      BY <3>2
    <3>5. ASSUME NEW k \in 1 .. n + 1 PROVE h[k] = 2 * h[k - 1]
      BY <3>2
    <3> HIDE DEF h
    <3>6. h \in G(n + 1)
      BY <3>3, <3>4, <3>5
    <3> HIDE DEF G
    <3>7. G(n + 1) # {}
      BY <3>6
    <3> QED
      BY <3>7
  <2> HIDE DEF Some
  <2> QED
    BY <2>1, <2>2, Induction
<1>2. Nat \subseteq Agreed
  <2>1. 0 \in Agreed
    OBVIOUS
  <2>2. ASSUME NEW m \in Nat, m \in Agreed PROVE m + 1 \in Agreed
    <3>1. ASSUME NEW n \in Nat, m + 1 <= n, NEW g \in G(m + 1), NEW h \in G(n)
          PROVE  g[m + 1] = h[m + 1]
      <4> DEFINE l == [k \in 0 .. m |-> g[k]]
      <4>1. l \in G(m)
        OBVIOUS
      <4>2. Agree(m, n)
        <5>1. m <= n
          BY <3>1
        <5> HIDE DEF Agree
        <5> QED
          BY <2>2, <5>1
      <4>3. l[m] = h[m]
        <5> HIDE DEF l, G
        <5> QED
          BY <4>1, <4>2
      <4>4. g[m] = h[m]
        BY <4>3
      <4>5. g[m + 1] = 2 * g[m] /\ h[m + 1] = 2 * h[m]
        BY <3>1
      <4> QED
        BY <4>4, <4>5
    <3> HIDE DEF G
    <3>2. \A n \in Nat : m + 1 <= n => Agree(m + 1, n)
      BY <3>1
    <3> QED
      BY <3>2
  <2> HIDE DEF Agreed
  <2> QED
    BY <2>1, <2>2, Induction
<1> DEFINE g(n) == CHOOSE g : g \in G(n)
           f == [n \in Nat |-> g(n)[n]]
<1>3. \A n \in Nat : g(n) \in G(n)
  BY <1>1
<1> HIDE DEF g
<1>4. ASSUME NEW n \in Nat PROVE f[n] = IF n = 0 THEN 1 ELSE 2 * f[n - 1]
  <2>1. CASE n = 0
    BY <1>3, <2>1
  <2>2. CASE n # 0
    <3>1. n - 1 \in Nat /\ n \in 1 .. n
      BY <2>2
    <3>2. g(n)[n] = 2 * g(n)[n - 1]
      BY <1>3, <3>1
    <3>3. Agree(n - 1, n)
      <4> HIDE DEF Agree
      <4> QED
        BY <1>2, <3>1
    <3>4. g(n - 1)[n - 1] = g(n)[n - 1]
      BY <1>3, <3>1, <3>3
    <3> QED
      BY <2>2, <3>1, <3>2, <3>4
  <2> QED
    BY <2>1, <2>2
<1>5. f = [n \in Nat |-> IF n = 0 THEN 1 ELSE 2 * f[n - 1]]
  BY <1>4
<1> HIDE DEF f
<1> QED
  BY <1>5

LEMMA DoubledDef ==
  /\ Doubled[0] = 1
  /\ \A k \in Nat : Doubled[k + 1] = 2 * Doubled[k]
<1> DEFINE D == Doubled
<1>1. D = [k \in Nat |-> IF k = 0 THEN 1 ELSE 2 * D[k - 1]]
  BY DoubledExists DEF Doubled
<1> HIDE DEF D
<1>2. \A k \in Nat : D[k] = IF k = 0 THEN 1 ELSE 2 * D[k - 1]
  BY <1>1
<1>3. D[0] = 1 /\ \A k \in Nat : D[k + 1] = 2 * D[k]
  BY <1>2
<1> QED
  BY <1>3 DEF D

LEMMA DoubledType == \A k \in Nat : Doubled[k] \in Nat \ {0}
<1> DEFINE S == {k \in Nat : Doubled[k] \in Nat \ {0}}
<1>1. 0 \in S /\ \A k \in Nat : k \in S => k + 1 \in S
  BY DoubledDef
<1> HIDE DEF S
<1>2. Nat \subseteq S
  BY <1>1, Induction
<1> QED
  BY <1>2 DEF S

LEMMA DoubledMonotonic ==
  \A i, k \in Nat : Doubled[i] <= Doubled[i + k]
<1> SUFFICES ASSUME NEW i \in Nat
             PROVE  \A k \in Nat : Doubled[i] <= Doubled[i + k]
  OBVIOUS
<1> DEFINE S == {k \in Nat : Doubled[i] <= Doubled[i + k]}
<1>1. 0 \in S
  BY DoubledType
<1>2. ASSUME NEW k \in Nat, k \in S PROVE k + 1 \in S
  <2>1. Doubled[i + (k + 1)] = 2 * Doubled[i + k]
    BY DoubledDef
  <2>2. Doubled[i] \in Nat /\ Doubled[i + k] \in Nat
    BY DoubledType
  <2> QED
    BY <1>2, <2>1, <2>2
<1> HIDE DEF S
<1>3. Nat \subseteq S
  BY <1>1, <1>2, Induction
<1> QED
  BY <1>3 DEF S

-----------------------------------------------------------------------------
(* What sdhci_calc_clk finds.                                              *)

LEMMA MinIs ==
  ASSUME NEW S \in SUBSET Nat, NEW m \in S, \A x \in S : m <= x
  PROVE  Min(S) = m
<1>1. \A n \in S : (\A x \in S : n <= x) => n = m
  OBVIOUS
<1> QED
  BY <1>1 DEF Min

LEMMA MaxIs ==
  ASSUME NEW S \in SUBSET Nat, NEW m \in S, \A x \in S : x <= m
  PROVE  Max(S) = m
<1>1. \A n \in S : (\A x \in S : n >= x) => n = m
  OBVIOUS
<1> QED
  BY <1>1 DEF Max

LEMMA LargerOfOne ==
  ASSUME NEW n \in Nat
  PROVE  Max({1, n}) = IF n = 0 THEN 1 ELSE n
<1>1. CASE n = 0
  BY <1>1, MaxIs
<1>2. CASE n # 0
  BY <1>2, MaxIs
<1> QED
  BY <1>1, <1>2

(* Each of the loops ends at the first divisor that is slow enough.        *)
LEMMA FirstOfIs ==
  ASSUME NEW divs \in SUBSET Nat, NEW end \in Nat, NEW base \in Nat, NEW c \in Nat
  PROVE  LET r == FirstOf(divs, end, base, c)
         IN  /\ (r \in divs /\ base \div r <= c) \/ r = end
             /\ r <= end
             /\ \A d \in divs : base \div d <= c => r <= d
<1> DEFINE S == {d \in divs : base \div d <= c} \cup {end}
<1>1. S \in SUBSET Nat /\ end \in S
  OBVIOUS
<1>2. PICK n \in S : \A m \in S : <<m, n>> \notin OpToRel(<, Nat)
  BY <1>1, NatLessThanWellFounded, WFMin
<1>3. ASSUME NEW m \in S PROVE n <= m
  <2>1. m \in Nat /\ n \in Nat
    BY <1>1
  <2>2. ~(m < n)
    BY <1>2, <2>1 DEF OpToRel
  <2> QED
    BY <2>1, <2>2
<1>4. FirstOf(divs, end, base, c) = n
  <2>1. FirstOf(divs, end, base, c) = Min(S)
    BY DEF FirstOf
  <2> HIDE DEF S
  <2> QED
    BY <1>1, <1>3, <2>1, MinIs
<1> QED
  BY <1>3, <1>4

(* The clocks divisors make of a base, and those of them up to c.          *)
Quotients(base, divs) == {base \div d : d \in divs}
UpTo(clocks, c) == {f \in clocks : f <= c}

(* A set of divisors and its last element.                                 *)
EndsWith(divs, end) ==
  divs \in SUBSET (Nat \ {0}) /\ end \in divs /\ \A d \in divs : d <= end

(* r is the first of the divisors that makes a clock up to c, or, without  *)
(* one, the last of them.                                                  *)
IsFirst(divs, end, base, c, r) ==
  /\ r \in divs
  /\ base \div r <= c \/ r = end
  /\ \A d \in divs : base \div d <= c => r <= d

(* The first divisor that is slow enough makes the fastest clock that is   *)
(* not above the one asked for, or the slowest of all.                     *)
LEMMA FirstIsBest ==
  ASSUME NEW D, NEW end, EndsWith(D, end),
         NEW base \in Nat, NEW c \in Nat, NEW r, IsFirst(D, end, base, c, r)
  PROVE  LET clocks == Quotients(base, D)
             slower == UpTo(clocks, c)
         IN  /\ base \div r <= c => base \div r \in slower
                                    /\ Max(slower) = base \div r
             /\ base \div r > c => slower = {} /\ Min(clocks) = base \div r
<1> DEFINE clocks == Quotients(base, D)
           slower == UpTo(clocks, c)
<1> USE DEF Quotients, UpTo, EndsWith, IsFirst
<1>1. clocks \subseteq Nat /\ slower \subseteq Nat /\ base \div r \in clocks
  BY Quotient
<1>2. CASE base \div r <= c
  <2>1. base \div r \in slower
    BY <1>2
  <2>2. ASSUME NEW f \in slower PROVE f <= base \div r
    BY QuotientMonotonic
  <2> HIDE DEF slower
  <2>3. Max(slower) = base \div r
    BY <1>1, <2>1, <2>2, MaxIs
  <2> QED
    BY <1>1, <1>2, <2>1, <2>3 DEF slower
<1>3. CASE base \div r > c
  <2>1. r = end
    BY <1>1, <1>3
  <2>2. ASSUME NEW d \in D, base \div d <= c PROVE FALSE
    <3>1. d = r
      BY <2>1, <2>2
    <3> QED
      BY <1>1, <1>3, <2>2, <3>1
  <2>3. slower = {}
    BY <2>2
  <2>4. \A f \in clocks : base \div r <= f
    BY <2>1, QuotientMonotonic
  <2>5. Min(clocks) = base \div r
    <3> HIDE DEF clocks
    <3> QED
      BY <1>1, <2>4, MinIs
  <2> QED
    BY <1>1, <1>3, <2>3, <2>5
<1> QED
  BY <1>1, <1>2, <1>3

LEMMA FieldsType ==
  /\ Fields \in Nat /\ Fields >= 4
         /\ MaxDiv200 \in Nat /\ 2 * MaxDiv200 <= Fields
<1> DEFINE D == Doubled
<1>1. LowBits \in Nat \ {0} /\ HighBits \in Nat \ {0}
  BY ClockAssumption
<1>2. D[LowBits] \in Nat /\ D[LowBits + 1] \in Nat /\ D[LowBits + HighBits] \in Nat
  BY <1>1, DoubledType
<1>3. D[LowBits + 1] = 2 * D[LowBits]
  BY <1>1, DoubledDef
<1>4. D[LowBits + 1] <= D[(LowBits + 1) + (HighBits - 1)]
  <2>1. LowBits + 1 \in Nat /\ HighBits - 1 \in Nat
    BY <1>1
  <2> QED
    BY ONLY <2>1, DoubledMonotonic
<1>5. D[1] <= D[1 + (LowBits - 1)]
  BY <1>1, DoubledMonotonic
<1>6. D[1] = 2
  BY DoubledDef
<1>7. (LowBits + 1) + (HighBits - 1) = LowBits + HighBits /\ 1 + (LowBits - 1) = LowBits
  BY <1>1
<1>8. D[LowBits] >= 2
  BY <1>2, <1>5, <1>6, <1>7
<1>9. 2 * D[LowBits] <= D[LowBits + HighBits]
  BY <1>2, <1>3, <1>4, <1>7
<1> QED
  BY <1>2, <1>8, <1>9 DEF Fields, MaxDiv200

(* The divisors of the base clock that have a place in the register.       *)
BaseDivisors(h) ==
  IF h.spec300 THEN {1} \cup {2 * k : k \in 1 .. Fields - 1}
               ELSE {Doubled[k] : k \in 0 .. LowBits}
LastDivisor(h) == IF h.spec300 THEN MaxDiv300 ELSE MaxDiv200

LEMMA BaseDivisorsType ==
  ASSUME NEW h \in HostType
  PROVE  /\ BaseDivisors(h) \in SUBSET (Nat \ {0})
         /\ LastDivisor(h) \in BaseDivisors(h)
         /\ \A d \in BaseDivisors(h) : d <= LastDivisor(h)
<1>1. h.spec300 \in BOOLEAN /\ LowBits \in Nat \ {0}
  BY ClockAssumption DEF HostType
<1>2. CASE h.spec300
  BY <1>2, FieldsType DEF BaseDivisors, LastDivisor, MaxDiv300
<1>3. CASE ~h.spec300
  <2>1. \A k \in 0 .. LowBits : Doubled[k] <= Doubled[LowBits]
    <3>1. SUFFICES ASSUME NEW k \in 0 .. LowBits
                   PROVE  Doubled[k] <= Doubled[LowBits]
      OBVIOUS
    <3>2. k \in Nat /\ LowBits - k \in Nat /\ k + (LowBits - k) = LowBits
      BY <1>1
    <3> QED
      BY <3>2, DoubledMonotonic
  <2>2. \A k \in 0 .. LowBits : Doubled[k] \in Nat \ {0}
    BY <1>1, DoubledType
  <2>3. LowBits \in 0 .. LowBits
    BY <1>1
  <2> QED
    BY <1>3, <2>1, <2>2, <2>3 DEF BaseDivisors, LastDivisor, MaxDiv200
<1> QED
  BY <1>1, <1>2, <1>3

LEMMA MadeFromBase ==
  ASSUME NEW h \in HostType, NEW k \in Nat
  PROVE  Made(h, FALSE, k) = h.max_clk \div (IF k = 0 THEN 1 ELSE 2 * k)
<1>1. Max({1, 2 * k}) = IF k = 0 THEN 1 ELSE 2 * k
  BY LargerOfOne
<1> QED
  BY <1>1 DEF Made

LEMMA HalfOfDouble ==
  ASSUME NEW k \in Nat
  PROVE  (2 * k) \div 2 = k /\ 1 \div 2 = 0
  OBVIOUS

(* A divisor of the base clock, halved into the register, makes the clock  *)
(* it stands for, and fits there.                                          *)
LEMMA HalfMakes ==
  ASSUME NEW h \in HostType, NEW d \in BaseDivisors(h)
  PROVE  /\ d \div 2 \in 0 .. Fields - 1
         /\ Made(h, FALSE, d \div 2) = h.max_clk \div d
         /\ d \div 2 = 0 <=> d = 1
<1>1. h.spec300 \in BOOLEAN /\ LowBits \in Nat \ {0}
  BY ClockAssumption DEF HostType
<1>2. d = 1 \/ \E k \in 1 .. Fields - 1 : d = 2 * k
  <2>1. CASE h.spec300
    BY <2>1 DEF BaseDivisors
  <2>2. CASE ~h.spec300
    <3>1. PICK j \in 0 .. LowBits : d = Doubled[j]
      BY <2>2 DEF BaseDivisors
    <3>2. CASE j = 0
      BY <3>1, <3>2, DoubledDef
    <3>3. CASE j # 0
      <4>1. j - 1 \in Nat /\ (j - 1) + 1 = j
        BY <1>1, <3>3
      <4>2. d = 2 * Doubled[j - 1] /\ Doubled[j - 1] \in Nat \ {0}
        BY <3>1, <4>1, DoubledDef, DoubledType
      <4>3. d <= MaxDiv200
        BY <2>2, BaseDivisorsType DEF LastDivisor
      <4> QED
        BY <4>2, <4>3, FieldsType
    <3> QED
      BY <3>2, <3>3
  <2> QED
    BY <1>1, <2>1, <2>2
<1>3. Fields \in Nat /\ Fields >= 4
  BY FieldsType
<1>4. CASE d = 1
  <2>1. Made(h, FALSE, 0) = h.max_clk \div 1
    BY MadeFromBase
  <2>2. d \div 2 = 0
    BY <1>4, HalfOfDouble
  <2>3. 0 \in 0 .. Fields - 1
    BY <1>3
  <2> QED
    BY ONLY <1>4, <2>1, <2>2, <2>3
<1>5. ASSUME NEW k \in 1 .. Fields - 1, d = 2 * k
      PROVE  /\ d \div 2 \in 0 .. Fields - 1
             /\ Made(h, FALSE, d \div 2) = h.max_clk \div d
             /\ d \div 2 = 0 <=> d = 1
  <2>1. k \in Nat /\ k # 0 /\ d # 1
    BY <1>3, <1>5
  <2>2. Made(h, FALSE, k) = h.max_clk \div d
    BY <1>5, <2>1, MadeFromBase
  <2>3. d \div 2 = k
    BY <1>5, <2>1, HalfOfDouble
  <2>4. k \in 0 .. Fields - 1
    BY <1>3
  <2> QED
    BY ONLY <2>1, <2>2, <2>3, <2>4
<1> QED
  BY <1>2, <1>4, <1>5

LEMMA BaseClocksAre ==
  ASSUME NEW h \in HostType
  PROVE  BaseClocks(h) = Quotients(h.max_clk, BaseDivisors(h))
<1> DEFINE Places == IF h.spec300 THEN 0 .. Fields - 1
                     ELSE {0} \cup {Doubled[k] : k \in 0 .. LowBits - 1}
<1>1. h.spec300 \in BOOLEAN /\ LowBits \in Nat \ {0}
  BY ClockAssumption DEF HostType
<1>2. \A d \in BaseDivisors(h) : d \div 2 \in Places
  <2>1. CASE h.spec300
    BY <2>1, HalfMakes
  <2>2. CASE ~h.spec300
    <3>1. SUFFICES ASSUME NEW j \in 0 .. LowBits
                   PROVE  Doubled[j] \div 2 \in Places
      BY <2>2 DEF BaseDivisors
    <3>2. CASE j = 0
      BY <2>2, <3>2, DoubledDef, HalfOfDouble
    <3>3. CASE j # 0
      <4>1. j - 1 \in 0 .. LowBits - 1 /\ (j - 1) + 1 = j
        BY <1>1, <3>3
      <4>2. Doubled[j] \div 2 = Doubled[j - 1]
        BY <4>1, DoubledDef, DoubledType, HalfOfDouble
      <4> QED
        BY <2>2, <4>1, <4>2
    <3> QED
      BY <3>2, <3>3
  <2> QED
    BY <1>1, <2>1, <2>2
<1>3. \A p \in Places : \E d \in BaseDivisors(h) : p = d \div 2
  <2>1. CASE h.spec300
    <3>1. ASSUME NEW p \in 0 .. Fields - 1, p # 0
          PROVE  2 * p \in BaseDivisors(h) /\ p = (2 * p) \div 2
      BY <2>1, <3>1, FieldsType, HalfOfDouble DEF BaseDivisors
    <3>2. 1 \in BaseDivisors(h) /\ 0 = 1 \div 2
      BY <2>1, HalfOfDouble DEF BaseDivisors
    <3> QED
      BY <2>1, <3>1, <3>2
  <2>2. CASE ~h.spec300
    <3>1. ASSUME NEW k \in 0 .. LowBits - 1
          PROVE  /\ Doubled[k + 1] \in BaseDivisors(h)
                 /\ Doubled[k] = Doubled[k + 1] \div 2
      <4>1. k + 1 \in 0 .. LowBits /\ k \in Nat
        BY <1>1
      <4>2. Doubled[k + 1] = 2 * Doubled[k] /\ Doubled[k] \in Nat
        BY <4>1, DoubledDef, DoubledType
      <4> QED
        BY <2>2, <4>1, <4>2, HalfOfDouble DEF BaseDivisors
    <3>2. 1 \in BaseDivisors(h) /\ 0 = 1 \div 2
      BY <1>1, <2>2, DoubledDef, HalfOfDouble DEF BaseDivisors
    <3> QED
      BY <2>2, <3>1, <3>2
  <2> QED
    BY <1>1, <2>1, <2>2
<1>4. BaseClocks(h) = {Made(h, FALSE, p) : p \in Places}
  BY DEF BaseClocks
<1> HIDE DEF Places
<1>5. ASSUME NEW d \in BaseDivisors(h)
      PROVE  \E p \in Places : h.max_clk \div d = Made(h, FALSE, p)
  BY <1>2, HalfMakes
<1>6. ASSUME NEW p \in Places
      PROVE  \E d \in BaseDivisors(h) : Made(h, FALSE, p) = h.max_clk \div d
  <2>1. PICK d \in BaseDivisors(h) : p = d \div 2
    BY <1>3
  <2>2. Made(h, FALSE, d \div 2) = h.max_clk \div d
    BY HalfMakes
  <2> QED
    BY <2>1, <2>2
<1> QED
  BY <1>4, <1>5, <1>6 DEF Quotients

-----------------------------------------------------------------------------
(* The setting of the fastest base clock that is not above c, or of the    *)
(* slowest one.                                                            *)
Avoids(h) == h.spec300 /\ h.zeroBroken /\ h.max_clk <= Slow

IsFirstBase(h, c, r) ==
  IsFirst(BaseDivisors(h), LastDivisor(h), h.max_clk, c, r)

BestBase(h, c, s) ==
  /\ s.prog = FALSE
  /\ \E r \in BaseDivisors(h) :
       /\ IsFirstBase(h, c, r)
       /\ s.actual = h.max_clk \div r
       /\ s.div = IF r = 1 /\ Avoids(h) THEN 1 ELSE r \div 2

LEMMA MaskedHalf ==
  ASSUME NEW h \in HostType, NEW r \in BaseDivisors(h)
  PROVE  (r \div 2) % Fields = r \div 2 /\ 1 % Fields = 1
<1> DEFINE e == r \div 2
<1>1. e \in 0 .. Fields - 1
  BY HalfMakes
<1> HIDE DEF e
<1>2. e % Fields = e /\ 1 % Fields = 1
  BY <1>1, FieldsType
<1> QED
  BY <1>2 DEF e

LEMMA BaseClockIsBest ==
  ASSUME NEW h \in HostType, h.spec300, NEW c \in Nat
  PROVE  BestBase(h, c, BaseClock(h, c))
<1> DEFINE evens == {2 * k : k \in 1 .. Fields - 2}
           r == IF h.max_clk <= c THEN 1
                ELSE FirstOf(evens, MaxDiv300, h.max_clk, c)
           broken == h.zeroBroken /\ r = 1 /\ h.max_clk <= Slow
           s == BaseClock(h, c)
<1>1. /\ h.max_clk \in Nat \ {0}
      /\ Fields \in Nat /\ Fields >= 4
  BY FieldsType DEF HostType
<1>2. BaseDivisors(h) = {1} \cup evens \cup {MaxDiv300}
  BY <1>1 DEF BaseDivisors, MaxDiv300
<1>3. IsFirstBase(h, c, r) /\ (r = 1 <=> h.max_clk <= c)
  <2>1. CASE h.max_clk <= c
    <3>1. h.max_clk \div 1 <= c
      BY <1>1, <2>1
    <3>2. \A d \in BaseDivisors(h) : 1 <= d
      BY BaseDivisorsType
    <3> QED
      BY <1>2, <2>1, <3>1, <3>2 DEF IsFirst, IsFirstBase
  <2>2. CASE ~(h.max_clk <= c)
    <3>1. evens \in SUBSET Nat /\ MaxDiv300 \in Nat /\ MaxDiv300 # 1
      BY <1>1 DEF MaxDiv300
    <3>2. /\ (r \in evens /\ h.max_clk \div r <= c) \/ r = MaxDiv300
          /\ r <= MaxDiv300
          /\ \A d \in evens : h.max_clk \div d <= c => r <= d
      <4> HIDE DEF evens
      <4> QED
        BY <1>1, <2>2, <3>1, FirstOfIs
    <3>3. ~(h.max_clk \div 1 <= c)
      BY <1>1, <2>2
    <3>4. r # 1
      BY <3>1, <3>2, <3>3
    <3> HIDE DEF evens, r
    <3> QED
      BY <1>2, <2>2, <3>2, <3>3, <3>4 DEF IsFirst, IsFirstBase, LastDivisor
  <2> QED
    BY <2>1, <2>2
<1>4. s = Setting(FALSE, IF broken THEN 1 ELSE r \div 2, h.max_clk, r)
  BY DEF BaseClock
<1> HIDE DEF evens, r, s
<1>5. r \in BaseDivisors(h)
  BY <1>3 DEF IsFirst, IsFirstBase
<1>6. broken <=> r = 1 /\ Avoids(h)
  BY DEF Avoids
<1>7. s.div = IF broken THEN 1 ELSE r \div 2
  BY <1>4, <1>5, MaskedHalf DEF Setting
<1>8. s.prog = FALSE /\ s.actual = h.max_clk \div r
  BY <1>4 DEF Setting
<1> HIDE DEF broken
<1> QED
  BY <1>3, <1>5, <1>6, <1>7, <1>8 DEF BestBase, s

LEMMA PowerClockIsBest ==
  ASSUME NEW h \in HostType, ~h.spec300, NEW c \in Nat
  PROVE  BestBase(h, c, PowerClock(h, c))
<1> DEFINE powers == {Doubled[k] : k \in 0 .. LowBits - 1}
           r == FirstOf(powers, MaxDiv200, h.max_clk, c)
           s == PowerClock(h, c)
<1>1. h.max_clk \in Nat \ {0} /\ LowBits \in Nat \ {0} /\ MaxDiv200 \in Nat
  BY FieldsType, ClockAssumption DEF HostType
<1>2. BaseDivisors(h) = powers \cup {MaxDiv200}
  <2>1. 0 .. LowBits = (0 .. LowBits - 1) \cup {LowBits}
    BY <1>1
  <2> QED
    BY <2>1 DEF BaseDivisors, MaxDiv200
<1>3. powers \in SUBSET Nat
  BY <1>1, DoubledType
<1> HIDE DEF powers
<1>4. /\ (r \in powers /\ h.max_clk \div r <= c) \/ r = MaxDiv200
      /\ r <= MaxDiv200
      /\ \A d \in powers : h.max_clk \div d <= c => r <= d
  BY <1>1, <1>3, FirstOfIs
<1>5. s = Setting(FALSE, r \div 2, h.max_clk, r)
  BY DEF PowerClock, powers
<1> HIDE DEF r, s
<1>6. IsFirstBase(h, c, r) /\ r \in BaseDivisors(h)
  BY <1>2, <1>4 DEF IsFirst, IsFirstBase, LastDivisor
<1>7. s.div = r \div 2
  BY <1>5, <1>6, MaskedHalf DEF Setting
<1>8. s.prog = FALSE /\ s.actual = h.max_clk \div r
  BY <1>5 DEF Setting
<1>9. ~Avoids(h)
  BY DEF Avoids
<1> QED
  BY <1>6, <1>7, <1>8, <1>9 DEF BestBase, s

(* The multiplied clock, where it fits a word: the divisor that ends the   *)
(* loop, if it reaches the request outside the gap, and none otherwise.    *)
Multiplied(h) == h.max_clk * h.mul

LEMMA ProgDivisorIs ==
  ASSUME NEW h \in HostType, Multiplied(h) < Word,
         NEW c \in Nat,
         ~(/\ Multiplied(h) \div Fields > c
           /\ Multiplied(h) \div (Fields + 1) <= c)
  PROVE  LET r == ProgDivisor(h, c)
         IN  IF ProgReaches(h, c)
             THEN /\ r \in 1 .. Fields
                  /\ Multiplied(h) \div r <= c
                  /\ \A d \in 1 .. Fields : Multiplied(h) \div d <= c => r <= d
             ELSE \A d \in 1 .. Fields : ~(Multiplied(h) \div d <= c)
<1> DEFINE r == ProgDivisor(h, c)
           F == Fields
           P == Multiplied(h)
<1>1. F \in Nat /\ F >= 4 /\ Word \in Nat
  BY FieldsType, ClockAssumption
<1>2. P \in Nat
  BY DEF Multiplied, HostType
<1>3. Product(h) = P
  <2> HIDE DEF P
  <2>1. P % Word = P
    BY <1>1, <1>2 DEF P
  <2> QED
    BY <2>1 DEF P, Product, Multiplied
<1>4. /\ (r \in 1 .. F /\ P \div r <= c) \/ r = F + 1
      /\ r <= F + 1
      /\ \A d \in 1 .. F : P \div d <= c => r <= d
  <2>1. r = FirstOf(1 .. F, F + 1, P, c)
    BY <1>3 DEF ProgDivisor
  <2>2. 1 .. F \in SUBSET Nat /\ F + 1 \in Nat
    BY <1>1
  <2> HIDE DEF r, P, F
  <2> QED
    BY <1>2, <2>1, <2>2, FirstOfIs
<1>5. ProgReaches(h, c) <=> P \div r <= c
  BY <1>3 DEF ProgReaches
<1>6. ~(P \div F > c /\ P \div (F + 1) <= c)
  OBVIOUS
<1>7. P \div F \in Nat /\ F \in 1 .. F
  BY <1>1, <1>2, Quotient
<1> HIDE DEF r, P, F
<1>8. CASE P \div r <= c
  <2>1. r # F + 1
    <3>1. SUFFICES ASSUME r = F + 1 PROVE FALSE
      OBVIOUS
    <3>2. P \div F <= c
      BY <1>6, <1>7, <1>8, <3>1
    <3> QED
      BY <1>1, <1>4, <1>7, <3>1, <3>2
  <2> QED
    BY <1>4, <1>5, <1>8, <2>1 DEF r, P, F
<1>9. CASE ~(P \div r <= c)
  <2>1. r = F + 1
    BY <1>4, <1>9
  <2>2. ASSUME NEW d \in 1 .. F, P \div d <= c PROVE FALSE
    BY <1>1, <1>4, <2>1, <2>2
  <2> QED
    BY <1>5, <1>9, <2>2 DEF r, P, F
<1> QED
  BY <1>8, <1>9

-----------------------------------------------------------------------------
(* From a setting of sdhci_calc_clk on, the register and the reported      *)
(* clock hold that setting, until the clock is stopped.                    *)
ClockInv ==
  /\ host \in HostType /\ clock \in Nat
  /\ preset \in [used : BOOLEAN, div : 0 .. Fields - 1, prog : BOOLEAN]
  /\ pc = "calc" => ~reg.card
  /\ LET s == sdhci_calc_clk(host, clock)
     IN  /\ pc = "wait" => /\ reg = [prog |-> s.prog, div |-> s.div, card |-> FALSE]
                           /\ actual = s.actual
         /\ reg.card => /\ reg = [prog |-> s.prog, div |-> s.div, card |-> TRUE]
                        /\ actual = s.actual

LEMMA ClockStart ==
  ASSUME ClockInit
  PROVE  ClockInv
<1>1. 0 \in 0 .. Fields - 1
  BY FieldsType
<1> QED
  BY <1>1, ClockAssumption DEF ClockInit, ClockInv, Off, NoPreset

LEMMA ClockStep ==
  ASSUME ClockInv, [ClockNext]_(clockVars)
  PROVE  ClockInv'
<1> USE DEF ClockInv, sdhci_calc_clk, PresetClock
<1>1. ASSUME NEW c \in Clocks, SetClock(c) PROVE ClockInv'
  <2>1. c \in Nat
    BY ClockAssumption
  <2> QED
    BY <1>1, <2>1 DEF SetClock, Off
<1>2. CASE Calculate
  BY <1>2 DEF Calculate
<1>3. CASE Stable
  <2> DEFINE s == sdhci_calc_clk(host, clock)
  <2>1. s' = s
    BY <1>3 DEF Stable
  <2>2. reg' = [prog |-> s.prog, div |-> s.div, card |-> TRUE] /\ actual' = s.actual
    <3>1. reg = [prog |-> s.prog, div |-> s.div, card |-> FALSE] /\ actual = s.actual
      <4> HIDE DEF sdhci_calc_clk, PresetClock
      <4> QED
        BY <1>3 DEF Stable
    <3>2. reg' = [reg EXCEPT !.card = TRUE] /\ actual' = actual
      BY <1>3 DEF Stable
    <3> HIDE DEF s
    <3> QED
      BY ONLY <3>1, <3>2
  <2> QED
    BY <1>3, <2>1, <2>2 DEF Stable
<1>4. CASE NeverStable
  BY <1>4 DEF NeverStable
<1>5. CASE ResetAll
  <2>1. 0 \in 0 .. Fields - 1
    BY FieldsType
  <2> QED
    BY <1>5, <2>1 DEF ResetAll, Off, NoPreset
<1>6. ASSUME NEW div \in 0 .. Fields - 1, NEW prog \in BOOLEAN,
             UsePreset(div, prog)
      PROVE  ClockInv'
  BY <1>6 DEF UsePreset
<1>7. CASE UNCHANGED clockVars
  BY <1>7 DEF clockVars
<1> QED
  BY <1>1, <1>2, <1>3, <1>4, <1>5, <1>6, <1>7 DEF ClockNext

LEMMA ClockInvariance ==
  ClockSpec => []ClockInv
  BY ClockStart, ClockStep, PTL DEF ClockSpec

(* A base clock for the request makes what BestClock asks for, provided no *)
(* multiplied clock does as well.                                          *)
LEMMA BestBaseMakes ==
  ASSUME NEW h \in HostType, NEW c \in Nat, NEW s,
         BestBase(h, c, s)
  PROVE  LET clocks == BaseClocks(h)
             slower == UpTo(clocks, c)
             best   == IF slower = {} THEN Min(clocks) ELSE Max(slower)
         IN  /\ s.actual = best
             /\ IF Avoids(h) /\ best = h.max_clk THEN s.div = 1
                ELSE Made(h, FALSE, s.div) = best
<1>1. PICK r \in BaseDivisors(h) :
             /\ IsFirstBase(h, c, r)
             /\ s.actual = h.max_clk \div r
             /\ s.div = IF r = 1 /\ Avoids(h) THEN 1 ELSE r \div 2
  BY DEF BestBase
<1> DEFINE clocks == BaseClocks(h)
           slower == UpTo(clocks, c)
           best   == IF slower = {} THEN Min(clocks) ELSE Max(slower)
           e      == h.max_clk \div r
<1>2. h.max_clk \in Nat \ {0} /\ r \in Nat \ {0} /\ e \in Nat
  BY BaseDivisorsType, Quotient DEF HostType
<1>3. best = e
  <2> DEFINE all == Quotients(h.max_clk, BaseDivisors(h))
             below == UpTo(all, c)
  <2>1. /\ e <= c => e \in below /\ Max(below) = e
        /\ e > c => below = {} /\ Min(all) = e
    <3>1. EndsWith(BaseDivisors(h), LastDivisor(h))
      BY BaseDivisorsType DEF EndsWith
    <3>2. IsFirst(BaseDivisors(h), LastDivisor(h), h.max_clk, c, r) /\ h.max_clk \in Nat
      BY <1>1, <1>2 DEF IsFirstBase
    <3> HIDE DEF all, below, e
    <3>3. LET made == h.max_clk \div r
              bases == Quotients(h.max_clk, BaseDivisors(h))
              slow == UpTo(bases, c)
          IN  /\ made <= c => made \in slow /\ Max(slow) = made
              /\ made > c => slow = {} /\ Min(bases) = made
      BY ONLY c \in Nat, <3>1, <3>2, FirstIsBest
    <3> QED
      BY <3>3 DEF all, below, e
  <2>2. all = clocks
    BY BaseClocksAre
  <2> HIDE DEF all, clocks, e
  <2>3. CASE e <= c
    BY <2>1, <2>2, <2>3
  <2>4. CASE e > c
    BY <2>1, <2>2, <2>4
  <2> QED
    BY <1>2, <2>3, <2>4
<1>4. e = h.max_clk <=> r = 1
  <2>1. CASE r = 1
    BY <1>2, <2>1
  <2>2. CASE r # 1
    <3>1. r * e <= h.max_clk
      BY <1>2, Quotient
    <3>2. 2 * e <= r * e
      BY <1>2, <2>2, TimesMonotonic
    <3> HIDE DEF e
    <3> QED
      BY <1>2, <2>2, <3>1, <3>2
  <2> QED
    BY <2>1, <2>2
<1>5. Made(h, FALSE, r \div 2) = e
  BY HalfMakes
<1> HIDE DEF best, e
<1> QED
  BY <1>1, <1>3, <1>4, <1>5 DEF best, e

(* Which setting it is without a preset.                                   *)
LEMMA WithoutPreset ==
  ASSUME ClockInv, ~preset.used
  PROVE  LET s == sdhci_calc_clk(host, clock)
             prog == host.spec300 /\ host.mul > 0 /\ ProgReaches(host, clock)
         IN  IF prog THEN s = ProgClock(host, clock)
             ELSE BestBase(host, clock, s)
<1>1. host \in HostType /\ clock \in Nat /\ host.spec300 \in BOOLEAN
  BY DEF ClockInv, HostType
<1>2. CASE ~host.spec300
  BY <1>1, <1>2, PowerClockIsBest DEF sdhci_calc_clk
<1>3. CASE host.spec300
  BY <1>1, <1>3, BaseClockIsBest DEF sdhci_calc_clk
<1> QED
  BY <1>1, <1>2, <1>3

(* The multiplied clock: its setting, and the clock it makes.              *)
LEMMA ProgMakes ==
  ASSUME NEW h \in HostType, NEW c \in Nat,
         Multiplied(h) < Word, NEW r \in 1 .. Fields,
         r = ProgDivisor(h, c)
  PROVE  LET s == ProgClock(h, c)
         IN  /\ s.prog = TRUE /\ s.div = r - 1
             /\ s.actual = Multiplied(h) \div r
             /\ Made(h, TRUE, s.div) = Multiplied(h) \div r
<1>1. Fields \in Nat /\ Fields >= 4 /\ Word \in Nat
  BY FieldsType, ClockAssumption
<1>2. Multiplied(h) \in Nat
  BY DEF Multiplied, HostType
<1>3. Multiplied(h) % Word = Multiplied(h)
  BY <1>1, <1>2
<1>4. Product(h) = Multiplied(h)
  BY <1>3 DEF Product, Multiplied
<1>5. (r - 1) % Fields = r - 1 /\ (r - 1) + 1 = r
  BY <1>1
<1>6. ProgClock(h, c) = Setting(TRUE, r - 1, Multiplied(h), r)
  BY <1>4 DEF ProgClock
<1>7. Made(h, TRUE, r - 1) = Multiplied(h) \div r
  BY <1>5 DEF Made, Multiplied
<1>8. /\ ProgClock(h, c).prog = TRUE /\ ProgClock(h, c).div = r - 1
      /\ ProgClock(h, c).actual = Multiplied(h) \div r
  BY <1>5, <1>6 DEF Setting
<1> QED
  BY ONLY <1>7, <1>8

(* The first multiplied clock that is slow enough is the best of all: a    *)
(* base clock is a multiplied one, or slower than each of them.            *)
LEMMA ProgIsBest ==
  ASSUME NEW h \in HostType, NEW c \in Nat,
         h.spec300, h.mul > 0, NEW r \in 1 .. Fields,
         Multiplied(h) \div r <= c,
         \A d \in 1 .. Fields : Multiplied(h) \div d <= c => r <= d
  PROVE  LET slower == UpTo(BaseClocks(h) \cup ProgClocks(h), c)
         IN  slower # {} /\ Max(slower) = Multiplied(h) \div r
<1> DEFINE F == Fields
           P == Multiplied(h)
           slower == UpTo(BaseClocks(h) \cup ProgClocks(h), c)
<1>1. F \in Nat /\ F >= 4 /\ h.max_clk \in Nat \ {0} /\ h.mul \in Nat \ {0}
  BY FieldsType DEF HostType
<1>2. P \in Nat /\ P = h.max_clk * h.mul
  BY <1>1 DEF Multiplied
<1>3. ProgClocks(h) = {P \div (d + 1) : d \in 0 .. F - 1}
  BY DEF ProgClocks, Made, Multiplied
<1>4. BaseClocks(h) = {h.max_clk \div d : d \in BaseDivisors(h)}
  BY BaseClocksAre DEF Quotients
<1>5. BaseDivisors(h) \in SUBSET (Nat \ {0})
  BY BaseDivisorsType
<1> HIDE DEF F, P
<1>6. slower \in SUBSET Nat
  <2>1. \A d \in 0 .. F - 1 : P \div (d + 1) \in Nat
    BY <1>1, <1>2, Quotient
  <2>2. \A d \in BaseDivisors(h) : h.max_clk \div d \in Nat
    BY <1>1, <1>5, Quotient
  <2> QED
    BY <1>3, <1>4, <2>1, <2>2 DEF UpTo
<1>7. P \div r \in slower
  <2>1. r - 1 \in 0 .. F - 1 /\ (r - 1) + 1 = r
    BY <1>1 DEF F
  <2>2. P \div r \in ProgClocks(h)
    BY <1>3, <2>1
  <2> QED
    BY <2>2 DEF P, UpTo
<1>8. ASSUME NEW d \in 1 .. F, P \div d <= c PROVE P \div d <= P \div r
  <2>1. r <= d
    BY <1>8 DEF F, P
  <2> QED
    BY <1>1, <1>2, <2>1, QuotientMonotonic DEF F
<1>9. ASSUME NEW d \in BaseDivisors(h), h.max_clk \div d <= c
      PROVE  h.max_clk \div d <= P \div r
  <2> DEFINE e == d * h.mul
  <2>1. d \in Nat \ {0} /\ e \in Nat \ {0}
    BY <1>1, <1>5
  <2>2. h.max_clk \div d = P \div e
    BY <1>1, <1>2, <2>1, QuotientScaled
  <2> HIDE DEF e
  <2>3. CASE e <= F
    BY <1>1, <1>8, <1>9, <2>1, <2>2, <2>3
  <2>4. CASE e > F
    <3>1. r \in Nat \ {0} /\ r <= e
      BY <1>1, <2>1, <2>4 DEF F
    <3> QED
      BY <1>2, <2>1, <2>2, <3>1, QuotientMonotonic
  <2> QED
    BY <1>1, <2>1, <2>3, <2>4
<1>10. ASSUME NEW f \in slower PROVE f <= P \div r
  <2>1. CASE f \in BaseClocks(h)
    BY <1>4, <1>9, <2>1 DEF UpTo
  <2>2. CASE f \in ProgClocks(h)
    <3>1. PICK d \in 0 .. F - 1 : f = P \div (d + 1)
      BY <1>3, <2>2
    <3>2. d + 1 \in 1 .. F
      BY <1>1
    <3>3. P \div (d + 1) <= c
      BY <3>1 DEF UpTo
    <3> QED
      BY <1>8, <3>1, <3>2, <3>3
  <2> QED
    BY <2>1, <2>2 DEF UpTo
<1> HIDE DEF slower
<1>11. slower # {} /\ Max(slower) = P \div r
  BY <1>6, <1>7, <1>10, MaxIs
<1> QED
  BY <1>11 DEF slower, P

LEMMA BestFromInv ==
  ASSUME ClockInv
  PROVE  BestClock
<1> SUFFICES ASSUME reg.card, ~preset.used, Fits, ~InGap
             PROVE  LET slower == {f \in BaseClocks(host) \cup
                                        ProgClocks(host) : f <= clock}
                        best == IF slower = {} THEN Min(BaseClocks(host))
                                ELSE Max(slower)
                    IN  IF ZeroAvoided /\ ~reg.prog /\ best = host.max_clk
                        THEN reg.div = 1 ELSE Driven = best
  BY DEF BestClock
<1> DEFINE s == sdhci_calc_clk(host, clock)
           both == BaseClocks(host) \cup ProgClocks(host)
           slower == {f \in both : f <= clock}
           best == IF slower = {} THEN Min(BaseClocks(host))
                   ELSE Max(slower)
           prog == host.spec300 /\ host.mul > 0 /\ ProgReaches(host, clock)
<1>1. host \in HostType /\ clock \in Nat
  BY DEF ClockInv
<1>2. reg.prog = s.prog /\ reg.div = s.div
  <2>1. reg = [prog |-> s.prog, div |-> s.div, card |-> TRUE]
    BY DEF ClockInv
  <2> HIDE DEF s
  <2> QED
    BY <2>1
<1>3. Multiplied(host) < Word
  BY DEF Fits, Multiplied
<1>4. ASSUME host.spec300, host.mul > 0
      PROVE  ~(/\ Multiplied(host) \div Fields > clock
               /\ Multiplied(host) \div (Fields + 1) <= clock)
  <2>1. Multiplied(host) % Word = Multiplied(host)
    BY <1>1, <1>3, ClockAssumption DEF Multiplied, HostType
  <2> QED
    BY <1>4, <2>1 DEF InGap, Product, Multiplied
<1>5. slower = UpTo(both, clock)
  BY DEF UpTo
<1>6. CASE prog
  <2> DEFINE r == ProgDivisor(host, clock)
  <2>1. /\ r \in 1 .. Fields /\ Multiplied(host) \div r <= clock
        /\ \A d \in 1 .. Fields : Multiplied(host) \div d <= clock => r <= d
    BY <1>1, <1>3, <1>4, <1>6, ProgDivisorIs
  <2>2. s = ProgClock(host, clock)
    BY <1>6, WithoutPreset
  <2> HIDE DEF r, s
  <2>3. /\ s.prog = TRUE
        /\ Made(host, TRUE, s.div) = Multiplied(host) \div r
    BY <1>1, <1>3, <2>1, <2>2, ProgMakes DEF r
  <2>4. slower # {} /\ Max(slower) = Multiplied(host) \div r
    BY <1>1, <1>5, <1>6, <2>1, ProgIsBest
  <2>5. Driven = Multiplied(host) \div r
    BY <1>2, <2>3 DEF Driven
  <2> HIDE DEF slower
  <2> QED
    BY <1>2, <2>3, <2>4, <2>5 DEF slower
<1>7. CASE ~prog
  <2>1. BestBase(host, clock, s)
    BY <1>7, WithoutPreset
  <2>2. slower = UpTo(BaseClocks(host), clock)
    <3>1. \A f \in ProgClocks(host) : ~(f <= clock)
      <4>1. CASE host.spec300 /\ host.mul > 0
        <5>1. ~ProgReaches(host, clock)
          BY <1>7, <4>1
        <5>2. \A d \in 1 .. Fields : ~(Multiplied(host) \div d <= clock)
          BY <1>1, <1>3, <1>4, <4>1, <5>1, ProgDivisorIs
        <5>3. \A d \in 0 .. Fields - 1 : d + 1 \in 1 .. Fields
          BY FieldsType
        <5>4. ProgClocks(host) =
                {Multiplied(host) \div (d + 1) : d \in 0 .. Fields - 1}
          BY <4>1 DEF ProgClocks, Made, Multiplied
        <5> QED
          BY <5>2, <5>3, <5>4
      <4>2. CASE ~(host.spec300 /\ host.mul > 0)
        BY <4>2 DEF ProgClocks
      <4> QED
        BY <4>1, <4>2
    <3> QED
      BY <3>1 DEF UpTo
  <2>3. IF Avoids(host) /\ best = host.max_clk THEN s.div = 1
        ELSE Made(host, FALSE, s.div) = best
    <3> HIDE DEF s, slower
    <3> QED
      BY <1>1, <2>1, <2>2, BestBaseMakes
  <2>4. s.prog = FALSE
    BY <2>1 DEF BestBase
  <2> HIDE DEF s, best
  <2>5. IF ZeroAvoided /\ ~reg.prog /\ best = host.max_clk
        THEN reg.div = 1 ELSE Driven = best
    BY <1>2, <2>3, <2>4 DEF ZeroAvoided, Driven, Avoids
  <2> QED
    BY <2>5 DEF best
<1> QED
  BY <1>6, <1>7

LEMMA ActualFromInv ==
  ASSUME ClockInv
  PROVE  ActualIsDriven
<1> SUFFICES ASSUME reg.card, Fits, ~InGap, ~host.zeroBroken
             PROVE  actual = Driven
  BY DEF ActualIsDriven
<1> DEFINE s == sdhci_calc_clk(host, clock)
<1>1. /\ host \in HostType /\ clock \in Nat /\ host.spec300 \in BOOLEAN
      /\ host.mul \in Nat /\ host.max_clk \in Nat
  BY DEF ClockInv, HostType
<1>2. reg.prog = s.prog /\ reg.div = s.div /\ actual = s.actual
  <2>1. reg = [prog |-> s.prog, div |-> s.div, card |-> TRUE] /\ actual = s.actual
    BY DEF ClockInv
  <2> HIDE DEF s
  <2> QED
    BY <2>1
<1>3. Multiplied(host) < Word /\ Multiplied(host) % Word = Multiplied(host)
  <2>1. Multiplied(host) \in Nat /\ Multiplied(host) < Word
    BY <1>1 DEF Fits, Multiplied
  <2> QED
    BY <2>1, ClockAssumption
<1>4. SUFFICES s.actual = Made(host, s.prog, s.div)
  BY <1>2 DEF Driven
<1>5. CASE host.spec300 /\ preset.used
  <2>1. s = PresetClock(host)
    BY <1>5 DEF sdhci_calc_clk
  <2>2. preset.div \in 0 .. Fields - 1 /\ Fields \in Nat
    BY FieldsType DEF ClockInv
  <2>3. preset.div % Fields = preset.div
    BY <2>2, FieldsType
  <2>4. CASE host.mul > 0 /\ preset.prog
    BY <1>3, <2>1, <2>3, <2>4
       DEF PresetClock, Setting, Product, Made, Multiplied
  <2>5. CASE ~(host.mul > 0 /\ preset.prog)
    <3>1. s = Setting(FALSE, preset.div, host.max_clk, Max({1, 2 * preset.div}))
      BY <2>1, <2>5 DEF PresetClock
    <3>2. /\ s.prog = FALSE /\ s.div = preset.div
          /\ s.actual = host.max_clk \div Max({1, 2 * preset.div})
      BY <2>3, <3>1 DEF Setting
    <3> HIDE DEF s
    <3> QED
      BY <3>2 DEF Made
  <2> QED
    BY <2>4, <2>5
<1>6. ASSUME BestBase(host, clock, s) PROVE s.actual = Made(host, s.prog, s.div)
  <2>1. PICK r \in BaseDivisors(host) :
             /\ s.actual = host.max_clk \div r
             /\ s.div = IF r = 1 /\ Avoids(host) THEN 1 ELSE r \div 2
    BY <1>6 DEF BestBase
  <2>2. s.div = r \div 2 /\ s.prog = FALSE
    BY <1>6, <2>1 DEF Avoids, BestBase
  <2>3. Made(host, FALSE, r \div 2) = host.max_clk \div r
    BY <1>1, HalfMakes
  <2> HIDE DEF s
  <2> QED
    BY <2>1, <2>2, <2>3
<1>7. CASE ~preset.used
  <2> DEFINE r == ProgDivisor(host, clock)
  <2>1. CASE host.spec300 /\ host.mul > 0 /\ ProgReaches(host, clock)
    <3>1. ~(/\ Multiplied(host) \div Fields > clock
            /\ Multiplied(host) \div (Fields + 1) <= clock)
      BY <1>3, <1>7, <2>1 DEF InGap, Product, Multiplied
    <3>2. r \in 1 .. Fields
      BY <1>1, <1>3, <2>1, <3>1, ProgDivisorIs
    <3>3. s = ProgClock(host, clock)
      BY <1>7, <2>1, WithoutPreset
    <3> HIDE DEF r, s
    <3>4. /\ s.prog = TRUE /\ s.actual = Multiplied(host) \div r
          /\ Made(host, TRUE, s.div) = Multiplied(host) \div r
      BY <1>1, <1>3, <3>2, <3>3, ProgMakes DEF r
    <3> QED
      BY <3>4 DEF s
  <2>2. CASE ~(host.spec300 /\ host.mul > 0 /\ ProgReaches(host, clock))
    BY <1>6, <1>7, <2>2, WithoutPreset
  <2> QED
    BY <2>1, <2>2
<1>8. CASE ~host.spec300
  BY <1>1, <1>6, <1>8, PowerClockIsBest DEF sdhci_calc_clk
<1> QED
  BY <1>1, <1>5, <1>7, <1>8

(* The card gets the fastest clock the controller can make that is not     *)
(* above the one asked for, or the slowest (sdhci_calc_clk), for every     *)
(* width of the divider, of a word and of the fields of a controller.      *)
THEOREM ClockBest == ClockSpec => []BestClock
  BY BestFromInv, ClockInvariance, PTL

(* The clock the host reports is the one the controller makes of its       *)
(* register, whether found by a loop or read from a preset                 *)
(* (sdhci_set_clock, sdhci_get_preset_value).                              *)
THEOREM ClockActual == ClockSpec => []ActualIsDriven
  BY ActualFromInv, ClockInvariance, PTL
================================================================================
