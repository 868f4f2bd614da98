-------------------------------- MODULE Cqhci --------------------------------
(***************************************************************************)
(* The command queue engine driver, host/cqhci.c: requests queued in the   *)
(* slots of the engine, the interrupt handler that completes them, the     *)
(* timeout of a request, waiting until the engine is idle, turning it off  *)
(* for legacy requests, and the recovery that halts the engine, clears its *)
(* tasks and returns what was queued.                                      *)
(*                                                                         *)
(* Three actors share the driver's state: the thread that owns the host    *)
(* (owner), the interrupt handler (irq) on another CPU, and the timeout    *)
(* handler.  A step is a critical section of cq_host->lock or one access   *)
(* to state the lock does not protect.  The engine itself is external; it  *)
(* appears as the registers the driver reads.                              *)
(***************************************************************************)
EXTENDS Naturals, FiniteSets

CONSTANTS
  Mrqs,       \* the requests of the owner
  Tags,       \* the slots, 0 .. num_slots - 1
  TagOf,      \* cqhci_tag: the slot each request uses
  None,       \* NULL
  PromptIrq   \* an interrupt handler that has begun is over before a whole
              \* recovery is

ASSUME CqhciAssumption ==
  /\ IsFiniteSet(Tags) /\ Tags \subseteq Nat /\ IsFiniteSet(Mrqs)
  /\ TagOf \in [Mrqs -> Tags]
  /\ None \notin Mrqs
  /\ PromptIrq \in BOOLEAN

VARIABLES
  enabled,   \* cq_host->enabled
  activated, \* cq_host->activated
  cqeOn,     \* mmc->cqe_on
  recovery,  \* cq_host->recovery_halt
  waiting,   \* cq_host->waiting_for_idle
  qcnt,      \* cq_host->qcnt
  mrq,       \* slot[tag].mrq
  flags,     \* slot[tag].flags
  owner,     \* where the owner is
  current,   \* the request the owner is in cqhci_request with
  woken,     \* the owner, in wait_event, has been woken
  irq,       \* where the interrupt handler is
  status,    \* the interrupt status it read
  comp,      \* the completion notifications it read
  queued,    \* requests accepted and not yet handed back
  timers,    \* requests whose timeout handler is about to run
  ctl,       \* engine: "off", "on", "halting" or "halted"
  doorbell,  \* engine: tasks it has not finished, CQHCI_TDBR
  tcn,       \* engine: finished tasks not yet acknowledged, CQHCI_TCN
  is,        \* engine: CQHCI_IS
  mask,      \* engine: the interrupts enabled, CQHCI_ISTE and CQHCI_ISGE
  terri      \* engine: the tasks in error, CQHCI_TERRI

driver == <<enabled, activated, cqeOn, recovery, waiting, qcnt, mrq, flags>>
thread == <<owner, current, woken>>
handler == <<irq, status, comp>>
engine == <<ctl, doorbell, tcn, is, mask, terri>>
vars == <<driver, thread, handler, queued, timers, engine>>

(* The interrupts by which the engine reports on its tasks.  HAC and TCL,  *)
(* which only wake a wait that also times out, are left out.               *)
CQHCI_IS_MASK == {"TCC", "RED"}
ErrorFlags == {"HOST_ERROR", "EXTERNAL_TIMEOUT"}
Flags == ErrorFlags \cup {"COMPLETED"}

OwnerStages == {"idle", "request", "wait", "quiet", "halting", "recovering",
                "finishHalting", "clear", "reset", "recover"}

Busy(t) == mrq[t] # None
Slots(ms) == {TagOf[m] : m \in ms}

-----------------------------------------------------------------------------
(* Turning the engine on and off.                                          *)

(* __cqhci_enable: the engine starts from scratch.                         *)
EngineFresh ==
  /\ ctl' = "on" /\ doorbell' = {} /\ tcn' = {} /\ is' = {}
  /\ mask' = CQHCI_IS_MASK /\ terri' = {}

cqhci_enable ==
  /\ owner = "idle" /\ ~enabled
  /\ EngineFresh
  /\ enabled' = TRUE /\ activated' = TRUE /\ cqeOn' = TRUE
  /\ UNCHANGED <<recovery, waiting, qcnt, mrq, flags, thread, handler, queued,
                 timers>>

(* cqhci_off halts the idle engine for legacy requests; it does nothing    *)
(* while the engine is off or a recovery is due.                           *)
cqhci_off ==
  /\ owner = "quiet" /\ owner' = "idle"
  /\ IF enabled /\ cqeOn /\ ~recovery
     THEN ctl' = "halted" /\ cqeOn' = FALSE ELSE UNCHANGED <<ctl, cqeOn>>
  /\ UNCHANGED <<enabled, activated, recovery, waiting, qcnt, mrq, flags,
                 current, woken, handler, queued, timers, doorbell, tcn, is,
                 mask, terri>>

(* cqhci_suspend and cqhci_disable, called when nothing is queued.         *)
Deactivate(stay) ==
  /\ owner = "quiet" /\ owner' = "idle"
  /\ enabled' = (enabled /\ stay)
  /\ activated' = FALSE /\ cqeOn' = FALSE
  /\ ctl' = "off" /\ doorbell' = {} /\ tcn' = {}
  /\ UNCHANGED <<recovery, waiting, qcnt, mrq, flags, current, woken, handler,
                 queued, timers, is, mask, terri>>

-----------------------------------------------------------------------------
(* cqhci_request.  The owner allocates tags: a slot is given to a request  *)
(* only after the last one that used it has been handed back, and not      *)
(* while a timeout of the request is still being handled.                  *)

(* Up to the lock: re-enable after a suspend, turn the engine on.          *)
RequestBegin(m) ==
  /\ owner = "idle" /\ enabled
  /\ TagOf[m] \notin Slots(queued) /\ m \notin timers
  /\ owner' = "request" /\ current' = m /\ woken' = woken
  /\ activated' = TRUE /\ cqeOn' = TRUE
  /\ IF ~activated THEN EngineFresh
     ELSE /\ ctl' = IF cqeOn THEN ctl ELSE "on"
          /\ UNCHANGED <<doorbell, tcn, is, mask, terri>>
  /\ UNCHANGED <<enabled, recovery, waiting, qcnt, mrq, flags, handler, queued,
                 timers>>

Accept(m) ==
  /\ mrq' = [mrq EXCEPT ![TagOf[m]] = m]
  /\ flags' = [flags EXCEPT ![TagOf[m]] = {}]
  /\ qcnt' = qcnt + 1
  /\ doorbell' = doorbell \cup {TagOf[m]}
  /\ queued' = queued \cup {m}

(* Under the lock: -EBUSY when a recovery is due, else into the slot and   *)
(* ring the doorbell.  A descriptor that cannot be mapped never gets here. *)
RequestLocked ==
  /\ owner = "request" /\ owner' = "idle" /\ current' = None /\ woken' = woken
  /\ IF recovery THEN UNCHANGED <<mrq, flags, qcnt, doorbell, queued>>
     ELSE Accept(current)
  /\ UNCHANGED <<enabled, activated, cqeOn, recovery, waiting, handler, timers,
                 ctl, tcn, is, mask, terri>>

RequestUnmapped ==
  /\ owner = "request" /\ owner' = "idle" /\ current' = None
  /\ UNCHANGED <<driver, woken, handler, queued, timers, engine>>

-----------------------------------------------------------------------------
(* cqhci_wait_for_idle.                                                    *)

(* The condition of wait_event: tried on entry and after each wake-up.     *)
cqhci_is_idle ==
  /\ owner \in {"idle", "wait"} /\ (owner = "wait" => woken)
  /\ LET idle == qcnt = 0 \/ recovery IN
     /\ waiting' = ~idle
     /\ owner' = IF ~idle THEN "wait" ELSE IF recovery THEN "idle" ELSE "quiet"
  /\ woken' = FALSE
  /\ UNCHANGED <<enabled, activated, cqeOn, recovery, qcnt, mrq, flags,
                 current, handler, queued, timers, engine>>

(* The owner goes on with something else.                                  *)
Unquiet ==
  /\ owner = "quiet" /\ owner' = "idle"
  /\ UNCHANGED <<driver, current, woken, handler, queued, timers, engine>>

wake_up == woken' = (woken \/ owner = "wait")

(* cqhci_recovery_needed: the first to notice wakes the waiting owner.     *)
cqhci_recovery_neededSilent == recovery' = TRUE /\ woken' = woken

cqhci_recovery_needed ==
  recovery' = TRUE /\ IF recovery THEN woken' = woken ELSE wake_up

-----------------------------------------------------------------------------
(* cqhci_irq.                                                              *)

(* Read and acknowledge the status.                                        *)
IrqBegin ==
  /\ irq = "idle" /\ is \cap mask # {}
  /\ status' = is \cap {"TCC"} /\ is' = {} /\ comp' = comp
  /\ irq' = IF "RED" \in is THEN "error" ELSE "notify"
  /\ UNCHANGED <<driver, thread, queued, timers, ctl, doorbell, tcn, mask, terri>>

(* cqhci_error_irq, under the lock.  The engine may name the task of a     *)
(* failed command and the task of failed data.  If it names no occupied    *)
(* slot, the first one is picked, for a recovery without a task in error   *)
(* may never end.                                                          *)
InError ==
  LET named == {t \in terri : Busy(t)} IN
  IF named # {} THEN named
  ELSE {t \in Tags : Busy(t) /\ \A u \in Tags : Busy(u) => t <= u}

cqhci_error_irq ==
  /\ irq = "error" /\ irq' = "notify" /\ terri' = {}
  /\ IF recovery \/ qcnt = 0 THEN UNCHANGED <<flags, recovery, woken>>
     ELSE /\ flags' = [t \in Tags |-> IF t \in InError THEN {"HOST_ERROR"}
                                     ELSE flags[t]]
          /\ cqhci_recovery_needed
  /\ UNCHANGED <<enabled, activated, cqeOn, waiting, qcnt, mrq, owner, current,
                 status, comp, queued, timers, ctl, doorbell, tcn, is, mask>>

(* Read and acknowledge the completion notifications.                      *)
IrqNotifyUnacknowledged ==
  /\ irq = "notify"
  /\ IF "TCC" \in status
     THEN comp' = tcn /\ irq' = "complete"
     ELSE irq' = "idle" /\ UNCHANGED comp
  /\ status' = {}
  /\ UNCHANGED <<driver, thread, queued, timers, engine>>

IrqNotify ==
  /\ irq = "notify"
  /\ IF "TCC" \in status
     THEN comp' = tcn /\ tcn' = {} /\ irq' = "complete"
     ELSE irq' = "idle" /\ UNCHANGED <<comp, tcn>>
  /\ status' = {}
  /\ UNCHANGED <<driver, thread, queued, timers, ctl, doorbell, is, mask, terri>>

(* cqhci_finish_mrq for each of them, under the lock, then the wake-up of  *)
(* an owner that waits for the queue to drain.  The flags of an empty slot *)
(* are never read; they are emptied with the slot.                         *)
Finished == {t \in comp : Busy(t)}

cqhci_finish_mrqsAlways ==
  /\ mrq' = [t \in Tags |-> IF t \in Finished THEN None ELSE mrq[t]]
  /\ qcnt' = qcnt - Cardinality(Finished)
  /\ queued' = {m \in queued : TagOf[m] \notin Finished}
  /\ flags' = flags

cqhci_finish_mrqs ==
  IF recovery
  THEN /\ flags' = [t \in Tags |-> IF t \in Finished
                                   THEN flags[t] \cup {"COMPLETED"} ELSE flags[t]]
       /\ UNCHANGED <<mrq, qcnt, queued>>
  ELSE /\ mrq' = [t \in Tags |-> IF t \in Finished THEN None ELSE mrq[t]]
       /\ qcnt' = qcnt - Cardinality(Finished)
       /\ queued' = {m \in queued : TagOf[m] \notin Finished}
       /\ flags' = [t \in Tags |-> IF t \in Finished THEN {} ELSE flags[t]]

IrqCompleteNoCount ==
  /\ irq = "complete" /\ irq' = "idle" /\ comp' = {}
  /\ mrq' = [t \in Tags |-> IF t \in Finished /\ ~recovery THEN None ELSE mrq[t]]
  /\ queued' = {m \in queued : TagOf[m] \notin Finished \/ recovery}
  /\ UNCHANGED <<enabled, activated, cqeOn, recovery, waiting, qcnt, flags, owner,
                 current, woken, status, timers, engine>>

IrqComplete ==
  /\ irq = "complete" /\ irq' = "idle" /\ comp' = {}
  /\ cqhci_finish_mrqs
  /\ IF waiting /\ qcnt' = 0 THEN waiting' = FALSE /\ wake_up
     ELSE UNCHANGED <<waiting, woken>>
  /\ UNCHANGED <<enabled, activated, cqeOn, recovery, owner, current, status,
                 timers, engine>>

-----------------------------------------------------------------------------
(* The timeout of a request.                                               *)

TimerFires(m) ==
  /\ m \in queued /\ timers' = timers \cup {m}
  /\ UNCHANGED <<driver, thread, handler, queued, engine>>

(* cqhci_timeout: too late if the request has been completed meanwhile.    *)
cqhci_timeout(m) ==
  /\ m \in timers /\ timers' = timers \ {m}
  /\ IF mrq[TagOf[m]] = m
     THEN /\ flags' = [flags EXCEPT ![TagOf[m]] = @ \cup {"EXTERNAL_TIMEOUT"}]
          /\ cqhci_recovery_needed
     ELSE UNCHANGED <<flags, recovery, woken>>
  /\ UNCHANGED <<enabled, activated, cqeOn, waiting, qcnt, mrq, owner, current,
                 handler, queued, engine>>

-----------------------------------------------------------------------------
(* cqhci_recovery_start and cqhci_recovery_finish.                         *)

Step(from, to) == owner = from /\ owner' = to /\ UNCHANGED <<current, woken>>

(* cqhci_halt: mask the interrupts, ask, and wait until the engine has     *)
(* halted or the wait times out.                                           *)
HaltBegin(from, to) ==
  /\ owner = from /\ UNCHANGED <<current, woken>>
  /\ owner' = to
  /\ IF ctl = "halted" THEN UNCHANGED <<mask, ctl>>
     ELSE mask' = {} /\ ctl' = "halting"
  /\ UNCHANGED <<driver, handler, queued, timers, doorbell, tcn, is, terri>>

(* After the halt of recovery_start the glue driver's disable() hook, and  *)
(* cqe_on is cleared.  A timed out halt goes unnoticed here.               *)
RecoveryStart == recovery /\ HaltBegin("idle", "halting")
RecoveryStarted ==
  /\ Step("halting", "recovering")
  /\ mask' = {} /\ cqeOn' = FALSE
  /\ UNCHANGED <<enabled, activated, recovery, waiting, qcnt, mrq, flags,
                 handler, queued, timers, ctl, doorbell, tcn, is, terri>>

(* The owner's own legacy commands (a stop, a discard of the card's queue) *)
(* come in between.                                                        *)
FinishHalt == HaltBegin("recovering", "finishHalting")
FinishHalted ==
  /\ \/ ctl = "halted" /\ Step("finishHalting", "clear")
     \/ ctl # "halted" /\ Step("finishHalting", "reset")
  /\ mask' = {}
  /\ UNCHANGED <<driver, handler, queued, timers, ctl, doorbell, tcn, is, terri>>

(* cqhci_clear_all_tasks: the engine forgets its tasks, unless the wait    *)
(* for that times out.                                                     *)
EngineClears ==
  /\ doorbell' = {} /\ tcn' = {}

ClearTasksUnchecked ==
  /\ Step("clear", "recover")
  /\ \/ EngineClears
     \/ UNCHANGED <<doorbell, tcn>>
  /\ mask' = {}
  /\ UNCHANGED <<driver, handler, queued, timers, ctl, is, terri>>

ClearTasks ==
  /\ \/ /\ Step("clear", "recover") /\ EngineClears
     \/ Step("clear", "reset") /\ UNCHANGED <<doorbell, tcn>>
  /\ mask' = {}
  /\ UNCHANGED <<driver, handler, queued, timers, ctl, is, terri>>

(* Disable and re-enable, then halt and clear once more.                   *)
ResetEngine ==
  /\ Step("reset", "recover")
  /\ EngineClears /\ ctl' \in {"on", "halting", "halted"}
  /\ mask' = {}
  /\ UNCHANGED <<driver, handler, queued, timers, is, terri>>

(* cqhci_recover_mrqs: slot by slot, without the lock.                     *)
cqhci_recover_mrq(t) ==
  /\ owner = "recover" /\ Busy(t)
  /\ mrq' = [mrq EXCEPT ![t] = None] /\ qcnt' = qcnt - 1
  /\ flags' = [flags EXCEPT ![t] = {}]
  /\ queued' = queued \ {mrq[t]}
  /\ UNCHANGED <<enabled, activated, cqeOn, recovery, waiting, thread, handler,
                 timers, engine>>

(* The last critical section, and the interrupts back on.                  *)
RecoveryDone ==
  /\ Step("recover", "idle") /\ \A t \in Tags : ~Busy(t)
  /\ PromptIrq => irq = "idle"
  /\ qcnt' = 0 /\ recovery' = FALSE /\ cqeOn' = FALSE
  /\ mask' = CQHCI_IS_MASK
  /\ UNCHANGED <<enabled, activated, waiting, mrq, flags, handler, queued,
                 timers, ctl, doorbell, tcn, is, terri>>

Recovery ==
  \/ RecoveryStart \/ RecoveryStarted \/ FinishHalt \/ FinishHalted
  \/ ClearTasks \/ ResetEngine
  \/ (\E t \in Tags : cqhci_recover_mrq(t)) \/ RecoveryDone

-----------------------------------------------------------------------------
(* The engine.                                                             *)

(* It finishes a task.                                                     *)
EngineFinishes(t) ==
  /\ ctl \in {"on", "halting"} /\ t \in doorbell
  /\ doorbell' = doorbell \ {t} /\ tcn' = tcn \cup {t}
  /\ is' = is \cup ({"TCC"} \cap mask)
  /\ UNCHANGED <<driver, thread, handler, queued, timers, ctl, mask, terri>>

(* A response error: the engine names up to two tasks, or none, and a task *)
(* it names need not be one the driver still has.                          *)
EngineFails ==
  /\ ctl \in {"on", "halting"} /\ doorbell # {}
  /\ "RED" \in mask /\ is' = is \cup {"RED"}
  /\ \E t, u \in Tags : terri' \in {{}, {t}, {t, u}}
  /\ UNCHANGED <<driver, thread, handler, queued, timers, ctl, doorbell, tcn,
                 mask>>

EngineHalts ==
  /\ ctl = "halting" /\ ctl' = "halted"
  /\ UNCHANGED <<driver, thread, handler, queued, timers, doorbell, tcn, is,
                 mask, terri>>

-----------------------------------------------------------------------------
Init ==
  /\ enabled = FALSE /\ activated = FALSE /\ cqeOn = FALSE
  /\ recovery = FALSE /\ waiting = FALSE /\ qcnt = 0
  /\ mrq = [t \in Tags |-> None] /\ flags = [t \in Tags |-> {}]
  /\ owner = "idle" /\ current = None /\ woken = FALSE
  /\ irq = "idle" /\ status = {} /\ comp = {}
  /\ queued = {} /\ timers = {}
  /\ ctl = "off" /\ doorbell = {} /\ tcn = {} /\ is = {} /\ mask = {} /\ terri = {}

Irq == IrqBegin \/ cqhci_error_irq \/ IrqNotify \/ IrqComplete

Owner ==
  \/ cqhci_enable \/ cqhci_off \/ Deactivate(TRUE) \/ Deactivate(FALSE)
  \/ (\E m \in Mrqs : RequestBegin(m)) \/ RequestLocked \/ RequestUnmapped
  \/ cqhci_is_idle \/ Unquiet

Timeout == \E m \in Mrqs : TimerFires(m) \/ cqhci_timeout(m)

Engine == (\E t \in Tags : EngineFinishes(t)) \/ EngineFails \/ EngineHalts

Next == Irq \/ Owner \/ Timeout \/ Recovery \/ Engine

Spec == Init /\ [][Next]_vars

(* A call of the owner goes on by itself.  Weak fairness is assumed of it  *)
(* and of Irq, strong fairness of Recovery: the handler runs, and the      *)
(* owner recovers when told to.  Nothing obliges the engine to answer.     *)
GoesOn == RequestLocked \/ (owner = "wait" /\ cqhci_is_idle)

-----------------------------------------------------------------------------
(* Every variable has its type.                                            *)
TypeOK ==
  /\ {enabled, activated, cqeOn, recovery, waiting, woken} \subseteq BOOLEAN
  /\ qcnt \in 0 .. Cardinality(Tags)
  /\ mrq \in [Tags -> Mrqs \cup {None}] /\ flags \in [Tags -> SUBSET Flags]
  /\ owner \in OwnerStages /\ current \in Mrqs \cup {None}
  /\ irq \in {"idle", "error", "notify", "complete"}
  /\ status \subseteq CQHCI_IS_MASK /\ comp \subseteq Tags
  /\ queued \subseteq Mrqs /\ timers \subseteq Mrqs
  /\ ctl \in {"off", "on", "halting", "halted"}
  /\ doorbell \subseteq Tags /\ tcn \subseteq Tags
  /\ is \subseteq CQHCI_IS_MASK /\ mask \in {{}, CQHCI_IS_MASK}
  /\ terri \subseteq Tags

(* A request that was accepted is in its slot, and in no other, until it   *)
(* is handed back, exactly once, and qcnt counts those: through races of   *)
(* completion, timeout and the unlocked walk of the recovery.              *)
QueueAccounting ==
  /\ \A t \in Tags : Busy(t) => mrq[t] \in queued /\ TagOf[mrq[t]] = t
  /\ \A m \in queued : mrq[TagOf[m]] = m
  /\ qcnt = Cardinality({t \in Tags : Busy(t)})

(* "The only way to guarantee forward progress is to mark at least one     *)
(* task in error": while a recovery is due, some queued request is marked. *)
RecoveryMarksOne ==
  recovery /\ owner # "recover" =>
    \E t \in Tags : Busy(t) /\ flags[t] \cap ErrorFlags # {}

(* The interrupt handler completes a request only if the engine has        *)
(* finished that very task: no notification from before a recovery         *)
(* completes a request queued after it.                                    *)
NoFalseCompletion ==
  [][irq = "complete" => \A m \in queued \ queued' : TagOf[m] \notin doorbell]_vars

(* Outside a recovery the engine owns no task while cqe_on says it is off, *)
(* so that legacy requests have the bus to themselves.                     *)
OffMeansIdle ==
  ~cqeOn /\ ~recovery => doorbell = {}

(* A recovery that is due is carried through: the owner is woken from      *)
(* cqhci_wait_for_idle for it, no wait in it hangs on an engine that does  *)
(* not answer, and everything queued is handed back.                       *)
RecoveryEnds == recovery ~> ~recovery

(* No wake-up is lost: while the owner sleeps in cqhci_wait_for_idle and   *)
(* nothing has woken it, there is something to wait for and the handler    *)
(* knows that it does.                                                     *)
NoLostWakeup ==
  owner = "wait" /\ ~woken => waiting /\ qcnt > 0 /\ ~recovery
===============================================================================
