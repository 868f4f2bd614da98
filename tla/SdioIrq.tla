-------------------------------- MODULE SdioIrq --------------------------------
(***************************************************************************)
(* SDIO card interrupts (core/sdio_irq.c): function drivers that claim and *)
(* release their interrupt, the interrupt thread of the host (or the work  *)
(* item that replaces it), and the host interrupt that wakes it.           *)
(*                                                                         *)
(* The host is claimed through the lock HostLock specifies.  The host      *)
(* controller's own interrupt handler is not in the repository: HostIrq is *)
(* what the core expects of it (mask the card interrupt, note it, wake     *)
(* whoever dispatches), in one step because it runs under the controller's *)
(* spinlock.                                                               *)
(***************************************************************************)
EXTENDS Naturals, FiniteSets

CONSTANTS
  IrqFuncs,   \* the functions of the card, each with its driver
  Modes,      \* the kinds of host to consider
  MaxOps,     \* bound on the sdio_claim_irq and sdio_release_irq calls
  MaxFaults,  \* bound on the CMD52 transfers and thread creations that fail
  None        \* a NULL sdio_func; a host nobody holds

(* thread: MMC_CAP_SDIO_IRQ; poll: without it; work: MMC_CAP_SDIO_IRQ and  *)
(* MMC_CAP2_SDIO_IRQ_NOTHREAD.                                             *)
AllModes == {"thread", "poll", "work"}

ASSUME SdioIrqAssumption ==
  /\ IsFiniteSet(IrqFuncs)
  /\ None \notin IrqFuncs \cup {"irqd", "work"}
  /\ {"irqd", "work"} \cap IrqFuncs = {}
  /\ Modes \subseteq AllModes
  /\ MaxOps \in Nat /\ MaxFaults \in Nat

VARIABLES
  mode,       \* the capabilities of the host
  claimer,    \* who holds the claimed host
  asserted,   \* functions whose interrupt condition the card asserts
  ien,        \* functions enabled in the card's SDIO_CCCR_IENx
  handler,    \* functions with an irq_handler
  sdioIrqs,   \* host->sdio_irqs
  single,     \* card->sdio_single_irq
  pending,    \* host->sdio_irq_pending
  enabled,    \* the last enable_sdio_irq, less what HostIrq has masked
  tpc,        \* where the interrupt thread is
  abort,      \* host->sdio_irq_thread_abort
  stop,       \* kthread_should_stop() in the thread
  woken,      \* the thread was woken since it set TASK_INTERRUPTIBLE
  work,       \* where the work item is
  dpc,        \* where each function driver is
  ops, faults \* calls made and failures so far

hostVars == <<claimer, sdioIrqs, single, pending>>
cardVars == <<asserted, ien>>
threadAux == <<abort, stop, woken>>
threadVars == <<tpc, threadAux>>
irqVars == <<mode, hostVars, cardVars, handler, enabled, threadVars, work, dpc, ops, faults>>

CapIrq == mode # "poll"      \* MMC_CAP_SDIO_IRQ
NoThread == mode = "work"    \* MMC_CAP2_SDIO_IRQ_NOTHREAD

(* What a CMD52 may do: the outcomes of mmc_io_rw_direct.                  *)
Outcome(ok) == \/ ok /\ faults' = faults
               \/ ~ok /\ faults < MaxFaults /\ faults' = faults + 1

-----------------------------------------------------------------------------
(* process_sdio_pending_irqs.  A handler clears the condition its function *)
(* asserts.  ret tells whether the result is negative; a result of zero    *)
(* and a count take the same path.                                         *)

Serve(fs) == asserted' = asserted \ fs

process_sdio_pending_irqs(isPending, retNegative) ==
  IF single # None /\ isPending
    THEN Serve({single}) /\ ~retNegative /\ faults' = faults
    ELSE \E ok \in BOOLEAN :
           /\ Outcome(ok)
           /\ Serve(IF ok THEN handler ELSE {})
           /\ retNegative = (~ok \/ (asserted \cap handler = {} /\ asserted # {}))

-----------------------------------------------------------------------------
(* sdio_irq_thread                                                         *)

(* A thread stopped before it first ran never enters its function.         *)
ThreadStart ==
  /\ tpc = "start"
  /\ tpc' = IF stop THEN "none" ELSE "claim"
  /\ UNCHANGED <<mode, hostVars, cardVars, handler, enabled, threadAux, work, dpc, ops, faults>>

ThreadClaim ==
  /\ tpc = "claim" /\ ~abort /\ claimer = None
  /\ claimer' = "irqd"
  /\ tpc' = "process"
  /\ UNCHANGED <<mode, sdioIrqs, single, pending, cardVars, handler, enabled, threadAux, work, dpc, ops, faults>>

ThreadAbortClaim ==
  /\ tpc = "claim" /\ abort
  /\ tpc' = "exit"
  /\ UNCHANGED <<mode, hostVars, cardVars, handler, enabled, threadAux, work, dpc, ops, faults>>

ThreadProcess ==
  /\ tpc = "process"
  /\ \E retNegative \in BOOLEAN :
       /\ process_sdio_pending_irqs(pending, retNegative)
       /\ tpc' = IF retNegative THEN "clear backoff" ELSE "clear"
  /\ UNCHANGED <<mode, hostVars, ien, handler, enabled, threadAux, work, dpc, ops>>

(* host->sdio_irq_pending = false; mmc_release_host(host)                  *)
ThreadClear ==
  /\ tpc \in {"clear", "clear backoff"}
  /\ pending' = FALSE
  /\ claimer' = None
  /\ tpc' = IF tpc = "clear" THEN "arm" ELSE "backoff"
  /\ UNCHANGED <<mode, sdioIrqs, single, cardVars, handler, enabled, threadAux, work, dpc, ops, faults>>

ThreadBackoffContinues ==
  /\ tpc = "backoff"
  /\ woken' = FALSE
  /\ tpc' = "nap"
  /\ UNCHANGED <<mode, hostVars, cardVars, handler, enabled, abort, stop, work, dpc, ops, faults>>

(* schedule_timeout(HZ), which kthread_stop cuts short.                    *)
ThreadBackoff ==
  /\ tpc = "backoff"
  /\ tpc' = "arm"
  /\ UNCHANGED <<mode, hostVars, cardVars, handler, enabled, threadAux, work, dpc, ops, faults>>

(* set_current_state(TASK_INTERRUPTIBLE)                                   *)
ThreadArm ==
  /\ tpc = "arm"
  /\ woken' = FALSE
  /\ tpc' = "enable"
  /\ UNCHANGED <<mode, hostVars, cardVars, handler, enabled, abort, stop, work, dpc, ops, faults>>

ThreadEnable ==
  /\ tpc = "enable"
  /\ enabled' = (enabled \/ CapIrq)
  /\ tpc' = "nap"
  /\ UNCHANGED <<mode, hostVars, cardVars, handler, threadAux, work, dpc, ops, faults>>

ThreadNapTimed ==
  /\ tpc = "nap"
  /\ tpc' = IF stop THEN "exit" ELSE "claim"
  /\ UNCHANGED <<mode, hostVars, cardVars, handler, enabled, threadAux, work, dpc, ops, faults>>

(* schedule_timeout(period): the period is infinite with MMC_CAP_SDIO_IRQ. *)
ThreadNap ==
  /\ tpc = "nap"
  /\ stop \/ woken \/ ~CapIrq
  /\ tpc' = IF stop THEN "exit" ELSE "claim"
  /\ UNCHANGED <<mode, hostVars, cardVars, handler, enabled, threadAux, work, dpc, ops, faults>>

ThreadExit ==
  /\ tpc = "exit"
  /\ enabled' = (enabled /\ ~CapIrq)
  /\ tpc' = "none"
  /\ UNCHANGED <<mode, hostVars, cardVars, handler, threadAux, work, dpc, ops, faults>>

-----------------------------------------------------------------------------
(* sdio_signal_irq, sdio_irq_work and sdio_run_irqs                        *)

WorkStart ==
  /\ work = "queued"
  /\ work' = "claim"
  /\ UNCHANGED <<mode, hostVars, cardVars, handler, enabled, threadVars, dpc, ops, faults>>

WorkClaim ==
  /\ work \in {"claim", "claim queued"} /\ claimer = None
  /\ claimer' = "work"
  /\ work' = IF work = "claim" THEN "run" ELSE "run queued"
  /\ UNCHANGED <<mode, sdioIrqs, single, pending, cardVars, handler, enabled, threadVars, dpc, ops, faults>>

WorkRunUnchecked ==
  /\ work \in {"run", "run queued"}
  /\ pending' = TRUE
  /\ \E retNegative \in BOOLEAN : process_sdio_pending_irqs(TRUE, retNegative)
  /\ enabled' = TRUE
  /\ claimer' = None
  /\ work' = IF work = "run" THEN "idle" ELSE "queued"
  /\ UNCHANGED <<mode, sdioIrqs, single, ien, handler, threadVars, dpc, ops>>

(* The card is polled only while somebody wants its interrupts; ack_sdio_irq *)
(* unmasks what HostIrq masked.                                            *)
WorkRun ==
  /\ work \in {"run", "run queued"}
  /\ IF sdioIrqs > 0
       THEN /\ pending' = TRUE
            /\ \E retNegative \in BOOLEAN : process_sdio_pending_irqs(TRUE, retNegative)
            /\ enabled' = TRUE
       ELSE UNCHANGED <<pending, asserted, enabled, faults>>
  /\ claimer' = None
  /\ work' = IF work = "run" THEN "idle" ELSE "queued"
  /\ UNCHANGED <<mode, sdioIrqs, single, ien, handler, threadVars, dpc, ops>>

-----------------------------------------------------------------------------
(* The card and the host controller.                                       *)

CardAssert(f) ==
  /\ f \notin asserted
  /\ asserted' = asserted \cup {f}
  /\ UNCHANGED <<mode, hostVars, ien, handler, enabled, threadVars, work, dpc, ops, faults>>

(* The interrupt line is level triggered.                                  *)
HostIrq ==
  /\ enabled /\ asserted \cap ien # {}
  /\ enabled' = FALSE
  /\ IF NoThread
       THEN /\ work' = CASE work = "idle" -> "queued" [] work = "claim" -> "claim queued"
                         [] work = "run" -> "run queued" [] OTHER -> work
            /\ UNCHANGED <<pending, woken>>
       ELSE pending' = TRUE /\ woken' = TRUE /\ UNCHANGED work
  /\ UNCHANGED <<mode, claimer, sdioIrqs, single, cardVars, handler, tpc, abort, stop, dpc, ops, faults>>

-----------------------------------------------------------------------------
(* sdio_claim_irq and sdio_release_irq, called with the host claimed.      *)

sdio_single_irq_set(irqs, hs) ==
  IF CapIrq /\ irqs = 1 /\ hs # {}
    THEN single' \in hs
    ELSE single' = None

CallWithHost(f, op) ==
  /\ dpc[f] = "idle" /\ claimer = None /\ ops < MaxOps
  /\ claimer' = f
  /\ ops' = ops + 1
  /\ dpc' = [dpc EXCEPT ![f] = op]
  /\ UNCHANGED <<mode, sdioIrqs, single, pending, cardVars, handler, enabled, threadVars, work, faults>>

(* -EBUSY, or SDIO_CCCR_IENx read and written back.  A write that reports  *)
(* an error may have reached the card.                                     *)
sdio_claim_irq(f) ==
  /\ dpc[f] = "claim"
  /\ IF f \in handler
       THEN dpc' = [dpc EXCEPT ![f] = "leave"] /\ UNCHANGED <<ien, faults>>
       ELSE \E ok \in BOOLEAN :
              /\ Outcome(ok)
              /\ IF ok THEN ien' = ien \cup {f} ELSE ien' \in {ien, ien \cup {f}}
              /\ dpc' = [dpc EXCEPT ![f] = IF ok THEN "get" ELSE "leave"]
  /\ UNCHANGED <<mode, hostVars, asserted, handler, enabled, threadVars, work, ops>>

(* func->irq_handler = handler, sdio_card_irq_get and sdio_single_irq_set. *)
(* Only starting a thread can fail.                                        *)
FirstThreaded == sdioIrqs = 0 /\ ~NoThread

CardIrqGet(f) ==
  /\ dpc[f] = "get"
  /\ \E ok \in (IF FirstThreaded THEN BOOLEAN ELSE {TRUE}) :
       /\ Outcome(ok)
       /\ handler' = IF ok THEN handler \cup {f} ELSE handler
       /\ sdioIrqs' = IF ok THEN sdioIrqs + 1 ELSE sdioIrqs
       /\ tpc' = IF FirstThreaded /\ ok THEN "start" ELSE tpc
  /\ abort' = (abort /\ ~FirstThreaded)
  /\ stop' = (stop /\ ~FirstThreaded)
  /\ enabled' = (enabled \/ (sdioIrqs = 0 /\ NoThread))
  /\ sdio_single_irq_set(sdioIrqs', handler')
  /\ dpc' = [dpc EXCEPT ![f] = "leave"]
  /\ UNCHANGED <<mode, claimer, pending, cardVars, woken, work, ops>>

(* func->irq_handler = NULL and sdio_card_irq_put, up to the abort flag.   *)
LastThreaded == sdioIrqs = 1 /\ ~NoThread

CardIrqPutNoAbort(f) ==
  /\ dpc[f] = "release"
  /\ handler' = handler \ {f}
  /\ IF f \in handler
       THEN /\ sdioIrqs' = sdioIrqs - 1
            /\ enabled' = (enabled /\ ~(sdioIrqs = 1 /\ NoThread))
            /\ dpc' = [dpc EXCEPT ![f] = IF LastThreaded THEN "stop" ELSE "sync"]
       ELSE /\ dpc' = [dpc EXCEPT ![f] = "unmask"]
            /\ UNCHANGED <<sdioIrqs, enabled>>
  /\ UNCHANGED <<mode, claimer, single, pending, cardVars, threadVars, work, ops, faults>>

CardIrqPut(f) ==
  /\ dpc[f] = "release"
  /\ handler' = handler \ {f}
  /\ IF f \in handler
       THEN /\ sdioIrqs' = sdioIrqs - 1
            /\ abort' = (abort \/ LastThreaded)
            /\ enabled' = (enabled /\ ~(sdioIrqs = 1 /\ NoThread))
            /\ dpc' = [dpc EXCEPT ![f] = IF LastThreaded THEN "stop" ELSE "sync"]
       ELSE /\ dpc' = [dpc EXCEPT ![f] = "unmask"]
            /\ UNCHANGED <<sdioIrqs, abort, enabled>>
  /\ UNCHANGED <<mode, claimer, single, pending, cardVars, tpc, stop, woken, work, ops, faults>>

KthreadStop(f) ==
  /\ dpc[f] = "stop"
  /\ stop' = TRUE /\ woken' = TRUE
  /\ dpc' = [dpc EXCEPT ![f] = "join"]
  /\ UNCHANGED <<mode, hostVars, cardVars, handler, enabled, tpc, abort, work, ops, faults>>

CardIrqPutDoneStale(f) ==
  /\ dpc[f] \in {"join", "sync"}
  /\ dpc[f] = "join" => tpc = "none"
  /\ dpc' = [dpc EXCEPT ![f] = "unmask"]
  /\ UNCHANGED <<mode, hostVars, cardVars, handler, enabled, threadVars, work, ops, faults>>

(* kthread_stop returns once the thread is gone; sdio_single_irq_set.      *)
CardIrqPutDone(f) ==
  /\ dpc[f] \in {"join", "sync"}
  /\ dpc[f] = "join" => tpc = "none"
  /\ sdio_single_irq_set(sdioIrqs, handler)
  /\ dpc' = [dpc EXCEPT ![f] = "unmask"]
  /\ UNCHANGED <<mode, claimer, sdioIrqs, pending, cardVars, handler, enabled, threadVars, work, ops, faults>>

(* SDIO_CCCR_IENx read and written back without the function.              *)
ReleaseIrq(f) ==
  /\ dpc[f] = "unmask"
  /\ \E ok \in BOOLEAN :
       /\ Outcome(ok)
       /\ IF ok THEN ien' = ien \ {f} ELSE ien' \in {ien, ien \ {f}}
  /\ dpc' = [dpc EXCEPT ![f] = "leave"]
  /\ UNCHANGED <<mode, hostVars, asserted, handler, enabled, threadVars, work, ops>>

LeaveHost(f) ==
  /\ dpc[f] = "leave"
  /\ claimer' = None
  /\ dpc' = [dpc EXCEPT ![f] = "idle"]
  /\ UNCHANGED <<mode, sdioIrqs, single, pending, cardVars, handler, enabled, threadVars, work, ops, faults>>

-----------------------------------------------------------------------------
IrqInit ==
  /\ mode \in Modes
  /\ claimer = None /\ sdioIrqs = 0 /\ single = None /\ pending = FALSE
  /\ asserted = {} /\ ien = {} /\ handler = {}
  /\ enabled = FALSE
  /\ tpc = "none" /\ abort = FALSE /\ stop = FALSE /\ woken = FALSE
  /\ work = "idle"
  /\ dpc = [f \in IrqFuncs |-> "idle"]
  /\ ops = 0 /\ faults = 0

Thread ==
  \/ ThreadStart \/ ThreadClaim \/ ThreadAbortClaim \/ ThreadProcess \/ ThreadClear
  \/ ThreadBackoff \/ ThreadArm \/ ThreadEnable \/ ThreadNap \/ ThreadExit

Work == WorkStart \/ WorkClaim \/ WorkRun

(* What a driver does once it holds the host.                              *)
Driver(f) ==
  \/ sdio_claim_irq(f) \/ CardIrqGet(f)
  \/ CardIrqPut(f) \/ KthreadStop(f) \/ CardIrqPutDone(f) \/ ReleaseIrq(f)
  \/ LeaveHost(f)

(* Weak fairness is assumed of Thread, Work, HostIrq and Driver(f): the    *)
(* thread, the work queue and the drivers are scheduled, a pending         *)
(* interrupt that is unmasked is taken.  Nothing obliges the card to       *)
(* assert an interrupt or a driver to make a call.  The thread may lose    *)
(* the host to a driver each time it tries, but no more than MaxOps times. *)
IrqNext ==
  \/ Thread \/ Work \/ HostIrq
  \/ \E f \in IrqFuncs : \/ CardAssert(f) \/ Driver(f)
                     \/ \E op \in {"claim", "release"} : CallWithHost(f, op)

IrqSpec == IrqInit /\ [][IrqNext]_irqVars

-----------------------------------------------------------------------------
(* Every variable has its type.                                            *)
IrqTypeOK ==
  /\ mode \in Modes
  /\ claimer \in IrqFuncs \cup {"irqd", "work", None}
  /\ asserted \subseteq IrqFuncs /\ ien \subseteq IrqFuncs /\ handler \subseteq IrqFuncs
  /\ sdioIrqs \in 0 .. Cardinality(IrqFuncs)
  /\ single \in IrqFuncs \cup {None}
  /\ pending \in BOOLEAN /\ enabled \in BOOLEAN
  /\ tpc \in {"none", "start", "claim", "process", "clear", "clear backoff",
               "backoff", "arm", "enable", "nap", "exit"}
  /\ abort \in BOOLEAN /\ stop \in BOOLEAN /\ woken \in BOOLEAN
  /\ work \in {"idle", "queued", "claim", "claim queued", "run", "run queued"}
  /\ dpc \in [IrqFuncs -> {"idle", "claim", "get", "release", "stop", "join", "sync",
                        "unmask", "leave"}]
  /\ ops \in 0 .. MaxOps /\ faults \in 0 .. MaxFaults

(* The short cut of process_sdio_pending_irqs calls the handler of the     *)
(* function it remembers without looking: whenever interrupts are being    *)
(* dispatched, that function still has a handler, and is the only one.     *)
FastPathSafe ==
  claimer \in {"irqd", "work"} /\ single # None => handler = {single}

(* Between calls, sdio_irqs counts the functions with a handler, also when *)
(* the thread could not be started.                                        *)
CountsHandlers ==
  claimer \notin IrqFuncs => sdioIrqs = Cardinality(handler)

(* When no function has a handler and no call is under way, the host's     *)
(* card interrupt is off and the thread is gone; and the thread that an    *)
(* unmasked interrupt would wake exists: host->sdio_irq_thread is never    *)
(* cleared, so nothing but this keeps the host from waking a thread that   *)
(* has exited.                                                             *)
QuietWhenUnused ==
  /\ claimer = None /\ handler = {} => ~enabled /\ tpc = "none"
  /\ mode = "thread" /\ enabled => tpc \notin {"none", "start"}

(* The interrupt stays masked from the signal until its dispatch is over,  *)
(* so the thread clears sdio_irq_pending only for what it has dispatched.  *)
MaskedWhileDispatched ==
  mode = "thread" /\ claimer = "irqd" => ~enabled

(* An interrupt of a function with a handler is served, or its handler is  *)
(* taken away, in spite of transfer errors and of functions that assert an *)
(* interrupt nobody handles.                                               *)
InterruptServed ==
  \A f \in IrqFuncs :
    (f \in asserted /\ f \in handler) ~> (f \notin asserted \/ f \notin handler)

(* A driver that releases the last interrupt gets its call back: it waits, *)
(* with the host claimed, for a thread that itself needs the host.         *)
StopReturns ==
  \A f \in IrqFuncs : (dpc[f] = "join") ~> (dpc[f] = "idle")
=============================================================================
