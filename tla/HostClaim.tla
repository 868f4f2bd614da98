------------------------------- MODULE HostClaim -------------------------------
(***************************************************************************)
(* Claiming and releasing a host: __mmc_claim_host and mmc_release_host of *)
(* core/core.c, with nested claims, claims in the name of a context, the   *)
(* abort flag of the SDIO interrupt thread, the wait queue host->wq and    *)
(* the runtime PM reference taken by the first claim and dropped by the    *)
(* last release.                                                           *)
(*                                                                         *)
(* One step is one critical section of host->lock, or one call made        *)
(* outside it: the wake-up and the PM calls are steps of their own, so     *)
(* that other tasks interleave with them.                                  *)
(***************************************************************************)
EXTENDS Naturals, FiniteSets

CONSTANTS
  Tasks,       \* the tasks that use the host
  Ctxs,        \* the mmc_ctx a caller may name, the host's own one excluded
  DefaultCtx,  \* &host->default_ctx
  None,        \* a NULL mmc_ctx or task_struct
  CtxOf,       \* the ctx argument each task passes; None for NULL
  Abortable,   \* the tasks that pass an abort flag
  MaxNest      \* bound on the claims one task holds at a time

ASSUME ClaimAssumption ==
  /\ IsFiniteSet(Tasks)
  /\ DefaultCtx \notin Ctxs \cup Tasks
  /\ Tasks \cap Ctxs = {}
  /\ None \notin Tasks \cup Ctxs \cup {DefaultCtx}
  /\ CtxOf \in [Tasks -> Ctxs \cup {None}]
  /\ Abortable \subseteq Tasks
  /\ MaxNest \in Nat \ {0}

VARIABLES
  claimed,   \* host->claimed
  claimer,   \* host->claimer
  ctxTask,   \* the task field of every mmc_ctx
  claimCnt,  \* host->claim_cnt
  pc,        \* where each task is
  claims,    \* the claims granted and not yet released, <<task, number>>
  abort,     \* the abort flag of each task
  pmUse      \* runtime PM usage count the claims hold on the controller

claimVars == <<claimed, claimer, ctxTask, claimCnt, pc, claims, abort, pmUse>>

(* idle: outside the two functions, with or without claims;                *)
(* check: about to run the loop body of __mmc_claim_host under host->lock; *)
(* sleep: state set to TASK_UNINTERRUPTIBLE, in schedule();                *)
(* resume: claim granted, pm_runtime_get_sync not yet called;              *)
(* wake, put: in mmc_release_host, before wake_up and before the PM put.   *)
Stages == {"idle", "check", "sleep", "resume", "wake", "put"}

Claims == Tasks \X (1 .. MaxNest)

(* Who a task claims for: itself, or the context it names.                 *)
Group(t) == IF CtxOf[t] = None THEN t ELSE CtxOf[t]

Groups == {Group(t) : t \in Tasks}

(* Who owns the host, read from the host's fields.                         *)
Owner == IF ~claimed THEN None
         ELSE IF claimer = DefaultCtx THEN ctxTask[DefaultCtx] ELSE claimer

-----------------------------------------------------------------------------
(* Helpers of __mmc_claim_host.                                            *)

(* struct task_struct *task = ctx ? NULL : current                         *)
ClaimTask(t) == IF CtxOf[t] = None THEN t ELSE None

mmc_ctx_matches(t) ==
  \/ claimer = CtxOf[t]
  \/ CtxOf[t] = None /\ ctxTask[claimer] = ClaimTask(t)

mmc_ctx_set_claimer(t) ==
  /\ claimer' = IF claimer # None THEN claimer
                ELSE IF CtxOf[t] # None THEN CtxOf[t] ELSE DefaultCtx
  /\ ctxTask' = IF ClaimTask(t) = None THEN ctxTask
                ELSE [ctxTask EXCEPT ![claimer'] = ClaimTask(t)]

(* wake_up(&host->wq): the entries are not exclusive, so all of them wake. *)
WakeAll(stage) ==
  [u \in Tasks |-> IF stage[u] = "sleep" THEN "check" ELSE stage[u]]

-----------------------------------------------------------------------------
(* __mmc_claim_host                                                        *)

(* !host->claimed || mmc_ctx_matches(host, ctx, task)                      *)
CanClaim(t) == claimed => mmc_ctx_matches(t)

ClaimEnter(t) ==
  /\ pc[t] = "idle"
  /\ \E i \in 1 .. MaxNest : <<t, i>> \notin claims
  /\ pc' = [pc EXCEPT ![t] = "check"]
  /\ UNCHANGED <<claimed, claimer, ctxTask, claimCnt, claims, abort, pmUse>>

ClaimGrantUnpowered(t) ==
  /\ pc[t] = "check" /\ ~abort[t] /\ CanClaim(t)
  /\ claimed' = TRUE
  /\ mmc_ctx_set_claimer(t)
  /\ claimCnt' = claimCnt + 1
  /\ \E i \in 1 .. MaxNest :
       <<t, i>> \notin claims /\ claims' = claims \cup {<<t, i>>}
  /\ pc' = [pc EXCEPT ![t] = IF claimCnt' = 2 THEN "resume" ELSE "idle"]
  /\ UNCHANGED <<abort, pmUse>>

ClaimGrant(t) ==
  /\ pc[t] = "check" /\ ~abort[t] /\ CanClaim(t)
  /\ claimed' = TRUE
  /\ mmc_ctx_set_claimer(t)
  /\ claimCnt' = claimCnt + 1
  /\ \E i \in 1 .. MaxNest :
       <<t, i>> \notin claims /\ claims' = claims \cup {<<t, i>>}
  /\ pc' = [pc EXCEPT ![t] = IF claimCnt' = 1 THEN "resume" ELSE "idle"]
  /\ UNCHANGED <<abort, pmUse>>

ClaimSleepDeaf(t) ==
  /\ pc[t] = "check" /\ ~CanClaim(t)
  /\ pc' = [pc EXCEPT ![t] = "sleep"]
  /\ UNCHANGED <<claimed, claimer, ctxTask, claimCnt, claims, abort, pmUse>>

ClaimSleep(t) ==
  /\ pc[t] = "check" /\ ~abort[t] /\ ~CanClaim(t)
  /\ pc' = [pc EXCEPT ![t] = "sleep"]
  /\ UNCHANGED <<claimed, claimer, ctxTask, claimCnt, claims, abort, pmUse>>

(* The aborted caller wakes the queue on its way out, holding no claim.    *)
ClaimStop(t) ==
  /\ pc[t] = "check" /\ abort[t]
  /\ pc' = [WakeAll(pc) EXCEPT ![t] = "idle"]
  /\ UNCHANGED <<claimed, claimer, ctxTask, claimCnt, claims, abort, pmUse>>

(* pm_runtime_get_sync(mmc_dev(host)), after host->lock is dropped.        *)
ClaimResume(t) ==
  /\ pc[t] = "resume"
  /\ pmUse' = pmUse + 1
  /\ pc' = [pc EXCEPT ![t] = "idle"]
  /\ UNCHANGED <<claimed, claimer, ctxTask, claimCnt, claims, abort>>

-----------------------------------------------------------------------------
(* mmc_release_host: a claim is given back by a task of the group that     *)
(* took it, once the call that took it has returned.                       *)

MayRelease(t, c) ==
  pc[t] = "idle" /\ c \in claims /\ Group(c[1]) = Group(t)
    /\ pc[c[1]] # "resume"

ReleaseNestedPut(t, c) ==
  /\ MayRelease(t, c)
  /\ claims' = claims \ {c}
  /\ claimCnt' = claimCnt - 1
  /\ pc' = [pc EXCEPT ![t] = "wake"]
  /\ IF claimCnt' # 0
       THEN UNCHANGED <<claimed, claimer, ctxTask>>
       ELSE /\ claimed' = FALSE
            /\ ctxTask' = [ctxTask EXCEPT ![claimer] = None]
            /\ claimer' = None
  /\ UNCHANGED <<abort, pmUse>>

ReleaseIgnoresNest(t, c) ==
  /\ MayRelease(t, c)
  /\ claims' = claims \ {c}
  /\ claimCnt' = claimCnt - 1
  /\ claimed' = FALSE
  /\ ctxTask' = [ctxTask EXCEPT ![claimer] = None]
  /\ claimer' = None
  /\ pc' = [pc EXCEPT ![t] = "wake"]
  /\ UNCHANGED <<abort, pmUse>>

Release(t, c) ==
  /\ MayRelease(t, c)
  /\ claims' = claims \ {c}
  /\ claimCnt' = claimCnt - 1
  /\ IF claimCnt' # 0
       THEN UNCHANGED <<claimed, claimer, ctxTask, pc>>
       ELSE /\ claimed' = FALSE
            /\ ctxTask' = [ctxTask EXCEPT ![claimer] = None]
            /\ claimer' = None
            /\ pc' = [pc EXCEPT ![t] = "wake"]
  /\ UNCHANGED <<abort, pmUse>>

ReleaseWakeOne(t) ==
  /\ pc[t] = "wake"
  /\ pc' = [pc EXCEPT ![t] = "put"]
  /\ UNCHANGED <<claimed, claimer, ctxTask, claimCnt, claims, abort, pmUse>>

ReleaseWake(t) ==
  /\ pc[t] = "wake"
  /\ pc' = [WakeAll(pc) EXCEPT ![t] = "put"]
  /\ UNCHANGED <<claimed, claimer, ctxTask, claimCnt, claims, abort, pmUse>>

(* pm_runtime_mark_last_busy and pm_runtime_put_autosuspend.               *)
ReleasePut(t) ==
  /\ pc[t] = "put"
  /\ pmUse' = pmUse - 1
  /\ pc' = [pc EXCEPT ![t] = "idle"]
  /\ UNCHANGED <<claimed, claimer, ctxTask, claimCnt, claims, abort>>

-----------------------------------------------------------------------------
(* The task that stops an abortable one (sdio_card_irq_put): it raises the *)
(* flag, then kthread_stop wakes the sleeper.  The flag is lowered for the *)
(* next thread that is started (sdio_card_irq_get).                        *)

RaiseAbort(t) ==
  /\ t \in Abortable /\ ~abort[t]
  /\ abort' = [abort EXCEPT ![t] = TRUE]
  /\ UNCHANGED <<claimed, claimer, ctxTask, claimCnt, pc, claims, pmUse>>

KthreadStopWakes(t) ==
  /\ abort[t] /\ pc[t] = "sleep"
  /\ pc' = [pc EXCEPT ![t] = "check"]
  /\ UNCHANGED <<claimed, claimer, ctxTask, claimCnt, claims, abort, pmUse>>

LowerAbort(t) ==
  /\ abort[t] /\ pc[t] = "idle"
  /\ abort' = [abort EXCEPT ![t] = FALSE]
  /\ UNCHANGED <<claimed, claimer, ctxTask, claimCnt, pc, claims, pmUse>>

-----------------------------------------------------------------------------
ClaimInit ==
  /\ claimed = FALSE
  /\ claimer = None
  /\ ctxTask = [c \in Ctxs \cup {DefaultCtx} |-> None]
  /\ claimCnt = 0
  /\ pc = [t \in Tasks |-> "idle"]
  /\ claims = {}
  /\ abort = [t \in Tasks |-> FALSE]
  /\ pmUse = 0

TaskStep(t) ==
  \/ ClaimEnter(t) \/ ClaimGrant(t) \/ ClaimSleep(t) \/ ClaimStop(t)
  \/ ClaimResume(t)
  \/ \E c \in claims : Release(t, c)
  \/ ReleaseWake(t) \/ ReleasePut(t)

AbortStep(t) == RaiseAbort(t) \/ KthreadStopWakes(t) \/ LowerAbort(t)

ClaimNext == \E t \in Tasks : TaskStep(t) \/ AbortStep(t)

ClaimSpec == ClaimInit /\ [][ClaimNext]_claimVars

(* What a runnable task does by itself, the steps weak fairness is assumed *)
(* of, with KthreadStopWakes: nothing obliges a client to claim, to        *)
(* release or to raise an abort flag.                                      *)
GoesOn(t) ==
  \/ ClaimGrant(t) \/ ClaimSleep(t) \/ ClaimStop(t) \/ ClaimResume(t)
  \/ ReleaseWake(t) \/ ReleasePut(t)

-----------------------------------------------------------------------------
(* Every field holds a value of its type; the claim count and the PM usage *)
(* count never go below zero.                                              *)
ClaimTypeOK ==
  /\ claimed \in BOOLEAN
  /\ claimer \in Ctxs \cup {DefaultCtx, None}
  /\ ctxTask \in [Ctxs \cup {DefaultCtx} -> Tasks \cup {None}]
  /\ claimCnt \in Nat
  /\ pc \in [Tasks -> Stages]
  /\ claims \subseteq Claims
  /\ abort \in [Tasks -> BOOLEAN]
  /\ pmUse \in Nat

(* No two tasks hold the host at once unless they claimed it in the name   *)
(* of the same context ("exclusively claim a host").                       *)
ClaimExclusive ==
  \A c, d \in claims : Group(c[1]) = Group(d[1])

(* The host's fields agree with the claims handed out: claim_cnt counts    *)
(* them, claimed and claimer tell whose they are.  It is what keeps        *)
(* ClaimExclusive, and mmc_put_card's WARN_ON(ctx && claimer != ctx), true.*)
ClaimAccounting ==
  /\ claimCnt = Cardinality(claims)
  /\ claimed <=> claims # {}
  /\ \A c \in claims : Owner = Group(c[1])

(* A task whose claim has returned runs with the controller resumed, which *)
(* __mmc_start_request takes for granted.                                  *)
HolderPowered ==
  \A c \in claims : pc[c[1]] # "resume" => pmUse > 0

(* The tasks that have freed the host and still hold its PM reference.     *)
Owing == {t \in Tasks : pc[t] \in {"wake", "put"}}

(* The claims keep exactly one PM reference, and none is leaked: with the  *)
(* host free and no release under way the controller may suspend.          *)
PmBalanced ==
  pmUse = Cardinality(Owing)
            + (IF claimed /\ \A t \in Tasks : pc[t] # "resume" THEN 1 ELSE 0)

(* No lost wake-up: while a task sleeps for a host that is free, the task  *)
(* that freed it has yet to call wake_up.                                  *)
NoStrandedWaiter ==
  (~claimed /\ \E t \in Tasks : pc[t] = "sleep")
    => \E u \in Tasks : pc[u] = "wake"

(* A claimer whose abort flag is raised comes back, even if the host is    *)
(* never released: it is what lets the SDIO interrupt thread be stopped by *)
(* a task that holds the host.                                             *)
AbortReturns ==
  \A t \in Abortable :
    (abort[t] /\ pc[t] \in {"check", "sleep"}) ~> (pc[t] = "idle")

(* The claims implement the lock their callers reason with.                *)
Lock == INSTANCE HostLock WITH Groups <- Groups, Nobody <- None,
                               owner <- Owner, depth <- claimCnt
LockSpec == Lock!Spec
=============================================================================
