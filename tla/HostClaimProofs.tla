--------------------------- MODULE HostClaimProofs ---------------------------
(***************************************************************************)
(* The safety properties of HostClaim, for every set of tasks, every        *)
(* assignment of contexts to tasks and every nesting depth.                 *)
(***************************************************************************)
EXTENDS HostClaim, FiniteSetTheorems, TLAPS

(* Types without the signs of the counters, which follow from the rest.    *)
TypeInv ==
  /\ claimed \in BOOLEAN
  /\ claimer \in Ctxs \cup {DefaultCtx, None}
  /\ ctxTask \in [Ctxs \cup {DefaultCtx} -> Tasks \cup {None}]
  /\ claimCnt \in Int
  /\ pc \in [Tasks -> Stages]
  /\ claims \subseteq Claims
  /\ abort \in [Tasks -> BOOLEAN]
  /\ pmUse \in Int

(* A claimer exists exactly while the host is claimed; only the host's own *)
(* context ever records a task, and only while it is the claimer.          *)
ClaimerInv ==
  /\ claimed <=> claimer # None
  /\ \A c \in Ctxs : ctxTask[c] = None
  /\ (ctxTask[DefaultCtx] = None) <=> (claimer # DefaultCtx)

(* The task that owes the host its pm_runtime_get_sync is alone in this    *)
(* and still holds the claim that made it owe it.                          *)
ResumeInv ==
  /\ \A t, u \in Tasks : pc[t] = "resume" /\ pc[u] = "resume" => t = u
  /\ \A t \in Tasks : pc[t] = "resume" => \E c \in claims : c[1] = t

IInv ==
  /\ TypeInv
  /\ ClaimerInv
  /\ IsFiniteSet(claims)
  /\ ClaimAccounting
  /\ ResumeInv
  /\ NoStrandedWaiter

-----------------------------------------------------------------------------
(* Whoever passes the test of the claim loop on a claimed host belongs to  *)
(* the group that owns it.                                                 *)
LEMMA MatchOwns ==
  ASSUME TypeInv, ClaimerInv, claimed, NEW t \in Tasks, mmc_ctx_matches(t)
  PROVE  Owner = Group(t)
<1>1. CASE claimer = CtxOf[t]
  BY <1>1, ClaimAssumption DEF TypeInv, ClaimerInv, Owner, Group
<1>2. CASE CtxOf[t] = None /\ ctxTask[claimer] = ClaimTask(t)
  <2>1. ctxTask[claimer] = t /\ t # None
    BY <1>2, ClaimAssumption DEF ClaimTask
  <2>2. claimer = DefaultCtx
    BY <2>1 DEF TypeInv, ClaimerInv
  <2> QED
    BY <1>2, <2>1, <2>2 DEF Owner, Group
<1> QED
  BY <1>1, <1>2 DEF mmc_ctx_matches

(* What a granted claim leaves behind: the host is owned by the group of   *)
(* the task that was let in.                                               *)
LEMMA GrantOwns ==
  ASSUME IInv, NEW t \in Tasks, ClaimGrant(t)
  PROVE  /\ claimed' /\ Owner' = Group(t)
         /\ claimer' \in Ctxs \cup {DefaultCtx}
         /\ ctxTask' \in [Ctxs \cup {DefaultCtx} -> Tasks \cup {None}]
         /\ ClaimerInv'
<1> USE DEF IInv, ClaimGrant
<1>1. CASE claimed
  <2>1. Owner = Group(t)
    BY <1>1, MatchOwns DEF CanClaim
  <2>2. claimer # None /\ claimer' = claimer
    BY <1>1 DEF ClaimerInv, mmc_ctx_set_claimer
  <2>3. CASE CtxOf[t] # None
    <3>1. ctxTask' = ctxTask
      BY <2>3, ClaimAssumption DEF ClaimTask, mmc_ctx_set_claimer
    <3> QED
      BY <1>1, <2>1, <2>2, <3>1 DEF TypeInv, ClaimerInv, Owner
  <2>4. CASE CtxOf[t] = None
    <3>1. claimer = DefaultCtx /\ ctxTask[DefaultCtx] = t
      <4>1. Group(t) = t
        BY <2>4 DEF Group
      <4> QED
        BY <1>1, <2>1, <2>2, <4>1, ClaimAssumption DEF TypeInv, Owner
    <3>2. ctxTask' = [ctxTask EXCEPT ![DefaultCtx] = t]
      BY <2>2, <2>4, <3>1, ClaimAssumption DEF ClaimTask, mmc_ctx_set_claimer
    <3>3. ctxTask' = ctxTask
      BY <3>1, <3>2 DEF TypeInv
    <3> QED
      BY <1>1, <2>1, <2>2, <3>3 DEF TypeInv, ClaimerInv, Owner
  <2> QED
    BY <2>3, <2>4
<1>2. CASE ~claimed
  <2>1. claimer = None
    BY <1>2 DEF ClaimerInv
  <2>2. CASE CtxOf[t] # None
    <3>1. claimer' = CtxOf[t] /\ ctxTask' = ctxTask
      BY <2>1, <2>2, ClaimAssumption DEF ClaimTask, mmc_ctx_set_claimer
    <3>2. CtxOf[t] \in Ctxs /\ CtxOf[t] # DefaultCtx
      BY <2>2, ClaimAssumption
    <3> QED
      BY <2>1, <2>2, <3>1, <3>2, ClaimAssumption
      DEF TypeInv, ClaimerInv, Owner, Group
  <2>3. CASE CtxOf[t] = None
    <3>1. claimer' = DefaultCtx /\ ctxTask' = [ctxTask EXCEPT ![DefaultCtx] = t]
      BY <2>1, <2>3, ClaimAssumption DEF ClaimTask, mmc_ctx_set_claimer
    <3> QED
      BY <2>3, <3>1, ClaimAssumption DEF TypeInv, ClaimerInv, Owner, Group
  <2> QED
    BY <2>2, <2>3
<1> QED
  BY <1>1, <1>2

-----------------------------------------------------------------------------
(* The steps that touch no field of the host: they change where tasks are  *)
(* and leave what the accounting speaks of.                                *)
Idle == UNCHANGED <<claimed, claimer, ctxTask, claimCnt, claims>>

LEMMA IdleKeeps ==
  ASSUME IInv, Idle,
         pc' \in [Tasks -> Stages], abort' \in [Tasks -> BOOLEAN], pmUse' \in Int
  PROVE  /\ TypeInv' /\ ClaimerInv' /\ IsFiniteSet(claims)' /\ ClaimAccounting'
  BY DEF IInv, Idle, TypeInv, ClaimerInv, ClaimAccounting, Owner

LEMMA WakeAllType ==
  ASSUME pc \in [Tasks -> Stages]
  PROVE  /\ WakeAll(pc) \in [Tasks -> Stages]
         /\ \A u \in Tasks : WakeAll(pc)[u] # "sleep"
         /\ \A u \in Tasks : \A s \in {"resume", "wake", "put"} :
              WakeAll(pc)[u] = s <=> pc[u] = s
  BY DEF WakeAll, Stages

LEMMA InitIInv ==
  ASSUME ClaimInit
  PROVE  IInv
<1>1. IsFiniteSet(claims) /\ Cardinality(claims) = 0
  BY FS_EmptySet DEF ClaimInit
<1>2. TypeInv
  <2>1. abort \in [Tasks -> BOOLEAN] /\ claimed \in BOOLEAN
    BY DEF ClaimInit
  <2>2. pc \in [Tasks -> Stages] /\ ctxTask \in [Ctxs \cup {DefaultCtx} -> Tasks \cup {None}]
    BY DEF ClaimInit, Stages
  <2> QED
    BY <2>1, <2>2 DEF ClaimInit, TypeInv
<1> QED
  BY <1>1, <1>2, ClaimAssumption
  DEF ClaimInit, IInv, ClaimerInv, ClaimAccounting, ResumeInv, NoStrandedWaiter

LEMMA GrantKeeps ==
  ASSUME IInv, NEW t \in Tasks, ClaimGrant(t)
  PROVE  IInv'
<1>1. PICK i \in 1 .. MaxNest : <<t, i>> \notin claims /\ claims' = claims \cup {<<t, i>>}
  BY DEF ClaimGrant
<1>2. <<t, i>> \in Claims /\ claims' # {}
  BY <1>1 DEF Claims
<1>3. /\ IsFiniteSet(claims') /\ Cardinality(claims') = Cardinality(claims) + 1
      /\ Cardinality(claims) \in Nat
  BY <1>1, FS_AddElement, FS_CardinalityType DEF IInv
<1>4. claims = {} <=> claimCnt = 0
  BY FS_EmptySet DEF IInv, ClaimAccounting
<1>5. /\ claimed' /\ Owner' = Group(t) /\ ClaimerInv'
      /\ claimer' \in Ctxs \cup {DefaultCtx}
      /\ ctxTask' \in [Ctxs \cup {DefaultCtx} -> Tasks \cup {None}]
  BY GrantOwns
<1>6. TypeInv'
  BY <1>1, <1>2, <1>5 DEF IInv, TypeInv, ClaimGrant, Stages
<1>7. \A c \in claims : Group(c[1]) = Group(t)
  <2>1. CASE claimed
    BY <2>1, MatchOwns DEF IInv, ClaimGrant, CanClaim, ClaimAccounting
  <2>2. CASE ~claimed
    BY <2>2 DEF IInv, ClaimAccounting
  <2> QED
    BY <2>1, <2>2
<1>8. ClaimAccounting'
  BY <1>1, <1>2, <1>3, <1>5, <1>7 DEF IInv, ClaimAccounting, ClaimGrant
<1>9. ResumeInv'
  <2>1. CASE claims = {}
    <3>1. \A u \in Tasks : pc[u] # "resume"
      BY <2>1 DEF IInv, ResumeInv
    <3> QED
      BY <1>1, <3>1 DEF IInv, TypeInv, ResumeInv, ClaimGrant
  <2>2. CASE claims # {}
    <3>1. claimCnt' # 1
      BY <1>4, <2>2 DEF IInv, TypeInv, ClaimGrant
    <3>2. pc' = [pc EXCEPT ![t] = "idle"]
      BY <3>1 DEF ClaimGrant
    <3> QED
      BY <1>1, <3>2 DEF IInv, TypeInv, ResumeInv
  <2> QED
    BY <2>1, <2>2
<1>10. NoStrandedWaiter'
  BY <1>5 DEF NoStrandedWaiter
<1> QED
  BY <1>3, <1>5, <1>6, <1>8, <1>9, <1>10 DEF IInv

LEMMA ReleaseKeeps ==
  ASSUME IInv, NEW t \in Tasks, NEW c \in claims, Release(t, c)
  PROVE  IInv'
<1>1. /\ IsFiniteSet(claims') /\ Cardinality(claims') = Cardinality(claims) - 1
      /\ Cardinality(claims') \in Nat
  BY FS_RemoveElement, FS_CardinalityType DEF IInv, Release
<1>2. claims' = {} <=> claimCnt' = 0
  BY <1>1, FS_EmptySet DEF IInv, ClaimAccounting, Release
<1>3. claimed /\ claimer # None
  BY DEF IInv, ClaimerInv, ClaimAccounting
<1>4. claimCnt' = Cardinality(claims')
  BY <1>1 DEF IInv, ClaimAccounting, Release
<1>5. ResumeInv'
  <2>1. \A u \in Tasks : pc'[u] = "resume" => pc[u] = "resume"
    BY DEF IInv, TypeInv, Release
  <2>2. \A u \in Tasks : pc'[u] = "resume" => c[1] # u
    BY <2>1 DEF IInv, Release, MayRelease
  <2> QED
    BY <2>1, <2>2 DEF IInv, ResumeInv, Release
<1>6. CASE claimCnt' # 0
  <2>1. UNCHANGED <<claimed, claimer, ctxTask, pc, abort, pmUse>>
    BY <1>6 DEF Release
  <2>2. TypeInv'
    BY <2>1 DEF IInv, TypeInv, Release
  <2>3. ClaimerInv' /\ Owner' = Owner
    BY <2>1 DEF IInv, ClaimerInv, Owner
  <2>4. ClaimAccounting'
    BY <1>2, <1>3, <1>4, <1>6, <2>1, <2>3 DEF IInv, ClaimAccounting, Release
  <2>5. NoStrandedWaiter'
    BY <1>3, <2>1 DEF NoStrandedWaiter
  <2> QED
    BY <1>1, <1>5, <2>2, <2>3, <2>4, <2>5 DEF IInv
<1>7. CASE claimCnt' = 0
  <2>1. /\ claimed' = FALSE /\ claimer' = None
        /\ ctxTask' = [ctxTask EXCEPT ![claimer] = None]
        /\ pc' = [pc EXCEPT ![t] = "wake"] /\ claims' = {}
    BY <1>2, <1>7 DEF Release
  <2>2. TypeInv'
    <3>1. claimed' \in BOOLEAN /\ abort' \in [Tasks -> BOOLEAN]
      BY <2>1 DEF IInv, TypeInv, Release
    <3>2. pc' \in [Tasks -> Stages]
      BY <2>1 DEF IInv, TypeInv, Stages
    <3>3. ctxTask' \in [Ctxs \cup {DefaultCtx} -> Tasks \cup {None}]
      BY <2>1 DEF IInv, TypeInv
    <3> QED
      BY <1>7, <2>1, <3>1, <3>2, <3>3 DEF IInv, TypeInv, Release
  <2>3. ClaimerInv'
    BY <1>3, <2>1, ClaimAssumption DEF IInv, TypeInv, ClaimerInv
  <2>4. ClaimAccounting'
    BY <1>4, <2>1 DEF ClaimAccounting
  <2>5. NoStrandedWaiter'
    BY <2>1 DEF IInv, TypeInv, NoStrandedWaiter
  <2> QED
    BY <1>1, <1>5, <2>2, <2>3, <2>4, <2>5 DEF IInv
<1> QED
  BY <1>6, <1>7

-----------------------------------------------------------------------------
(* The remaining steps.                                                    *)

LEMMA QuietKeeps ==
  ASSUME IInv, NEW t \in Tasks,
         \/ ClaimEnter(t) \/ ClaimSleep(t) \/ ClaimStop(t) \/ ClaimResume(t)
         \/ ReleaseWake(t) \/ ReleasePut(t) \/ AbortStep(t)
  PROVE  IInv'
<1>1. Idle
  BY DEF Idle, ClaimEnter, ClaimSleep, ClaimStop, ClaimResume, ReleaseWake,
         ReleasePut, AbortStep, RaiseAbort, KthreadStopWakes, LowerAbort
<1>2. abort' \in [Tasks -> BOOLEAN]
  <2>1. abort \in [Tasks -> BOOLEAN]
    BY DEF IInv, TypeInv
  <2>2. abort' = abort \/ \E b \in BOOLEAN : abort' = [abort EXCEPT ![t] = b]
    BY DEF ClaimEnter, ClaimSleep, ClaimStop, ClaimResume, ReleaseWake,
           ReleasePut, AbortStep, RaiseAbort, KthreadStopWakes, LowerAbort
  <2> QED
    BY <2>1, <2>2
<1>3. pmUse' \in Int
  BY DEF IInv, TypeInv, ClaimEnter, ClaimSleep, ClaimStop, ClaimResume,
         ReleaseWake, ReleasePut, AbortStep, RaiseAbort, KthreadStopWakes, LowerAbort
<1>4. pc \in [Tasks -> Stages]
  BY DEF IInv, TypeInv
<1>5. \/ pc' = pc
      \/ \E s \in {"idle", "check"} : pc' = [pc EXCEPT ![t] = s]
      \/ ~CanClaim(t) /\ pc' = [pc EXCEPT ![t] = "sleep"]
      \/ pc[t] # "wake" /\ pc' = [WakeAll(pc) EXCEPT ![t] = "idle"]
      \/ pc' = [WakeAll(pc) EXCEPT ![t] = "put"]
  BY DEF ClaimEnter, ClaimSleep, ClaimStop, ClaimResume, ReleaseWake,
         ReleasePut, AbortStep, RaiseAbort, KthreadStopWakes, LowerAbort
<1>6. pc' \in [Tasks -> Stages]
  BY <1>4, <1>5, WakeAllType DEF Stages
<1>7. \A u \in Tasks : pc'[u] = "resume" => pc[u] = "resume"
  BY <1>4, <1>5, WakeAllType
<1>8. ResumeInv'
  BY <1>1, <1>7 DEF IInv, ResumeInv, Idle
<1>9. NoStrandedWaiter'
  <2>1. SUFFICES ASSUME ~claimed, NEW u \in Tasks, pc'[u] = "sleep"
                 PROVE  \E w \in Tasks : pc'[w] = "wake"
    BY <1>1 DEF NoStrandedWaiter, Idle
  <2>2. pc[u] = "sleep"
    BY <1>4, <1>5, <2>1, WakeAllType DEF CanClaim
  <2>3. PICK w \in Tasks : pc[w] = "wake"
    BY <2>1, <2>2 DEF IInv, NoStrandedWaiter
  <2>4. pc'[w] = "wake"
    <3>1. pc[t] = "wake" => pc' = [WakeAll(pc) EXCEPT ![t] = "put"] \/ pc' = pc
      BY DEF ClaimEnter, ClaimSleep, ClaimStop, ClaimResume, ReleaseWake,
             ReleasePut, AbortStep, RaiseAbort, KthreadStopWakes, LowerAbort
    <3>2. pc' # [WakeAll(pc) EXCEPT ![t] = "put"]
          /\ pc' # [WakeAll(pc) EXCEPT ![t] = "idle"]
      BY <1>4, <2>1, WakeAllType
    <3> QED
      BY <1>4, <1>5, <2>3, <3>1, <3>2
  <2> QED
    BY <2>4
<1> QED
  BY <1>1, <1>2, <1>3, <1>6, <1>8, <1>9, IdleKeeps DEF IInv

LEMMA NextIInv ==
  ASSUME IInv, [ClaimNext]_claimVars
  PROVE  IInv'
<1>1. CASE UNCHANGED claimVars
  BY <1>1 DEF IInv, TypeInv, ClaimerInv, ClaimAccounting, Owner, ResumeInv,
              NoStrandedWaiter, claimVars
<1>2. ASSUME NEW t \in Tasks, TaskStep(t) \/ AbortStep(t)
      PROVE  IInv'
  <2>1. CASE ClaimGrant(t)
    BY <2>1, GrantKeeps
  <2>2. CASE \E c \in claims : Release(t, c)
    BY <2>2, ReleaseKeeps
  <2> QED
    BY <1>2, <2>1, <2>2, QuietKeeps DEF TaskStep
<1> QED
  BY <1>1, <1>2 DEF ClaimNext

THEOREM Invariance == ClaimSpec => []IInv
<1>1. ClaimInit => IInv
  BY InitIInv
<1>2. IInv /\ [ClaimNext]_claimVars => IInv'
  BY NextIInv
<1> QED
  BY <1>1, <1>2, PTL DEF ClaimSpec

-----------------------------------------------------------------------------
(* The runtime PM reference of the claims.                                 *)

PmInv == PmBalanced /\ pmUse \in Nat

(* The term that a claim in force contributes to the usage count.          *)
Held == IF claimed /\ \A t \in Tasks : pc[t] # "resume" THEN 1 ELSE 0

LEMMA OwingFinite ==
  IsFiniteSet(Owing) /\ Cardinality(Owing) \in Nat /\ IsFiniteSet(Owing')
BY FS_Subset, FS_CardinalityType, ClaimAssumption DEF Owing

LEMMA NextPm ==
  ASSUME IInv, IInv', PmInv, [ClaimNext]_claimVars
  PROVE  PmInv'
<1>1. pc \in [Tasks -> Stages] /\ pmUse = Cardinality(Owing) + Held
  BY DEF IInv, TypeInv, PmInv, PmBalanced, Held
<1>2. SUFFICES PmBalanced'
  <2>1. Cardinality(Owing)' \in Nat
    BY OwingFinite, FS_CardinalityType
  <2> QED
    BY <2>1 DEF PmInv, PmBalanced
<1>3. SUFFICES pmUse' = Cardinality(Owing') + Held'
  BY DEF PmBalanced, Held
<1>4. ASSUME Owing' = Owing, Held' = Held, pmUse' = pmUse
      PROVE  pmUse' = Cardinality(Owing') + Held'
  BY <1>1, <1>4
<1>5. CASE UNCHANGED claimVars
  BY <1>4, <1>5 DEF claimVars, Owing, Held
<1>6. ASSUME NEW t \in Tasks, TaskStep(t) \/ AbortStep(t)
      PROVE  pmUse' = Cardinality(Owing') + Held'
  <2>1. CASE ClaimGrant(t)
    <3>1. Owing' = Owing /\ pmUse' = pmUse
      BY <1>1, <2>1 DEF ClaimGrant, Owing
    <3>2. CASE claims = {}
      <4>1. ~claimed /\ claimCnt' = 1
        BY <3>2, <2>1, FS_EmptySet DEF IInv, ClaimAccounting, ClaimGrant
      <4>2. pc'[t] = "resume"
        BY <1>1, <2>1, <4>1 DEF ClaimGrant
      <4> QED
        BY <1>4, <3>1, <4>1, <4>2 DEF Held
    <3>3. CASE claims # {}
      <4>1. claimed /\ claimed' /\ claimCnt \in Int /\ claimCnt # 0
        BY <3>3, <2>1, FS_EmptySet DEF IInv, TypeInv, ClaimAccounting, ClaimGrant
      <4>2. claimCnt' # 1
        BY <2>1, <4>1 DEF ClaimGrant
      <4>3. pc[t] # "resume" /\ pc' = [pc EXCEPT ![t] = "idle"]
        BY <1>1, <2>1, <4>2 DEF ClaimGrant
      <4> QED
        BY <1>1, <1>4, <3>1, <4>1, <4>3 DEF Held
    <3> QED
      BY <3>2, <3>3
  <2>2. ASSUME NEW c \in claims, Release(t, c)
        PROVE  pmUse' = Cardinality(Owing') + Held'
    <3>1. CASE claimCnt' # 0
      BY <1>4, <2>2, <3>1 DEF Release, Owing, Held
    <3>2. CASE claimCnt' = 0
      <4>1. claims' = {} /\ ~claimed' /\ pmUse' = pmUse
            /\ pc' = [pc EXCEPT ![t] = "wake"]
        BY <2>2, <3>2, FS_EmptySet DEF IInv, ClaimAccounting, Release
      <4>2. claims = {c} /\ claimed
        BY <2>2, <4>1 DEF Release, IInv, ClaimAccounting
      <4>3. \A u \in Tasks : pc[u] # "resume"
        BY <2>2, <4>2 DEF IInv, ResumeInv, Release, MayRelease
      <4>4. t \notin Owing /\ Owing' = Owing \cup {t}
        BY <1>1, <2>2, <4>1 DEF Release, MayRelease, Owing
      <4>5. Cardinality(Owing') = Cardinality(Owing) + 1
        BY <4>4, OwingFinite, FS_AddElement
      <4>6. Held = 1 /\ Held' = 0
        BY <4>1, <4>2, <4>3 DEF Held
      <4> QED
        BY <1>1, <4>1, <4>5, <4>6, OwingFinite
    <3> QED
      BY <3>1, <3>2
  <2>3. CASE ClaimResume(t)
    <3>1. claimed /\ claimed' /\ Owing' = Owing
      BY <1>1, <2>3 DEF ClaimResume, IInv, ResumeInv, ClaimAccounting, Owing
    <3>2. \A u \in Tasks : pc'[u] # "resume"
      BY <1>1, <2>3 DEF ClaimResume, IInv, ResumeInv
    <3>3. Held = 0 /\ Held' = 1
      BY <2>3, <3>1, <3>2 DEF Held, ClaimResume
    <3> QED
      BY <1>1, <2>3, <3>1, <3>3, OwingFinite DEF ClaimResume
  <2>4. CASE ReleasePut(t)
    <3>1. t \in Owing /\ Owing' = Owing \ {t}
      BY <1>1, <2>4 DEF ReleasePut, Owing
    <3>2. Cardinality(Owing') = Cardinality(Owing) - 1
      BY <3>1, OwingFinite, FS_RemoveElement
    <3>3. Held' = Held
      BY <1>1, <2>4 DEF ReleasePut, Held
    <3>4. Held \in Nat
      BY DEF Held
    <3> QED
      BY <1>1, <2>4, <3>2, <3>3, <3>4, OwingFinite DEF ReleasePut
  <2>5. CASE ClaimEnter(t) \/ ClaimSleep(t) \/ ClaimStop(t) \/ ReleaseWake(t) \/ AbortStep(t)
    <3>1. pmUse' = pmUse /\ claimed' = claimed
      BY <2>5 DEF ClaimEnter, ClaimSleep, ClaimStop, ReleaseWake, AbortStep,
                  RaiseAbort, KthreadStopWakes, LowerAbort
    <3>2. \A u \in Tasks : /\ pc'[u] = "resume" <=> pc[u] = "resume"
                           /\ pc'[u] \in {"wake", "put"} <=> pc[u] \in {"wake", "put"}
      BY <1>1, <2>5, WakeAllType
      DEF ClaimEnter, ClaimSleep, ClaimStop, ReleaseWake, AbortStep,
          RaiseAbort, KthreadStopWakes, LowerAbort
    <3> QED
      BY <1>4, <3>1, <3>2 DEF Owing, Held
  <2> QED
    BY <1>6, <2>1, <2>2, <2>3, <2>4, <2>5 DEF TaskStep
<1> QED
  BY <1>5, <1>6 DEF ClaimNext

LEMMA InitPm ==
  ASSUME ClaimInit
  PROVE  PmInv
<1>1. Owing = {} /\ ~claimed
  BY DEF ClaimInit, Owing
<1> QED
  BY <1>1, FS_EmptySet DEF ClaimInit, PmInv, PmBalanced

-----------------------------------------------------------------------------
(* The properties.                                                         *)

(* The fields agree with the claims handed out, whatever the nesting.      *)
THEOREM ClaimAccountingHolds == ClaimSpec => []ClaimAccounting
BY Invariance, PTL DEF IInv

(* The host is claimed by one task, or one context, at a time.             *)
THEOREM ClaimExclusiveHolds == ClaimSpec => []ClaimExclusive
<1>1. IInv => ClaimExclusive
  BY DEF IInv, ClaimAccounting, ClaimExclusive
<1> QED
  BY <1>1, Invariance, PTL

(* No task sleeps for a host that is free and that nobody will announce.   *)
THEOREM NoStrandedWaiterHolds == ClaimSpec => []NoStrandedWaiter
BY Invariance, PTL DEF IInv

(* The claims keep exactly one runtime PM reference.                       *)
THEOREM PmBalancedHolds == ClaimSpec => [](PmBalanced /\ pmUse \in Nat)
<1>1. ClaimInit => PmInv
  BY InitPm
<1>2. IInv /\ IInv' /\ PmInv /\ [ClaimNext]_claimVars => PmInv'
  BY NextPm
<1> QED
  BY <1>1, <1>2, Invariance, PTL DEF ClaimSpec, PmInv

(* Every field keeps its type, and neither counter goes below zero.        *)
THEOREM TypeCorrect == ClaimSpec => []ClaimTypeOK
<1>1. IInv /\ PmInv => ClaimTypeOK
  <2>1. ASSUME IInv, PmInv PROVE claimCnt \in Nat
    BY <2>1, FS_CardinalityType DEF IInv, ClaimAccounting
  <2> QED
    BY <2>1 DEF IInv, TypeInv, PmInv, ClaimTypeOK
<1>2. ClaimSpec => [](PmBalanced /\ pmUse \in Nat)
  BY PmBalancedHolds
<1> QED
  BY <1>1, <1>2, Invariance, PTL DEF PmInv

(* When no two tasks share a context, a task that holds the host runs with *)
(* the controller resumed, as __mmc_start_request assumes.                 *)
THEOREM HolderPoweredHolds ==
  ASSUME \A t, u \in Tasks : Group(t) = Group(u) => t = u
  PROVE  ClaimSpec => []HolderPowered
<1>1. IInv /\ PmInv => HolderPowered
  <2>1. SUFFICES ASSUME IInv, PmInv, NEW c \in claims, pc[c[1]] # "resume"
                 PROVE  pmUse > 0
    BY DEF HolderPowered
  <2>2. \A u \in Tasks : pc[u] = "resume" => u = c[1]
    BY <2>1 DEF IInv, TypeInv, Claims, ResumeInv, ClaimAccounting
  <2>3. Held = 1
    BY <2>1, <2>2 DEF IInv, ClaimAccounting, Held
  <2> QED
    BY <2>1, <2>3, OwingFinite DEF PmInv, PmBalanced, Held
<1>2. ClaimSpec => [](PmBalanced /\ pmUse \in Nat)
  BY PmBalancedHolds
<1> QED
  BY <1>1, <1>2, Invariance, PTL DEF PmInv

(* mmc_claim_host and mmc_release_host implement a reentrant lock.         *)
THEOREM LockRefinement == ClaimSpec => LockSpec
<1>1. ClaimInit => Lock!Init
  BY DEF ClaimInit, Lock!Init, Owner
<1>2. IInv /\ IInv' /\ [ClaimNext]_claimVars => [Lock!Next]_<<Owner, claimCnt>>
  <2>1. SUFFICES ASSUME IInv, IInv', [ClaimNext]_claimVars
                 PROVE  Lock!Next \/ UNCHANGED <<Owner, claimCnt>>
    OBVIOUS
  <2>2. ASSUME NEW t \in Tasks, ClaimGrant(t)
        PROVE  Lock!Next
    <3>1. Owner' = Group(t) /\ Owner \in {None, Group(t)}
      <4>1. CASE claimed
        BY <2>1, <2>2, <4>1, MatchOwns, GrantOwns DEF IInv, ClaimGrant, CanClaim
      <4>2. CASE ~claimed
        BY <2>1, <2>2, <4>2, GrantOwns DEF Owner
      <4> QED
        BY <4>1, <4>2
    <3>2. Lock!Acquire(Group(t))
      BY <2>2, <3>1 DEF Lock!Acquire, ClaimGrant
    <3> QED
      BY <3>2 DEF Lock!Next, Groups
  <2>3. ASSUME NEW t \in Tasks, NEW c \in claims, Release(t, c)
        PROVE  Lock!Next
    <3>1. Owner = Group(c[1]) /\ Group(c[1]) # None
      BY <2>1, ClaimAssumption DEF IInv, TypeInv, ClaimAccounting, Claims, Group
    <3>2. Owner' = IF claimCnt' = 0 THEN None ELSE Owner
      BY <2>3 DEF Release, Owner
    <3> QED
      BY <2>3, <3>1, <3>2 DEF Lock!Next, Lock!Release, Release
  <2>4. ASSUME NEW t \in Tasks, TaskStep(t) \/ AbortStep(t), ~ClaimGrant(t),
               ~\E c \in claims : Release(t, c)
        PROVE  UNCHANGED <<Owner, claimCnt>>
    BY <2>4 DEF TaskStep, ClaimEnter, ClaimSleep, ClaimStop, ClaimResume,
                ReleaseWake, ReleasePut, AbortStep, RaiseAbort,
                KthreadStopWakes, LowerAbort, Owner
  <2>5. CASE UNCHANGED claimVars
    BY <2>5 DEF claimVars, Owner
  <2> QED
    BY <2>1, <2>2, <2>3, <2>4, <2>5 DEF ClaimNext
<1> QED
  BY <1>1, <1>2, Invariance, PTL DEF ClaimSpec, LockSpec, Lock!Spec, Lock!lockVars
=============================================================================
