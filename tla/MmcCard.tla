-------------------------------- MODULE MmcCard --------------------------------
(***************************************************************************)
(* The power management of an eMMC or MMC card once it has been attached:  *)
(* users that take the card (mmc_get_card) and give it back, the runtime   *)
(* suspend that follows, the sleep of the system and its shutdown          *)
(* (core/mmc.c, core/bus.c, core/core.c).  It composes mmc_init_card of    *)
(* MmcInit with the host's claim, the runtime PM core and the system's PM  *)
(* core; both PM cores are external and modelled by what they promise the  *)
(* callbacks in core/bus.c.                                                *)
(*                                                                         *)
(* A callback that claims the host, works and releases it is one step that *)
(* needs the host free: whoever might look in between has to claim first.  *)
(***************************************************************************)
EXTENDS MmcInit

CONSTANTS Setups,    \* pairs of a board and the traits of the card on it
          Queue,     \* threads of the card's driver, which stops them
          Watchers,  \* mmc_rescan, which the PM notifier stops
          Nobody     \* the holder of a free host

ASSUME SetupsAssumption == Setups \subseteq MmcBoards \X MmcTraits
ASSUME UsersAssumption == Queue \cap Watchers = {} /\ Nobody \notin Queue \cup Watchers

Users == Queue \cup Watchers

VARIABLES card,       \* the session of MmcInit: host->ios, card, struct mmc_card
          suspended,  \* mmc_card_suspended
          sound,      \* the last initialisation succeeded, no suspend has failed since
          rpm,        \* dev->power of the card: status, usage, disabled, error
          holder,     \* who has claimed the host
          pc,         \* where each user stands
          system,     \* where the sleep or the shutdown of the system stands
          stopped     \* users that the driver or the PM notifier keeps out

vars == <<card, suspended, sound, rpm, holder, pc, system, stopped>>

Stages == {"out", "get", "resume", "claim", "serve", "put"}

SystemStages == {"run", "prepared", "stopped", "disable", "asleep", "failed", "woken",
                 "halting", "halt", "haltResumed", "down"}

-----------------------------------------------------------------------------
(* _mmc_suspend.  A card that is not selected answers no command but CMD5  *)
(* and CMD0.                                                               *)

Reached(s, S) == IF s.chip.mode = "tran" THEN S ELSE {Fail(s)}

(* A failing switch here says nothing of the bus.                          *)
Unspoilt(s, S) == {[x EXCEPT !.spoilt = s.spoilt] : x \in S}

(* An HPI ends them; a card that takes none is left to complete them.      *)
mmc_stop_bkops(s) ==
  IF ~s.mem.bkops THEN {s}
  ELSE IF ~s.traits.hpi THEN {[s EXCEPT !.mem.bkops = FALSE]}
  ELSE {Fail(s)} \cup
       Reached(s, {[s EXCEPT !.mem.bkops = FALSE, !.chip.bkops = FALSE]})

FlushIgnored(s) ==
  IF ~s.mem.cache THEN {s}
  ELSE {[x EXCEPT !.ret = "ok"] :
          x \in Reached(s, Unspoilt(s, mmc_switch(s, [s.chip EXCEPT !.dirty = FALSE])))}

mmc_flush_cache(s) ==
  IF ~s.mem.cache THEN {s}
  ELSE Reached(s, Unspoilt(s, mmc_switch(s, [s.chip EXCEPT !.dirty = FALSE])))

mmc_can_poweroff_notify(s) == s.mem.notify

(* The status is not looked at, and the card is taken for told whatever    *)
(* came of it.                                                             *)
mmc_poweroff_notify(s) ==
  {[x EXCEPT !.mem.notify = FALSE] :
     x \in Reached(s, Unspoilt(s, SwitchBlind(s, [s.chip EXCEPT !.mode = "told"])))}

(* CMD7 for no card expects no answer: only the host may fail it.          *)
mmc_deselect_cards(s) ==
  {[s EXCEPT !.chip.mode = IF @ = "tran" THEN "stby" ELSE @], Fail(s)}

mmc_sleep(s) ==
  Then(mmc_deselect_cards(s), LAMBDA x :
    IF x.chip.mode = "stby"
    THEN {Fail(x), [x EXCEPT !.chip.mode = "slp"], Fail([x EXCEPT !.chip.mode = "slp"])}
    ELSE {Fail(x)})

(* is_suspend is false for a shutdown.                                     *)
Farewell(s, is_suspend) ==
  IF mmc_can_poweroff_notify(s) /\ (s.board.fullCycle \/ ~is_suspend)
    THEN mmc_poweroff_notify(s)
  ELSE IF s.traits.sleeps THEN mmc_sleep(s)
  ELSE mmc_deselect_cards(s)

_mmc_suspend(s, is_suspend) ==
  LET quiet == Then(Then({[s EXCEPT !.ret = "ok"]}, mmc_stop_bkops), mmc_flush_cache)
      gone  == Then(quiet, LAMBDA x : Farewell(x, is_suspend))
  IN {IF x.ret = "ok" THEN [x EXCEPT !.ios = mmc_power_off(@)] ELSE x : x \in gone}

(* A claim by its holder nests.                                            *)
Free(claimer) == holder \in {Nobody, claimer}

(* The work of the function with the host claimed.  Only one that ends     *)
(* well sets the card suspended.                                           *)
Suspended(is_suspend) ==
  /\ Free(Nobody)
  /\ IF suspended
       THEN /\ card' = [card EXCEPT !.ret = "ok"]
            /\ UNCHANGED <<suspended, sound>>
       ELSE /\ card' \in _mmc_suspend(card, is_suspend)
            /\ suspended' = (card'.ret = "ok")
            /\ sound' = (sound /\ card'.ret = "ok")

(* mmc_power_up and mmc_init_card: what comes of them depends on no more   *)
(* than this of a card that was off.                                       *)
PoweredUp(b, t, mem) ==
  LET off == [power |-> "off", clock |-> "none", level |-> 33, width |-> 1,
              timing |-> "legacy"]
  IN [board |-> b, traits |-> t, ios |-> mmc_power_up(b, off), chip |-> Reset,
      mem |-> mem, ret |-> "ok", spoilt |-> FALSE]

FieldsOf(t) ==
  {f \in Fields : /\ ~f.bkops
                  /\ f.notify => t.notifies
                  /\ f.cache => t.cache
                  /\ f.cmdqSupport => t.cmdq
                  /\ f.cmdq => f.cmdqSupport}

Initialised ==
  [k \in UNION {{<<st[1], st[2], f>> : f \in FieldsOf(st[2])} : st \in Setups} |->
     mmc_init_card(PoweredUp(k[1], k[2], k[3]))]

(* _mmc_resume clears the flag whether or not the card came back.          *)
Resumed(claimer) ==
  /\ Free(claimer)
  /\ IF ~suspended
       THEN /\ card' = [card EXCEPT !.ret = "ok"]
            /\ UNCHANGED <<suspended, sound>>
       ELSE /\ card' \in Initialised[<<card.board, card.traits, card.mem>>]
            /\ suspended' = FALSE
            /\ sound' = (card'.ret = "ok")

Untouched == UNCHANGED <<card, suspended, sound>>

-----------------------------------------------------------------------------
(* Runtime PM: what pm_runtime_* do with the card's device.                *)

Busy == rpm.status \in {"suspending", "resuming"}

(* The worker that the last put of a reference leaves behind.              *)
AutosuspendStart ==
  /\ rpm.status = "active" /\ rpm.usage = 0 /\ ~rpm.disabled /\ ~rpm.error
  /\ rpm' = [rpm EXCEPT !.status = "suspending"]
  /\ UNCHANGED <<holder, pc, system, stopped>> /\ Untouched

(* mmc_runtime_suspend: nothing is done unless the host asks for it, and   *)
(* an error bars further requests.                                         *)
mmc_runtime_suspend ==
  /\ rpm.status = "suspending"
  /\ IF card.board.aggressive
       THEN Suspended(TRUE)
       ELSE card' = [card EXCEPT !.ret = "ok"] /\ UNCHANGED <<suspended, sound>>
  /\ rpm' = IF card'.ret = "ok" THEN [rpm EXCEPT !.status = "suspended"]
            ELSE [rpm EXCEPT !.status = "active", !.error = TRUE]
  /\ UNCHANGED <<holder, pc, system, stopped>>

(* mmc_get_card: pm_runtime_get_sync, whose result nobody looks at, waits  *)
(* for a callback that runs and resumes a suspended card.                  *)
GetReference(u) ==
  /\ pc[u] = "out" /\ u \notin stopped
  /\ rpm' = [rpm EXCEPT !.usage = @ + 1]
  /\ pc' = [pc EXCEPT ![u] = "get"]
  /\ UNCHANGED <<holder, system, stopped>> /\ Untouched

(* The host first, the reference then: not what the code does.             *)
GetSyncClaimed(u) ==
  /\ pc[u] = "get" /\ Free(u)
  /\ holder' = u
  /\ IF rpm.error \/ rpm.disabled \/ rpm.status = "active"
       THEN rpm' = rpm /\ pc' = [pc EXCEPT ![u] = "claim"]
       ELSE IF Busy THEN rpm' = rpm /\ pc' = pc
       ELSE /\ rpm' = [rpm EXCEPT !.status = "resuming"]
            /\ pc' = [pc EXCEPT ![u] = "resume"]
  /\ UNCHANGED <<system, stopped>> /\ Untouched

GetSync(u) ==
  /\ pc[u] = "get"
  /\ IF rpm.error \/ rpm.disabled
       THEN rpm' = rpm /\ pc' = [pc EXCEPT ![u] = "claim"]
       ELSE /\ ~Busy
            /\ IF rpm.status = "active"
                 THEN rpm' = rpm /\ pc' = [pc EXCEPT ![u] = "claim"]
                 ELSE /\ rpm' = [rpm EXCEPT !.status = "resuming"]
                      /\ pc' = [pc EXCEPT ![u] = "resume"]
  /\ UNCHANGED <<holder, system, stopped>> /\ Untouched

(* mmc_runtime_resume returns 0 whatever _mmc_resume did.                  *)
mmc_runtime_resume(u) ==
  /\ pc[u] = "resume"
  /\ Resumed(u)
  /\ rpm' = [rpm EXCEPT !.status = "active"]
  /\ pc' = [pc EXCEPT ![u] = "claim"]
  /\ UNCHANGED <<holder, system, stopped>>

ClaimHost(u) ==
  /\ pc[u] = "claim" /\ Free(u)
  /\ holder' = u
  /\ pc' = [pc EXCEPT ![u] = "serve"]
  /\ UNCHANGED <<rpm, system, stopped>> /\ Untouched

(* mmc_put_card: the claim goes first.                                     *)
ReleaseHost(u) ==
  /\ pc[u] = "serve"
  /\ holder' = Nobody
  /\ pc' = [pc EXCEPT ![u] = "put"]
  /\ UNCHANGED <<rpm, system, stopped>> /\ Untouched

PutReference(u) ==
  /\ pc[u] = "put"
  /\ rpm' = [rpm EXCEPT !.usage = @ - 1]
  /\ pc' = [pc EXCEPT ![u] = "out"]
  /\ UNCHANGED <<holder, system, stopped>> /\ Untouched

-----------------------------------------------------------------------------
(* What the card's driver does with a card it has taken.                   *)

Write(u) ==
  /\ pc[u] = "serve" /\ u \in Queue
  /\ card.chip.mode = "tran" /\ card.chip.cache /\ ~card.chip.dirty
  /\ card' = [card EXCEPT !.chip.dirty = TRUE]
  /\ UNCHANGED <<suspended, sound, rpm, holder, pc, system, stopped>>

(* mmc_start_bkops with low level operations due; urgent ones end before   *)
(* it returns.                                                             *)
mmc_start_bkops(u) ==
  /\ pc[u] = "serve" /\ u \in Queue
  /\ card.traits.bkops /\ ~card.mem.bkops
  /\ card.chip.mode = "tran"
  /\ card' = [card EXCEPT !.mem.bkops = TRUE, !.chip.bkops = TRUE]
  /\ UNCHANGED <<suspended, sound, rpm, holder, pc, system, stopped>>

(* They end by themselves, which the flag does not show.                   *)
BkopsEnd ==
  /\ card.chip.bkops /\ card.ios.power = "on"
  /\ card' = [card EXCEPT !.chip.bkops = FALSE]
  /\ UNCHANGED <<suspended, sound, rpm, holder, pc, system, stopped>>

-----------------------------------------------------------------------------
(* The sleep of the system: the notifier, the prepare phase, the suspend   *)
(* and resume callbacks of the card's bus, the complete phase.             *)

Out(U) == \A u \in U : pc[u] = "out"

At(a, b) == system = a /\ system' = b

(* mmc_pm_notify stops mmc_rescan; then the PM core takes a reference and  *)
(* waits for runtime PM.                                                   *)
Prepare ==
  /\ At("run", "prepared") /\ ~Busy /\ Out(Watchers)
  /\ rpm' = [rpm EXCEPT !.usage = @ + 1]
  /\ stopped' = stopped \cup Watchers
  /\ UNCHANGED <<holder, pc>> /\ Untouched

(* mmc_bus_suspend: the driver first, then the card.                       *)
DriverSuspend ==
  /\ At("prepared", "stopped") /\ Out(Queue) /\ ~Busy
  /\ stopped' = stopped \cup Queue
  /\ UNCHANGED <<rpm, holder, pc>> /\ Untouched

mmc_suspend ==
  /\ system = "stopped"
  /\ Suspended(TRUE)
  /\ system' = IF card'.ret = "ok" THEN "disable" ELSE "failed"
  /\ UNCHANGED <<rpm, holder, pc, stopped>>

mmc_suspendDisables ==
  /\ At("disable", "asleep") /\ ~Busy
  /\ rpm' = [rpm EXCEPT !.disabled = TRUE, !.status = "suspended", !.error = FALSE]
  /\ UNCHANGED <<holder, pc, stopped>> /\ Untouched

mmc_resumeDriverFirst ==
  /\ At("asleep", "woken")
  /\ stopped' = stopped \ Queue
  /\ UNCHANGED <<rpm, holder, pc>> /\ Untouched

(* mmc_bus_resume: the card's runtime PM first, then the driver.           *)
mmc_resume ==
  /\ At("asleep", "woken")
  /\ rpm' = [rpm EXCEPT !.disabled = FALSE]
  /\ UNCHANGED <<holder, pc, stopped>> /\ Untouched

(* With the driver resumed, the complete phase gives the reference back    *)
(* and the notifier lets mmc_rescan in again.                              *)
DriverResume ==
  /\ system \in {"woken", "failed"} /\ system' = "run"
  /\ rpm' = [rpm EXCEPT !.usage = @ - 1]
  /\ stopped' = {}
  /\ UNCHANGED <<holder, pc>> /\ Untouched

(* A shutdown has no notifier: mmc_rescan goes on.                         *)
ShutdownStart ==
  /\ At("run", "halting") /\ ~Busy
  /\ rpm' = [rpm EXCEPT !.usage = @ + 1]
  /\ UNCHANGED <<holder, pc, stopped>> /\ Untouched

DriverShutdown ==
  /\ At("halting", "halt") /\ Out(Queue)
  /\ stopped' = stopped \cup Queue
  /\ UNCHANGED <<rpm, holder, pc>> /\ Untouched

mmc_shutdownSleeping ==
  /\ At("halt", "haltResumed")
  /\ card' = [card EXCEPT !.ret = "ok"]
  /\ UNCHANGED <<suspended, sound, rpm, holder, pc, stopped>>

(* mmc_shutdown wakes a card that is to be told; if that fails, that is it.*)
mmc_shutdown ==
  /\ system = "halt"
  /\ IF mmc_can_poweroff_notify(card) /\ ~card.board.fullCycle
       THEN Resumed(Nobody)
       ELSE card' = [card EXCEPT !.ret = "ok"] /\ UNCHANGED <<suspended, sound>>
  /\ system' = IF card'.ret = "ok" THEN "haltResumed" ELSE "down"
  /\ UNCHANGED <<rpm, holder, pc, stopped>>

mmc_shutdownSuspends ==
  /\ At("haltResumed", "down")
  /\ Suspended(FALSE)
  /\ UNCHANGED <<rpm, holder, pc, stopped>>

-----------------------------------------------------------------------------
(* mmc_attach_mmc has powered the card up, initialised and added it.       *)
Attached ==
  UNION {{x \in Initialised[<<st[1], st[2], NewFields(st[2])>>] : x.ret = "ok"} : st \in Setups}

Init ==
  /\ card \in Attached
  /\ suspended = FALSE
  /\ sound = TRUE
  /\ rpm = [status |-> "active", usage |-> 0, disabled |-> FALSE, error |-> FALSE]
  /\ holder = Nobody
  /\ pc = [u \in Users |-> "out"]
  /\ system = "run"
  /\ stopped = {}

UserStep(u) ==
  \/ GetReference(u) \/ GetSync(u) \/ mmc_runtime_resume(u) \/ ClaimHost(u)
  \/ Write(u) \/ mmc_start_bkops(u) \/ ReleaseHost(u) \/ PutReference(u)

SystemStep ==
  \/ Prepare \/ DriverSuspend \/ mmc_suspend \/ mmc_suspendDisables
  \/ mmc_resume \/ DriverResume
  \/ ShutdownStart \/ DriverShutdown \/ mmc_shutdown \/ mmc_shutdownSuspends

Next == \/ AutosuspendStart \/ mmc_runtime_suspend \/ BkopsEnd \/ SystemStep
        \/ \E u \in Users : UserStep(u)

Spec == Init /\ [][Next]_vars

(* Callbacks and users run on; a claim is granted in turn, as HostClaim    *)
(* shows of its wait queue.  Nothing obliges the system to sleep.          *)
Fairness ==
  /\ WF_vars(mmc_runtime_suspend)
  /\ \A u \in Users :
       /\ WF_vars(GetSync(u)) /\ SF_vars(mmc_runtime_resume(u)) /\ SF_vars(ClaimHost(u))
       /\ WF_vars(ReleaseHost(u)) /\ WF_vars(PutReference(u))

FairSpec == Spec /\ Fairness

-----------------------------------------------------------------------------
(* Fields hold values of their types, the runtime PM count included.       *)
TypeOK ==
  /\ <<card.board, card.traits>> \in Setups
  /\ card.ios \in MmcIos /\ card.chip \in Chips /\ card.mem \in Fields
  /\ suspended \in BOOLEAN /\ sound \in BOOLEAN
  /\ rpm \in [status : {"active", "suspending", "suspended", "resuming"},
              usage : Nat, disabled : BOOLEAN, error : BOOLEAN]
  /\ holder \in Users \cup {Nobody}
  /\ pc \in [Users -> Stages]
  /\ system \in SystemStages
  /\ stopped \subseteq Users

Serving(u) == pc[u] = "serve" /\ (u \in Queue \/ system # "down")

(* Whoever has taken the card finds it powered and not suspended, whatever *)
(* runtime suspend, sleep and wake-up do meanwhile ("fetches a runtime pm  *)
(* reference for the card device and also claims the host").  A rescan     *)
(* that comes after the shutdown is the exception.                         *)
ServedAwake ==
  \A u \in Users : Serving(u) => ~suspended /\ card.ios.power = "on"

(* A card that came up and has not failed to suspend is served with host   *)
(* and card agreeing on width and timing, with the card selected, with a   *)
(* clock its timing allows, and never at 3.3 V in HS200 or HS400.          *)
BusAgrees ==
  \A u \in Users :
    Serving(u) /\ sound /\ ~card.spoilt =>
      /\ Agree(card.ios, card.chip)
      /\ card.chip.mode = "tran"
      /\ card.ios.clock =
           IF card.ios.timing = "ddr52" THEN "hs" ELSE ClockOf(card.ios.timing)
      /\ card.chip.timing \in {"hs200", "hs400"} => card.ios.level = 18

(* The fields of struct mmc_card say whether the card's cache and command  *)
(* queue are on, over any number of re-initialisations that leave either   *)
(* off: what the next flush and the block driver go by.                    *)
FieldsTrue ==
  sound /\ ~card.spoilt =>
    /\ card.mem.cache = card.chip.cache
    /\ card.mem.cmdq = card.chip.cmdq

(* No power is taken from a card that has data in its cache or that does   *)
(* not know: it sleeps, is deselected, or has been told, unless it refused *)
(* to be told.  (The registers of a card without power are those it had.)  *)
OffClean ==
  card.ios.power = "off" =>
    /\ ~card.chip.dirty
    /\ card.chip.bkops => ~card.traits.hpi
    /\ card.chip.mode = "tran" => card.chip.refused

(* "we need to resume the card before we can shutdown it properly": a card *)
(* that expects to be told is told by a shutdown, even if runtime PM had   *)
(* put it to sleep, unless it refuses or an error comes between.           *)
ToldAtShutdown ==
  system = "down" /\ suspended /\ sound /\ card.chip.notify =>
    card.chip.mode = "told" \/ card.chip.refused

(* Whoever asks for the card gets it: runtime PM and the host's claim are  *)
(* never each other's last obstacle.                                       *)
GetReturns == \A u \in Users : (pc[u] = "get") ~> (pc[u] = "serve")
=============================================================================
