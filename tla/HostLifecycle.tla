----------------------------- MODULE HostLifecycle -----------------------------
(***************************************************************************)
(* How a card comes and goes: the detect work mmc_rescan with the attach   *)
(* functions it tries, the detection of a removed card, the reference      *)
(* counted bus handler (bus_ops, bus_refs, bus_dead), the PM notifier and  *)
(* mmc_stop_host, all of core/core.c, with the bus handlers of core/mmc.c, *)
(* core/sd.c and core/sdio.c.                                              *)
(*                                                                         *)
(* Threads: the worker that runs the detect work; the control thread that  *)
(* suspends, resumes and at last removes the host (mmc_remove_host         *)
(* unregisters the PM notifier first, so the two never overlap); and the   *)
(* driver bound to the card.  Claiming the host is the abstract lock of    *)
(* HostLock.  The card itself, its detect switch and its contacts are      *)
(* moved by the user.                                                      *)
(***************************************************************************)
EXTENDS Naturals

CONSTANTS
  Kinds,     \* the kinds of card the user has: "mmc", "sd", "sdio"
  None,      \* no card, no bus handler, a free host
  Freqs,     \* the number of frequencies mmc_rescan tries
  MaxMoves,  \* bound on the insertions and removals
  MaxSleeps  \* bound on the suspends

ASSUME LifecycleAssumption ==
  /\ Kinds \subseteq {"mmc", "sd", "sdio"}
  /\ None \notin Kinds \cup {"worker", "driver"}
  /\ Freqs \in Nat \ {0} /\ MaxMoves \in Nat /\ MaxSleeps \in Nat

VARIABLES
  socket,     \* the card whose contacts touch
  cd,         \* the detect switch says a card is there: ops->get_cd
  moves,      \* insertions and removals so far
  sleeps,     \* suspends so far
  removable,  \* ~MMC_CAP_NONREMOVABLE
  poll,       \* MMC_CAP_NEEDS_POLL
  holder,     \* who has claimed the host
  busOps,     \* host->bus_ops, by the kind of card it handles
  busRefs,    \* host->bus_refs
  busDead,    \* host->bus_dead
  card,       \* host->card
  cardGone,   \* mmc_card_removed(host->card)
  powered,    \* the card has power
  disabled,   \* host->rescan_disable
  entered,    \* host->rescan_entered
  queued,     \* the detect work is pending
  worker,     \* where the worker is in mmc_rescan
  freq,       \* the frequency it tries
  control     \* where the control thread is

world  == <<socket, cd, moves>>
config == <<removable, poll>>
bus    == <<busOps, busRefs, busDead>>
scan   == <<disabled, entered, queued>>
vars   == <<world, config, holder, bus, card, cardGone, powered, scan, worker,
            freq, control, sleeps>>

WorkerStages == {"idle", "entry", "got", "detect", "detected", "remove",
  "detach", "put", "look", "putStop", "putScan", "claim", "try", "init", "add",
  "added", "undo", "oops"}
ControlStages == {"run", "cancel", "asleep", "stop", "got", "remove", "detach",
  "put", "off", "stopped", "oops"}

-----------------------------------------------------------------------------
(* Claiming the host.                                                      *)

Claim(who)   == holder = None /\ holder' = who
Release(who) == holder = who /\ holder' = None

(* The bus handler.  Dropping the last reference forgets it.               *)
mmc_bus_get == busRefs' = busRefs + 1 /\ UNCHANGED <<busOps, busDead>>
mmc_bus_put ==
  /\ busRefs' = busRefs - 1
  /\ busOps' = IF busRefs = 1 THEN None ELSE busOps
  /\ busDead' = busDead
mmc_attach_bus(k) == busOps' = k /\ busRefs' = 1 /\ busDead' = FALSE
mmc_detach_bus ==
  /\ busDead' = TRUE
  /\ busRefs' = busRefs - 1
  /\ busOps' = IF busRefs = 1 THEN None ELSE busOps

(* The callbacks of mmc_ops; mmc_sd_ops and mmc_sdio_ops have none.        *)
HasCallbacks(k) == k = "mmc"

(* schedule_delayed_work: no effect while the work is being cancelled.     *)
Cancelling == control \in {"cancel", "stop"}
Queue == queued' = (queued \/ ~Cancelling)

Worker(from, to) == worker = from /\ worker' = to
Control(from, to) == control = from /\ control' = to

-----------------------------------------------------------------------------
(* mmc_rescan.                                                             *)

Dispatch ==
  /\ Worker("idle", "entry") /\ queued /\ queued' = FALSE /\ ~Cancelling
  /\ UNCHANGED <<world, config, sleeps, holder, bus, card, cardGone, powered, disabled,
                 entered, freq, control>>

(* The early returns; then take a reference on the bus handler.            *)
RescanEntry ==
  /\ worker = "entry"
  /\ IF disabled \/ (~removable /\ entered)
     THEN worker' = "idle" /\ UNCHANGED <<entered, bus>>
     ELSE worker' = "got" /\ entered' = TRUE /\ mmc_bus_get
  /\ UNCHANGED <<world, config, sleeps, holder, card, cardGone, powered, disabled,
                 queued, freq, control>>

(* bus_ops->detect, if the card can have been removed.                     *)
RescanDetect ==
  /\ worker = "got"
  /\ worker' = IF busOps # None /\ ~busDead /\ removable
               THEN IF HasCallbacks(busOps) THEN "detect" ELSE "oops"
               ELSE "put"
  /\ UNCHANGED <<world, config, sleeps, holder, bus, card, cardGone, powered, scan,
                 freq, control>>

(* Drop the reference, which frees a dead handler; look again; a handler   *)
(* that is still there means a card that is still there.                   *)
RescanPut ==
  /\ Worker("put", "look") /\ mmc_bus_put
  /\ UNCHANGED <<world, config, sleeps, holder, card, cardGone, powered, scan, freq,
                 control>>
RescanLook ==
  /\ worker = "look" /\ mmc_bus_get
  /\ worker' = IF busOps # None THEN "putStop" ELSE "putScan"
  /\ UNCHANGED <<world, config, sleeps, holder, card, cardGone, powered, scan, freq,
                 control>>

RescanOut == IF poll THEN Queue ELSE queued' = queued

RescanPutAgain ==
  /\ mmc_bus_put
  /\ \/ Worker("putStop", "idle") /\ RescanOut
     \/ Worker("putScan", "claim") /\ queued' = queued
  /\ UNCHANGED <<world, config, sleeps, holder, card, cardGone, powered, disabled,
                 entered, freq, control>>

(* No card registered: claim the host and try to find one, unless the      *)
(* switch says there is none.                                              *)
RescanClaim ==
  /\ worker = "claim" /\ holder = None
  /\ freq' = 1
  /\ IF removable /\ ~cd
     THEN worker' = "idle" /\ powered' = FALSE /\ RescanOut /\ holder' = None
     ELSE /\ worker' = "try" /\ holder' = "worker"
          /\ UNCHANGED <<powered, queued>>
  /\ UNCHANGED <<world, config, sleeps, bus, card, cardGone, disabled, entered, control>>

NextFreq ==
  /\ powered' = FALSE
  /\ IF freq < Freqs
     THEN worker' = "try" /\ freq' = freq + 1 /\ UNCHANGED <<holder, queued>>
     ELSE /\ worker' = "idle" /\ freq' = freq
          /\ Release("worker") /\ RescanOut

(* mmc_rescan_try_freq up to the first attach function whose card answers: *)
(* mmc_attach_sdio, mmc_attach_sd, mmc_attach_mmc.                         *)
RescanTry ==
  /\ worker = "try"
  /\ \/ /\ socket # None /\ mmc_attach_bus(socket)
        /\ worker' = "init" /\ powered' = TRUE
        /\ UNCHANGED <<freq, holder, queued>>
     \/ NextFreq /\ UNCHANGED bus
  /\ UNCHANGED <<world, config, sleeps, card, cardGone, disabled, entered, control>>

(* The initialisation of the card, then the device is added without the    *)
(* host claimed.                                                           *)
AttachInit ==
  /\ worker = "init"
  /\ \/ /\ socket = busOps
        /\ card' = busOps /\ cardGone' = FALSE
        /\ worker' = "add" /\ Release("worker")
        /\ UNCHANGED <<bus, powered, freq, queued>>
     \/ mmc_detach_bus /\ NextFreq /\ UNCHANGED <<card, cardGone>>
  /\ UNCHANGED <<world, config, sleeps, disabled, entered, control>>

(* mmc_add_card, and the way back if it fails.                             *)
AttachAdd ==
  /\ worker = "add" /\ worker' \in {"added", "undo"}
  /\ UNCHANGED <<world, config, sleeps, holder, bus, card, cardGone, powered, scan,
                 freq, control>>
AttachAdded ==
  /\ Worker("added", "idle") /\ holder = None    \* claimed and released again
  /\ RescanOut
  /\ UNCHANGED <<world, config, sleeps, holder, bus, card, cardGone, powered, disabled,
                 entered, freq, control>>
AttachUndo ==
  /\ worker = "undo" /\ holder = None
  /\ card' = None /\ cardGone' = FALSE
  /\ mmc_detach_bus
  /\ powered' = FALSE
  /\ IF freq < Freqs
     THEN worker' = "try" /\ freq' = freq + 1 /\ holder' = "worker" /\ queued' = queued
     ELSE worker' = "idle" /\ freq' = freq /\ holder' = None /\ RescanOut
  /\ UNCHANGED <<world, config, sleeps, disabled, entered, control>>

-----------------------------------------------------------------------------
(* mmc_detect.                                                             *)

DetectClaim ==
  /\ Worker("detect", "detected") /\ Claim("worker")
  /\ UNCHANGED <<world, config, sleeps, bus, card, cardGone, powered, scan, freq, control>>

_mmc_detect_card_removedOnce ==
  /\ worker = "detected" /\ Release("worker")
  /\ \/ /\ socket = card /\ worker' = "put" /\ cardGone' = cardGone
     \/ cardGone' = TRUE /\ worker' = "remove"
  /\ queued' = queued
  /\ UNCHANGED <<world, config, sleeps, bus, card, powered, disabled, entered, freq,
                 control>>

(* _mmc_detect_card_removed: a card that answers although the switch says  *)
(* it is gone is on its way out, so look again later.  A card that is      *)
(* there may fail to answer.                                               *)
_mmc_detect_card_removed ==
  /\ worker = "detected" /\ Release("worker")
  /\ \/ /\ socket = card /\ worker' = "put" /\ cardGone' = cardGone
        /\ IF cd THEN queued' = queued ELSE Queue
     \/ cardGone' = TRUE /\ worker' = "remove" /\ queued' = queued
  /\ UNCHANGED <<world, config, sleeps, bus, card, powered, disabled, entered, freq,
                 control>>

(* mmc_remove: device_del() has the card's driver let go of the card,      *)
(* which claims the host to do so.                                         *)
RemoveCard == holder = None /\ card' = None /\ cardGone' = FALSE

DetectRemove ==
  /\ Worker("remove", "detach") /\ RemoveCard
  /\ UNCHANGED <<world, config, sleeps, holder, bus, powered, scan, freq, control>>

(* With the host claimed: mmc_detach_bus, mmc_power_off.                   *)
DetectDetach ==
  /\ Worker("detach", "put") /\ holder = None /\ mmc_detach_bus
  /\ powered' = FALSE
  /\ UNCHANGED <<world, config, sleeps, holder, card, cardGone, scan, freq, control>>

Rescan ==
  \/ RescanEntry \/ RescanDetect \/ RescanPut \/ RescanLook \/ RescanPutAgain
  \/ RescanClaim \/ RescanTry \/ AttachInit \/ AttachAdd \/ AttachAdded
  \/ AttachUndo \/ DetectClaim \/ _mmc_detect_card_removed \/ DetectRemove
  \/ DetectDetach

-----------------------------------------------------------------------------
(* mmc_pm_notify.  No bus handler has a pre_suspend callback, so that the  *)
(* notifier only stops the detection and, afterwards, starts it again.     *)

SuspendPrepare ==
  /\ Control("run", "cancel") /\ disabled' = TRUE /\ queued' = FALSE
  /\ sleeps < MaxSleeps /\ sleeps' = sleeps + 1
  /\ UNCHANGED <<world, config, holder, bus, card, cardGone, powered, entered,
                 worker, freq>>
SuspendCancelled ==
  /\ Control("cancel", "asleep") /\ worker = "idle"
  /\ UNCHANGED <<world, config, sleeps, holder, bus, card, cardGone, powered, scan,
                 worker, freq>>
PostSuspend ==
  /\ Control("asleep", "run") /\ disabled' = FALSE /\ Queue
  /\ UNCHANGED <<world, config, sleeps, holder, bus, card, cardGone, powered, entered,
                 worker, freq>>

-----------------------------------------------------------------------------
(* mmc_stop_host.                                                          *)

StopBeginNoCancel ==
  /\ Control("run", "got") /\ disabled' = TRUE /\ queued' = FALSE /\ mmc_bus_get
  /\ UNCHANGED <<world, config, sleeps, holder, card, cardGone, powered, entered, worker,
                 freq>>
StopBegin ==
  /\ Control("run", "stop") /\ disabled' = TRUE /\ queued' = FALSE
  /\ UNCHANGED <<world, config, sleeps, holder, bus, card, cardGone, powered, entered,
                 worker, freq>>

StopCancelled ==
  /\ Control("stop", "got") /\ worker = "idle" /\ mmc_bus_get
  /\ UNCHANGED <<world, config, sleeps, holder, card, cardGone, powered, scan, worker, freq>>

StopLook ==
  /\ control = "got"
  /\ control' = IF busOps # None /\ ~busDead
                THEN IF HasCallbacks(busOps) THEN "remove" ELSE "oops"
                ELSE "put"
  /\ UNCHANGED <<world, config, sleeps, holder, bus, card, cardGone, powered, scan,
                 worker, freq>>

StopRemoveClaimed ==
  /\ control = "remove"
  /\ IF holder = None THEN holder' = "control" /\ UNCHANGED <<card, cardGone, control>>
     ELSE /\ holder = "control" /\ RemoveCard
          /\ control' = "detach" /\ holder' = None
  /\ UNCHANGED <<world, config, sleeps, bus, powered, scan, worker, freq>>

(* bus_ops->remove(), before the host is claimed.                          *)
StopRemove ==
  /\ Control("remove", "detach") /\ RemoveCard
  /\ UNCHANGED <<world, config, sleeps, holder, bus, powered, scan, worker, freq>>
StopDetach ==
  /\ Control("detach", "put") /\ holder = None /\ mmc_detach_bus
  /\ powered' = FALSE
  /\ UNCHANGED <<world, config, sleeps, holder, card, cardGone, scan, worker, freq>>

(* The last reference, and the power off of a host without a card.         *)
StopPut ==
  /\ Control("put", "off") /\ mmc_bus_put
  /\ UNCHANGED <<world, config, sleeps, holder, card, cardGone, powered, scan, worker, freq>>
StopOff ==
  /\ Control("off", "stopped") /\ holder = None /\ powered' = FALSE
  /\ UNCHANGED <<world, config, sleeps, holder, bus, card, cardGone, scan, worker, freq>>

Stop == StopCancelled \/ StopLook \/ StopRemove \/ StopDetach \/ StopPut \/ StopOff

-----------------------------------------------------------------------------
(* The driver of the card, and the user.                                   *)

DriverClaims ==
  /\ card # None /\ worker \notin {"init", "add", "undo"} /\ Claim("driver")
  /\ UNCHANGED <<world, config, sleeps, bus, card, cardGone, powered, scan, worker, freq,
                 control>>
DriverReleases ==
  /\ Release("driver")
  /\ UNCHANGED <<world, config, sleeps, bus, card, cardGone, powered, scan, worker, freq,
                 control>>

(* The switch interrupt calls mmc_detect_change; mmc_stop_host disables it.*)
SwitchMoves(on) ==
  /\ cd' = on
  /\ IF poll \/ control \notin {"run", "cancel", "asleep"}
     THEN queued' = queued ELSE Queue

Insert ==
  /\ removable /\ socket = None /\ ~cd /\ moves < MaxMoves /\ moves' = moves + 1
  /\ socket' \in Kinds
  /\ SwitchMoves(TRUE)
  /\ UNCHANGED <<config, sleeps, holder, bus, card, cardGone, powered, disabled, entered,
                 worker, freq, control>>

(* A card pulled slowly opens the switch before its contacts part.         *)
PullSwitch ==
  /\ removable /\ cd /\ moves < MaxMoves /\ moves' = moves + 1
  /\ SwitchMoves(FALSE) /\ socket' \in {socket, None}
  /\ UNCHANGED <<config, sleeps, holder, bus, card, cardGone, powered, disabled, entered,
                 worker, freq, control>>
PullContacts ==
  /\ socket # None /\ ~cd /\ socket' = None
  /\ UNCHANGED <<cd, moves, config, sleeps, holder, bus, card, cardGone, powered, scan,
                 worker, freq, control>>

-----------------------------------------------------------------------------
(* After mmc_start_host, which queues the first scan.                      *)
Init ==
  /\ removable \in BOOLEAN /\ poll \in BOOLEAN /\ sleeps = 0
  /\ socket \in Kinds \cup {None} /\ cd = (socket # None) /\ moves = 0
  /\ holder = None /\ busOps = None /\ busRefs = 0 /\ busDead = FALSE
  /\ card = None /\ cardGone = FALSE /\ powered = FALSE
  /\ disabled = FALSE /\ entered = FALSE /\ queued = TRUE
  /\ worker = "idle" /\ freq = 1 /\ control = "run"

Next ==
  \/ Dispatch \/ Rescan
  \/ SuspendPrepare \/ SuspendCancelled \/ PostSuspend \/ StopBegin \/ Stop
  \/ DriverClaims \/ DriverReleases \/ Insert \/ PullSwitch \/ PullContacts

Spec == Init /\ [][Next]_vars

(* The work queue runs pending work, threads run and get the host in turn, *)
(* the driver releases what it claims, a suspended system resumes, and a   *)
(* card half pulled out comes out.  Suspends are finitely many: one before *)
(* every scan would keep the host blind.                                   *)
FairSpec ==
  /\ Spec
  /\ WF_vars(Dispatch) /\ SF_vars(Rescan) /\ SF_vars(Stop)
  /\ WF_vars(DriverReleases) /\ WF_vars(PullContacts)
  /\ SF_vars(SuspendCancelled) /\ WF_vars(PostSuspend)

-----------------------------------------------------------------------------
(* Every variable has its type.                                            *)
TypeOK ==
  /\ socket \in Kinds \cup {None} /\ moves \in 0 .. MaxMoves /\ sleeps \in 0 .. MaxSleeps
  /\ {cd, removable, poll, busDead, cardGone, powered, disabled, entered, queued}
       \subseteq BOOLEAN
  /\ holder \in {None, "worker", "driver"}
  /\ busOps \in Kinds \cup {None} /\ busRefs \in 0 .. 3
  /\ card \in Kinds \cup {None}
  /\ worker \in WorkerStages /\ control \in ControlStages
  /\ freq \in 1 .. Freqs

(* The references on the bus handler: one of the attached card, one of a   *)
(* scan and one of a stop that look at it.  They never drop below that, so *)
(* a handler in use is not freed, and one out of use always is.            *)
BusRefsBalanced ==
  /\ busRefs = (IF busOps # None /\ ~busDead THEN 1 ELSE 0)
       + (IF worker \in {"got", "detect", "detected", "remove", "detach", "put",
                         "putStop", "putScan", "oops"} THEN 1 ELSE 0)
       + (IF control \in {"got", "remove", "detach", "put", "oops"} THEN 1 ELSE 0)
  /\ busRefs = 0 => busOps = None

(* A bus callback is entered and left with its handler attached and, until *)
(* the card is removed, with a card: the paths that clear host->card and   *)
(* bus_ops without the host claimed never do it under another's feet.      *)
CallbackSafe ==
  /\ worker \in {"detect", "detected", "remove"} \/ control = "remove" =>
       busOps # None /\ card = busOps /\ ~busDead
  /\ worker = "detach" \/ control = "detach" => busOps # None /\ ~busDead

(* "Unregister and remove all cards [...] and power down the MMC bus. No   *)
(* new requests will be issued after this function has returned."          *)
StopFinal ==
  control = "stopped" =>
    card = None /\ busOps = None /\ ~powered /\ holder = None
    /\ worker \in {"idle", "entry"}

(* mmc_stop_host returns: the work is cancelled and the card's driver lets *)
(* go of the card, which it could not if the host were claimed meanwhile.  *)
StopReturns == control = "stop" ~> control = "stopped"

(* A removed card is noticed and unregistered, unless the host is removed: *)
(* through slow pulls, suspends and events that come while a scan runs.    *)
RemovalNoticed ==
  removable /\ card # None /\ socket = None /\ control # "stopped"
    ~> card = None \/ socket # None

(* mmc_remove_host, "Unregister and remove all cards associated with this  *)
(* host" (host.c): whatever the kind of card, its removal does not run     *)
(* into a callback that is not there.                                      *)
CardsCanBeRemoved == control # "oops"
===============================================================================
