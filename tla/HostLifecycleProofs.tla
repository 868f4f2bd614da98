-------------------------- MODULE HostLifecycleProofs --------------------------
(***************************************************************************)
(* The safety properties of HostLifecycle, for every set of kinds of card, *)
(* every number of frequencies and every bound on moves and suspends.      *)
(***************************************************************************)
EXTENDS HostLifecycle, Integers, TLAPS

Attached == busOps # None /\ ~busDead

(* The control thread is past the start of mmc_stop_host.                  *)
Stopping == control \notin {"run", "cancel", "asleep"}

(* Types without the bound on the references, which follows from their     *)
(* balance.                                                                *)
FlagTypes ==
  /\ cd \in BOOLEAN /\ removable \in BOOLEAN /\ poll \in BOOLEAN
  /\ busDead \in BOOLEAN /\ cardGone \in BOOLEAN /\ powered \in BOOLEAN
  /\ disabled \in BOOLEAN /\ entered \in BOOLEAN /\ queued \in BOOLEAN

TypeInv ==
  /\ socket \in Kinds \cup {None} /\ moves \in 0 .. MaxMoves /\ sleeps \in 0 .. MaxSleeps
  /\ holder \in {None, "worker", "driver"}
  /\ busOps \in Kinds \cup {None} /\ busRefs \in Int
  /\ card \in Kinds \cup {None}
  /\ worker \in WorkerStages /\ control \in ControlStages
  /\ freq \in 1 .. Freqs

(* There is a card exactly while its bus handler is attached, but for the  *)
(* time of its initialisation and of its removal.                          *)
CardInv ==
  card = IF Attached /\ worker \notin {"init", "detach"} /\ control # "detach"
         THEN busOps ELSE None

(* What each stage of the detect work knows of the bus handler, and that   *)
(* only the worker itself holds the host in its name.                      *)
WorkerInv ==
  /\ worker \in {"detect", "detected", "remove", "detach", "init", "add", "added",
                 "undo"} => Attached
  /\ worker \in {"putScan", "claim", "try"} => busOps = None
  /\ holder = "worker" <=> worker \in {"try", "init", "detected"}

(* Once the work is cancelled it stays so, and each stage of mmc_stop_host *)
(* leaves less of the card.                                                *)
StopInv ==
  /\ Stopping => ~queued
  /\ Stopping /\ control # "stop" => worker = "idle"
  /\ control \in {"remove", "detach"} => Attached
  /\ control \in {"put", "off", "stopped"} => ~Attached
  /\ control = "stopped" => ~powered /\ holder = None

IInv ==
  /\ TypeInv /\ FlagTypes
  /\ BusRefsBalanced
  /\ CardInv
  /\ WorkerInv
  /\ StopInv

-----------------------------------------------------------------------------
(* Every step keeps the types.                                             *)
LEMMA TypesKept ==
  ASSUME IInv, Next
  PROVE  TypeInv'
<1> USE LifecycleAssumption DEF IInv, world, config, bus, scan, Worker,
      Control, Claim, Release, TypeInv, WorkerStages, ControlStages
<1>1. CASE Dispatch
  BY <1>1 DEF Dispatch, Cancelling
<1>2. CASE RescanEntry
  BY <1>2 DEF RescanEntry, mmc_bus_get
<1>3. CASE RescanDetect
  BY <1>3 DEF RescanDetect, HasCallbacks
<1>4. CASE RescanPut
  BY <1>4 DEF RescanPut, mmc_bus_put
<1>5. CASE RescanLook
  BY <1>5 DEF RescanLook, mmc_bus_get
<1>6. CASE RescanPutAgain
  BY <1>6 DEF RescanPutAgain, RescanOut, Queue, Cancelling, mmc_bus_put
<1>7. CASE RescanClaim
  BY <1>7 DEF RescanClaim, RescanOut, Queue, Cancelling
<1>8. CASE RescanTry
  BY <1>8 DEF RescanTry, RescanOut, Queue, Cancelling, mmc_attach_bus,
     NextFreq
<1>9. CASE AttachInit
  BY <1>9 DEF AttachInit, RescanOut, Queue, Cancelling, mmc_detach_bus,
     NextFreq
<1>10. CASE AttachAdd
  BY <1>10 DEF AttachAdd
<1>11. CASE AttachAdded
  BY <1>11 DEF AttachAdded, RescanOut, Queue, Cancelling
<1>12. CASE AttachUndo
  BY <1>12 DEF AttachUndo, RescanOut, Queue, Cancelling, mmc_detach_bus
<1>13. CASE DetectClaim
  BY <1>13 DEF DetectClaim
<1>14. CASE _mmc_detect_card_removed
  BY <1>14 DEF _mmc_detect_card_removed, Queue, Cancelling
<1>15. CASE DetectRemove
  BY <1>15 DEF DetectRemove, RemoveCard
<1>16. CASE DetectDetach
  BY <1>16 DEF DetectDetach, mmc_detach_bus
<1>17. CASE SuspendPrepare
  BY <1>17 DEF SuspendPrepare
<1>18. CASE SuspendCancelled
  BY <1>18 DEF SuspendCancelled
<1>19. CASE PostSuspend
  BY <1>19 DEF PostSuspend, Queue, Cancelling
<1>20. CASE StopBegin
  BY <1>20 DEF StopBegin
<1>21. CASE StopCancelled
  BY <1>21 DEF StopCancelled, mmc_bus_get
<1>22. CASE StopLook
  BY <1>22 DEF StopLook, HasCallbacks
<1>23. CASE StopRemove
  BY <1>23 DEF StopRemove, RemoveCard
<1>24. CASE StopDetach
  BY <1>24 DEF StopDetach, mmc_detach_bus
<1>25. CASE StopPut
  BY <1>25 DEF StopPut, mmc_bus_put
<1>26. CASE StopOff
  BY <1>26 DEF StopOff
<1>27. CASE DriverClaims
  BY <1>27 DEF DriverClaims
<1>28. CASE DriverReleases
  BY <1>28 DEF DriverReleases
<1>29. CASE Insert
  BY <1>29 DEF Insert, Queue, Cancelling, SwitchMoves
<1>30. CASE PullSwitch
  BY <1>30 DEF PullSwitch, Queue, Cancelling, SwitchMoves
<1>31. CASE PullContacts
  BY <1>31 DEF PullContacts
<1> QED
  BY <1>1, <1>2, <1>3, <1>4, <1>5, <1>6, <1>7, <1>8, <1>9, <1>10, <1>11,
     <1>12, <1>13, <1>14, <1>15, <1>16, <1>17, <1>18, <1>19, <1>20, <1>21,
     <1>22, <1>23, <1>24, <1>25, <1>26, <1>27, <1>28, <1>29, <1>30, <1>31 DEF
     Next, Rescan, Stop

(* Booleans, apart: their reasoning is propositional.                     *)
LEMMA FlagsKept ==
  ASSUME IInv, Next
  PROVE  FlagTypes'
<1> USE LifecycleAssumption DEF IInv, world, config, bus, scan, Worker,
      Control, Claim, Release, FlagTypes
<1>1. CASE Dispatch
  BY <1>1 DEF Dispatch, Cancelling
<1>2. CASE RescanEntry
  BY <1>2 DEF RescanEntry, mmc_bus_get
<1>3. CASE RescanDetect
  BY <1>3 DEF RescanDetect, HasCallbacks
<1>4. CASE RescanPut
  BY <1>4 DEF RescanPut, mmc_bus_put
<1>5. CASE RescanLook
  BY <1>5 DEF RescanLook, mmc_bus_get
<1>6. CASE RescanPutAgain
  BY <1>6 DEF RescanPutAgain, RescanOut, Queue, Cancelling, mmc_bus_put
<1>7. CASE RescanClaim
  BY <1>7 DEF RescanClaim, RescanOut, Queue, Cancelling
<1>8. CASE RescanTry
  BY <1>8 DEF RescanTry, RescanOut, Queue, Cancelling, mmc_attach_bus,
     NextFreq
<1>9. CASE AttachInit
  BY <1>9 DEF AttachInit, RescanOut, Queue, Cancelling, mmc_detach_bus,
     NextFreq
<1>10. CASE AttachAdd
  BY <1>10 DEF AttachAdd
<1>11. CASE AttachAdded
  BY <1>11 DEF AttachAdded, RescanOut, Queue, Cancelling
<1>12. CASE AttachUndo
  BY <1>12 DEF AttachUndo, RescanOut, Queue, Cancelling, mmc_detach_bus
<1>13. CASE DetectClaim
  BY <1>13 DEF DetectClaim
<1>14. CASE _mmc_detect_card_removed
  BY <1>14 DEF _mmc_detect_card_removed, Queue, Cancelling
<1>15. CASE DetectRemove
  BY <1>15 DEF DetectRemove, RemoveCard
<1>16. CASE DetectDetach
  BY <1>16 DEF DetectDetach, mmc_detach_bus
<1>17. CASE SuspendPrepare
  BY <1>17 DEF SuspendPrepare
<1>18. CASE SuspendCancelled
  BY <1>18 DEF SuspendCancelled
<1>19. CASE PostSuspend
  BY <1>19 DEF PostSuspend, Queue, Cancelling
<1>20. CASE StopBegin
  BY <1>20 DEF StopBegin
<1>21. CASE StopCancelled
  BY <1>21 DEF StopCancelled, mmc_bus_get
<1>22. CASE StopLook
  BY <1>22 DEF StopLook, HasCallbacks
<1>23. CASE StopRemove
  BY <1>23 DEF StopRemove, RemoveCard
<1>24. CASE StopDetach
  BY <1>24 DEF StopDetach, mmc_detach_bus
<1>25. CASE StopPut
  BY <1>25 DEF StopPut, mmc_bus_put
<1>26. CASE StopOff
  BY <1>26 DEF StopOff
<1>27. CASE DriverClaims
  BY <1>27 DEF DriverClaims
<1>28. CASE DriverReleases
  BY <1>28 DEF DriverReleases
<1>29. CASE Insert
  BY <1>29 DEF Insert, Queue, Cancelling, SwitchMoves
<1>30. CASE PullSwitch
  BY <1>30 DEF PullSwitch, Queue, Cancelling, SwitchMoves
<1>31. CASE PullContacts
  BY <1>31 DEF PullContacts
<1> QED
  BY <1>1, <1>2, <1>3, <1>4, <1>5, <1>6, <1>7, <1>8, <1>9, <1>10, <1>11,
     <1>12, <1>13, <1>14, <1>15, <1>16, <1>17, <1>18, <1>19, <1>20, <1>21,
     <1>22, <1>23, <1>24, <1>25, <1>26, <1>27, <1>28, <1>29, <1>30, <1>31 DEF
     Next, Rescan, Stop

-----------------------------------------------------------------------------
(* The bus handler: a reference is taken and dropped with the stages that  *)
(* look at it, and the card follows it.                                    *)
LEMMA BusKept ==
  ASSUME IInv, Next
  PROVE  BusRefsBalanced' /\ CardInv'
<1> USE LifecycleAssumption DEF IInv, world, config, bus, scan, Worker,
      Control, Claim, Release, TypeInv, BusRefsBalanced, CardInv, WorkerInv,
      StopInv, Attached, Stopping
<1>1. CASE Dispatch
  BY <1>1 DEF Dispatch, Cancelling
<1>2. CASE RescanEntry
  BY <1>2 DEF RescanEntry, mmc_bus_get
<1>3. CASE RescanDetect
  BY <1>3 DEF RescanDetect, HasCallbacks
<1>4. CASE RescanPut
  BY <1>4 DEF RescanPut, mmc_bus_put
<1>5. CASE RescanLook
  BY <1>5 DEF RescanLook, mmc_bus_get
<1>6. CASE RescanPutAgain
  BY <1>6 DEF RescanPutAgain, RescanOut, Queue, Cancelling, mmc_bus_put
<1>7. CASE RescanClaim
  BY <1>7 DEF RescanClaim, RescanOut, Queue, Cancelling
<1>8. CASE RescanTry
  <2>1. worker = "try" /\ busOps = None /\ card = None
    BY <1>8 DEF RescanTry, CardInv, WorkerInv, Attached
  <2>2. control \in {"run", "cancel", "asleep", "stop"}
    BY <2>1 DEF StopInv, Stopping
  <2>3. CASE socket # None /\ mmc_attach_bus(socket) /\ worker' = "init"
    BY <1>8, <2>1, <2>2, <2>3 DEF RescanTry, mmc_attach_bus, TypeInv, BusRefsBalanced,
       CardInv, Attached
  <2>4. CASE NextFreq /\ UNCHANGED bus
    BY <1>8, <2>1, <2>4 DEF RescanTry, NextFreq, BusRefsBalanced, CardInv, Attached
  <2> QED
    BY <1>8, <2>3, <2>4 DEF RescanTry
<1>9. CASE AttachInit
  BY <1>9 DEF AttachInit, RescanOut, Queue, Cancelling, mmc_detach_bus,
     NextFreq
<1>10. CASE AttachAdd
  BY <1>10 DEF AttachAdd
<1>11. CASE AttachAdded
  BY <1>11 DEF AttachAdded, RescanOut, Queue, Cancelling
<1>12. CASE AttachUndo
  BY <1>12 DEF AttachUndo, RescanOut, Queue, Cancelling, mmc_detach_bus
<1>13. CASE DetectClaim
  BY <1>13 DEF DetectClaim
<1>14. CASE _mmc_detect_card_removed
  BY <1>14 DEF _mmc_detect_card_removed, Queue, Cancelling
<1>15. CASE DetectRemove
  BY <1>15 DEF DetectRemove, RemoveCard
<1>16. CASE DetectDetach
  BY <1>16 DEF DetectDetach, mmc_detach_bus
<1>17. CASE SuspendPrepare
  BY <1>17 DEF SuspendPrepare
<1>18. CASE SuspendCancelled
  BY <1>18 DEF SuspendCancelled
<1>19. CASE PostSuspend
  BY <1>19 DEF PostSuspend, Queue, Cancelling
<1>20. CASE StopBegin
  BY <1>20 DEF StopBegin
<1>21. CASE StopCancelled
  BY <1>21 DEF StopCancelled, mmc_bus_get
<1>22. CASE StopLook
  BY <1>22 DEF StopLook, HasCallbacks
<1>23. CASE StopRemove
  BY <1>23 DEF StopRemove, RemoveCard
<1>24. CASE StopDetach
  BY <1>24 DEF StopDetach, mmc_detach_bus
<1>25. CASE StopPut
  BY <1>25 DEF StopPut, mmc_bus_put
<1>26. CASE StopOff
  BY <1>26 DEF StopOff
<1>27. CASE DriverClaims
  BY <1>27 DEF DriverClaims
<1>28. CASE DriverReleases
  BY <1>28 DEF DriverReleases
<1>29. CASE Insert
  BY <1>29 DEF Insert, Queue, Cancelling, SwitchMoves
<1>30. CASE PullSwitch
  BY <1>30 DEF PullSwitch, Queue, Cancelling, SwitchMoves
<1>31. CASE PullContacts
  BY <1>31 DEF PullContacts
<1> QED
  BY <1>1, <1>2, <1>3, <1>4, <1>5, <1>6, <1>7, <1>8, <1>9, <1>10, <1>11,
     <1>12, <1>13, <1>14, <1>15, <1>16, <1>17, <1>18, <1>19, <1>20, <1>21,
     <1>22, <1>23, <1>24, <1>25, <1>26, <1>27, <1>28, <1>29, <1>30, <1>31 DEF
     Next, Rescan, Stop

(* The stages of the two threads.                                          *)
LEMMA StagesKept ==
  ASSUME IInv, Next
  PROVE  WorkerInv' /\ StopInv'
<1> USE LifecycleAssumption DEF IInv, world, config, bus, scan, Worker,
      Control, Claim, Release, TypeInv, BusRefsBalanced, CardInv, WorkerInv,
      StopInv, Attached, Stopping
<1>1. CASE Dispatch
  BY <1>1 DEF Dispatch, Cancelling
<1>2. CASE RescanEntry
  BY <1>2 DEF RescanEntry, mmc_bus_get
<1>3. CASE RescanDetect
  BY <1>3 DEF RescanDetect, HasCallbacks
<1>4. CASE RescanPut
  BY <1>4 DEF RescanPut, mmc_bus_put
<1>5. CASE RescanLook
  BY <1>5 DEF RescanLook, mmc_bus_get
<1>6. CASE RescanPutAgain
  <2>1. worker' \in {"idle", "claim"} /\ (worker' = "claim" => worker = "putScan")
    BY <1>6 DEF RescanPutAgain, Worker
  <2>2. worker # "idle" /\ UNCHANGED <<holder, control, powered>>
    BY <1>6 DEF RescanPutAgain, Worker
  <2>3. ~Stopping \/ control = "stop"
    BY <2>2 DEF StopInv
  <2>4. Stopping => ~queued'
    BY <1>6, <2>3 DEF RescanPutAgain, RescanOut, Queue, Cancelling, StopInv, Stopping
  <2>5. WorkerInv'
    BY <1>6, <2>1, <2>2 DEF RescanPutAgain, Worker, mmc_bus_put, WorkerInv, Attached
  <2>6. StopInv'
    BY <2>2, <2>3, <2>4 DEF StopInv, Stopping
  <2> QED
    BY <2>5, <2>6
<1>7. CASE RescanClaim
  BY <1>7 DEF RescanClaim, RescanOut, Queue, Cancelling
<1>8. CASE RescanTry
  BY <1>8 DEF RescanTry, RescanOut, Queue, Cancelling, mmc_attach_bus,
     NextFreq
<1>9. CASE AttachInit
  <2>1. worker = "init" /\ holder = "worker" /\ Attached /\ UNCHANGED control
    BY <1>9 DEF AttachInit, WorkerInv
  <2>2. ~Stopping \/ control = "stop"
    BY <2>1 DEF StopInv
  <2>3. Stopping => ~queued'
    BY <1>9, <2>2 DEF AttachInit, NextFreq, RescanOut, Queue, Cancelling, StopInv, Stopping
  <2>4. StopInv'
    BY <2>1, <2>2, <2>3 DEF StopInv, Stopping
  <2>5. CASE worker' = "add" /\ Release("worker") /\ UNCHANGED bus
    BY <2>1, <2>4, <2>5 DEF Release, WorkerInv, Attached
  <2>6. CASE mmc_detach_bus /\ NextFreq
    <3>1. busOps' = None
      BY <2>1, <2>2, <2>6 DEF mmc_detach_bus, BusRefsBalanced, Attached, Stopping
    <3> QED
      BY <2>1, <2>4, <2>6, <3>1 DEF NextFreq, Release, WorkerInv
  <2> QED
    BY <1>9, <2>5, <2>6 DEF AttachInit
<1>10. CASE AttachAdd
  BY <1>10 DEF AttachAdd
<1>11. CASE AttachAdded
  BY <1>11 DEF AttachAdded, RescanOut, Queue, Cancelling
<1>12. CASE AttachUndo
  <2>1. worker = "undo" /\ Attached /\ UNCHANGED control
    BY <1>12 DEF AttachUndo, WorkerInv
  <2>2. ~Stopping \/ control = "stop"
    BY <2>1 DEF StopInv
  <2>3. Stopping => ~queued'
    BY <1>12, <2>2 DEF AttachUndo, RescanOut, Queue, Cancelling, StopInv, Stopping
  <2>4. StopInv'
    BY <2>1, <2>2, <2>3 DEF StopInv, Stopping
  <2>5. busOps' = None
    BY <1>12, <2>1, <2>2 DEF AttachUndo, mmc_detach_bus, BusRefsBalanced, Attached, Stopping
  <2>6. WorkerInv'
    BY <1>12, <2>5 DEF AttachUndo, WorkerInv
  <2> QED
    BY <2>4, <2>6
<1>13. CASE DetectClaim
  BY <1>13 DEF DetectClaim
<1>14. CASE _mmc_detect_card_removed
  <2>1. /\ worker = "detected" /\ worker' \in {"put", "remove"}
        /\ UNCHANGED <<bus, control>> /\ holder' = None
    BY <1>14 DEF _mmc_detect_card_removed, Release
  <2>2. ~Stopping \/ control = "stop"
    BY <2>1 DEF StopInv
  <2>3. Stopping => ~queued'
    BY <1>14, <2>2 DEF _mmc_detect_card_removed, Queue, Cancelling, StopInv, Stopping
  <2>4. WorkerInv'
    BY <2>1 DEF WorkerInv, Attached
  <2>5. StopInv'
    BY <2>1, <2>2, <2>3 DEF StopInv, Stopping
  <2> QED
    BY <2>4, <2>5
<1>15. CASE DetectRemove
  BY <1>15 DEF DetectRemove, RemoveCard
<1>16. CASE DetectDetach
  BY <1>16 DEF DetectDetach, mmc_detach_bus
<1>17. CASE SuspendPrepare
  BY <1>17 DEF SuspendPrepare
<1>18. CASE SuspendCancelled
  BY <1>18 DEF SuspendCancelled
<1>19. CASE PostSuspend
  BY <1>19 DEF PostSuspend, Queue, Cancelling
<1>20. CASE StopBegin
  BY <1>20 DEF StopBegin
<1>21. CASE StopCancelled
  BY <1>21 DEF StopCancelled, mmc_bus_get
<1>22. CASE StopLook
  BY <1>22 DEF StopLook, HasCallbacks
<1>23. CASE StopRemove
  BY <1>23 DEF StopRemove, RemoveCard
<1>24. CASE StopDetach
  BY <1>24 DEF StopDetach, mmc_detach_bus
<1>25. CASE StopPut
  BY <1>25 DEF StopPut, mmc_bus_put
<1>26. CASE StopOff
  BY <1>26 DEF StopOff
<1>27. CASE DriverClaims
  BY <1>27 DEF DriverClaims
<1>28. CASE DriverReleases
  BY <1>28 DEF DriverReleases
<1>29. CASE Insert
  BY <1>29 DEF Insert, Queue, Cancelling, SwitchMoves
<1>30. CASE PullSwitch
  BY <1>30 DEF PullSwitch, Queue, Cancelling, SwitchMoves
<1>31. CASE PullContacts
  BY <1>31 DEF PullContacts
<1> QED
  BY <1>1, <1>2, <1>3, <1>4, <1>5, <1>6, <1>7, <1>8, <1>9, <1>10, <1>11,
     <1>12, <1>13, <1>14, <1>15, <1>16, <1>17, <1>18, <1>19, <1>20, <1>21,
     <1>22, <1>23, <1>24, <1>25, <1>26, <1>27, <1>28, <1>29, <1>30, <1>31 DEF
     Next, Rescan, Stop

-----------------------------------------------------------------------------
(* A host just started, with or without a card in its socket.              *)
LEMMA InitIInv ==
  ASSUME Init
  PROVE  IInv
<1>1. TypeInv
  BY LifecycleAssumption DEF Init, TypeInv, WorkerStages, ControlStages
<1>2. FlagTypes
  BY DEF Init, FlagTypes
<1>3. BusRefsBalanced /\ CardInv /\ WorkerInv /\ StopInv
  BY LifecycleAssumption
  DEF Init, BusRefsBalanced, CardInv, WorkerInv, StopInv, Attached, Stopping
<1> QED
  BY <1>1, <1>2, <1>3 DEF IInv

(* Nothing moves.                                                          *)
LEMMA StutterKeeps ==
  ASSUME IInv, UNCHANGED vars
  PROVE  IInv'
<1> USE DEF IInv, vars, world, config, bus, scan
<1>1. TypeInv'
  BY DEF TypeInv
<1>2. FlagTypes'
  BY DEF FlagTypes
<1>3. BusRefsBalanced' /\ CardInv'
  BY DEF BusRefsBalanced, CardInv, Attached
<1>4. WorkerInv' /\ StopInv'
  BY DEF WorkerInv, StopInv, Attached, Stopping
<1> QED
  BY <1>1, <1>2, <1>3, <1>4

(* IInv is an invariant of the lifecycle of a host and its cards.          *)
THEOREM Invariance == Spec => []IInv
<1>1. Init => IInv
  BY InitIInv
<1>2. IInv /\ [Next]_vars => IInv'
  BY TypesKept, FlagsKept, BusKept, StagesKept, StutterKeeps DEF IInv
<1> QED
  BY <1>1, <1>2, PTL DEF Spec

(* Every variable has its type, and never are more than three references   *)
(* on the bus handler: core/core.c, mmc_bus_get and mmc_bus_put.           *)
THEOREM TypeCorrect == Spec => []TypeOK
<1>1. IInv => TypeOK
  <2> SUFFICES ASSUME IInv PROVE TypeOK
    OBVIOUS
  <2>1. busRefs \in 0 .. 3
    BY DEF IInv, BusRefsBalanced
  <2>2. {cd, removable, poll, busDead, cardGone, powered, disabled, entered, queued}
          \subseteq BOOLEAN
    BY DEF IInv, FlagTypes
  <2> QED
    BY <2>1, <2>2 DEF IInv, TypeInv, TypeOK
<1> QED
  BY <1>1, Invariance, PTL

(* The references on the bus handler are those of the attached card and of *)
(* the threads that look at it.                                            *)
THEOREM BusRefsBalancedHolds == Spec => []BusRefsBalanced
<1>1. IInv => BusRefsBalanced
  BY DEF IInv
<1> QED
  BY <1>1, Invariance, PTL

(* A callback of the bus handler runs while its handler is attached and,   *)
(* until it removes it, with its card.                                     *)
THEOREM CallbackSafeHolds == Spec => []CallbackSafe
<1>1. IInv => CallbackSafe
  <2> SUFFICES ASSUME IInv PROVE CallbackSafe
    OBVIOUS
  <2>1. CASE worker \in {"detect", "detected", "remove"} \/ control = "remove"
    <3>1. Attached
      BY <2>1 DEF IInv, WorkerInv, StopInv
    <3>2. worker \notin {"init", "detach"} /\ control # "detach"
      BY <2>1 DEF IInv, StopInv, Stopping
    <3> QED
      BY <2>1, <3>1, <3>2 DEF IInv, CardInv, Attached, CallbackSafe
  <2>2. CASE worker = "detach" \/ control = "detach"
    BY <2>2 DEF IInv, WorkerInv, StopInv, Stopping, Attached, CallbackSafe
  <2> QED
    BY <2>1, <2>2 DEF CallbackSafe
<1> QED
  BY <1>1, Invariance, PTL

(* After mmc_stop_host no card, no bus handler and no power is left, and   *)
(* nobody has the host.                                                    *)
THEOREM StopFinalHolds == Spec => []StopFinal
<1>1. IInv => StopFinal
  <2> SUFFICES ASSUME IInv, control = "stopped" PROVE StopFinal
    BY DEF StopFinal
  <2>1. worker = "idle" /\ ~Attached /\ ~powered /\ holder = None
    BY DEF IInv, StopInv, Stopping
  <2>2. busRefs = 0
    BY <2>1 DEF IInv, BusRefsBalanced, Attached
  <2> QED
    BY <2>1, <2>2 DEF IInv, BusRefsBalanced, CardInv, StopFinal
<1> QED
  BY <1>1, Invariance, PTL

-----------------------------------------------------------------------------
(* The claims made here are those HostLock allows.                         *)
Claimants == {"worker", "driver"}

Lock == INSTANCE HostLock WITH Groups <- Claimants, Nobody <- None,
          owner <- holder, depth <- IF holder = None THEN 0 ELSE 1

LEMMA HolderSteps ==
  ASSUME IInv, [Next]_vars
  PROVE  \/ holder = None /\ holder' \in Claimants
         \/ holder # None /\ holder' = None
         \/ UNCHANGED holder
<1> USE LifecycleAssumption DEF Claimants, vars, Worker, Claim, Release
<1>1. CASE \/ RescanClaim \/ RescanTry \/ AttachInit \/ AttachUndo \/ DetectClaim
           \/ _mmc_detect_card_removed
  BY <1>1 DEF IInv, WorkerInv, RescanClaim, RescanTry, AttachInit, AttachUndo,
              DetectClaim, _mmc_detect_card_removed, NextFreq
<1>2. CASE \/ RescanEntry \/ RescanDetect \/ RescanPut \/ RescanLook \/ RescanPutAgain
           \/ AttachAdd \/ AttachAdded \/ DetectRemove \/ DetectDetach
  BY <1>2 DEF RescanEntry, RescanDetect, RescanPut, RescanLook, RescanPutAgain,
              AttachAdd, AttachAdded, DetectRemove, DetectDetach
<1>3. CASE \/ Dispatch \/ SuspendPrepare \/ SuspendCancelled \/ PostSuspend \/ StopBegin
           \/ Insert \/ PullSwitch \/ PullContacts
  BY <1>3 DEF Dispatch, SuspendPrepare, SuspendCancelled, PostSuspend, StopBegin,
              Insert, PullSwitch, PullContacts
<1>4. CASE Stop
  BY <1>4 DEF Stop, StopCancelled, StopLook, StopRemove, StopDetach, StopPut, StopOff
<1>5. CASE DriverClaims \/ DriverReleases
  BY <1>5 DEF DriverClaims, DriverReleases
<1>6. CASE UNCHANGED vars
  BY <1>6
<1> QED
  BY <1>1, <1>2, <1>3, <1>4, <1>5, <1>6 DEF Next, Rescan

(* The detect work and the card's driver take the host only when it is     *)
(* free, and only who has it gives it back, also where the initialisation  *)
(* of a card fails and the work tries the next frequency.                  *)
THEOREM ClaimsAllowed == Spec => Lock!Spec
<1>1. Init => Lock!Init
  BY DEF Init, Lock!Init
<1>2. IInv /\ [Next]_vars => [Lock!Next]_(Lock!lockVars)
  <2>1. SUFFICES ASSUME IInv, [Next]_vars
                 PROVE  Lock!Next \/ UNCHANGED Lock!lockVars
    OBVIOUS
  <2>2. ASSUME holder = None, holder' \in Claimants PROVE Lock!Acquire(holder')
    BY <2>2, LifecycleAssumption DEF Lock!Acquire, Claimants
  <2>3. ASSUME holder # None, holder' = None PROVE Lock!Release
    BY <2>3 DEF Lock!Release
  <2> QED
    BY <2>1, <2>2, <2>3, HolderSteps DEF Lock!Next, Lock!lockVars
<1> QED
  BY <1>1, <1>2, Invariance, PTL DEF Spec, Lock!Spec
================================================================================
