---------------------------- MODULE CardInitProofs ----------------------------
(***************************************************************************)
(* The safety properties of CardInit, for any number of frequencies and of *)
(* voltage switches.  The invariant says, stage by stage, who owns the     *)
(* card structure (OwnInv), which retries are left (LocInv), and, on       *)
(* boards that cut power and see the card's lines, what level, width and   *)
(* timing host and card may have (BusI).                                   *)
(***************************************************************************)
EXTENDS CardInit, Integers, TLAPS

-----------------------------------------------------------------------------
(* The card structure: one from its allocation until the attach function   *)
(* gives up or the card is registered, none otherwise.                     *)

Probing  == {"off", "ioProbe", "sdProbe", "mmcProbe", "none"}
Choosing == {"cmd11", "switch"}
IoStages == {"ioOpCond", "ioAddress", "ioCccr", "ioCis", "ioHs", "ioWide", "ioSpeed",
             "ioCheck", "ioAdd"}
SdStages == {"sdOpCond", "sdCid", "sdSetup", "sdSpeed", "sdCheck", "sdAdd"}
Unmade   == {"ioOpCond", "sdOpCond", "sdCid"}

BusKnown ==
  /\ pc \in Probing => bus = "none"
  /\ pc \in IoStages => bus = "sdio"
  /\ pc \in SdStages => bus = "sd"
  /\ pc \in Choosing \cup {"ready"} => bus \in {"sdio", "sd"}

HasStruct == pc \notin (Probing \cup Unmade) /\ ~(pc \in Choosing /\ bus = "sd")

Mems == [struct : {"none", "live", "freed"}, hostCard : BOOLEAN,
         alive : Int, twice : BOOLEAN]

Owned ==
  /\ mem.struct = "live" <=> HasStruct
  /\ mem.alive = IF HasStruct THEN 1 ELSE 0
  /\ bus = "none" => mem.struct = "none"
  /\ mem.hostCard <=> pc \in {"ioAdd", "sdAdd", "ready"}

OwnInv ==
  /\ mem \in Mems /\ pc \in Stages /\ bus \in {"none", "sdio", "sd"}
  /\ BusKnown /\ Owned

(* mmc_remove_card and mmc_alloc_card, field by field.                     *)
LEMMA RemoveEffect ==
  ASSUME NEW m \in Mems
  PROVE  /\ mmc_remove_card(m) \in Mems
         /\ mmc_remove_card(m).struct = "freed"
         /\ mmc_remove_card(m).hostCard = m.hostCard
         /\ mmc_remove_card(m).alive =
              IF m.struct = "live" THEN m.alive - 1 ELSE m.alive
<1>1. (m.twice \/ m.struct = "freed") \in BOOLEAN
  BY DEF Mems
<1>2. (IF m.struct = "live" THEN m.alive - 1 ELSE m.alive) \in Int
  BY DEF Mems
<1>3. PICK twice \in BOOLEAN, alive \in Int :
        /\ mmc_remove_card(m) = [m EXCEPT !.struct = "freed", !.twice = twice,
                                          !.alive = alive]
        /\ alive = IF m.struct = "live" THEN m.alive - 1 ELSE m.alive
  BY <1>1, <1>2, Zenon DEF mmc_remove_card
<1>4. mmc_remove_card(m) \in Mems
  BY <1>3 DEF Mems
<1>5. mmc_remove_card(m).struct = "freed" /\ mmc_remove_card(m).hostCard = m.hostCard
  BY <1>3
<1>6. mmc_remove_card(m).alive = alive
  BY <1>3
<1> QED
  BY <1>3, <1>4, <1>5, <1>6

LEMMA AllocateEffect ==
  ASSUME NEW m \in Mems
  PROVE  /\ Allocate(m) \in Mems
         /\ Allocate(m).struct = "live"
         /\ Allocate(m).hostCard = m.hostCard
         /\ Allocate(m).alive = m.alive + 1
<1>1. m.alive + 1 \in Int
  BY DEF Mems
<1>2. Allocate(m) = [m EXCEPT !.struct = "live", !.alive = m.alive + 1]
  BY Zenon DEF Allocate
<1> QED
  BY <1>1, <1>2 DEF Mems

(* The ways out of an attach function, each from where it is taken.        *)
LEMMA FailKeeps ==
  ASSUME NEW m \in Mems, m.alive = 0, bus \in {"sdio", "sd"}, Fail(m)
  PROVE  OwnInv'
  BY DEF Fail, OwnInv, BusKnown, Owned, HasStruct, Probing, Choosing, IoStages,
       SdStages, Stages, Mems

LEMMA LeaveKeeps ==
  ASSUME OwnInv, ~HasStruct, bus # "none", Leave
  PROVE  OwnInv'
  BY FailKeeps DEF Leave, OwnInv, Owned

LEMMA RemoveKeeps ==
  ASSUME OwnInv, HasStruct, bus # "none", Remove
  PROVE  OwnInv'
  BY FailKeeps, RemoveEffect DEF Remove, OwnInv, Owned

(* host->card is set.                                                      *)
LEMMA CheckKeeps ==
  ASSUME OwnInv, HasStruct, NEW from, NEW to, Check(from, to),
         (from = "ioCheck" /\ to = "ioAdd") \/ (from = "sdCheck" /\ to = "sdAdd")
  PROVE  OwnInv'
<1>1. pc = from /\ bus # "none"
  BY DEF Check, At, OwnInv, BusKnown, IoStages, SdStages
<1>2. CASE Remove
  BY <1>1, <1>2, RemoveKeeps
<1>3. CASE mem' = [mem EXCEPT !.hostCard = TRUE] /\ pc' = to /\ UNCHANGED <<bus, loc>>
  <2>1. /\ mem' \in Mems /\ mem'.hostCard
        /\ mem'.struct = mem.struct /\ mem'.alive = mem.alive
    BY <1>3 DEF OwnInv, Mems
  <2>2. BusKnown' /\ HasStruct' /\ pc' \in Stages
    BY <1>1, <1>3
      DEF OwnInv, BusKnown, HasStruct, Probing, Choosing, IoStages, SdStages,
         Unmade, Stages
  <2> QED
    BY <1>1, <1>3, <2>1, <2>2 DEF OwnInv, Owned
<1> QED
  BY <1>2, <1>3 DEF Check

(* A step that leaves the structure where it is.                           *)
LEMMA MemSame ==
  ASSUME OwnInv, pc' \in Stages, bus' \in {"none", "sdio", "sd"}, BusKnown', mem' = mem,
         HasStruct' <=> HasStruct, bus' # "none" \/ bus = "none",
         pc' \in {"ioAdd", "sdAdd", "ready"} <=> pc \in {"ioAdd", "sdAdd", "ready"}
  PROVE  OwnInv'
  BY DEF OwnInv, Owned

(* No step loses or forgets the structure.                                 *)
LEMMA OwnStep == ASSUME OwnInv, [Next]_vars PROVE OwnInv'
<1> USE DEF BusKnown, HasStruct, Probing, Choosing, IoStages, SdStages, Unmade, Stages
<1>1. CASE TryFreq
  BY <1>1, MemSame DEF OwnInv, TryFreq, At
<1>2. CASE GiveUp
  BY <1>2, MemSame DEF OwnInv, GiveUp
<1>3. CASE Cmd11
  BY <1>3, MemSame DEF OwnInv, Cmd11, At
<1>4. CASE Cmd11Fails
  BY <1>4, MemSame DEF Cmd11Fails, At, NoSwitch
<1>5. CASE Switch
  BY <1>5, MemSame DEF OwnInv, Switch, At
<1>6. CASE SwitchFails
  <2>1. CASE bus = "sd"
    BY <1>6, <2>1, MemSame DEF SwitchFails, SwitchAgain, At
  <2>2. CASE bus = "sdio"
    BY <1>6, <2>2, RemoveEffect DEF OwnInv, Owned, SwitchFails, SwitchAgain, At
  <2> QED
    BY <1>6, <2>1, <2>2 DEF SwitchFails, SwitchAgain
<1>7. CASE IoProbe
  BY <1>7, MemSame DEF OwnInv, IoProbe, At
<1>8. CASE IoOpCond
  BY <1>8, LeaveKeeps, AllocateEffect DEF OwnInv, IoOpCond, At, Owned
<1>9. CASE IoAddress
  BY <1>9, MemSame, RemoveKeeps DEF OwnInv, IoAddress, At
<1>10. CASE IoCccr
  BY <1>10, MemSame DEF OwnInv, IoCccr, At
<1>11. CASE IoCccrFails
  BY <1>11, RemoveEffect, FailKeeps DEF OwnInv, IoCccrFails, At, Owned
<1>12. CASE IoCis
  BY <1>12, MemSame, RemoveKeeps DEF OwnInv, IoCis, At
<1>13. CASE IoHs
  BY <1>13, MemSame, RemoveKeeps DEF OwnInv, IoHs, At
<1>14. CASE IoWide
  BY <1>14, MemSame, RemoveKeeps DEF OwnInv, IoWide, At, Widened
<1>15. CASE IoSpeed
  BY <1>15, MemSame, RemoveKeeps DEF OwnInv, IoSpeed, At
<1>16. CASE IoCheck
  <2>1. pc = "ioCheck" /\ Check("ioCheck", "ioAdd")
    BY <1>16 DEF IoCheck, Check, At
  <2>2. HasStruct
    BY <2>1
  <2> QED
    BY <2>1, <2>2, CheckKeeps, Zenon
<1>17. CASE IoAdd
  BY <1>17, MemSame, RemoveKeeps DEF OwnInv, IoAdd, At
<1>18. CASE SdProbe
  BY <1>18, MemSame DEF OwnInv, SdProbe, At
<1>19. CASE SdOpCond
  BY <1>19, MemSame, LeaveKeeps DEF OwnInv, SdOpCond, At
<1>20. CASE SdCid
  BY <1>20, LeaveKeeps, AllocateEffect DEF OwnInv, SdCid, At, Owned
<1>21. CASE SdSetup
  BY <1>21, MemSame, RemoveKeeps DEF OwnInv, SdSetup, At
<1>22. CASE SdSpeed
  BY <1>22, MemSame, RemoveKeeps DEF OwnInv, SdSpeed, At
<1>23. CASE SdCheck
  <2>1. pc = "sdCheck" /\ Check("sdCheck", "sdAdd")
    BY <1>23 DEF SdCheck, Check, At
  <2>2. HasStruct
    BY <2>1
  <2> QED
    BY <2>1, <2>2, CheckKeeps, Zenon
<1>24. CASE SdAdd
  BY <1>24, MemSame, RemoveKeeps DEF OwnInv, SdAdd, At
<1> QED
  BY <1>1, <1>2, <1>3, <1>4, <1>5, <1>6, <1>7, <1>8, <1>9, <1>10, <1>11, <1>12,
    <1>13, <1>14, <1>15, <1>16, <1>17, <1>18, <1>19, <1>20, <1>21, <1>22, <1>23,
    <1>24 DEF Next, vars, OwnInv, Owned

-----------------------------------------------------------------------------
(* What the operators on power and registers return.                       *)

On(b) == [power |-> "on", clock |-> "init", level |-> mmc_set_initial_signal_voltage(b),
          width |-> 1, timing |-> "legacy"]

LEMMA InitialLevel ==
  ASSUME NEW b \in Boards
  PROVE  mmc_set_initial_signal_voltage(b) \in {33, 18}
BY DEF mmc_set_initial_signal_voltage

LEMMA PowerEffect ==
  ASSUME NEW b \in Boards, NEW i \in Ios
  PROVE  /\ i.power = "off" => mmc_power_up(b, i) = On(b)
         /\ i.power = "on" => mmc_power_up(b, i) = i
         /\ i.power = "off" => mmc_power_off(i) = i
         /\ i.power = "on" => mmc_power_off(i) =
              [power |-> "off", clock |-> "none", level |-> i.level, width |-> 1,
               timing |-> "legacy"]
         /\ mmc_power_cycle(b, i) = On(b)
<1>1. i = [power |-> i.power, clock |-> i.clock, level |-> i.level, width |-> i.width,
           timing |-> i.timing]
  BY DEF Ios
<1>2. i.power = "off" => mmc_power_up(b, i) = On(b)
  BY <1>1 DEF mmc_power_up, mmc_set_initial_state, On
<1>3. i.power = "on" => mmc_power_off(i) =
        [power |-> "off", clock |-> "none", level |-> i.level, width |-> 1,
         timing |-> "legacy"]
  BY <1>1 DEF mmc_power_off, mmc_set_initial_state
<1>4. mmc_power_off(i) \in Ios /\ mmc_power_off(i).power = "off"
  BY <1>1, <1>3 DEF mmc_power_off, Ios
<1>5. mmc_power_cycle(b, i) = On(b)
  <2> DEFINE j == mmc_power_off(i)
  <2>1. j = [power |-> j.power, clock |-> j.clock, level |-> j.level, width |-> j.width,
             timing |-> j.timing] /\ j.power = "off"
    BY <1>4 DEF Ios
  <2> HIDE DEF j
  <2>2. mmc_power_up(b, j) = On(b)
    BY <2>1 DEF mmc_power_up, mmc_set_initial_state, On
  <2> QED
    BY <2>2 DEF j, mmc_power_cycle
<1> QED
  BY <1>2, <1>3, <1>5 DEF mmc_power_up, mmc_power_off

LEMMA OnType ==
  ASSUME NEW b \in Boards
  PROVE  On(b) \in Ios /\ Fresh(b) \in CardState /\ Fresh(b).level = On(b).level
         /\ ~Fresh(b).switching
BY InitialLevel DEF On, Ios, Fresh, CardState

LEMMA IdleEffect ==
  ASSUME NEW i, NEW k \in CardState, NEW r \in mmc_go_idle(i, k)
  PROVE  /\ r \in CardState /\ r.level = k.level /\ r.switching = k.switching
         /\ r.ioWidth = k.ioWidth /\ r.ioTiming = k.ioTiming
BY DEF mmc_go_idle, MemReset, CardState

LEMMA ResetEffect ==
  ASSUME NEW i, NEW k \in CardState, NEW r \in ResetBoth(i, k)
  PROVE  r \in CardState /\ r.level = k.level /\ r.switching = k.switching
<1>1. PICK q \in sdio_reset(i, k) : r \in mmc_go_idle(i, q)
  BY DEF ResetBoth
<1>2. q = k \/ q = [k EXCEPT !.ioWidth = 1, !.ioTiming = "legacy"]
  BY <1>1 DEF sdio_reset, IoReset
<1>3. q \in CardState /\ q.level = k.level /\ q.switching = k.switching
  BY <1>2 DEF CardState
<1> QED
  BY <1>1, <1>3, IdleEffect

LEMMA UnpoweredType ==
  ASSUME NEW b \in Boards, NEW k \in CardState
  PROVE  Unpowered(b, k) \in CardState /\ (b.cuts => Unpowered(b, k) = Fresh(b))
BY OnType DEF Unpowered

-----------------------------------------------------------------------------
(* Types.                                                                  *)

Locs == [retries : 0 .. Retries, ocr18 : BOOLEAN, s18a : BOOLEAN,
         type : {"sdio", "combo"}, sd3 : BOOLEAN]

LineTypes == board \in Boards /\ traits \in Traits /\ ios \in Ios /\ card \in CardState

(* A retry of the voltage switch is one of those that are left.            *)
LocInv == loc \in Locs /\ (pc \in Choosing => loc.retries > 0)

FreqInv == freq \in 1 .. Freqs + 1 /\ (pc # "none" => freq <= Freqs)

(* What the steps that set width and timing do, field by field.            *)
SameLevels == /\ ios'.power = ios.power /\ ios'.level = ios.level
              /\ card'.level = card.level /\ card'.switching = card.switching

FailStep == pc' \in {"sdProbe", "mmcProbe"} /\ bus' = "none"

LEMMA HsEffect ==
  ASSUME LineTypes, IoHs
  PROVE  /\ pc = "ioHs" /\ UNCHANGED const /\ LineTypes' /\ SameLevels
         /\ ios'.width = ios.width /\ card'.ioWidth = card.ioWidth
         /\ \/ FailStep
            \/ /\ pc' = "ioWide" /\ UNCHANGED <<bus, loc, mem>>
               /\ \/ ios'.timing = ios.timing
                  \/ ios'.timing = "hs" /\ card'.ioTiming = "hs"
<1> USE DEF LineTypes, IoHs, At, const, SameLevels
<1>1. CASE board.hs /\ Remove /\ UNCHANGED ios /\
           card' \in IF mmc_io_rw_direct THEN {card, [card EXCEPT !.ioTiming = "hs"]}
                     ELSE {card}
  BY <1>1 DEF Remove, Fail, FailStep, CardState
<1>2. CASE pc' = "ioWide" /\ UNCHANGED <<bus, loc, mem>>
  <2>1. /\ ios' = [ios EXCEPT !.timing = ios'.timing, !.clock = ios'.clock]
        /\ ios'.timing \in {"legacy", "hs", "uhs"} /\ ios'.clock \in {"none", "fast"}
    BY <1>2 DEF Ios, Remove, Fail
  <2>2. /\ card' = [card EXCEPT !.ioTiming = card'.ioTiming]
        /\ card'.ioTiming \in {"legacy", "hs", "uhs"}
    BY <1>2 DEF CardState
  <2>3. /\ LineTypes' /\ SameLevels
        /\ ios'.width = ios.width /\ card'.ioWidth = card.ioWidth
    BY <2>1, <2>2 DEF Ios, CardState
  <2>4. ios'.timing = ios.timing \/ (ios'.timing = "hs" /\ card'.ioTiming = "hs")
    BY <1>2 DEF Ios, CardState
  <2> QED
    BY <1>2, <2>3, <2>4
<1> QED
  BY <1>1, <1>2

LEMMA WideEffect ==
  ASSUME LineTypes, IoWide
  PROVE  /\ pc = "ioWide" /\ UNCHANGED const /\ LineTypes' /\ SameLevels
         /\ ios'.timing = ios.timing /\ card'.ioTiming = card.ioTiming
         /\ \/ FailStep
            \/ /\ Widened /\ UNCHANGED <<bus, loc, mem>>
               /\ \/ ios'.width = ios.width
                  \/ card'.ioWidth = 4 /\ (loc.type = "combo" => card'.width = 4)
<1> USE DEF LineTypes, IoWide, At, const, SameLevels
<1>1. CASE UNCHANGED line
  BY <1>1 DEF line, Remove, Fail, FailStep
<1>2. CASE board.wide /\ Remove /\ UNCHANGED ios /\
           card' \in IF ~mmc_io_rw_direct THEN {card}
                     ELSE IF loc.type = "sdio" THEN {card, [card EXCEPT !.ioWidth = 4]}
                     ELSE {[card EXCEPT !.width = w, !.ioWidth = v] : w, v \in {1, 4}}
  <2>1. \/ card' = card
        \/ card' = [card EXCEPT !.ioWidth = 4]
        \/ \E w, v \in {1, 4} : card' = [card EXCEPT !.width = w, !.ioWidth = v]
    BY <1>2
  <2>2. /\ card' \in CardState /\ card'.level = card.level
        /\ card'.switching = card.switching /\ card'.ioTiming = card.ioTiming
    BY <2>1 DEF CardState
  <2> QED
    BY <1>2, <2>2 DEF Remove, Fail, FailStep
<1>3. CASE /\ ios' = [ios EXCEPT !.width = 4] /\ Widened /\ UNCHANGED <<bus, loc, mem>>
           /\ card' = [card EXCEPT !.ioWidth = 4,
                                   !.width = IF loc.type = "combo" THEN 4 ELSE @]
  <2>1. /\ ios' = [ios EXCEPT !.width = 4] /\ Widened /\ UNCHANGED <<bus, loc, mem>>
        /\ card' = [card EXCEPT !.ioWidth = 4,
                                !.width = IF loc.type = "combo" THEN 4 ELSE card.width]
    BY <1>3
  <2>2. PICK w \in {1, 4} : /\ card' = [card EXCEPT !.ioWidth = 4, !.width = w]
                            /\ loc.type = "combo" => w = 4
    BY <2>1 DEF CardState
  <2>3. LineTypes' /\ SameLevels /\ ios'.timing = ios.timing
    BY <2>1, <2>2 DEF Ios, CardState
  <2>4. /\ card'.ioWidth = 4 /\ (loc.type = "combo" => card'.width = 4)
        /\ card'.ioTiming = card.ioTiming
    BY <2>2
  <2> QED
    BY <2>1, <2>3, <2>4
<1> QED
  BY <1>1, <1>2, <1>3

LEMMA SpeedEffect ==
  ASSUME LineTypes, IoSpeed
  PROVE  /\ pc = "ioSpeed" /\ UNCHANGED const /\ LineTypes' /\ SameLevels
         /\ ios'.width = ios.width
         /\ card'.width = card.width /\ card'.ioWidth = card.ioWidth
         /\ \/ FailStep
            \/ /\ pc' = "ioCheck" /\ UNCHANGED <<bus, loc, mem>>
               /\ UNCHANGED line \/ (ios'.timing = "uhs" /\ card'.ioTiming = "uhs")
<1> USE DEF LineTypes, IoSpeed, At, const, SameLevels
<1>1. /\ card' = card \/ card' = [card EXCEPT !.ioTiming = "uhs"]
      /\ ios' = ios \/ ios' = [ios EXCEPT !.timing = "uhs", !.clock = "fast"]
  BY DEF line
<1>2. /\ LineTypes' /\ SameLevels /\ ios'.width = ios.width
      /\ card'.width = card.width /\ card'.ioWidth = card.ioWidth
  <2>1. ios' \in Ios /\ UNCHANGED <<ios.power, ios.level, ios.width>>
    BY <1>1 DEF Ios
  <2>2. card' \in CardState
        /\ UNCHANGED <<card.level, card.switching, card.width, card.ioWidth>>
    BY <1>1 DEF CardState
  <2> QED
    BY <2>1, <2>2
<1>3. \/ FailStep
      \/ /\ pc' = "ioCheck" /\ UNCHANGED <<bus, loc, mem>>
         /\ UNCHANGED line \/ (ios'.timing = "uhs" /\ card'.ioTiming = "uhs")
  BY DEF Remove, Fail, FailStep, Ios, CardState
<1> QED
  BY <1>2, <1>3

(* Registers and host->ios keep their types; so do the locals and the      *)
(* frequency.                                                              *)
LEMMA LineStep ==
  ASSUME LineTypes, Next
  PROVE  LineTypes'
<1> USE DEF LineTypes
<1>1. CASE TryFreq
  BY <1>1, PowerEffect, OnType, ResetEffect DEF TryFreq, At, const, Ios
<1>2. CASE GiveUp
  BY <1>2, PowerEffect, UnpoweredType DEF GiveUp, const, Ios
<1>3. CASE Cmd11
  BY <1>3 DEF Cmd11, SendCmd11, At, const, CardState
<1>4. CASE Cmd11Fails
  BY <1>4 DEF Cmd11Fails, SendCmd11, At, const, CardState
<1>5. CASE Switch
  BY <1>5 DEF Switch, At, const, CardState, Ios
<1>6. CASE SwitchFails
  BY <1>6, PowerEffect, OnType, UnpoweredType, ResetEffect
    DEF SwitchFails, SwitchAgain, At, const
<1>7. CASE IoProbe
  BY <1>7, PowerEffect, OnType, UnpoweredType
    DEF IoProbe, mmc_select_voltage, At, const, line
<1>8. CASE IoOpCond
  BY <1>8, IdleEffect DEF IoOpCond, At, const
<1>9. CASE IoAddress
  BY <1>9 DEF IoAddress, At, const, line
<1>10. CASE IoCccr
  BY <1>10 DEF IoCccr, At, const, line
<1>11. CASE IoCccrFails
  BY <1>11, ResetEffect DEF IoCccrFails, At, const
<1>12. CASE IoCis
  BY <1>12, IdleEffect DEF IoCis, At, const
<1>13. CASE IoHs
  BY <1>13, HsEffect
<1>14. CASE IoWide
  BY <1>14, WideEffect
<1>15. CASE IoSpeed
  BY <1>15, SpeedEffect
<1>16. CASE IoCheck
  BY <1>16 DEF IoCheck, Check, At, const, line
<1>17. CASE IoAdd
  BY <1>17 DEF IoAdd, At, const, line
<1>18. CASE SdProbe
  BY <1>18, PowerEffect, OnType, UnpoweredType
    DEF SdProbe, mmc_select_voltage, At, const, line
<1>19. CASE SdOpCond
  BY <1>19, IdleEffect DEF SdOpCond, At, const
<1>20. CASE SdCid
  BY <1>20 DEF SdCid, At, const, line
<1>21. CASE SdSetup
  BY <1>21 DEF SdSetup, At, const, line
<1>22. CASE SdSpeed
  BY <1>22 DEF SdSpeed, At, const, Ios
<1>23. CASE SdCheck
  BY <1>23 DEF SdCheck, Check, At, const, line
<1>24. CASE SdAdd
  BY <1>24 DEF SdAdd, At, const, line
<1> QED
  BY <1>1, <1>2, <1>3, <1>4, <1>5, <1>6, <1>7, <1>8, <1>9, <1>10, <1>11, <1>12,
    <1>13, <1>14, <1>15, <1>16, <1>17, <1>18, <1>19, <1>20, <1>21, <1>22, <1>23,
    <1>24 DEF Next

LEMMA LocStep ==
  ASSUME LocInv, LineTypes, Next
  PROVE  LocInv'
<1> USE DEF LocInv, Locs, LineTypes, Choosing
<1>1. CASE TryFreq
  BY <1>1 DEF TryFreq
<1>2. CASE GiveUp
  BY <1>2 DEF GiveUp
<1>3. CASE Cmd11
  BY <1>3 DEF Cmd11, At
<1>4. CASE Cmd11Fails
  <2>1. pc' \notin Choosing /\ 0 \in 0 .. Retries
    BY <1>4, InitAssumption DEF Cmd11Fails, NoSwitch
  <2>2. loc' \in Locs
    BY <1>4, <2>1 DEF Cmd11Fails, NoSwitch
  <2> QED
    BY <2>1, <2>2
<1>5. CASE Switch
  BY <1>5 DEF Switch
<1>6. CASE SwitchFails
  BY <1>6, InitAssumption DEF SwitchFails, SwitchAgain, Retry, At
<1>7. CASE IoProbe
  <2>1. \A uhs \in BOOLEAN : Start(uhs) \in Locs /\ Retries > 0
    BY InitAssumption DEF Start
  <2>2. board.uhs \in BOOLEAN
    BY DEF Boards
  <2>3. loc' = loc \/ loc' = Start(board.uhs)
    BY <1>7 DEF IoProbe
  <2>4. pc' \notin Choosing
    BY <1>7 DEF IoProbe
  <2> QED
    BY <2>1, <2>2, <2>3, <2>4
<1>8. CASE IoOpCond
  <2>1. CASE Leave
    BY <1>8, <2>1 DEF Leave, Fail
  <2>2. CASE ~Leave
    <3>1. PICK ocr18 \in BOOLEAN, s18a \in BOOLEAN, type \in {"sdio", "combo"} :
            loc' = [loc EXCEPT !.ocr18 = ocr18, !.s18a = s18a, !.type = type]
      BY <1>8, <2>2, Zenon DEF IoOpCond
    <3>2. loc' \in Locs /\ loc'.retries = loc.retries /\ loc'.ocr18 = ocr18
      BY <3>1
    <3>3. pc' \in Choosing => loc.retries > 0
      BY <1>8, <2>2, <3>1, <3>2 DEF IoOpCond
    <3> QED
      BY <1>8, <3>2, <3>3
  <2> QED
    BY <2>1, <2>2
<1>9. CASE IoAddress
  BY <1>9 DEF IoAddress, Remove, Fail
<1>10. CASE IoCccr
  BY <1>10 DEF IoCccr
<1>11. CASE IoCccrFails
  BY <1>11, InitAssumption DEF IoCccrFails, Fail
<1>12. CASE IoCis
  BY <1>12 DEF IoCis, Remove, Fail
<1>13. CASE IoHs
  BY <1>13 DEF IoHs, Remove, Fail
<1>14. CASE IoWide
  BY <1>14 DEF IoWide, Widened, Remove, Fail
<1>15. CASE IoSpeed
  BY <1>15 DEF IoSpeed, Remove, Fail
<1>16. CASE IoCheck
  BY <1>16 DEF IoCheck, Check, Remove, Fail
<1>17. CASE IoAdd
  BY <1>17 DEF IoAdd, Remove, Fail
<1>18. CASE SdProbe
  <2>1. \A uhs \in BOOLEAN : Start(uhs) \in Locs /\ Retries > 0
    BY InitAssumption DEF Start
  <2>2. board.uhs \in BOOLEAN
    BY DEF Boards
  <2>3. loc' = loc \/ loc' = Start(board.uhs)
    BY <1>18 DEF SdProbe
  <2>4. pc' \notin Choosing
    BY <1>18 DEF SdProbe
  <2> QED
    BY <2>1, <2>2, <2>3, <2>4
<1>19. CASE SdOpCond
  BY <1>19 DEF SdOpCond, Leave, Fail, Asks18
<1>20. CASE SdCid
  BY <1>20 DEF SdCid, Leave, Fail
<1>21. CASE SdSetup
  BY <1>21 DEF SdSetup, Remove, Fail
<1>22. CASE SdSpeed
  BY <1>22 DEF SdSpeed, Remove, Fail
<1>23. CASE SdCheck
  BY <1>23 DEF SdCheck, Check, Remove, Fail
<1>24. CASE SdAdd
  BY <1>24 DEF SdAdd, Remove, Fail
<1> QED
  BY <1>1, <1>2, <1>3, <1>4, <1>5, <1>6, <1>7, <1>8, <1>9, <1>10, <1>11, <1>12,
    <1>13, <1>14, <1>15, <1>16, <1>17, <1>18, <1>19, <1>20, <1>21, <1>22, <1>23,
    <1>24 DEF Next

LEMMA FreqStep ==
  ASSUME FreqInv, Next
  PROVE  FreqInv'
<1> USE DEF FreqInv
<1>1. CASE TryFreq
  BY <1>1 DEF TryFreq, At
<1>2. CASE GiveUp
  BY <1>2, InitAssumption DEF GiveUp
<1>3. CASE Cmd11
  BY <1>3 DEF Cmd11, At
<1>4. CASE Cmd11Fails
  BY <1>4 DEF Cmd11Fails, At
<1>5. CASE Switch
  BY <1>5 DEF Switch, At
<1>6. CASE SwitchFails
  BY <1>6 DEF SwitchFails, At
<1>7. CASE IoProbe
  BY <1>7 DEF IoProbe, At
<1>8. CASE IoOpCond
  BY <1>8 DEF IoOpCond, At
<1>9. CASE IoAddress
  BY <1>9 DEF IoAddress, At
<1>10. CASE IoCccr
  BY <1>10 DEF IoCccr, At
<1>11. CASE IoCccrFails
  BY <1>11 DEF IoCccrFails, At
<1>12. CASE IoCis
  BY <1>12 DEF IoCis, At
<1>13. CASE IoHs
  BY <1>13 DEF IoHs, At
<1>14. CASE IoWide
  BY <1>14 DEF IoWide, At
<1>15. CASE IoSpeed
  BY <1>15 DEF IoSpeed, At
<1>16. CASE IoCheck
  BY <1>16 DEF IoCheck, Check, At
<1>17. CASE IoAdd
  BY <1>17 DEF IoAdd, At
<1>18. CASE SdProbe
  BY <1>18 DEF SdProbe, At
<1>19. CASE SdOpCond
  BY <1>19 DEF SdOpCond, At
<1>20. CASE SdCid
  BY <1>20 DEF SdCid, At
<1>21. CASE SdSetup
  BY <1>21 DEF SdSetup, At
<1>22. CASE SdSpeed
  BY <1>22 DEF SdSpeed, At
<1>23. CASE SdCheck
  BY <1>23 DEF SdCheck, Check, At
<1>24. CASE SdAdd
  BY <1>24 DEF SdAdd, At
<1> QED
  BY <1>1, <1>2, <1>3, <1>4, <1>5, <1>6, <1>7, <1>8, <1>9, <1>10, <1>11, <1>12,
    <1>13, <1>14, <1>15, <1>16, <1>17, <1>18, <1>19, <1>20, <1>21, <1>22, <1>23,
    <1>24 DEF Next

-----------------------------------------------------------------------------
(* Host and card on one bus.                                               *)

(* Only there can the code know what the card does.                        *)
Good == board.cuts /\ board.verifies

LevelInv ==
  /\ pc \in {"off", "none"} => card = Fresh(board) /\ ios.power = "off"
  /\ pc \notin {"off", "none"} => ios.power = "on"
  /\ ios.power = "on" => ios.level = card.level \/ card.switching

Early == {"off", "none", "ioProbe", "ioOpCond", "ioAddress", "ioCccr", "ioCis", "ioHs",
          "ioWide"}

(* The width is 1 until the card has been told; later the host's is the    *)
(* card's, whose memory part counts only for combo and SD cards.           *)
WidthInv ==
  /\ pc \in Early \/ (pc \in Choosing /\ bus = "sdio") => ios.width = 1
  /\ pc \in {"ioSpeed", "ioCheck", "ioAdd"} \/ (pc = "ready" /\ bus = "sdio") =>
       (ios.width = 4 => card.ioWidth = 4 /\ (loc.type = "combo" => card.width = 4))
  /\ pc \in {"sdSpeed", "sdCheck", "sdAdd"} \/ (pc = "ready" /\ bus = "sd") =>
       ios.width = card.width

(* A UHS timing is for a card that has told so, at 1.8 V.                  *)
UhsInv ==
  /\ pc \in {"ioAddress", "ioCccr", "ioCis", "ioHs", "ioWide", "ioSpeed"} =>
       (loc.ocr18 /\ traits.uhs => ios.level = 18)
  /\ pc \in {"ioCis", "ioHs", "ioWide", "ioSpeed"} => (loc.sd3 => traits.uhs)
  /\ pc = "ioHs" => ~(loc.ocr18 /\ loc.sd3)
  /\ pc = "ioSpeed" => loc.ocr18 /\ loc.sd3

(* The host is at a fast timing only once the card is; a reset of the I/O  *)
(* part returns to stages where the host is at legacy timing.              *)
TimingInv ==
  /\ pc \in (Early \ {"ioWide"}) \/ (pc \in Choosing /\ bus = "sdio") =>
       ios.timing = "legacy"
  /\ pc \in {"ioWide", "ioSpeed"} =>
       /\ ios.timing = "hs" => card.ioTiming = "hs"
       /\ ios.timing # "uhs"
       /\ loc.ocr18 /\ loc.sd3 => ios.timing = "legacy"
  /\ pc \in {"ioCheck", "ioAdd"} \/ (pc = "ready" /\ bus = "sdio") =>
       /\ ios.timing # "legacy" => card.ioTiming = ios.timing
       /\ ios.timing = "uhs" => ios.level = 18

BusI == LevelInv /\ WidthInv /\ UhsInv /\ TimingInv

(* Each part is kept by every step.                                        *)
LEMMA LevelStep ==
  ASSUME Good, OwnInv, LineTypes, BusI, Next
  PROVE  LevelInv'
<1> USE DEF OwnInv, BusKnown, LineTypes, Probing, Choosing, IoStages, SdStages,
            BusI, LevelInv
<1>1. CASE TryFreq
  BY <1>1, PowerEffect, OnType, ResetEffect DEF TryFreq, On
<1>2. CASE GiveUp
  BY <1>2, PowerEffect, UnpoweredType DEF GiveUp, const, Good
<1>3. CASE Cmd11
  BY <1>3 DEF Cmd11, SendCmd11, At, CardState
<1>4. CASE Cmd11Fails
  BY <1>4 DEF Cmd11Fails, SendCmd11, NoSwitch, CardState
<1>5. CASE Switch
  BY <1>5 DEF Switch, At, Good, CardState, Ios
<1>6. CASE SwitchFails
  BY <1>6, PowerEffect, OnType, UnpoweredType, ResetEffect
    DEF SwitchFails, SwitchAgain, Good, On
<1>7. CASE IoProbe
  BY <1>7, PowerEffect, OnType, UnpoweredType
    DEF IoProbe, mmc_select_voltage, At, line, Good, On
<1>8. CASE IoOpCond
  BY <1>8, IdleEffect DEF IoOpCond, At, Leave, Fail
<1>9. CASE IoAddress
  BY <1>9 DEF IoAddress, At, Remove, Fail, line
<1>10. CASE IoCccr
  BY <1>10 DEF IoCccr, At, line
<1>11. CASE IoCccrFails
  BY <1>11, ResetEffect DEF IoCccrFails, At, Fail
<1>12. CASE IoCis
  BY <1>12, IdleEffect DEF IoCis, At, Remove, Fail
<1>13. CASE IoHs
  BY <1>13, HsEffect DEF SameLevels, FailStep
<1>14. CASE IoWide
  BY <1>14, WideEffect DEF SameLevels, FailStep, Widened
<1>15. CASE IoSpeed
  BY <1>15, SpeedEffect DEF SameLevels, FailStep
<1>16. CASE IoCheck
  BY <1>16 DEF IoCheck, Check, At, Remove, Fail, line
<1>17. CASE IoAdd
  BY <1>17 DEF IoAdd, At, Remove, Fail, line
<1>18. CASE SdProbe
  BY <1>18, PowerEffect, OnType, UnpoweredType
    DEF SdProbe, mmc_select_voltage, At, line, Good, On
<1>19. CASE SdOpCond
  BY <1>19, IdleEffect DEF SdOpCond, At, Leave, Fail
<1>20. CASE SdCid
  BY <1>20 DEF SdCid, At, Leave, Fail, line
<1>21. CASE SdSetup
  BY <1>21 DEF SdSetup, At, Remove, Fail, line
<1>22. CASE SdSpeed
  BY <1>22 DEF SdSpeed, At, Remove, Fail, Ios
<1>23. CASE SdCheck
  BY <1>23 DEF SdCheck, Check, At, Remove, Fail, line
<1>24. CASE SdAdd
  BY <1>24 DEF SdAdd, At, Remove, Fail, line
<1> QED
  BY <1>1, <1>2, <1>3, <1>4, <1>5, <1>6, <1>7, <1>8, <1>9, <1>10, <1>11, <1>12,
    <1>13, <1>14, <1>15, <1>16, <1>17, <1>18, <1>19, <1>20, <1>21, <1>22, <1>23,
    <1>24 DEF Next

LEMMA WidthStep ==
  ASSUME Good, OwnInv, LineTypes, BusI, Next
  PROVE  WidthInv'
<1> USE DEF OwnInv, BusKnown, LineTypes, Probing, Choosing, IoStages, SdStages,
            BusI, WidthInv, Early, LevelInv
<1>1. CASE TryFreq
  BY <1>1, PowerEffect DEF TryFreq, At, On
<1>2. CASE GiveUp
  BY <1>2, PowerEffect DEF GiveUp
<1>3. CASE Cmd11
  BY <1>3 DEF Cmd11, At
<1>4. CASE Cmd11Fails
  BY <1>4 DEF Cmd11Fails, NoSwitch, At
<1>5. CASE Switch
  BY <1>5 DEF Switch, At
<1>6. CASE SwitchFails
  BY <1>6, PowerEffect DEF SwitchFails, SwitchAgain, On
<1>7. CASE IoProbe
  BY <1>7, PowerEffect DEF IoProbe, mmc_select_voltage, At, line, On
<1>8. CASE IoOpCond
  BY <1>8 DEF IoOpCond, At, Leave, Fail
<1>9. CASE IoAddress
  BY <1>9 DEF IoAddress, At, Remove, Fail, line
<1>10. CASE IoCccr
  BY <1>10 DEF IoCccr, At, line
<1>11. CASE IoCccrFails
  BY <1>11 DEF IoCccrFails, At, Fail
<1>12. CASE IoCis
  BY <1>12 DEF IoCis, At, Remove, Fail
<1>13. CASE IoHs
  BY <1>13, HsEffect DEF FailStep
<1>14. CASE IoWide
  BY <1>14, WideEffect DEF FailStep, Widened
<1>15. CASE IoSpeed
  BY <1>15, SpeedEffect DEF FailStep
<1>16. CASE IoCheck
  BY <1>16 DEF IoCheck, Check, At, Remove, Fail, line
<1>17. CASE IoAdd
  BY <1>17 DEF IoAdd, At, Remove, Fail, line
<1>18. CASE SdProbe
  BY <1>18 DEF SdProbe
<1>19. CASE SdOpCond
  BY <1>19 DEF SdOpCond, At, Leave, Fail
<1>20. CASE SdCid
  BY <1>20 DEF SdCid, Leave, Fail
<1>21. CASE SdSetup
  BY <1>21 DEF SdSetup, Remove, Fail, line, mmc_sd_setup_card, AnswersData
<1>22. CASE SdSpeed
  BY <1>22 DEF SdSpeed, At, Remove, Fail, Ios
<1>23. CASE SdCheck
  BY <1>23 DEF SdCheck, Check, At, Remove, Fail, line
<1>24. CASE SdAdd
  BY <1>24 DEF SdAdd, At, Remove, Fail, line
<1> QED
  BY <1>1, <1>2, <1>3, <1>4, <1>5, <1>6, <1>7, <1>8, <1>9, <1>10, <1>11, <1>12,
    <1>13, <1>14, <1>15, <1>16, <1>17, <1>18, <1>19, <1>20, <1>21, <1>22, <1>23,
    <1>24 DEF Next

LEMMA UhsStep ==
  ASSUME Good, OwnInv, LineTypes, BusI, Next, LocInv
  PROVE  UhsInv'
<1> USE DEF OwnInv, BusKnown, LineTypes, Probing, Choosing, IoStages, SdStages,
            BusI, UhsInv, LevelInv
<1>1. CASE TryFreq
  BY <1>1 DEF TryFreq
<1>2. CASE GiveUp
  BY <1>2 DEF GiveUp
<1>3. CASE Cmd11
  BY <1>3 DEF Cmd11
<1>4. CASE Cmd11Fails
  BY <1>4 DEF Cmd11Fails, NoSwitch, Locs, LocInv
<1>5. CASE Switch
  BY <1>5 DEF Switch
<1>6. CASE SwitchFails
  BY <1>6 DEF SwitchFails, SwitchAgain
<1>7. CASE IoProbe
  BY <1>7 DEF IoProbe
<1>8. CASE IoOpCond
  <2>1. CASE Leave
    BY <1>8, <2>1 DEF Leave, Fail
  <2>2. CASE ~Leave
    <3>1. /\ Answers(ios, card) /\ pc = "ioOpCond" /\ ios' = ios /\ traits' = traits
          /\ loc'.s18a = (loc'.ocr18 /\ Offers18)
          /\ pc' = IF loc'.s18a THEN "cmd11" ELSE "ioAddress"
      BY <1>8, <2>2 DEF IoOpCond, At, const, mmc_send_io_op_cond, LocInv, Locs
    <3>2. traits.uhs => traits.s18
      BY DEF Traits
    <3>3. ios.level = card.level /\ card.level \in {33, 18}
      BY <3>1 DEF Answers, CardState
    <3> QED
      BY <3>1, <3>2, <3>3 DEF Offers18
  <2> QED
    BY <2>1, <2>2
<1>9. CASE IoAddress
  BY <1>9 DEF IoAddress, At, const, Remove, Fail, line
<1>10. CASE IoCccr
  BY <1>10 DEF IoCccr, At, const, line, Locs, LocInv
<1>11. CASE IoCccrFails
  BY <1>11 DEF IoCccrFails, Fail
<1>12. CASE IoCis
  BY <1>12 DEF IoCis, At, const, Remove, Fail, Locs, LocInv
<1>13. CASE IoHs
  BY <1>13, HsEffect DEF SameLevels, FailStep, const
<1>14. CASE IoWide
  BY <1>14, WideEffect DEF SameLevels, FailStep, Widened, const
<1>15. CASE IoSpeed
  BY <1>15, SpeedEffect DEF FailStep
<1>16. CASE IoCheck
  BY <1>16 DEF IoCheck, Check, Remove, Fail
<1>17. CASE IoAdd
  BY <1>17 DEF IoAdd, Remove, Fail
<1>18. CASE SdProbe
  BY <1>18 DEF SdProbe
<1>19. CASE SdOpCond
  BY <1>19 DEF SdOpCond, Leave, Fail
<1>20. CASE SdCid
  BY <1>20 DEF SdCid, Leave, Fail
<1>21. CASE SdSetup
  BY <1>21 DEF SdSetup, Remove, Fail
<1>22. CASE SdSpeed
  BY <1>22 DEF SdSpeed, Remove, Fail
<1>23. CASE SdCheck
  BY <1>23 DEF SdCheck, Check, Remove, Fail
<1>24. CASE SdAdd
  BY <1>24 DEF SdAdd, Remove, Fail
<1> QED
  BY <1>1, <1>2, <1>3, <1>4, <1>5, <1>6, <1>7, <1>8, <1>9, <1>10, <1>11, <1>12,
    <1>13, <1>14, <1>15, <1>16, <1>17, <1>18, <1>19, <1>20, <1>21, <1>22, <1>23,
    <1>24 DEF Next

LEMMA TimingStep ==
  ASSUME Good, OwnInv, LineTypes, BusI, Next, LocInv
  PROVE  TimingInv'
<1> USE DEF OwnInv, BusKnown, LineTypes, Probing, Choosing, IoStages, SdStages,
            BusI, UhsInv, TimingInv, Early, LevelInv
<1>1. CASE TryFreq
  BY <1>1, PowerEffect DEF TryFreq, At, On
<1>2. CASE GiveUp
  BY <1>2, PowerEffect DEF GiveUp
<1>3. CASE Cmd11
  BY <1>3 DEF Cmd11, At
<1>4. CASE Cmd11Fails
  BY <1>4 DEF Cmd11Fails, NoSwitch, At
<1>5. CASE Switch
  BY <1>5 DEF Switch, At
<1>6. CASE SwitchFails
  BY <1>6, PowerEffect DEF SwitchFails, SwitchAgain, On
<1>7. CASE IoProbe
  BY <1>7, PowerEffect DEF IoProbe, mmc_select_voltage, At, line, On
<1>8. CASE IoOpCond
  BY <1>8 DEF IoOpCond, At
<1>9. CASE IoAddress
  BY <1>9 DEF IoAddress, At, line
<1>10. CASE IoCccr
  BY <1>10 DEF IoCccr, At, line
<1>11. CASE IoCccrFails
  BY <1>11 DEF IoCccrFails, At
<1>12. CASE IoCis
  BY <1>12 DEF IoCis, At
<1>13. CASE IoHs
  BY <1>13, HsEffect DEF FailStep
<1>14. CASE IoWide
  BY <1>14, WideEffect DEF FailStep, Widened, Ios
<1>15. CASE IoSpeed
  BY <1>15, SpeedEffect DEF SameLevels, FailStep, line
<1>16. CASE IoCheck
  BY <1>16 DEF IoCheck, Check, At, Remove, Fail, line
<1>17. CASE IoAdd
  BY <1>17 DEF IoAdd, At, Remove, Fail, line
<1>18. CASE SdProbe
  BY <1>18 DEF SdProbe
<1>19. CASE SdOpCond
  BY <1>19 DEF SdOpCond, At, Leave, Fail
<1>20. CASE SdCid
  BY <1>20 DEF SdCid, Leave, Fail
<1>21. CASE SdSetup
  BY <1>21 DEF SdSetup, Remove, Fail
<1>22. CASE SdSpeed
  BY <1>22 DEF SdSpeed, Remove, Fail
<1>23. CASE SdCheck
  BY <1>23 DEF SdCheck, Check, Remove, Fail
<1>24. CASE SdAdd
  BY <1>24 DEF SdAdd, At, Remove, Fail
<1> QED
  BY <1>1, <1>2, <1>3, <1>4, <1>5, <1>6, <1>7, <1>8, <1>9, <1>10, <1>11, <1>12,
    <1>13, <1>14, <1>15, <1>16, <1>17, <1>18, <1>19, <1>20, <1>21, <1>22, <1>23,
    <1>24 DEF Next

-----------------------------------------------------------------------------
(* The invariant and the theorems.                                         *)

IInv == LineTypes /\ LocInv /\ FreqInv /\ OwnInv /\ (Good => BusI)

LEMMA InitInv ==
  ASSUME Init
  PROVE  IInv
<1> USE DEF Init
<1>1. LineTypes /\ LocInv /\ FreqInv
  BY OnType, InitAssumption DEF LineTypes, LocInv, FreqInv, Locs, Start, Ios
<1>2. OwnInv
  BY DEF OwnInv, BusKnown, Owned, HasStruct, Probing, Choosing, IoStages, SdStages,
       Stages, Mems
<1>3. BusI
  BY DEF BusI, LevelInv, WidthInv, UhsInv, TimingInv
<1> QED
  BY <1>1, <1>2, <1>3 DEF IInv

LEMMA NextInv ==
  ASSUME IInv, [Next]_vars
  PROVE  IInv'
<1>1. CASE Next
  <2>1. LineTypes' /\ LocInv' /\ FreqInv'
    BY <1>1, LineStep, LocStep, FreqStep DEF IInv
  <2>2. OwnInv'
    BY <1>1, OwnStep DEF IInv
  <2>3. Good' => BusI'
    <3>1. Good' = Good
      BY <1>1
        DEF Next, Good, const, At, TryFreq, GiveUp, Cmd11, Cmd11Fails, Switch,
           SwitchFails, IoProbe, IoOpCond, IoAddress, IoCccr, IoCccrFails, IoCis,
           IoHs, IoWide, IoSpeed, IoCheck, IoAdd, SdProbe, SdOpCond, SdCid, SdSetup,
           SdSpeed, SdCheck, SdAdd, Check
    <3> QED
      BY <1>1, <3>1, LevelStep, WidthStep, UhsStep, TimingStep DEF IInv, BusI
  <2> QED
    BY <2>1, <2>2, <2>3 DEF IInv
<1>2. CASE UNCHANGED vars
  <2>1. LineTypes' /\ LocInv' /\ FreqInv'
    BY <1>2 DEF vars, IInv, LineTypes, LocInv, FreqInv
  <2>2. OwnInv'
    BY OwnStep DEF IInv
  <2>3. Good' => BusI'
    BY <1>2 DEF vars, IInv, Good, BusI, LevelInv, WidthInv, UhsInv, TimingInv
  <2> QED
    BY <2>1, <2>2, <2>3 DEF IInv
<1> QED
  BY <1>1, <1>2

LEMMA Invariance == Spec => []IInv
<1> QED
  BY InitInv, NextInv, PTL DEF Spec

(* Every variable keeps its type, for any number of frequencies and of     *)
(* voltage switches: the retries of mmc_sdio_init_card and mmc_sd_init_card *)
(* never go below zero, and no more structures are freed than were         *)
(* allocated.                                                              *)
THEOREM TypeCorrect == Spec => []TypeOK
<1>1. IInv => TypeOK
  BY DEF IInv, LineTypes, LocInv, FreqInv, OwnInv, Owned, Locs, Mems, TypeOK
<1> QED
  BY <1>1, Invariance, PTL

(* No card structure is lost, whatever fails and however often the         *)
(* initialisation starts over (mmc_sdio_init_card, mmc_attach_sd).         *)
THEOREM CardOwnedHolds == Spec => []CardOwned
<1>1. IInv => CardOwned
  BY DEF IInv, OwnInv, Owned, HasStruct, Probing, Choosing, Unmade, CardOwned
<1> QED
  BY <1>1, Invariance, PTL

(* Host and card agree on level, width and timing, on every board that     *)
(* cuts power and sees the card's lines (mmc_set_uhs_voltage,              *)
(* mmc_sdio_init_card, mmc_sd_init_card).                                  *)
THEOREM BusAgreesHolds == Spec => []BusAgrees
<1>1. IInv => BusAgrees
  BY DEF IInv, Good, BusI, LevelInv, WidthInv, TimingInv, OwnInv, BusKnown,
       BusAgrees, LevelsAgree, WidthAgrees, TimingAgrees
<1> QED
  BY <1>1, Invariance, PTL
=============================================================================
