---------------------------- MODULE MmcCardProofs ----------------------------
(***************************************************************************)
(* The safety properties of MmcCard, for every board, every card, and any  *)
(* set of users.  The first half says what each function of MmcInit makes  *)
(* of a session; the second that every step keeps the invariant.           *)
(***************************************************************************)
EXTENDS MmcCard, Integers, FiniteSetTheorems, TLAPS

-----------------------------------------------------------------------------
(* Sessions of MmcInit.                                                    *)
Sessions ==
  [board : MmcBoards, traits : MmcTraits, ios : MmcIos, chip : Chips, mem : Fields,
   ret : {"ok", "refused", "failed"}, spoilt : BOOLEAN]

(* The fields of a card that tell of features it has.                      *)
MemFits(t, f) ==
  /\ f.notify => t.notifies
  /\ f.cache => t.cache
  /\ f.cmdqSupport => t.cmdq
  /\ f.cmdq => f.cmdqSupport

(* What BusAgrees promises.                                                *)
Fit(s) ==
  /\ Agree(s.ios, s.chip)
  /\ s.ios.clock = IF s.ios.timing = "ddr52" THEN "hs" ELSE ClockOf(s.ios.timing)
  /\ s.chip.timing \in {"hs200", "hs400"} => s.ios.level = 18

(* x comes of s by steps that choose the bus: only registers and settings  *)
(* of the bus differ, and a spoilt session stays one.                      *)
Of(s, x) ==
  /\ x \in Sessions /\ x.board = s.board /\ x.traits = s.traits /\ x.mem = s.mem
  /\ x.ios.power = s.ios.power
  /\ x.chip.mode = s.chip.mode /\ x.chip.notify = s.chip.notify
  /\ x.chip.cache = s.chip.cache /\ x.chip.cmdq = s.chip.cmdq
  /\ x.chip.dirty = s.chip.dirty /\ x.chip.bkops = s.chip.bkops
  /\ s.spoilt => x.spoilt

(* Agree and Fit look only at these.                                       *)
Alike(s, x) ==
  /\ x.ios = s.ios /\ x.chip.timing = s.chip.timing
  /\ x.chip.width = s.chip.width /\ x.chip.data = s.chip.data

LEMMA AlikeFit ==
  ASSUME NEW s, NEW x, Alike(s, x)
  PROVE  /\ Agree(s.ios, s.chip) => Agree(x.ios, x.chip)
         /\ Fit(s) => Fit(x)
  BY DEF Alike, Agree, Fit

LEMMA OfTrans ==
  ASSUME NEW s, NEW x, NEW y, Of(s, x), Of(x, y)
  PROVE  Of(s, y)
  BY DEF Of

(* What comes of a switch to c: it is taken; refused; lost; or taken, but  *)
(* the answer lost.  One whose status nobody asks for is refused silently. *)
Ends(s, c, x) ==
  \/ x.ret = "failed" /\ x.chip = s.chip /\ x.spoilt = s.spoilt
  \/ x.ret = "failed" /\ x.chip = c /\ x.spoilt
  \/ x.ret = s.ret /\ x.chip = c /\ x.spoilt = s.spoilt
Beside(s, x) ==
  /\ x \in Sessions /\ x.board = s.board /\ x.traits = s.traits /\ x.mem = s.mem

LEMMA SwitchOutcome ==
  ASSUME NEW s \in Sessions, NEW c \in Chips, NEW x \in mmc_switch(s, c)
  PROVE  /\ Beside(s, x) /\ x.ios = s.ios
         /\ \/ Ends(s, c, x)
            \/ x.ret = "refused" /\ x.chip = s.chip /\ x.spoilt = s.spoilt
  BY DEF mmc_switch, Fail, Sessions, Beside, Ends

LEMMA BlindOutcome ==
  ASSUME NEW s \in Sessions, NEW c \in Chips, NEW x \in SwitchBlind(s, c)
  PROVE  /\ Beside(s, x) /\ x.ios = s.ios
         /\ \/ Ends(s, c, x)
            \/ /\ x.ret = s.ret /\ x.chip = [s.chip EXCEPT !.refused = TRUE]
               /\ x.spoilt = s.spoilt
<1>1. [s.chip EXCEPT !.refused = TRUE] \in Chips
  BY DEF Sessions, Chips
<1> QED
  BY <1>1 DEF SwitchBlind, Fail, Sessions, Beside, Ends

(* The settings of the host: only they change.                             *)
SetTo(s, x, i) ==
  /\ Beside(s, x) /\ x.chip = s.chip /\ x.ret = s.ret /\ x.spoilt = s.spoilt
  /\ x.ios = i /\ i \in MmcIos

LEMMA SetTimingOutcome ==
  ASSUME NEW s \in Sessions, NEW t \in Timings
  PROVE  SetTo(s, mmc_set_timing(s, t), [s.ios EXCEPT !.timing = t])
  BY DEF mmc_set_timing, SetTo, Sessions, Beside, MmcIos

LEMMA SetClockOutcome ==
  ASSUME NEW s \in Sessions, NEW c \in {"none", "init", "legacy", "hs", "hs200"}
  PROVE  SetTo(s, mmc_set_clock(s, c), [s.ios EXCEPT !.clock = c])
  BY DEF mmc_set_clock, SetTo, Sessions, Beside, MmcIos

LEMMA SetVoltageOutcome ==
  ASSUME NEW s \in Sessions, NEW l \in {18, 33}
  PROVE  \/ SetTo(s, mmc_set_signal_voltage(s, l), [s.ios EXCEPT !.level = l])
         \/ mmc_set_signal_voltage(s, l) = Fail(s)
<1>1. SetTo(s, [s EXCEPT !.ios.level = l], [s.ios EXCEPT !.level = l])
  BY DEF SetTo, Sessions, Beside, MmcIos
<1> QED
  BY <1>1 DEF mmc_set_signal_voltage

LEMMA FailOutcome ==
  ASSUME NEW s \in Sessions
  PROVE  /\ Beside(s, Fail(s)) /\ Of(s, Fail(s)) /\ Fail(s).ret = "failed"
         /\ Fail(s).ios = s.ios /\ Fail(s).chip = s.chip /\ Fail(s).spoilt = s.spoilt
  BY DEF Fail, Sessions, Beside, Of

(* The status of a card: it may have refused the last switch.              *)
Cleared(s) == [s.chip EXCEPT !.refused = FALSE]

LEMMA ClearOutcome ==
  ASSUME NEW s \in Sessions, NEW r \in {"ok", "refused", "failed"}
  PROVE  LET x == [s EXCEPT !.ret = r, !.chip.refused = FALSE] IN
         /\ Beside(s, x) /\ Of(s, x) /\ x.ios = s.ios /\ x.spoilt = s.spoilt
         /\ x.ret = r /\ x.chip = Cleared(s)
<1> DEFINE x == [s EXCEPT !.ret = r, !.chip = Cleared(s)]
<1>1. /\ Cleared(s) \in Chips
      /\ \A f \in {"mode", "notify", "cache", "cmdq", "dirty", "bkops"} :
           Cleared(s)[f] = s.chip[f]
  BY DEF Cleared, Sessions, Chips
<1>2. /\ Beside(s, x) /\ x.ios = s.ios /\ x.spoilt = s.spoilt
      /\ x.ret = r /\ x.chip = Cleared(s)
  BY <1>1 DEF Sessions, Beside
<1> HIDE DEF x
<1>3. Of(s, x)
  BY <1>1, <1>2 DEF Beside, Of
<1> QED
  BY <1>2, <1>3 DEF x, Cleared

LEMMA AnswerOutcome ==
  ASSUME NEW s \in Sessions, s.ret = "ok"
  PROVE  /\ Beside(s, Answer(s)) /\ Of(s, Answer(s)) /\ Answer(s).ios = s.ios
         /\ Answer(s).spoilt = s.spoilt
         /\ \/ ~s.chip.refused /\ Answer(s) = s
            \/ /\ s.chip.refused /\ Answer(s).ret = "refused"
               /\ Answer(s).chip = Cleared(s)
<1>1. CASE s.chip.refused
  BY <1>1, ClearOutcome DEF Answer
<1>2. CASE ~s.chip.refused
  BY <1>2 DEF Answer, Beside, Of
<1> QED BY <1>1, <1>2

LEMMA StatusOutcome ==
  ASSUME NEW s \in Sessions, s.ret = "ok", NEW x \in mmc_switch_status(s)
  PROVE  /\ Beside(s, x) /\ Of(s, x) /\ x.ios = s.ios /\ x.spoilt = s.spoilt
         /\ x.ret = "ok" => ~s.chip.refused /\ x.chip = s.chip
  BY AnswerOutcome, FailOutcome DEF mmc_switch_status

LEMMA SetOf ==
  ASSUME NEW s \in Sessions, NEW x, NEW i, SetTo(s, x, i), i.power = s.ios.power
  PROVE  Of(s, x)
  BY DEF SetTo, Beside, Of

(* A switch of the card's timing whose status nobody asks for.             *)
Taken(s, x, t) ==
  /\ Of(s, x) /\ x.ios = s.ios /\ x.ret \in {s.ret, "failed"}
  /\ x.ret = "ok" =>
       \/ x.spoilt
       \/ /\ x.chip.data = s.chip.data /\ x.chip.width = s.chip.width
          /\ x.chip.refused \/ x.chip.timing = t

LEMMA BlindTiming ==
  ASSUME NEW s \in Sessions, NEW t \in {"hs", "hs200", "hs400"},
         NEW x \in SwitchBlind(s, [s.chip EXCEPT !.timing = t])
  PROVE  Taken(s, x, t)
<1> DEFINE c == [s.chip EXCEPT !.timing = t]
           d == [s.chip EXCEPT !.refused = TRUE]
<1>1. /\ c \in Chips /\ c.timing = t /\ c.data = s.chip.data /\ c.width = s.chip.width
      /\ Of(s, [s EXCEPT !.chip = c])
  BY DEF Sessions, Chips, Of
<1>2. /\ d.refused /\ d.data = s.chip.data /\ d.width = s.chip.width
      /\ Of(s, [s EXCEPT !.chip = d])
  BY DEF Sessions, Chips, Of
<1>3. /\ Beside(s, x) /\ x.ios = s.ios
      /\ Ends(s, c, x) \/ (x.ret = s.ret /\ x.chip = d /\ x.spoilt = s.spoilt)
  BY <1>1, BlindOutcome
<1> HIDE DEF c, d
<1>4. x.ret \in {s.ret, "failed"} /\ (s.spoilt => x.spoilt)
  BY <1>3 DEF Ends
<1>5. Of(s, x)
  BY <1>1, <1>2, <1>3, <1>4 DEF Ends, Beside, Of, Sessions
<1> QED
  BY <1>1, <1>2, <1>3, <1>4, <1>5 DEF Ends, Taken

-----------------------------------------------------------------------------
(* The bus width.                                                          *)

(* Host and card agree, no refusal is pending, and data are sent at single *)
(* rate; or the session is spoilt.                                         *)
Settled(s) ==
  s.spoilt \/ /\ Agree(s.ios, s.chip) /\ ~s.chip.refused
              /\ s.ios.timing \in {"legacy", "hs"}

Widened(s, x) ==
  /\ Of(s, x) /\ Settled(x)
  /\ x.ios.level = s.ios.level /\ x.ios.timing = s.ios.timing
  /\ x.ios.clock = s.ios.clock

LEMMA WidthOutcome ==
  ASSUME NEW s \in Sessions, Settled(s), NEW w \in {1, 4, 8}, NEW x \in TryWidth(s, w)
  PROVE  Widened(s, x)
<1> DEFINE a == [s EXCEPT !.ret = "ok"]
           c == [s.chip EXCEPT !.width = w, !.data = "sdr"]
<1>1. PICK y \in mmc_switch(a, c) :
        x \in IF y.ret = "ok" THEN mmc_bus_test([y EXCEPT !.ios.width = w]) ELSE {y}
  BY DEF TryWidth, Then
<1>2. a \in Sessions /\ c \in Chips /\ Of(s, a) /\ a.ios = s.ios /\ a.chip = s.chip
      /\ a.ret = "ok" /\ a.spoilt = s.spoilt
  BY DEF Sessions, Chips, Of
<1>3. c.timing = s.chip.timing /\ c.width = w /\ c.data = "sdr"
      /\ c.refused = s.chip.refused /\ Of(a, [a EXCEPT !.chip = c])
  BY <1>2 DEF Sessions, Chips, Of
<1> HIDE DEF a, c
<1>4. /\ Beside(a, y) /\ y.ios = a.ios
      /\ \/ Ends(a, c, y)
         \/ y.ret = "refused" /\ y.chip = a.chip /\ y.spoilt = a.spoilt
  BY <1>2, SwitchOutcome
<1>5. CASE y.ret = "ok"
  <2> DEFINE z == [y EXCEPT !.ios.width = w]
  <2>1. x \in {z, Fail(z)}
    BY <1>1, <1>5 DEF mmc_bus_test
  <2>2. y.chip = c /\ y.spoilt = s.spoilt
    BY <1>2, <1>4, <1>5 DEF Ends
  <2>3. /\ Beside(y, z) /\ z.chip = c /\ z.spoilt = s.spoilt
        /\ z.ios = [s.ios EXCEPT !.width = w]
    BY <1>2, <1>4, <2>2 DEF Beside, Sessions, MmcIos
  <2>4. /\ Beside(z, x) /\ x.chip = c /\ x.spoilt = s.spoilt /\ x.ios = z.ios
    BY <2>1, <2>3 DEF Fail, Beside, Sessions
  <2>5. /\ x.ios.width = w /\ x.ios.timing = s.ios.timing /\ x.ios.level = s.ios.level
        /\ x.ios.clock = s.ios.clock /\ x.ios.power = s.ios.power
    BY <2>3, <2>4 DEF Sessions, MmcIos
  <2>6. Of(s, x)
    BY <1>2, <1>3, <1>4, <2>3, <2>4, <2>5 DEF Of, Beside
  <2>7. Settled(x)
    BY <1>3, <2>4, <2>5 DEF Settled, Agree, BusOf
  <2> QED BY <2>5, <2>6, <2>7 DEF Widened
<1>6. CASE y.ret # "ok"
  <2>1. x = y
    BY <1>1, <1>6
  <2> QED BY <1>2, <1>3, <1>4, <2>1, <1>6 DEF Widened, Of, Beside, Ends, Settled
<1> QED BY <1>5, <1>6

LEMMA BusWidthOutcome ==
  ASSUME NEW s \in Sessions, Settled(s), NEW x \in mmc_select_bus_width(s)
  PROVE  Widened(s, x)
<1>1. Widened(s, s)
  BY DEF Widened, Of
<1>2. Widened(s, Fail(s))
  BY DEF Widened, Of, Fail, Sessions, Settled
<1>3. CASE ~s.traits.ext \/ s.board.lines = 1
  BY <1>1, <1>3 DEF mmc_select_bus_width
<1>4. CASE ~(~s.traits.ext \/ s.board.lines = 1)
  <2>1. PICK y \in IF s.board.lines = 8 THEN TryWidth(s, 8) ELSE {Fail(s)} :
          x \in IF y.ret = "ok" THEN {y} ELSE TryWidth(y, 4)
    BY <1>4 DEF mmc_select_bus_width
  <2>2. Widened(s, y)
    BY <1>2, <2>1, WidthOutcome
  <2>3. x = y \/ Widened(y, x)
    BY <2>1, <2>2, WidthOutcome DEF Widened, Of
  <2> QED BY <2>2, <2>3, OfTrans DEF Widened
<1> QED BY <1>3, <1>4

-----------------------------------------------------------------------------
(* The timing.                                                             *)

(* What mmc_select_timing leaves: a refused switch to HS200 may have gone  *)
(* unnoticed, to be found by the tuning.                                   *)
Chosen(s) ==
  \/ s.spoilt
  \/ /\ ~s.chip.refused
     /\ \/ s.ios.timing \in {"legacy", "hs"} /\ Agree(s.ios, s.chip)
        \/ s.ios.timing = "hs200" /\ s.ios.level = 18
        \/ s.ios.timing = "hs400es" /\ s.ios.level = 18 /\ Agree(s.ios, s.chip)
Timed(s, x) ==
  Of(s, x) /\ (x.ret = "ok" => Chosen(x)) /\ (x.ret = "refused" => Settled(x))

LEMMA HsOutcome ==
  ASSUME NEW s \in Sessions, Settled(s), s.ret = "ok", s.ios.timing = "legacy",
         NEW x \in mmc_select_hs(s)
  PROVE  Timed(s, x)
<1> DEFINE c == [s.chip EXCEPT !.timing = "hs"]
<1>1. PICK y \in mmc_switch(s, c) :
        x \in IF y.ret = "ok" THEN {[y EXCEPT !.ios.timing = "hs"]} ELSE {y}
  BY DEF mmc_select_hs, SwitchTimed, Then
<1>2. c \in Chips
  BY DEF Sessions, Chips
<1>3. /\ c.timing = "hs" /\ c.data = s.chip.data /\ c.width = s.chip.width
      /\ c.refused = s.chip.refused /\ Of(s, [s EXCEPT !.chip = c])
  BY DEF Sessions, Chips, Of
<1> HIDE DEF c
<1>4. /\ Beside(s, y) /\ y.ios = s.ios
      /\ \/ Ends(s, c, y)
         \/ y.ret = "refused" /\ y.chip = s.chip /\ y.spoilt = s.spoilt
  BY <1>2, SwitchOutcome
<1>5. CASE y.ret = "ok"
  <2>1. y.chip = c /\ y.spoilt = s.spoilt
    BY <1>4, <1>5 DEF Ends
  <2>2. /\ Beside(y, x) /\ x.chip = c /\ x.spoilt = s.spoilt
        /\ x.ios = [s.ios EXCEPT !.timing = "hs"]
    BY <1>1, <1>4, <1>5, <2>1 DEF Beside, Sessions, MmcIos, Timings
  <2>3. x.ios.timing = "hs" /\ x.ios.width = s.ios.width /\ x.ios.power = s.ios.power
    BY <2>2 DEF Sessions, MmcIos
  <2>4. Of(s, x)
    BY <1>3, <1>4, <2>2, <2>3 DEF Of, Beside, Sessions
  <2>5. Chosen(x)
    BY <1>3, <2>2, <2>3 DEF Chosen, Settled, Agree, BusOf
  <2>6. x.ret = "ok"
    BY <1>1, <1>4, <1>5 DEF Beside, Sessions
  <2> QED BY <2>4, <2>5, <2>6 DEF Timed
<1>6. CASE y.ret # "ok"
  <2>1. x = y
    BY <1>1, <1>6
  <2> QED
    BY <1>3, <1>4, <1>6, <2>1 DEF Timed, Of, Beside, Ends, Chosen, Settled, Sessions
<1> QED BY <1>5, <1>6

LEMMA Hs200SwitchOutcome ==
  ASSUME NEW s \in Sessions, Settled(s), s.ret = "ok", s.ios.timing = "legacy",
         s.ios.level = 18, NEW x \in HS200Switched(s)
  PROVE  Timed(s, x)
<1> DEFINE c == [s.chip EXCEPT !.timing = "hs200"]
           z(y) == mmc_set_timing(y, "hs200")
<1>1. PICK y \in SwitchBlind(s, c) :
        x \in IF y.ret = "ok"
              THEN {IF u.ret = "refused" THEN mmc_set_timing(u, y.ios.timing) ELSE u :
                      u \in LenientStatus(z(y))}
              ELSE {y}
  BY DEF HS200Switched, Then
<1>2. c \in Chips
  BY DEF Sessions, Chips
<1>3. /\ c.refused = s.chip.refused /\ Of(s, [s EXCEPT !.chip = c])
  BY DEF Sessions, Chips, Of
<1> HIDE DEF c
<1>4. /\ Beside(s, y) /\ y.ios = s.ios
      /\ \/ Ends(s, c, y)
         \/ /\ y.ret = s.ret /\ y.chip = [s.chip EXCEPT !.refused = TRUE]
            /\ y.spoilt = s.spoilt
  BY <1>2, BlindOutcome
<1>5. CASE y.ret # "ok"
  <2>1. x = y
    BY <1>1, <1>5
  <2> QED
    BY <1>3, <1>4, <1>5, <2>1 DEF Timed, Of, Beside, Ends, Sessions
<1>6. CASE y.ret = "ok"
  <2>1. PICK u \in LenientStatus(z(y)) :
          x = IF u.ret = "refused" THEN mmc_set_timing(u, "legacy") ELSE u
    BY <1>1, <1>4, <1>6
  <2>2. /\ SetTo(y, z(y), [s.ios EXCEPT !.timing = "hs200"])
    BY <1>4, SetTimingOutcome DEF Beside, Timings
  <2>3. /\ z(y) \in Sessions /\ z(y).ret = "ok" /\ z(y).spoilt = s.spoilt
        /\ z(y).ios.timing = "hs200" /\ z(y).ios.level = 18
        /\ z(y).ios.power = s.ios.power /\ z(y).ios.width = s.ios.width
        /\ z(y).chip = y.chip
    BY <1>4, <1>6, <2>2 DEF SetTo, Beside, Ends, Sessions, MmcIos
  <2>4. Of(s, y)
    BY <1>3, <1>4 DEF Of, Beside, Ends, Sessions, Chips
  <2>5. Of(s, z(y))
    BY <2>2, <2>3, <2>4 DEF SetTo, Beside, Of
  <2> HIDE DEF z
  <2>6. /\ Beside(z(y), u) /\ Of(z(y), u) /\ u.ios = z(y).ios /\ u.spoilt = s.spoilt
        /\ \/ u.ret = "refused" /\ z(y).chip.refused /\ u.chip = Cleared(z(y))
           \/ u.ret = "ok" /\ ~u.chip.refused
           \/ u.ret = "failed"
    <3>1. CASE u = Answer(z(y))
      BY <2>3, <3>1, AnswerOutcome
    <3>2. CASE u = Fail(z(y))
      BY <2>3, <3>2, FailOutcome
    <3>3. CASE u = [z(y) EXCEPT !.chip.refused = FALSE]
      <4>1. u = [z(y) EXCEPT !.ret = "ok", !.chip.refused = FALSE]
        BY <2>3, <3>3 DEF Sessions
      <4>2. ~Cleared(z(y)).refused
        BY <2>3 DEF Cleared, Sessions, Chips
      <4> QED BY <2>3, <4>1, <4>2, ClearOutcome
    <3> QED BY <3>1, <3>2, <3>3 DEF LenientStatus
  <2>8. Of(s, u)
    BY <2>5, <2>6, OfTrans
  <2>9. CASE u.ret # "refused"
    <3>1. x = u
      BY <2>1, <2>9
    <3> QED BY <2>3, <2>6, <2>8, <2>9, <3>1 DEF Timed, Chosen
  <2>10. CASE u.ret = "refused"
    <3>1. y.chip = [s.chip EXCEPT !.refused = TRUE] \/ s.spoilt
      BY <1>3, <1>4, <1>6, <2>3, <2>6, <2>10 DEF Ends, Settled
    <3>2. s.spoilt \/ /\ ~u.chip.refused /\ u.chip.timing = s.chip.timing
                      /\ u.chip.data = s.chip.data /\ u.chip.width = s.chip.width
      <4>1. u.chip = Cleared(z(y)) /\ z(y).chip = y.chip
        BY <2>3, <2>6, <2>10
      <4>2. y.chip \in Chips
        BY <2>3, <4>1 DEF Sessions
      <4>3. ~u.chip.refused /\ u.chip.timing = y.chip.timing
            /\ u.chip.data = y.chip.data /\ u.chip.width = y.chip.width
        BY <4>1, <4>2 DEF Cleared, Chips
      <4> QED BY <3>1, <4>3 DEF Sessions, Chips
    <3>3. SetTo(u, x, [u.ios EXCEPT !.timing = "legacy"])
      BY <2>1, <2>6, <2>10, SetTimingOutcome DEF Beside, Timings
    <3>4. /\ x.ios.timing = "legacy" /\ x.ios.width = s.ios.width
          /\ x.ios.power = u.ios.power
      BY <2>3, <2>6, <3>3 DEF SetTo, Beside, Sessions, MmcIos
    <3>5. Of(u, x)
      BY <3>3, <3>4 DEF SetTo, Beside, Of
    <3>6. Of(s, x)
      BY <2>8, <3>5, OfTrans
    <3>7. Settled(x)
      BY <2>6, <3>2, <3>3, <3>4 DEF Settled, Agree, SetTo
    <3>8. x.ret = "refused"
      BY <2>10, <3>3 DEF SetTo
    <3> QED BY <3>6, <3>7, <3>8 DEF Timed
  <2> QED BY <2>9, <2>10
<1> QED BY <1>5, <1>6

LEMMA Hs200Outcome ==
  ASSUME NEW s \in Sessions, Settled(s), s.ret = "ok", s.ios.timing = "legacy",
         NEW x \in mmc_select_hs200(s)
  PROVE  Timed(s, x)
<1> DEFINE up == mmc_set_signal_voltage(s, 18)
<1>1. CASE up.ret # "ok"
  <2>1. x = up
    BY <1>1 DEF mmc_select_hs200
  <2>2. up = Fail(s)
    BY <1>1, SetVoltageOutcome DEF SetTo
  <2> QED BY <2>1, <2>2, FailOutcome DEF Timed
<1>2. CASE up.ret = "ok"
  <2>1. PICK y \in mmc_select_bus_width(up) :
          \E d \in IF y.ret = "ok"
                   THEN IF y.ios.width = 1 THEN {y} ELSE HS200Switched(y)
                   ELSE {y} :
            x = IF d.ret = "ok" THEN d ELSE [d EXCEPT !.ios.level = s.ios.level]
    BY <1>2 DEF mmc_select_hs200, Then
  <2>2. SetTo(s, up, [s.ios EXCEPT !.level = 18])
    BY <1>2, SetVoltageOutcome, FailOutcome
  <2>3. /\ up \in Sessions /\ Of(s, up) /\ Settled(up) /\ up.ios.level = 18
        /\ up.ios.timing = "legacy"
    BY <2>2, SetOf DEF SetTo, Beside, Settled, Agree, Sessions, MmcIos
  <2> HIDE DEF up
  <2>4. /\ y \in Sessions /\ Of(s, y) /\ Settled(y) /\ y.ios.level = 18
        /\ y.ios.timing = "legacy"
    BY <2>3, BusWidthOutcome, OfTrans DEF Widened, Of
  <2>5. PICK d \in IF y.ret = "ok"
                   THEN IF y.ios.width = 1 THEN {y} ELSE HS200Switched(y)
                   ELSE {y} :
          x = IF d.ret = "ok" THEN d ELSE [d EXCEPT !.ios.level = s.ios.level]
    BY <2>1
  <2>6. Timed(s, d)
    <3>1. CASE d = y
      BY <2>4, <3>1 DEF Timed, Settled, Chosen
    <3>2. CASE y.ret = "ok" /\ d \in HS200Switched(y)
      <4>1. Timed(y, d)
        BY <2>4, <3>2, Hs200SwitchOutcome
      <4> QED BY <2>4, <4>1, OfTrans DEF Timed
    <3> QED BY <2>5, <3>1, <3>2
  <2>7. CASE d.ret = "ok"
    BY <2>5, <2>6, <2>7
  <2>8. CASE d.ret # "ok"
    <3>1. x = [d EXCEPT !.ios.level = s.ios.level]
      BY <2>5, <2>8
    <3>2. /\ Beside(d, x) /\ x.ret = d.ret /\ x.chip = d.chip /\ x.spoilt = d.spoilt
          /\ x.ios.timing = d.ios.timing /\ x.ios.width = d.ios.width
          /\ x.ios.power = d.ios.power
      BY <2>6, <3>1 DEF Timed, Of, Beside, Sessions, MmcIos
    <3>3. Of(d, x)
      BY <3>2 DEF Beside, Of
    <3>4. Of(s, x)
      BY <2>6, <3>3, OfTrans DEF Timed
    <3>5. x.ret = "refused" => Settled(x)
      BY <2>6, <3>2 DEF Timed, Settled, Agree
    <3> QED BY <2>8, <3>2, <3>4, <3>5 DEF Timed
  <2> QED BY <2>7, <2>8
<1> QED BY <1>1, <1>2

(* Spoil keeps a session but for the mark.                                 *)
LEMMA SpoilOutcome ==
  ASSUME NEW S \in SUBSET Sessions, NEW x \in Spoil(S)
  PROVE  \E y \in S : /\ Beside(y, x) /\ Of(y, x) /\ x.ios = y.ios /\ x.chip = y.chip
                      /\ x.ret = y.ret /\ (x.ret = "refused" => x.spoilt)
<1>1. PICK y \in S : x = [y EXCEPT !.spoilt = (y.spoilt \/ y.ret = "refused")]
  BY DEF Spoil
<1>2. PICK p \in BOOLEAN : p = (y.spoilt \/ y.ret = "refused")
  BY DEF Sessions
<1>3. x = [y EXCEPT !.spoilt = p]
  BY <1>1, <1>2, Zenon
<1>4. /\ Beside(y, x) /\ x.ios = y.ios /\ x.chip = y.chip /\ x.ret = y.ret
      /\ x.spoilt = p
  BY <1>3 DEF Beside, Sessions
<1>5. (y.spoilt => x.spoilt) /\ (y.ret = "refused" => x.spoilt)
  BY <1>2, <1>4
<1> QED
  BY <1>4, <1>5 DEF Beside, Of

(* The host's timing is set and the card asked whether it took its own.    *)
LEMMA SpoiltStatus ==
  ASSUME NEW s \in Sessions, s.ret = "ok", NEW t \in Timings,
         NEW x \in Spoil(mmc_switch_status(mmc_set_timing(s, t)))
  PROVE  /\ Of(s, x) /\ x.ios.timing = t
         /\ x.ios.level = s.ios.level /\ x.ios.width = s.ios.width
         /\ x.ret = "refused" => x.spoilt
         /\ x.ret = "ok" => ~s.chip.refused /\ x.chip = s.chip
<1> DEFINE z == mmc_set_timing(s, t)
           i == [s.ios EXCEPT !.timing = t]
<1>1. SetTo(s, z, i)
  BY SetTimingOutcome
<1>2. i.timing = t /\ i.level = s.ios.level /\ i.width = s.ios.width
      /\ i.power = s.ios.power
  BY DEF Sessions, MmcIos
<1> HIDE DEF z, i
<1>3. Of(s, z) /\ z \in Sessions /\ z.ret = "ok"
  BY <1>1, <1>2, SetOf DEF SetTo, Beside
<1>4. \A y \in mmc_switch_status(z) :
        /\ Beside(z, y) /\ Of(z, y) /\ y.ios = z.ios
        /\ y.ret = "ok" => ~z.chip.refused /\ y.chip = z.chip
  BY <1>3, StatusOutcome
<1>5. PICK y \in mmc_switch_status(z) :
        /\ Of(y, x) /\ x.ios = y.ios /\ x.chip = y.chip /\ x.ret = y.ret
        /\ x.ret = "refused" => x.spoilt
  <2>1. mmc_switch_status(z) \in SUBSET Sessions
    BY <1>4 DEF Beside
  <2>2. x \in Spoil(mmc_switch_status(z))
    BY DEF z
  <2> QED BY <2>1, <2>2, SpoilOutcome
<1>6. Of(s, x)
  BY <1>3, <1>4, <1>5, OfTrans
<1>7. /\ x.ios = i
      /\ x.ret = "ok" => ~s.chip.refused /\ x.chip = s.chip
  BY <1>1, <1>4, <1>5 DEF SetTo
<1> QED BY <1>2, <1>5, <1>6, <1>7 DEF i

(* Between the steps of mmc_select_hs400es: at 1.8 V, with a host in       *)
(* timing t, and a refusal that nobody put right marked.                   *)
Underway(s, x, t) ==
  /\ Of(s, x)
  /\ x.ret = "refused" => Settled(x)
  /\ x.ret = "ok" => x.ios.level = 18 /\ x.ios.timing = t

LEMMA Hs400esOutcome ==
  ASSUME NEW s \in Sessions, Settled(s), s.ret = "ok", s.ios.timing = "legacy",
         NEW x \in mmc_select_hs400es(s)
  PROVE  Timed(s, x)
<1> DEFINE up == mmc_set_signal_voltage(s, 18)
<1>1. CASE s.board.lines # 8
  <2>1. x = Fail(s)
    BY <1>1 DEF mmc_select_hs400es
  <2> QED BY <2>1, FailOutcome DEF Timed
<1>2. CASE s.board.lines = 8 /\ up.ret # "ok"
  <2>1. x = up
    BY <1>2 DEF mmc_select_hs400es
  <2>2. up = Fail(s)
    BY <1>2, SetVoltageOutcome DEF SetTo
  <2> QED BY <2>1, <2>2, FailOutcome DEF Timed
<1>3. CASE s.board.lines = 8 /\ up.ret = "ok"
  <2> DEFINE wide == {IF y.ret = "ok" /\ y.ios.width # 8 THEN Fail(y) ELSE y :
                        y \in mmc_select_bus_width(up)}
             sent == Then(wide, SwitchHs)
             hs == Then(sent, LAMBDA y :
                     Spoil(mmc_switch_status(mmc_set_timing(y, "hs"))))
             strobe == Then(hs, LAMBDA y : mmc_switch(mmc_set_clock(y, "hs"),
                                               [y.chip EXCEPT !.data = "strobe"]))
             last == Then(strobe, SwitchHs400)
  <2>1. x \in Then(last, LAMBDA y :
              Spoil(mmc_switch_status(mmc_set_timing(y, "hs400es"))))
    BY <1>3 DEF mmc_select_hs400es
  <2>2. PICK e \in last :
          x \in IF e.ret = "ok"
                THEN Spoil(mmc_switch_status(mmc_set_timing(e, "hs400es"))) ELSE {e}
    BY <2>1 DEF Then
  <2>3. PICK d \in strobe :
          e \in IF d.ret = "ok" THEN SwitchHs400(d) ELSE {d}
    BY <2>2 DEF Then
  <2>4. PICK b \in hs :
          d \in IF b.ret = "ok"
                THEN mmc_switch(mmc_set_clock(b, "hs"),
                                [b.chip EXCEPT !.data = "strobe"])
                ELSE {b}
    BY <2>3 DEF Then
  <2>5. PICK a \in sent :
          b \in IF a.ret = "ok"
                THEN Spoil(mmc_switch_status(mmc_set_timing(a, "hs"))) ELSE {a}
    BY <2>4 DEF Then
  <2>6. PICK v \in wide : a \in IF v.ret = "ok" THEN SwitchHs(v) ELSE {v}
    BY <2>5 DEF Then
  <2>7. PICK y \in mmc_select_bus_width(up) :
          v = IF y.ret = "ok" /\ y.ios.width # 8 THEN Fail(y) ELSE y
    BY <2>6
  <2>8. SetTo(s, up, [s.ios EXCEPT !.level = 18])
    BY <1>3, SetVoltageOutcome, FailOutcome
  <2>9. /\ up \in Sessions /\ Of(s, up) /\ Settled(up) /\ up.ios.level = 18
        /\ up.ios.timing = "legacy"
    BY <2>8, SetOf DEF SetTo, Beside, Settled, Agree, Sessions, MmcIos
  <2> HIDE DEF up, wide, sent, hs, strobe, last
  <2>10. /\ Underway(s, v, "legacy")
         /\ v.ret = "ok" => Settled(v)
    <3>1. Of(s, y) /\ Settled(y) /\ y.ios.level = 18 /\ y.ios.timing = "legacy"
      BY <2>7, <2>9, BusWidthOutcome, OfTrans DEF Widened
    <3>2. Of(s, Fail(y)) /\ Fail(y).ret = "failed"
      BY <3>1, FailOutcome, OfTrans DEF Of
    <3> QED BY <2>7, <3>1, <3>2 DEF Underway
  <2>11. /\ Underway(s, a, "legacy")
         /\ a.ret = "ok" =>
              \/ a.spoilt
              \/ /\ a.chip.data = "sdr" /\ a.chip.width = a.ios.width
                 /\ a.chip.refused \/ a.chip.timing = "hs"
    <3>1. CASE v.ret # "ok"
      BY <2>6, <2>10, <3>1
    <3>2. CASE v.ret = "ok"
      <4>1. a \in SwitchBlind(v, [v.chip EXCEPT !.timing = "hs"]) /\ v \in Sessions
        BY <2>6, <2>10, <3>2 DEF SwitchHs, Underway, Of
      <4>2. Taken(v, a, "hs")
        BY <4>1, BlindTiming
      <4>3. Of(s, a)
        BY <2>10, <4>2, OfTrans DEF Underway, Taken
      <4>4. v.spoilt \/ (v.chip.data = "sdr" /\ v.chip.width = v.ios.width)
        BY <2>10, <3>2 DEF Underway, Settled, Agree, BusOf
      <4>5. v.spoilt => a.spoilt
        BY <4>2 DEF Of, Taken
      <4> QED BY <2>10, <3>2, <4>2, <4>3, <4>4, <4>5 DEF Underway, Taken
    <3> QED BY <3>1, <3>2
  <2>12. /\ Underway(s, b, "hs")
         /\ b.ret = "ok" =>
              \/ b.spoilt
              \/ Agree(b.ios, b.chip) /\ ~b.chip.refused
    <3>1. CASE a.ret # "ok"
      BY <2>5, <2>11, <3>1 DEF Underway
    <3>2. CASE a.ret = "ok"
      <4>1. /\ b \in Spoil(mmc_switch_status(mmc_set_timing(a, "hs")))
            /\ a \in Sessions /\ "hs" \in Timings
        BY <2>5, <2>11, <3>2 DEF Underway, Of, Timings
      <4>2. /\ Of(a, b) /\ b.ios.timing = "hs" /\ b.ios.level = a.ios.level
            /\ b.ios.width = a.ios.width
            /\ b.ret = "refused" => b.spoilt
            /\ b.ret = "ok" => ~a.chip.refused /\ b.chip = a.chip
        BY <3>2, <4>1, SpoiltStatus
      <4>3. Of(s, b) /\ (a.spoilt => b.spoilt)
        BY <2>11, <4>2, OfTrans DEF Underway, Of
      <4>4. Underway(s, b, "hs")
        BY <2>11, <3>2, <4>2, <4>3 DEF Underway, Settled
      <4>5. b.ret = "ok" => b.spoilt \/ (Agree(b.ios, b.chip) /\ ~b.chip.refused)
        BY <2>11, <3>2, <4>2, <4>3 DEF Agree, BusOf
      <4> QED BY <4>4, <4>5
    <3> QED BY <3>1, <3>2
  <2>13. /\ Underway(s, d, "hs")
         /\ d.ret = "ok" =>
              \/ d.spoilt
              \/ /\ d.chip.timing = "hs" /\ d.chip.data = "strobe"
                 /\ d.chip.width = d.ios.width /\ ~d.chip.refused
    <3>1. CASE b.ret # "ok"
      BY <2>4, <2>12, <3>1 DEF Underway
    <3>2. CASE b.ret = "ok"
      <4> DEFINE k == mmc_set_clock(b, "hs")
                 c == [b.chip EXCEPT !.data = "strobe"]
      <4>1. SetTo(b, k, [b.ios EXCEPT !.clock = "hs"])
        BY <2>12, SetClockOutcome DEF Underway, Of
      <4>2. /\ k \in Sessions /\ k.ios.level = b.ios.level /\ k.ios.width = b.ios.width
            /\ k.ios.timing = b.ios.timing /\ k.chip = b.chip /\ k.ret = "ok"
            /\ k.spoilt = b.spoilt /\ Of(b, k)
        BY <2>12, <3>2, <4>1, SetOf DEF SetTo, Beside, Sessions, MmcIos, Underway, Of
      <4>3. /\ c \in Chips /\ c.data = "strobe" /\ c.timing = b.chip.timing
            /\ c.width = b.chip.width /\ c.refused = b.chip.refused
            /\ Of(k, [k EXCEPT !.chip = c])
        BY <4>2 DEF Sessions, Chips, Of
      <4>4. d \in mmc_switch(k, c)
        BY <2>4, <3>2
      <4> HIDE DEF k, c
      <4>5. /\ Beside(k, d) /\ d.ios = k.ios
            /\ \/ Ends(k, c, d)
               \/ d.ret = "refused" /\ d.chip = k.chip /\ d.spoilt = k.spoilt
        BY <4>2, <4>3, <4>4, SwitchOutcome
      <4>6. Of(k, d)
        BY <4>2, <4>3, <4>5 DEF Beside, Of, Ends, Sessions
      <4>7. Of(s, d)
        BY <2>12, <4>2, <4>6, OfTrans DEF Underway
      <4>8. d.ret = "refused" => Settled(d)
        BY <2>12, <3>2, <4>2, <4>5 DEF Ends, Settled, Agree, Underway
      <4>9. Underway(s, d, "hs")
        BY <2>12, <3>2, <4>2, <4>5, <4>7, <4>8 DEF Underway
      <4>10. d.ret = "ok" => d.chip = c /\ d.spoilt = b.spoilt
        BY <4>2, <4>5 DEF Ends
      <4> QED
        BY <2>12, <3>2, <4>2, <4>3, <4>5, <4>9, <4>10 DEF Underway, Agree, BusOf
    <3> QED BY <3>1, <3>2
  <2>14. /\ Underway(s, e, "hs")
         /\ e.ret = "ok" =>
              \/ e.spoilt
              \/ /\ e.chip.data = "strobe" /\ e.chip.width = e.ios.width
                 /\ e.chip.refused \/ e.chip.timing = "hs400"
    <3>1. CASE d.ret # "ok"
      BY <2>3, <2>13, <3>1
    <3>2. CASE d.ret = "ok"
      <4>1. e \in SwitchBlind(d, [d.chip EXCEPT !.timing = "hs400"]) /\ d \in Sessions
        BY <2>3, <2>13, <3>2 DEF SwitchHs400, Underway, Of
      <4>2. Taken(d, e, "hs400")
        BY <4>1, BlindTiming
      <4>3. Of(s, e) /\ (d.spoilt => e.spoilt)
        BY <2>13, <4>2, OfTrans DEF Underway, Of, Taken
      <4> QED BY <2>13, <3>2, <4>2, <4>3 DEF Underway, Taken
    <3> QED BY <3>1, <3>2
  <2>15. CASE e.ret # "ok"
    BY <2>2, <2>14, <2>15 DEF Underway, Timed
  <2>16. CASE e.ret = "ok"
    <3>1. /\ x \in Spoil(mmc_switch_status(mmc_set_timing(e, "hs400es")))
          /\ e \in Sessions /\ "hs400es" \in Timings
      BY <2>2, <2>14, <2>16 DEF Underway, Of, Timings
    <3>2. /\ Of(e, x) /\ x.ios.timing = "hs400es" /\ x.ios.level = e.ios.level
          /\ x.ios.width = e.ios.width
          /\ x.ret = "refused" => x.spoilt
          /\ x.ret = "ok" => ~e.chip.refused /\ x.chip = e.chip
      BY <2>16, <3>1, SpoiltStatus
    <3>3. Of(s, x) /\ (e.spoilt => x.spoilt)
      BY <2>14, <3>2, OfTrans DEF Underway, Of
    <3>4. x.ret = "ok" => Chosen(x)
      BY <2>14, <2>16, <3>2, <3>3 DEF Chosen, Agree, BusOf, Underway
    <3> QED BY <3>2, <3>3, <3>4 DEF Timed, Settled
  <2> QED BY <2>15, <2>16
<1> QED BY <1>1, <1>2, <1>3

LEMMA SelectTimingOutcome ==
  ASSUME NEW s \in Sessions, Settled(s), s.ret = "ok", s.ios.timing = "legacy",
         NEW x \in mmc_select_timing(s)
  PROVE  /\ Of(s, x) /\ x.ret \in {"ok", "failed"}
         /\ x.ret = "ok" => Chosen(x) /\ x.ios.clock = ClockOf(x.ios.timing)
<1> DEFINE S == IF ~s.traits.ext THEN {s}
                ELSE IF "hs400es" \in s.traits.modes THEN mmc_select_hs400es(s)
                ELSE IF "hs200" \in s.traits.modes THEN mmc_select_hs200(s)
                ELSE IF "hs" \in s.traits.modes THEN mmc_select_hs(s)
                ELSE {s}
<1>1. PICK y \in S :
        x = IF y.ret = "failed" THEN y ELSE mmc_set_bus_speed([y EXCEPT !.ret = "ok"])
  BY DEF mmc_select_timing
<1>2. Timed(s, y)
  <2>1. Timed(s, s)
    BY DEF Timed, Of, Settled, Chosen
  <2> QED BY <2>1, Hs400esOutcome, Hs200Outcome, HsOutcome
<1>3. CASE y.ret = "failed"
  BY <1>1, <1>2, <1>3 DEF Timed
<1>4. CASE y.ret # "failed"
  <2> DEFINE a == [y EXCEPT !.ret = "ok"]
             k == ClockOf(y.ios.timing)
  <2>1. /\ a \in Sessions /\ a.ios = y.ios /\ a.chip = y.chip /\ a.spoilt = y.spoilt
        /\ a.ret = "ok" /\ Of(y, a)
    BY <1>2 DEF Timed, Of, Sessions
  <2>2. Chosen(y)
    BY <1>2, <1>4 DEF Timed, Of, Sessions, Settled, Chosen
  <2>3. k \in {"none", "init", "legacy", "hs", "hs200"}
    BY DEF ClockOf
  <2>4. x = mmc_set_clock(a, k)
    BY <1>1, <1>4, <2>1 DEF mmc_set_bus_speed
  <2> HIDE DEF a, k
  <2>5. SetTo(a, x, [a.ios EXCEPT !.clock = k])
    BY <2>1, <2>3, <2>4, SetClockOutcome
  <2>6. /\ x.ios.clock = k /\ x.ios.timing = y.ios.timing /\ x.ios.level = y.ios.level
        /\ x.ios.width = y.ios.width /\ x.ios.power = y.ios.power
        /\ x.chip = y.chip /\ x.spoilt = y.spoilt /\ x.ret = "ok" /\ Of(a, x)
    BY <2>1, <2>5, SetOf DEF SetTo, Beside, Sessions, MmcIos
  <2>7. Chosen(x)
    BY <2>2, <2>6 DEF Chosen, Agree
  <2>8. Of(s, x)
    BY <1>2, <2>1, <2>6, OfTrans DEF Timed
  <2> QED BY <2>6, <2>7, <2>8 DEF k
<1> QED BY <1>3, <1>4

(* The host's clock and timing are set and the card asked whether it took  *)
(* its own.                                                                *)
LEMMA ClockedStatus ==
  ASSUME NEW s \in Sessions, s.ret = "ok", NEW t \in Timings,
         NEW k \in {"none", "init", "legacy", "hs", "hs200"},
         NEW x \in mmc_switch_status(mmc_set_clock(mmc_set_timing(s, t), k))
  PROVE  /\ Of(s, x) /\ x.ios.timing = t /\ x.ios.clock = k
         /\ x.ios.level = s.ios.level /\ x.ios.width = s.ios.width
         /\ x.ret = "ok" => ~s.chip.refused /\ x.chip = s.chip
<1> DEFINE z == mmc_set_timing(s, t)
           w == mmc_set_clock(z, k)
<1>1. SetTo(s, z, [s.ios EXCEPT !.timing = t])
  BY SetTimingOutcome
<1>2. /\ z \in Sessions /\ z.ret = "ok" /\ z.chip = s.chip
      /\ z.ios.timing = t /\ z.ios.level = s.ios.level
      /\ z.ios.width = s.ios.width /\ Of(s, z)
  BY <1>1, SetOf DEF SetTo, Beside, Sessions, MmcIos
<1>3. SetTo(z, w, [z.ios EXCEPT !.clock = k])
  BY <1>2, SetClockOutcome
<1> HIDE DEF z, w
<1>4. /\ w \in Sessions /\ w.ret = "ok" /\ w.chip = s.chip
      /\ w.ios.timing = t /\ w.ios.level = s.ios.level /\ w.ios.clock = k
      /\ w.ios.width = s.ios.width /\ Of(z, w)
  BY <1>2, <1>3, SetOf DEF SetTo, Beside, Sessions, MmcIos
<1>5. x \in mmc_switch_status(w)
  BY DEF w, z
<1>6. /\ Of(w, x) /\ x.ios = w.ios
      /\ x.ret = "ok" => ~w.chip.refused /\ x.chip = w.chip
  BY <1>4, <1>5, StatusOutcome
<1>7. Of(s, x)
  BY <1>2, <1>4, <1>6, OfTrans
<1> QED BY <1>4, <1>6, <1>7

(* Data are sent as Fit says, or the session is spoilt.                    *)
Fitted(s, x) == Of(s, x) /\ (x.ret = "ok" => x.spoilt \/ Fit(x))

LEMMA Hs400Outcome ==
  ASSUME NEW s \in Sessions, s.ret = "ok", s.ios.timing = "hs200",
         s.ios.clock = "hs200",
         s.spoilt \/ (s.ios.level = 18 /\ ~s.chip.refused /\ Agree(s.ios, s.chip)),
         NEW x \in mmc_select_hs400(s)
  PROVE  Fitted(s, x)
<1>1. CASE "hs400" \notin s.traits.modes \/ s.ios.width # 8
  <2>1. x = s
    BY <1>1 DEF mmc_select_hs400
  <2> QED BY <2>1 DEF Fitted, Of, Fit, ClockOf
<1>2. CASE ~("hs400" \notin s.traits.modes \/ s.ios.width # 8)
  <2> DEFINE sent == Then(SwitchHs(s), LAMBDA y :
                 mmc_switch_status(mmc_set_clock(mmc_set_timing(y, "hs"), "hs")))
             ddr == Then(sent, LAMBDA y : mmc_switch(y, [y.chip EXCEPT !.data = "ddr"]))
             last == Then(ddr, LAMBDA y : SwitchHs400(y))
  <2>1. x \in Then(last, LAMBDA y :
              mmc_switch_status(mmc_set_bus_speed(mmc_set_timing(y, "hs400"))))
    BY <1>2 DEF mmc_select_hs400
  <2>2. PICK e \in last :
          x \in IF e.ret = "ok"
                THEN mmc_switch_status(mmc_set_bus_speed(mmc_set_timing(e, "hs400")))
                ELSE {e}
    BY <2>1 DEF Then
  <2>3. PICK d \in ddr :
          e \in IF d.ret = "ok" THEN SwitchHs400(d) ELSE {d}
    BY <2>2 DEF Then
  <2>4. PICK b \in sent :
          d \in IF b.ret = "ok" THEN mmc_switch(b, [b.chip EXCEPT !.data = "ddr"])
                ELSE {b}
    BY <2>3 DEF Then
  <2>5. PICK a \in SwitchHs(s) :
          b \in IF a.ret = "ok"
                THEN mmc_switch_status(mmc_set_clock(mmc_set_timing(a, "hs"), "hs"))
                ELSE {a}
    BY <2>4 DEF Then
  <2> HIDE DEF sent, ddr, last
  <2>6. /\ Of(s, a) /\ a.ios = s.ios
        /\ a.ret = "ok" =>
             \/ a.spoilt
             \/ /\ a.ios.level = 18
                /\ a.chip.data = "sdr" /\ a.chip.width = a.ios.width
                /\ a.chip.refused \/ a.chip.timing = "hs"
    <3>1. a \in SwitchBlind(s, [s.chip EXCEPT !.timing = "hs"])
      BY <2>5 DEF SwitchHs
    <3>2. Taken(s, a, "hs")
      BY <3>1, BlindTiming
    <3>3. \/ s.spoilt
          \/ s.ios.level = 18 /\ s.chip.data = "sdr" /\ s.chip.width = s.ios.width
      BY DEF Agree, BusOf
    <3> QED BY <3>2, <3>3 DEF Of, Taken
  <2>7. /\ Of(s, b)
        /\ b.ret = "ok" =>
             \/ b.spoilt
             \/ /\ b.ios.level = 18 /\ ~b.chip.refused
                /\ b.chip.data = "sdr" /\ b.chip.width = b.ios.width
                /\ b.chip.timing = "hs"
    <3>1. CASE a.ret # "ok"
      BY <2>5, <2>6, <3>1
    <3>2. CASE a.ret = "ok"
      <4>1. /\ b \in mmc_switch_status(mmc_set_clock(mmc_set_timing(a, "hs"), "hs"))
            /\ a \in Sessions /\ "hs" \in Timings
        BY <2>5, <2>6, <3>2 DEF Of, Timings
      <4>2. /\ Of(a, b) /\ b.ios.level = a.ios.level /\ b.ios.width = a.ios.width
            /\ b.ret = "ok" => ~a.chip.refused /\ b.chip = a.chip
        BY <3>2, <4>1, ClockedStatus
      <4>3. Of(s, b) /\ (a.spoilt => b.spoilt)
        BY <2>6, <4>2, OfTrans DEF Of
      <4> QED BY <2>6, <3>2, <4>2, <4>3
    <3> QED BY <3>1, <3>2
  <2>8. /\ Of(s, d)
        /\ d.ret = "ok" =>
             \/ d.spoilt
             \/ /\ d.ios.level = 18
                /\ d.chip.data = "ddr" /\ d.chip.width = d.ios.width
    <3>1. CASE b.ret # "ok"
      BY <2>4, <2>7, <3>1
    <3>2. CASE b.ret = "ok"
      <4> DEFINE c == [b.chip EXCEPT !.data = "ddr"]
      <4>1. b \in Sessions
        BY <2>7 DEF Of
      <4>2. /\ c \in Chips /\ c.data = "ddr" /\ c.width = b.chip.width
            /\ Of(b, [b EXCEPT !.chip = c])
        BY <4>1 DEF Sessions, Chips, Of
      <4>3. d \in mmc_switch(b, c)
        BY <2>4, <3>2
      <4> HIDE DEF c
      <4>4. /\ Beside(b, d) /\ d.ios = b.ios
            /\ \/ Ends(b, c, d)
               \/ d.ret = "refused" /\ d.chip = b.chip /\ d.spoilt = b.spoilt
        BY <4>1, <4>2, <4>3, SwitchOutcome
      <4>5. Of(b, d)
        BY <4>1, <4>2, <4>4 DEF Beside, Of, Ends, Sessions
      <4>6. Of(s, d)
        BY <2>7, <4>5, OfTrans
      <4>7. d.ret = "ok" => d.chip = c /\ d.spoilt = b.spoilt
        BY <4>4 DEF Ends
      <4> QED BY <2>7, <3>2, <4>2, <4>4, <4>6, <4>7
    <3> QED BY <3>1, <3>2
  <2>9. /\ Of(s, e)
        /\ e.ret = "ok" =>
             \/ e.spoilt
             \/ /\ e.ios.level = 18
                /\ e.chip.data = "ddr" /\ e.chip.width = e.ios.width
                /\ e.chip.refused \/ e.chip.timing = "hs400"
    <3>1. CASE d.ret # "ok"
      BY <2>3, <2>8, <3>1
    <3>2. CASE d.ret = "ok"
      <4>1. e \in SwitchBlind(d, [d.chip EXCEPT !.timing = "hs400"]) /\ d \in Sessions
        BY <2>3, <2>8, <3>2 DEF SwitchHs400, Of
      <4>2. Taken(d, e, "hs400")
        BY <4>1, BlindTiming
      <4>3. Of(s, e) /\ (d.spoilt => e.spoilt)
        BY <2>8, <4>2, OfTrans DEF Of, Taken
      <4> QED BY <2>8, <3>2, <4>2, <4>3 DEF Taken
    <3> QED BY <3>1, <3>2
  <2>10. CASE e.ret # "ok"
    BY <2>2, <2>9, <2>10 DEF Fitted
  <2>11. CASE e.ret = "ok"
    <3>1. e \in Sessions /\ "hs400" \in Timings
      BY <2>9 DEF Of, Timings
    <3>2. mmc_set_timing(e, "hs400").ios.timing = "hs400"
      BY <3>1 DEF mmc_set_timing, Sessions, MmcIos
    <3>3. x \in mmc_switch_status(mmc_set_clock(mmc_set_timing(e, "hs400"), "hs200"))
      BY <2>2, <2>11, <3>2 DEF mmc_set_bus_speed, ClockOf
    <3>4. /\ Of(e, x) /\ x.ios.timing = "hs400" /\ x.ios.clock = "hs200"
          /\ x.ios.level = e.ios.level /\ x.ios.width = e.ios.width
          /\ x.ret = "ok" => ~e.chip.refused /\ x.chip = e.chip
      BY <2>11, <3>1, <3>3, ClockedStatus
    <3>5. Of(s, x) /\ (e.spoilt => x.spoilt)
      BY <2>9, <3>4, OfTrans DEF Of
    <3>6. x.ret = "ok" => x.spoilt \/ Fit(x)
      BY <2>9, <2>11, <3>4, <3>5 DEF Fit, Agree, BusOf, ClockOf
    <3> QED BY <3>5, <3>6 DEF Fitted
  <2> QED BY <2>10, <2>11
<1> QED BY <1>1, <1>2

LEMMA DdrOutcome ==
  ASSUME NEW s \in Sessions, Settled(s), s.ret = "ok", s.ios.timing = "hs",
         s.ios.clock = "hs", NEW x \in mmc_select_hs_ddr(s)
  PROVE  Fitted(s, x)
<1>1. CASE "ddr52" \notin s.traits.modes \/ s.ios.width = 1
  <2>1. x = s
    BY <1>1 DEF mmc_select_hs_ddr
  <2> QED BY <2>1 DEF Fitted, Of, Fit, ClockOf, Settled, Agree, BusOf
<1>2. CASE ~("ddr52" \notin s.traits.modes \/ s.ios.width = 1)
  <2> DEFINE c == [s.chip EXCEPT !.data = "ddr"]
  <2>1. PICK y \in SwitchTimed(s, c, "ddr52") :
          x \in IF y.ret = "ok"
                THEN LET up == mmc_set_signal_voltage(y, 18) IN
                     {IF up.ret = "ok" THEN up ELSE mmc_set_signal_voltage(y, 33)}
                ELSE {y}
    BY <1>2 DEF mmc_select_hs_ddr, Then
  <2>2. PICK z \in mmc_switch(s, c) :
          y \in IF z.ret = "ok" THEN {[z EXCEPT !.ios.timing = "ddr52"]} ELSE {z}
    BY <2>1 DEF SwitchTimed, Then
  <2>3. /\ c \in Chips /\ c.data = "ddr" /\ c.width = s.chip.width
        /\ c.timing = s.chip.timing /\ Of(s, [s EXCEPT !.chip = c])
    BY DEF Sessions, Chips, Of
  <2> HIDE DEF c
  <2>4. /\ Beside(s, z) /\ z.ios = s.ios
        /\ \/ Ends(s, c, z)
           \/ z.ret = "refused" /\ z.chip = s.chip /\ z.spoilt = s.spoilt
    BY <2>3, SwitchOutcome
  <2>5. Of(s, z) /\ (z.ret = "ok" => z.chip = c /\ z.spoilt = s.spoilt)
    BY <2>3, <2>4 DEF Beside, Of, Ends, Sessions
  <2>6. CASE z.ret # "ok"
    <3>1. x = z
      BY <2>1, <2>2, <2>6
    <3> QED BY <2>5, <2>6, <3>1 DEF Fitted
  <2>7. CASE z.ret = "ok"
    <3>1. y = [z EXCEPT !.ios.timing = "ddr52"]
      BY <2>2, <2>7
    <3>2. /\ y \in Sessions /\ Of(z, y) /\ y.chip = c /\ y.ret = "ok"
          /\ y.ios.timing = "ddr52" /\ y.ios.width = s.ios.width
          /\ y.ios.clock = "hs" /\ y.spoilt = s.spoilt
      BY <2>4, <2>5, <2>7, <3>1 DEF Of, Sessions, MmcIos, Timings
    <3>3. \/ x = Fail(y)
          \/ \E l \in {18, 33} : SetTo(y, x, [y.ios EXCEPT !.level = l])
      <4>1. x \in {mmc_set_signal_voltage(y, 18), mmc_set_signal_voltage(y, 33)}
        BY <2>1, <3>2
      <4> QED BY <3>2, <4>1, SetVoltageOutcome
    <3>4. Of(s, y)
      BY <2>5, <3>2, OfTrans
    <3>5. CASE x = Fail(y)
      BY <3>2, <3>4, <3>5, FailOutcome, OfTrans DEF Fitted
    <3>6. CASE \E l \in {18, 33} : SetTo(y, x, [y.ios EXCEPT !.level = l])
      <4>1. PICK l \in {18, 33} : SetTo(y, x, [y.ios EXCEPT !.level = l])
        BY <3>6
      <4>2. /\ x.ios.timing = "ddr52" /\ x.ios.width = s.ios.width /\ x.ios.clock = "hs"
            /\ x.chip = c /\ x.spoilt = s.spoilt /\ Of(y, x)
        BY <3>2, <4>1, SetOf DEF SetTo, Beside, Sessions, MmcIos
      <4>3. x.spoilt \/ Fit(x)
        BY <2>3, <4>2 DEF Fit, Settled, Agree, BusOf
      <4> QED BY <3>4, <4>2, <4>3, OfTrans DEF Fitted
    <3> QED BY <3>3, <3>5, <3>6
  <2> QED BY <2>6, <2>7
<1> QED BY <1>1, <1>2

LEMMA SelectBusOutcome ==
  ASSUME NEW s \in Sessions, s.ret = "ok", Chosen(s),
         s.ios.clock = ClockOf(s.ios.timing),
         NEW x \in SelectBus(s)
  PROVE  Fitted(s, x)
<1>1. CASE s.ios.timing = "hs200"
  <2>1. PICK y \in mmc_hs200_tuning(s) :
          x \in IF y.ret = "ok" THEN mmc_select_hs400(y) ELSE {y}
    BY <1>1 DEF SelectBus, Then
  <2>2. y = Fail(s) \/ (y = s /\ Agree(s.ios, s.chip))
    BY <2>1 DEF mmc_hs200_tuning, Command
  <2>3. CASE y = Fail(s)
    BY <2>1, <2>3, FailOutcome DEF Fitted
  <2>4. CASE y = s /\ Agree(s.ios, s.chip)
    <3>1. s.ios.clock = "hs200"
      BY <1>1 DEF ClockOf
    <3>2. s.spoilt \/ (s.ios.level = 18 /\ ~s.chip.refused)
      BY <1>1 DEF Chosen
    <3> QED BY <1>1, <2>1, <2>4, <3>1, <3>2, Hs400Outcome
  <2> QED BY <2>2, <2>3, <2>4
<1>2. CASE s.ios.timing = "hs400es"
  <2>1. x = s
    BY <1>2 DEF SelectBus
  <2> QED BY <1>2, <2>1 DEF Fitted, Of, Fit, Chosen, ClockOf
<1>3. CASE s.ios.timing \notin {"hs200", "hs400es"}
  <2>1. PICK y \in mmc_select_bus_width(s) :
          x \in IF y.ret = "ok" /\ y.ios.width # 1 /\ y.ios.timing = "hs"
                THEN mmc_select_hs_ddr(y) ELSE {[y EXCEPT !.ret = "ok"]}
    BY <1>3 DEF SelectBus
  <2>2. Settled(s)
    BY <1>3 DEF Settled, Chosen
  <2>3. Widened(s, y) /\ y \in Sessions
    BY <2>1, <2>2, BusWidthOutcome DEF Widened, Of
  <2>4. CASE y.ret = "ok" /\ y.ios.width # 1 /\ y.ios.timing = "hs"
    <3>1. y.ios.clock = "hs"
      BY <2>3, <2>4 DEF Widened, ClockOf
    <3>2. Fitted(y, x)
      BY <2>1, <2>3, <2>4, <3>1, DdrOutcome DEF Widened
    <3> QED BY <2>3, <3>2, OfTrans DEF Fitted, Widened
  <2>5. CASE ~(y.ret = "ok" /\ y.ios.width # 1 /\ y.ios.timing = "hs")
    <3>1. x = [y EXCEPT !.ret = "ok"]
      BY <2>1, <2>5
    <3>2. Of(y, x) /\ x.ios = y.ios /\ x.chip = y.chip /\ x.spoilt = y.spoilt
      BY <2>3, <3>1 DEF Of, Sessions
    <3>3. x.spoilt \/ Fit(x)
      BY <2>3, <3>2 DEF Widened, Settled, Fit, Agree, BusOf, ClockOf
    <3> QED BY <2>3, <3>2, <3>3, OfTrans DEF Fitted, Widened
  <2> QED BY <2>4, <2>5
<1> QED BY <1>1, <1>2, <1>3

-----------------------------------------------------------------------------
(* The features, and mmc_init_card as a whole.                             *)

(* A session with the card that traits t describe on board b, powered.     *)
Whole(b, t, x) ==
  /\ x \in Sessions /\ x.board = b /\ x.traits = t
  /\ x.ios.power = "on" /\ MemFits(t, x.mem) /\ ~x.mem.bkops

(* A card just selected: nothing is in its cache or under way.             *)
Quiet(x) ==
  /\ x.chip.mode = "tran" /\ ~x.chip.dirty /\ ~x.chip.bkops
  /\ x.chip.notify => x.mem.notify

Plain(x) == Quiet(x) /\ ~x.chip.cache /\ ~x.chip.cmdq

Blank(x) ==
  /\ Plain(x) /\ ~x.spoilt /\ ~x.chip.refused
  /\ x.ios.timing = "legacy" /\ Agree(x.ios, x.chip)

Ready(x) == Quiet(x) /\ (x.spoilt \/ Fit(x)) /\ x.mem.cache = x.chip.cache

LEMMA WholeOf ==
  ASSUME NEW b, NEW t, NEW s, NEW x, Whole(b, t, s), Of(s, x)
  PROVE  Whole(b, t, x) /\ (Plain(s) => Plain(x))
  BY DEF Whole, Of, Plain, Quiet

LEMMA WholeFail ==
  ASSUME NEW b, NEW t, NEW s, Whole(b, t, s)
  PROVE  Whole(b, t, Fail(s)) /\ Fail(s).ret = "failed"
  BY WholeOf, FailOutcome DEF Whole

LEMMA IdentifyOutcome ==
  ASSUME NEW b, NEW t, NEW s, Whole(b, t, s), s.ret = "ok", ~s.spoilt,
         s.ios.timing = "legacy", s.ios.width = 1, NEW x \in Identify(s)
  PROVE  Whole(b, t, x) /\ (x.ret = "ok" => Blank(x))
<1> DEFINE c == [Reset EXCEPT !.mode = "tran"]
<1>1. /\ c \in Chips /\ c.mode = "tran" /\ ~c.dirty /\ ~c.bkops /\ ~c.notify
      /\ ~c.cache /\ ~c.cmdq /\ ~c.refused /\ c.width = 1
      /\ c.timing = "legacy" /\ c.data = "sdr"
  BY DEF Reset, Chips
<1>2. x = Fail(s) \/ x = [s EXCEPT !.chip = c]
  BY DEF Identify
<1> HIDE DEF c
<1>3. CASE x = Fail(s)
  BY <1>3, WholeFail
<1>4. CASE x = [s EXCEPT !.chip = c]
  <2>1. /\ x.chip = c /\ x.ios = s.ios /\ x.mem = s.mem /\ x.spoilt = s.spoilt
        /\ x.board = s.board /\ x.traits = s.traits /\ x \in Sessions
    BY <1>1, <1>4 DEF Whole, Sessions
  <2> QED BY <1>1, <2>1 DEF Whole, Blank, Plain, Quiet, Agree, BusOf
<1> QED BY <1>2, <1>3, <1>4

LEMMA EraseGroupOutcome ==
  ASSUME NEW b, NEW t, NEW s, Whole(b, t, s), Blank(s), s.ret = "ok",
         NEW x \in EnableEraseGroup(s)
  PROVE  Whole(b, t, x) /\ (x.ret = "ok" => Blank(x))
<1>1. CASE ~s.traits.sleeps
  BY <1>1 DEF EnableEraseGroup
<1>2. CASE s.traits.sleeps
  <2>1. PICK y \in mmc_switch(s, s.chip) :
          x = IF y.ret = "refused" THEN [y EXCEPT !.ret = "ok"] ELSE y
    BY <1>2 DEF EnableEraseGroup, Tolerate, Same
  <2>2. s \in Sessions /\ s.chip \in Chips
    BY DEF Whole, Sessions
  <2>3. /\ Beside(s, y) /\ y.ios = s.ios /\ y.chip = s.chip
        /\ y.ret # "failed" => ~y.spoilt
    BY <2>1, <2>2, SwitchOutcome DEF Ends, Blank
  <2>4. /\ Beside(s, x) /\ x.ios = s.ios /\ x.chip = s.chip
        /\ x.ret = "ok" => ~x.spoilt
    BY <2>1, <2>3 DEF Beside, Sessions
  <2> QED BY <2>4 DEF Beside, Whole, Blank, Plain, Quiet
<1> QED BY <1>1, <1>2

LEMMA NotificationOutcome ==
  ASSUME NEW b, NEW t, NEW s, Whole(b, t, s), Blank(s), s.ret = "ok",
         NEW x \in EnableNotification(s)
  PROVE  Whole(b, t, x) /\ (x.ret = "ok" => Blank(x))
<1>1. CASE ~s.traits.notifies
  BY <1>1 DEF EnableNotification
<1>2. CASE s.traits.notifies
  <2> DEFINE c == [s.chip EXCEPT !.notify = TRUE]
  <2>1. PICK z \in Then(mmc_switch(s, c), LAMBDA y : {[y EXCEPT !.mem.notify = TRUE]}) :
          x = IF z.ret = "refused" THEN [z EXCEPT !.ret = "ok"] ELSE z
    BY <1>2 DEF EnableNotification, Tolerate, Same
  <2>2. PICK y \in mmc_switch(s, c) :
          z \in IF y.ret = "ok" THEN {[y EXCEPT !.mem.notify = TRUE]} ELSE {y}
    BY <2>1 DEF Then
  <2>3. s \in Sessions /\ c \in Chips
    BY DEF Whole, Sessions, Chips
  <2>4. /\ c.mode = s.chip.mode /\ c.dirty = s.chip.dirty /\ c.bkops = s.chip.bkops
        /\ c.cache = s.chip.cache /\ c.cmdq = s.chip.cmdq /\ c.refused = s.chip.refused
        /\ c.timing = s.chip.timing /\ c.data = s.chip.data /\ c.width = s.chip.width
    BY <2>3 DEF Sessions, Chips
  <2> HIDE DEF c
  <2>5. /\ Beside(s, y) /\ y.ios = s.ios
        /\ \/ Ends(s, c, y)
           \/ y.ret = "refused" /\ y.chip = s.chip /\ y.spoilt = s.spoilt
    BY <2>2, <2>3, SwitchOutcome
  <2>6. CASE y.ret = "ok"
    <3>1. x = [y EXCEPT !.mem.notify = TRUE] /\ x.ret = "ok"
      BY <2>1, <2>2, <2>5, <2>6 DEF Beside, Sessions
    <3>2. /\ x \in Sessions /\ x.board = s.board /\ x.traits = s.traits
          /\ x.ios = s.ios /\ x.chip = c /\ x.spoilt = s.spoilt
          /\ x.mem = [s.mem EXCEPT !.notify = TRUE]
      BY <2>5, <2>6, <3>1 DEF Beside, Sessions, Fields, Ends
    <3>3. /\ x.mem.notify /\ x.mem.bkops = s.mem.bkops /\ x.mem.cache = s.mem.cache
          /\ x.mem.cmdq = s.mem.cmdq /\ x.mem.cmdqSupport = s.mem.cmdqSupport
      BY <2>3, <3>2 DEF Sessions, Fields
    <3>4. Whole(b, t, x)
      BY <1>2, <3>2, <3>3 DEF Whole, MemFits
    <3>5. Agree(x.ios, x.chip)
      <4>1. Alike(s, x)
        BY <2>4, <3>2 DEF Alike
      <4> QED BY <4>1, AlikeFit DEF Blank
    <3>6. Blank(x)
      BY <2>4, <3>2, <3>3, <3>5 DEF Blank, Plain, Quiet
    <3> QED BY <3>4, <3>6
  <2>7. CASE y.ret # "ok"
    <3>1. x = IF y.ret = "refused" THEN [y EXCEPT !.ret = "ok"] ELSE y
      BY <2>1, <2>2, <2>7
    <3>2. /\ Beside(s, x) /\ x.ios = s.ios
          /\ x.ret = "ok" => x.chip = s.chip /\ ~x.spoilt
      BY <2>5, <2>7, <3>1 DEF Beside, Sessions, Ends, Blank
    <3> QED BY <3>2 DEF Beside, Whole, Blank, Plain, Quiet
  <2> QED BY <2>6, <2>7
<1> QED BY <1>1, <1>2

LEMMA CacheOutcome ==
  ASSUME NEW b, NEW t, NEW s, Whole(b, t, s), Plain(s), s.spoilt \/ Fit(s),
         s.ret = "ok",
         NEW x \in EnableCache(s)
  PROVE  Whole(b, t, x) /\ (x.ret = "ok" => Ready(x) /\ ~x.chip.cmdq)
<1>1. CASE ~s.traits.cache
  <2>1. x = s
    BY <1>1 DEF EnableCache
  <2>2. s.mem.cache \in BOOLEAN /\ s.chip.cache \in BOOLEAN /\ ~s.mem.cache
    BY <1>1 DEF Whole, MemFits, Sessions, Fields, Chips
  <2>3. s.mem.cache = s.chip.cache
    BY <2>2 DEF Plain
  <2> QED BY <2>1, <2>3 DEF Ready, Plain
<1>2. CASE s.traits.cache
  <2> DEFINE c == [s.chip EXCEPT !.cache = TRUE]
  <2>1. PICK z \in Then(mmc_switch(s, c), LAMBDA y : {[y EXCEPT !.mem.cache = TRUE]}) :
          x = IF z.ret = "refused"
              THEN [[z EXCEPT !.ret = "ok"] EXCEPT !.mem.cache = FALSE] ELSE z
    BY <1>2 DEF EnableCache, Tolerate
  <2>2. PICK y \in mmc_switch(s, c) :
          z \in IF y.ret = "ok" THEN {[y EXCEPT !.mem.cache = TRUE]} ELSE {y}
    BY <2>1 DEF Then
  <2>3. s \in Sessions /\ c \in Chips
    BY DEF Whole, Sessions, Chips
  <2>4. /\ c.mode = s.chip.mode /\ c.dirty = s.chip.dirty /\ c.bkops = s.chip.bkops
        /\ c.cache = TRUE /\ c.cmdq = s.chip.cmdq /\ c.notify = s.chip.notify
        /\ c.timing = s.chip.timing /\ c.data = s.chip.data /\ c.width = s.chip.width
    BY <2>3 DEF Sessions, Chips
  <2> HIDE DEF c
  <2>5. /\ Beside(s, y) /\ y.ios = s.ios
        /\ \/ Ends(s, c, y)
           \/ y.ret = "refused" /\ y.chip = s.chip /\ y.spoilt = s.spoilt
    BY <2>2, <2>3, SwitchOutcome
  <2>6. CASE y.ret = "ok"
    <3>1. x = [y EXCEPT !.mem.cache = TRUE] /\ x.ret = "ok"
      BY <2>1, <2>2, <2>5, <2>6 DEF Beside, Sessions
    <3>2. /\ x \in Sessions /\ x.board = s.board /\ x.traits = s.traits
          /\ x.ios = s.ios /\ x.chip = c /\ x.spoilt = s.spoilt
          /\ x.mem = [s.mem EXCEPT !.cache = TRUE]
      BY <2>5, <2>6, <3>1 DEF Beside, Sessions, Fields, Ends
    <3>3. /\ x.mem.notify = s.mem.notify /\ x.mem.bkops = s.mem.bkops
          /\ x.mem.cache = TRUE
          /\ x.mem.cmdq = s.mem.cmdq /\ x.mem.cmdqSupport = s.mem.cmdqSupport
      BY <2>3, <3>2 DEF Sessions, Fields
    <3>4. Whole(b, t, x)
      BY <1>2, <3>2, <3>3 DEF Whole, MemFits
    <3>5. x.spoilt \/ Fit(x)
      <4>1. Alike(s, x)
        BY <2>4, <3>2 DEF Alike
      <4> QED BY <3>2, <4>1, AlikeFit
    <3>6. Ready(x) /\ ~x.chip.cmdq
      BY <2>4, <3>2, <3>3, <3>5 DEF Ready, Plain, Quiet
    <3> QED BY <3>4, <3>6
  <2>7. CASE y.ret = "refused"
    <3>1. x = [[y EXCEPT !.ret = "ok"] EXCEPT !.mem.cache = FALSE]
      BY <2>1, <2>2, <2>7
    <3>2. /\ x \in Sessions /\ x.board = s.board /\ x.traits = s.traits
          /\ x.ios = s.ios /\ x.chip = s.chip /\ x.spoilt = s.spoilt
          /\ x.mem = [s.mem EXCEPT !.cache = FALSE]
      BY <2>5, <2>7, <3>1 DEF Beside, Sessions, Fields, Ends
    <3>3. /\ x.mem.notify = s.mem.notify /\ x.mem.bkops = s.mem.bkops
          /\ x.mem.cache = FALSE /\ s.chip.cache = FALSE
          /\ x.mem.cmdq = s.mem.cmdq /\ x.mem.cmdqSupport = s.mem.cmdqSupport
      BY <2>3, <3>2 DEF Sessions, Fields, Chips, Plain
    <3>4. Whole(b, t, x)
      BY <3>2, <3>3 DEF Whole, MemFits
    <3>5. x.spoilt \/ Fit(x)
      <4>1. Alike(s, x)
        BY <3>2 DEF Alike
      <4> QED BY <3>2, <4>1, AlikeFit
    <3>6. Ready(x) /\ ~x.chip.cmdq
      BY <3>2, <3>3, <3>5 DEF Ready, Plain, Quiet
    <3> QED BY <3>4, <3>6
  <2>8. CASE y.ret = "failed"
    <3>1. x = y
      BY <2>1, <2>2, <2>8
    <3> QED BY <2>5, <2>8, <3>1 DEF Beside, Whole
  <2> QED BY <2>5, <2>6, <2>7, <2>8 DEF Beside, Sessions
<1> QED BY <1>1, <1>2

LEMMA QueueOutcome ==
  ASSUME NEW b, NEW t, NEW s, Whole(b, t, s), Ready(s), ~s.chip.cmdq, s.ret = "ok",
         NEW x \in EnableQueue(s)
  PROVE  Whole(b, t, x) /\ (x.ret = "ok" => Ready(x) /\ x.mem.cmdq = x.chip.cmdq)
<1> DEFINE off == [s EXCEPT !.mem.cmdq = FALSE]
<1>1. /\ off \in Sessions /\ off.board = s.board /\ off.traits = s.traits
      /\ off.ios = s.ios /\ off.chip = s.chip /\ off.spoilt = s.spoilt /\ off.ret = "ok"
      /\ off.mem = [s.mem EXCEPT !.cmdq = FALSE]
  BY DEF Whole, Sessions, Fields
<1>2. /\ off.mem.notify = s.mem.notify /\ off.mem.bkops = s.mem.bkops
      /\ off.mem.cache = s.mem.cache /\ off.mem.cmdq = FALSE
      /\ off.mem.cmdqSupport = s.mem.cmdqSupport
  BY <1>1 DEF Whole, Sessions, Fields
<1>3. CASE ~(s.mem.cmdqSupport /\ s.board.cqe)
  <2>1. x = off
    BY <1>3 DEF EnableQueue
  <2> HIDE DEF off
  <2>2. s.chip.cmdq = FALSE
    BY DEF Whole, Sessions, Chips
  <2>3. x.spoilt \/ Fit(x)
    <3>1. Alike(s, x)
      BY <1>1, <2>1 DEF Alike
    <3> QED BY <1>1, <2>1, <3>1, AlikeFit DEF Ready
  <2>4. Whole(b, t, x)
    BY <1>1, <1>2, <2>1 DEF Whole, MemFits
  <2>5. Ready(x) /\ x.mem.cmdq = x.chip.cmdq
    BY <1>1, <1>2, <2>1, <2>2, <2>3 DEF Ready, Quiet
  <2> QED BY <2>4, <2>5
<1>4. CASE s.mem.cmdqSupport /\ s.board.cqe
  <2> DEFINE c == [off.chip EXCEPT !.cmdq = TRUE]
  <2>1. PICK z \in mmc_cmdq_enable(off) :
          x = IF z.ret = "refused"
              THEN [[z EXCEPT !.ret = "ok"] EXCEPT !.mem.cmdqSupport = FALSE] ELSE z
    BY <1>4 DEF EnableQueue, Tolerate
  <2>2. PICK y \in mmc_switch(off, c) :
          z \in IF y.ret = "ok" THEN {[y EXCEPT !.mem.cmdq = TRUE]} ELSE {y}
    BY <2>1 DEF mmc_cmdq_enable, Then
  <2> HIDE DEF off
  <2>3. /\ c \in Chips
        /\ c.mode = s.chip.mode /\ c.dirty = s.chip.dirty /\ c.bkops = s.chip.bkops
        /\ c.cache = s.chip.cache /\ c.cmdq = TRUE /\ c.notify = s.chip.notify
        /\ c.timing = s.chip.timing /\ c.data = s.chip.data /\ c.width = s.chip.width
    BY <1>1 DEF Sessions, Chips
  <2> HIDE DEF c
  <2>4. /\ Beside(off, y) /\ y.ios = off.ios
        /\ \/ Ends(off, c, y)
           \/ y.ret = "refused" /\ y.chip = off.chip /\ y.spoilt = off.spoilt
    BY <1>1, <2>2, <2>3, SwitchOutcome
  <2>5. CASE y.ret = "ok"
    <3>1. x = [y EXCEPT !.mem.cmdq = TRUE] /\ x.ret = "ok"
      BY <2>1, <2>2, <2>4, <2>5 DEF Beside, Sessions
    <3>2. /\ x \in Sessions /\ x.board = s.board /\ x.traits = s.traits
          /\ x.ios = s.ios /\ x.chip = c /\ x.spoilt = s.spoilt
          /\ x.mem = [off.mem EXCEPT !.cmdq = TRUE]
      BY <1>1, <2>4, <2>5, <3>1 DEF Beside, Sessions, Fields, Ends
    <3>3. /\ x.mem.notify = s.mem.notify /\ x.mem.bkops = s.mem.bkops
          /\ x.mem.cache = s.mem.cache /\ x.mem.cmdq = TRUE
          /\ x.mem.cmdqSupport = s.mem.cmdqSupport
      BY <1>1, <1>2, <3>2 DEF Sessions, Fields
    <3>4. Whole(b, t, x)
      BY <1>4, <3>2, <3>3 DEF Whole, MemFits
    <3>5. x.spoilt \/ Fit(x)
      <4>1. Alike(s, x)
        BY <2>3, <3>2 DEF Alike
      <4> QED BY <3>2, <4>1, AlikeFit DEF Ready
    <3>6. Ready(x) /\ x.mem.cmdq = x.chip.cmdq
      BY <2>3, <3>2, <3>3, <3>5 DEF Ready, Quiet
    <3> QED BY <3>4, <3>6
  <2>6. CASE y.ret = "refused"
    <3>1. x = [[y EXCEPT !.ret = "ok"] EXCEPT !.mem.cmdqSupport = FALSE]
      BY <2>1, <2>2, <2>6
    <3>2. /\ x \in Sessions /\ x.board = s.board /\ x.traits = s.traits
          /\ x.ios = s.ios /\ x.chip = s.chip /\ x.spoilt = s.spoilt
          /\ x.mem = [off.mem EXCEPT !.cmdqSupport = FALSE]
      BY <1>1, <2>4, <2>6, <3>1 DEF Beside, Sessions, Fields, Ends
    <3>3. /\ x.mem.notify = s.mem.notify /\ x.mem.bkops = s.mem.bkops
          /\ x.mem.cache = s.mem.cache /\ x.mem.cmdq = FALSE /\ s.chip.cmdq = FALSE
      BY <1>1, <1>2, <3>2 DEF Whole, Sessions, Fields, Chips
    <3>4. Whole(b, t, x)
      BY <3>2, <3>3 DEF Whole, MemFits
    <3>5. x.spoilt \/ Fit(x)
      <4>1. Alike(s, x)
        BY <3>2 DEF Alike
      <4> QED BY <3>2, <4>1, AlikeFit DEF Ready
    <3>6. Ready(x) /\ x.mem.cmdq = x.chip.cmdq
      BY <3>2, <3>3, <3>5 DEF Ready, Quiet
    <3> QED BY <3>4, <3>6
  <2>7. CASE y.ret = "failed"
    <3>1. x = y
      BY <2>1, <2>2, <2>7
    <3> QED BY <1>1, <1>2, <2>4, <2>7, <3>1 DEF Beside, Whole, MemFits
  <2> QED BY <2>4, <2>5, <2>6, <2>7 DEF Beside, Sessions
<1> QED BY <1>3, <1>4

(* What mmc_init_card leaves of a card that was powered up: one set up as  *)
(* struct mmc_card and host->ios say, or one to be initialised again.      *)
Come(b, t, x) ==
  /\ Whole(b, t, x) /\ x.ret \in {"ok", "failed"}
  /\ x.ret = "ok" => Ready(x) /\ x.mem.cmdq = x.chip.cmdq
  /\ x.ret # "ok" => x.chip = Reset

LEMMA InitOutcome ==
  ASSUME NEW b, NEW t, <<b, t>> \in Setups, NEW f \in FieldsOf(t),
         NEW x \in mmc_init_card(PoweredUp(b, t, f))
  PROVE  Come(b, t, x)
<1> DEFINE s == PoweredUp(b, t, f)
           start == [s EXCEPT !.ret = "ok", !.spoilt = FALSE]
           erased == Then(Identify(start), EnableEraseGroup)
           powered == Then(erased, EnableNotification)
           timed == Then(powered, mmc_select_timing)
           bus == Then(timed, SelectBus)
           cached == Then(bus, EnableCache)
           features == Then(cached, EnableQueue)
<1>1. PICK w \in Then(features, CheckVoltage) : x = Unsettled(w)
  BY DEF mmc_init_card
<1>2. PICK g \in features : w \in IF g.ret = "ok" THEN CheckVoltage(g) ELSE {g}
  BY <1>1 DEF Then
<1>3. PICK c \in cached : g \in IF c.ret = "ok" THEN EnableQueue(c) ELSE {c}
  BY <1>2 DEF Then
<1>4. PICK d \in bus : c \in IF d.ret = "ok" THEN EnableCache(d) ELSE {d}
  BY <1>3 DEF Then
<1>5. PICK e \in timed : d \in IF e.ret = "ok" THEN SelectBus(e) ELSE {e}
  BY <1>4 DEF Then
<1>6. PICK p \in powered : e \in IF p.ret = "ok" THEN mmc_select_timing(p) ELSE {p}
  BY <1>5 DEF Then
<1>7. PICK n \in erased : p \in IF n.ret = "ok" THEN EnableNotification(n) ELSE {n}
  BY <1>6 DEF Then
<1>8. PICK i \in Identify(start) :
        n \in IF i.ret = "ok" THEN EnableEraseGroup(i) ELSE {i}
  BY <1>7 DEF Then
<1>9. /\ Whole(b, t, start) /\ start.ret = "ok" /\ ~start.spoilt
      /\ start.ios.timing = "legacy" /\ start.ios.width = 1
  <2> DEFINE off == [power |-> "off", clock |-> "none", level |-> 33, width |-> 1,
                     timing |-> "legacy"]
             up == mmc_power_up(b, off)
  <2>1. mmc_set_initial_signal_voltage(b) \in {33, 18}
    BY DEF mmc_set_initial_signal_voltage
  <2>2. up = [power |-> "on", clock |-> "init",
              level |-> mmc_set_initial_signal_voltage(b), width |-> 1,
              timing |-> "legacy"]
    BY DEF mmc_power_up, mmc_set_initial_state
  <2>3. /\ up \in MmcIos /\ up.power = "on" /\ up.timing = "legacy" /\ up.width = 1
    BY <2>1, <2>2 DEF MmcIos, Timings
  <2>4. b \in MmcBoards /\ t \in MmcTraits
    BY SetupsAssumption
  <2>5. f \in Fields /\ MemFits(t, f) /\ ~f.bkops
    BY DEF FieldsOf, MemFits
  <2>6. Reset \in Chips
    BY DEF Reset, Chips
  <2>7. s = [board |-> b, traits |-> t, ios |-> up, chip |-> Reset,
             mem |-> f, ret |-> "ok", spoilt |-> FALSE]
    BY DEF PoweredUp
  <2> HIDE DEF s, up
  <2> QED BY <2>3, <2>4, <2>5, <2>6, <2>7 DEF Whole, Sessions
<1> HIDE DEF s, start, erased, powered, timed, bus, cached, features
<1>10. Whole(b, t, i) /\ (i.ret = "ok" => Blank(i))
  BY <1>8, <1>9, IdentifyOutcome
<1>11. Whole(b, t, n) /\ (n.ret = "ok" => Blank(n))
  BY <1>8, <1>10, EraseGroupOutcome
<1>12. Whole(b, t, p) /\ (p.ret = "ok" => Blank(p))
  BY <1>7, <1>11, NotificationOutcome
<1>13. /\ Whole(b, t, e)
       /\ e.ret = "ok" => Plain(e) /\ Chosen(e) /\ e.ios.clock = ClockOf(e.ios.timing)
  <2>1. CASE p.ret # "ok"
    BY <1>6, <1>12, <2>1
  <2>2. CASE p.ret = "ok"
    <3>1. p \in Sessions /\ Settled(p) /\ p.ios.timing = "legacy" /\ Plain(p)
      BY <1>12, <2>2 DEF Whole, Blank, Settled
    <3>2. /\ Of(p, e)
          /\ e.ret = "ok" => Chosen(e) /\ e.ios.clock = ClockOf(e.ios.timing)
      BY <1>6, <2>2, <3>1, SelectTimingOutcome
    <3> QED BY <1>12, <3>1, <3>2, WholeOf
  <2> QED BY <2>1, <2>2
<1>14. Whole(b, t, d) /\ (d.ret = "ok" => Plain(d) /\ (d.spoilt \/ Fit(d)))
  <2>1. CASE e.ret # "ok"
    BY <1>5, <1>13, <2>1
  <2>2. CASE e.ret = "ok"
    <3>1. Fitted(e, d)
      BY <1>5, <1>13, <2>2, SelectBusOutcome DEF Whole
    <3> QED BY <1>13, <2>2, <3>1, WholeOf DEF Fitted
  <2> QED BY <2>1, <2>2
<1>15. Whole(b, t, c) /\ (c.ret = "ok" => Ready(c) /\ ~c.chip.cmdq)
  BY <1>4, <1>14, CacheOutcome
<1>16. Whole(b, t, g) /\ (g.ret = "ok" => Ready(g) /\ g.mem.cmdq = g.chip.cmdq)
  BY <1>3, <1>15, QueueOutcome
<1>17. Whole(b, t, w) /\ (w.ret = "ok" => Ready(w) /\ w.mem.cmdq = w.chip.cmdq)
  <2>1. w = g \/ w = Fail(g)
    BY <1>2 DEF CheckVoltage
  <2> QED BY <1>16, <2>1, WholeFail
<1>18. CASE w.ret = "ok"
  BY <1>1, <1>17, <1>18 DEF Unsettled, Come
<1>19. CASE w.ret # "ok"
  <2> DEFINE j == [mmc_set_initial_state(w.ios) EXCEPT !.clock = "init"]
  <2>1. j \in MmcIos /\ j.power = "on"
    BY <1>17 DEF Whole, Sessions, MmcIos, Timings, mmc_set_initial_state
  <2>2. x = [w EXCEPT !.chip = Reset, !.spoilt = FALSE, !.ret = "failed", !.ios = j]
    BY <1>1, <1>19 DEF Unsettled
  <2>3. Reset \in Chips
    BY DEF Reset, Chips
  <2> HIDE DEF j
  <2>4. /\ x \in Sessions /\ x.board = w.board /\ x.traits = w.traits /\ x.ios = j
        /\ x.chip = Reset /\ x.mem = w.mem /\ x.ret = "failed"
    BY <1>17, <2>1, <2>2, <2>3 DEF Whole, Sessions
  <2> QED BY <1>17, <2>1, <2>4 DEF Come, Whole
<1> QED BY <1>18, <1>19

-----------------------------------------------------------------------------
(* _mmc_suspend.                                                           *)

Told(c) == c.mode = "told" \/ c.refused

(* x is the session s on its way to sleep.                                 *)
Kept(s, x) ==
  /\ x \in Sessions /\ x.board = s.board /\ x.traits = s.traits
  /\ x.spoilt = s.spoilt /\ x.ios = s.ios
  /\ x.chip.cache = s.chip.cache /\ x.chip.cmdq = s.chip.cmdq
  /\ x.chip.notify = s.chip.notify
  /\ x.mem.cache = s.mem.cache /\ x.mem.cmdq = s.mem.cmdq
  /\ x.mem.cmdqSupport = s.mem.cmdqSupport
  /\ x.mem.notify => s.mem.notify
  /\ x.chip.dirty => s.chip.dirty
  /\ (s.chip.bkops => s.mem.bkops \/ ~s.traits.hpi) =>
       (x.chip.bkops => x.mem.bkops \/ ~x.traits.hpi)

LEMMA KeptFail ==
  ASSUME NEW s \in Sessions
  PROVE  Kept(s, Fail(s)) /\ Fail(s).ret = "failed" /\ Fail(s).mem = s.mem
  BY DEF Kept, Fail, Sessions

LEMMA KeptTrans ==
  ASSUME NEW s, NEW x, NEW y, Kept(s, x), Kept(x, y)
  PROVE  Kept(s, y)
  BY DEF Kept

LEMMA StopBkopsOutcome ==
  ASSUME NEW s \in Sessions, s.ret = "ok", NEW x \in mmc_stop_bkops(s)
  PROVE  /\ Kept(s, x) /\ x.mem.notify = s.mem.notify
         /\ x.ret = "ok" => ~x.mem.bkops
<1>1. CASE ~s.mem.bkops
  BY <1>1 DEF mmc_stop_bkops, Kept
<1>2. CASE x = Fail(s)
  BY <1>2, KeptFail
<1>3. CASE s.mem.bkops /\ ~s.traits.hpi /\ x = [s EXCEPT !.mem.bkops = FALSE]
  <2>1. /\ x \in Sessions /\ x.board = s.board /\ x.traits = s.traits
        /\ x.ios = s.ios /\ x.chip = s.chip /\ x.spoilt = s.spoilt
        /\ x.mem = [s.mem EXCEPT !.bkops = FALSE]
    BY <1>3 DEF Sessions, Fields
  <2>2. /\ x.mem.notify = s.mem.notify /\ ~x.mem.bkops /\ x.mem.cache = s.mem.cache
        /\ x.mem.cmdq = s.mem.cmdq /\ x.mem.cmdqSupport = s.mem.cmdqSupport
    BY <2>1 DEF Sessions, Fields
  <2> QED BY <1>3, <2>1, <2>2 DEF Kept
<1>4. CASE s.mem.bkops /\ s.traits.hpi
           /\ x = [s EXCEPT !.mem.bkops = FALSE, !.chip.bkops = FALSE]
  <2>1. /\ x \in Sessions /\ x.board = s.board /\ x.traits = s.traits
        /\ x.ios = s.ios /\ x.chip = [s.chip EXCEPT !.bkops = FALSE]
        /\ x.mem = [s.mem EXCEPT !.bkops = FALSE] /\ x.spoilt = s.spoilt
    BY <1>4 DEF Sessions, Fields, Chips
  <2>2. /\ x.mem.notify = s.mem.notify /\ ~x.mem.bkops /\ x.mem.cache = s.mem.cache
        /\ x.mem.cmdq = s.mem.cmdq /\ x.mem.cmdqSupport = s.mem.cmdqSupport
    BY <2>1 DEF Sessions, Fields
  <2>3. /\ x.chip.cache = s.chip.cache /\ x.chip.cmdq = s.chip.cmdq
        /\ x.chip.notify = s.chip.notify /\ x.chip.dirty = s.chip.dirty
        /\ ~x.chip.bkops
    BY <2>1 DEF Sessions, Chips
  <2> QED BY <1>4, <2>1, <2>2, <2>3 DEF Kept
<1> QED
  BY <1>1, <1>2, <1>3, <1>4 DEF mmc_stop_bkops, Reached

LEMMA FlushOutcome ==
  ASSUME NEW s \in Sessions, s.ret = "ok", s.chip.dirty => s.mem.cache,
         NEW x \in mmc_flush_cache(s)
  PROVE  /\ Kept(s, x) /\ x.mem = s.mem
         /\ x.ret = "ok" => ~x.chip.dirty
<1>1. CASE ~s.mem.cache
  BY <1>1 DEF mmc_flush_cache, Kept
<1>2. CASE x = Fail(s)
  BY <1>2, KeptFail
<1>3. CASE s.mem.cache /\ x # Fail(s)
  <2> DEFINE c == [s.chip EXCEPT !.dirty = FALSE]
  <2>1. PICK y \in mmc_switch(s, c) : x = [y EXCEPT !.spoilt = s.spoilt]
    BY <1>3 DEF mmc_flush_cache, Reached, Unspoilt
  <2>2. /\ c \in Chips /\ ~c.dirty /\ c.cache = s.chip.cache /\ c.cmdq = s.chip.cmdq
        /\ c.notify = s.chip.notify /\ c.bkops = s.chip.bkops
    BY DEF Sessions, Chips
  <2> HIDE DEF c
  <2>3. /\ Beside(s, y) /\ y.ios = s.ios
        /\ \/ Ends(s, c, y)
           \/ y.ret = "refused" /\ y.chip = s.chip /\ y.spoilt = s.spoilt
    BY <2>1, <2>2, SwitchOutcome
  <2>4. /\ Beside(s, x) /\ x.ios = s.ios /\ x.spoilt = s.spoilt /\ x.ret = y.ret
        /\ x.chip = y.chip
    BY <2>1, <2>3 DEF Beside, Sessions
  <2>5. x.chip = c \/ (x.chip = s.chip /\ x.ret # "ok")
    BY <2>3, <2>4 DEF Ends
  <2> QED BY <2>2, <2>4, <2>5 DEF Kept, Beside
<1> QED BY <1>1, <1>2, <1>3

(* What comes of the last word to a card: it is told, asleep or at least   *)
(* deselected.                                                             *)
Gone(s, x) ==
  /\ Kept(s, x) /\ x.mem.bkops = s.mem.bkops
  /\ x.ret = "ok" => /\ x.chip.mode = "tran" => x.chip.refused
                     /\ s.mem.notify => x.mem.notify \/ Told(x.chip)

LEMMA NotifyOutcome ==
  ASSUME NEW s \in Sessions, NEW x \in mmc_poweroff_notify(s)
  PROVE  Gone(s, x) /\ ~x.mem.notify
<1>1. PICK z \in Reached(s, Unspoilt(s,
                      SwitchBlind(s, [s.chip EXCEPT !.mode = "told"]))) :
        x = [z EXCEPT !.mem.notify = FALSE]
  BY DEF mmc_poweroff_notify
<1>2. Kept(s, z) /\ z.mem = s.mem /\ (z.ret = "ok" => Told(z.chip))
      /\ (z.ret = "ok" /\ z.chip.mode = "tran" => z.chip.refused)
  <2>1. CASE z = Fail(s)
    BY <2>1, KeptFail
  <2>2. CASE z # Fail(s)
    <3> DEFINE c == [s.chip EXCEPT !.mode = "told"]
               d == [s.chip EXCEPT !.refused = TRUE]
    <3>1. PICK y \in SwitchBlind(s, c) : z = [y EXCEPT !.spoilt = s.spoilt]
      BY <1>1, <2>2 DEF Reached, Unspoilt
    <3>2. /\ c \in Chips /\ c.mode = "told" /\ c.cache = s.chip.cache
          /\ c.cmdq = s.chip.cmdq /\ c.notify = s.chip.notify
          /\ c.bkops = s.chip.bkops /\ c.dirty = s.chip.dirty
      BY DEF Sessions, Chips
    <3>3. /\ d.refused /\ d.cache = s.chip.cache
          /\ d.cmdq = s.chip.cmdq /\ d.notify = s.chip.notify
          /\ d.bkops = s.chip.bkops /\ d.dirty = s.chip.dirty
      BY DEF Sessions, Chips
    <3>4. /\ Beside(s, y) /\ y.ios = s.ios
          /\ Ends(s, c, y) \/ (y.ret = s.ret /\ y.chip = d /\ y.spoilt = s.spoilt)
      BY <3>1, <3>2, BlindOutcome
    <3> HIDE DEF c, d
    <3>5. /\ Beside(s, z) /\ z.ios = s.ios /\ z.spoilt = s.spoilt /\ z.ret = y.ret
          /\ z.chip = y.chip
      BY <3>1, <3>4 DEF Beside, Sessions
    <3>6. z.chip = c \/ z.chip = d \/ (z.chip = s.chip /\ z.ret = "failed")
      BY <3>4, <3>5 DEF Ends
    <3>7. Kept(s, z)
      BY <3>2, <3>3, <3>5, <3>6 DEF Kept, Beside
    <3> QED BY <3>2, <3>3, <3>5, <3>6, <3>7 DEF Told, Beside
  <2> QED BY <2>1, <2>2
<1>3. /\ x \in Sessions /\ x.board = z.board /\ x.traits = z.traits
      /\ x.ios = z.ios /\ x.chip = z.chip /\ x.spoilt = z.spoilt /\ x.ret = z.ret
      /\ x.mem = [s.mem EXCEPT !.notify = FALSE]
  BY <1>1, <1>2 DEF Kept, Sessions, Fields
<1>4. /\ ~x.mem.notify /\ x.mem.bkops = s.mem.bkops /\ x.mem.cache = s.mem.cache
      /\ x.mem.cmdq = s.mem.cmdq /\ x.mem.cmdqSupport = s.mem.cmdqSupport
  BY <1>3 DEF Sessions, Fields
<1>5. Kept(s, x)
  BY <1>2, <1>3, <1>4 DEF Kept
<1> QED BY <1>2, <1>3, <1>4, <1>5 DEF Gone

LEMMA ModeOutcome ==
  ASSUME NEW s \in Sessions, NEW m \in {"idle", "tran", "stby", "slp", "told"},
         NEW x, x = [s EXCEPT !.chip.mode = m]
  PROVE  Kept(s, x) /\ x.mem = s.mem /\ x.chip.mode = m /\ x.ret = s.ret
<1>1. /\ x \in Sessions /\ x.board = s.board /\ x.traits = s.traits /\ x.mem = s.mem
      /\ x.ios = s.ios /\ x.chip = [s.chip EXCEPT !.mode = m] /\ x.spoilt = s.spoilt
      /\ x.ret = s.ret
  BY DEF Sessions, Chips
<1>2. /\ x.chip.cache = s.chip.cache /\ x.chip.cmdq = s.chip.cmdq
      /\ x.chip.notify = s.chip.notify /\ x.chip.dirty = s.chip.dirty
      /\ x.chip.bkops = s.chip.bkops /\ x.chip.mode = m
  BY <1>1 DEF Sessions, Chips
<1>3. Kept(s, x)
  BY <1>1, <1>2 DEF Kept
<1> QED BY <1>1, <1>2, <1>3

LEMMA DeselectOutcome ==
  ASSUME NEW s \in Sessions, s.ret = "ok", NEW x \in mmc_deselect_cards(s)
  PROVE  /\ Kept(s, x) /\ x.mem = s.mem
         /\ x.ret = "ok" => x.chip.mode # "tran"
<1> DEFINE m == IF s.chip.mode = "tran" THEN "stby" ELSE s.chip.mode
<1>1. m \in {"idle", "tran", "stby", "slp", "told"} /\ m # "tran"
  BY DEF Sessions, Chips
<1>2. x = Fail(s) \/ x = [s EXCEPT !.chip.mode = m]
  BY DEF mmc_deselect_cards
<1> HIDE DEF m
<1> QED BY <1>1, <1>2, KeptFail, ModeOutcome

LEMMA SleepOutcome ==
  ASSUME NEW s \in Sessions, s.ret = "ok", NEW x \in mmc_sleep(s)
  PROVE  /\ Kept(s, x) /\ x.mem = s.mem
         /\ x.ret = "ok" => x.chip.mode # "tran"
<1>1. PICK y \in mmc_deselect_cards(s) :
        x \in IF y.ret = "ok"
              THEN IF y.chip.mode = "stby"
                   THEN {Fail(y), [y EXCEPT !.chip.mode = "slp"],
                         Fail([y EXCEPT !.chip.mode = "slp"])}
                   ELSE {Fail(y)}
              ELSE {y}
  BY DEF mmc_sleep, Then
<1>2. Kept(s, y) /\ y.mem = s.mem /\ y \in Sessions
  BY <1>1, DeselectOutcome DEF Kept
<1> DEFINE z == [y EXCEPT !.chip.mode = "slp"]
<1>3. Kept(y, z) /\ z.mem = y.mem /\ z.chip.mode = "slp"
  BY <1>2, ModeOutcome
<1>4. \/ x \in {Fail(y), z, Fail(z)}
      \/ x = y /\ y.ret # "ok"
  BY <1>1
<1> HIDE DEF z
<1>5. z \in Sessions
  BY <1>3 DEF Kept
<1>6. CASE x = y /\ y.ret # "ok"
  BY <1>2, <1>6
<1>7. CASE x = Fail(y)
  BY <1>2, <1>7, KeptFail, KeptTrans
<1>8. CASE x = z
  BY <1>2, <1>3, <1>8, KeptTrans
<1>9. CASE x = Fail(z)
  <2>1. Kept(y, x) /\ x.mem = z.mem /\ x.ret = "failed"
    BY <1>3, <1>5, <1>9, KeptFail, KeptTrans
  <2> QED BY <1>2, <1>3, <2>1, KeptTrans
<1> QED BY <1>4, <1>6, <1>7, <1>8, <1>9

LEMMA FarewellOutcome ==
  ASSUME NEW s \in Sessions, s.ret = "ok", NEW is \in BOOLEAN, NEW x \in Farewell(s, is)
  PROVE  Gone(s, x) /\ (s.board.fullCycle \/ ~is => ~x.mem.notify)
<1>1. CASE mmc_can_poweroff_notify(s) /\ (s.board.fullCycle \/ ~is)
  BY <1>1, NotifyOutcome DEF Farewell
<1>2. CASE ~(mmc_can_poweroff_notify(s) /\ (s.board.fullCycle \/ ~is))
  <2>1. x \in mmc_sleep(s) \/ x \in mmc_deselect_cards(s)
    BY <1>2 DEF Farewell
  <2>2. Kept(s, x) /\ x.mem = s.mem /\ (x.ret = "ok" => x.chip.mode # "tran")
    BY <2>1, SleepOutcome, DeselectOutcome
  <2> QED BY <1>2, <2>2 DEF Gone, mmc_can_poweroff_notify
<1> QED BY <1>1, <1>2

(* Asleep(s, is, x): x is s after _mmc_suspend.                            *)
Asleep(s, is, x) ==
  /\ x \in Sessions /\ x.board = s.board /\ x.traits = s.traits /\ x.spoilt = s.spoilt
  /\ x.chip.cache = s.chip.cache /\ x.chip.cmdq = s.chip.cmdq
  /\ x.chip.notify = s.chip.notify
  /\ x.mem.cache = s.mem.cache /\ x.mem.cmdq = s.mem.cmdq
  /\ x.mem.cmdqSupport = s.mem.cmdqSupport
  /\ x.mem.notify => s.mem.notify
  /\ x.chip.dirty => s.chip.dirty
  /\ x.chip.bkops => x.mem.bkops \/ ~x.traits.hpi
  /\ x.ret # "ok" => x.ios = s.ios
  /\ x.ret = "ok" =>
       /\ x.ios.power = "off" /\ ~x.mem.bkops /\ ~x.chip.dirty
       /\ x.chip.mode = "tran" => x.chip.refused
       /\ s.mem.notify => x.mem.notify \/ Told(x.chip)
       /\ s.board.fullCycle \/ ~is => ~x.mem.notify

LEMMA PowerOffOutcome ==
  ASSUME NEW i \in MmcIos
  PROVE  mmc_power_off(i) \in MmcIos /\ mmc_power_off(i).power = "off"
  BY DEF mmc_power_off, mmc_set_initial_state, MmcIos, Timings

LEMMA SuspendOutcome ==
  ASSUME NEW s \in Sessions, s.chip.dirty => s.mem.cache,
         s.chip.bkops => s.mem.bkops \/ ~s.traits.hpi,
         NEW is \in BOOLEAN, NEW x \in _mmc_suspend(s, is)
  PROVE  Asleep(s, is, x)
<1> DEFINE a == [s EXCEPT !.ret = "ok"]
           still == Then({a}, mmc_stop_bkops)
           quiet == Then(still, mmc_flush_cache)
           gone == Then(quiet, LAMBDA y : Farewell(y, is))
<1>1. PICK g \in gone :
        x = IF g.ret = "ok" THEN [g EXCEPT !.ios = mmc_power_off(@)] ELSE g
  BY DEF _mmc_suspend
<1>2. PICK f \in quiet : g \in IF f.ret = "ok" THEN Farewell(f, is) ELSE {f}
  BY <1>1 DEF Then
<1>3. PICK k \in still : f \in IF k.ret = "ok" THEN mmc_flush_cache(k) ELSE {k}
  BY <1>2 DEF Then
<1>4. /\ a \in Sessions /\ a.ret = "ok" /\ Kept(s, a) /\ a.mem = s.mem
      /\ a.chip = s.chip
  BY DEF Sessions, Kept
<1>5. k \in mmc_stop_bkops(a)
  BY <1>3, <1>4 DEF Then
<1> HIDE DEF a, still, quiet, gone
<1>6. /\ Kept(a, k) /\ k.mem.notify = a.mem.notify
      /\ k.ret = "ok" => ~k.mem.bkops
  BY <1>4, <1>5, StopBkopsOutcome
<1>7. Kept(s, k) /\ k \in Sessions /\ k.mem.notify = s.mem.notify
      /\ (k.chip.dirty => k.mem.cache)
  BY <1>4, <1>6, KeptTrans DEF Kept
<1>8. /\ Kept(s, f) /\ f \in Sessions /\ f.mem.notify = s.mem.notify
      /\ f.ret = "ok" => ~f.mem.bkops /\ ~f.chip.dirty
  <2>1. CASE k.ret # "ok"
    BY <1>3, <1>7, <2>1
  <2>2. CASE k.ret = "ok"
    <3>1. Kept(k, f) /\ f.mem = k.mem /\ (f.ret = "ok" => ~f.chip.dirty)
      BY <1>3, <1>7, <2>2, FlushOutcome
    <3> QED BY <1>6, <1>7, <2>2, <3>1, KeptTrans DEF Kept
  <2> QED BY <2>1, <2>2
<1>9. /\ Kept(s, g)
      /\ g.ret = "ok" =>
           /\ ~g.mem.bkops /\ ~g.chip.dirty
           /\ g.chip.mode = "tran" => g.chip.refused
           /\ s.mem.notify => g.mem.notify \/ Told(g.chip)
           /\ s.board.fullCycle \/ ~is => ~g.mem.notify
  <2>1. CASE f.ret # "ok"
    BY <1>2, <1>8, <2>1
  <2>2. CASE f.ret = "ok"
    <3>1. Gone(f, g) /\ (f.board.fullCycle \/ ~is => ~g.mem.notify)
      BY <1>2, <1>8, <2>2, FarewellOutcome
    <3>2. Kept(f, g) /\ f.board = s.board
      BY <1>8, <3>1 DEF Gone, Kept
    <3>3. Kept(s, g)
      BY <1>8, <3>2, KeptTrans
    <3>4. f.chip.dirty \in BOOLEAN /\ (g.chip.dirty => f.chip.dirty)
      BY <1>8, <3>2 DEF Kept, Sessions, Chips
    <3> QED BY <1>8, <2>2, <3>1, <3>2, <3>3, <3>4 DEF Gone
  <2> QED BY <2>1, <2>2
<1>10. CASE g.ret # "ok"
  BY <1>1, <1>9, <1>10 DEF Kept, Asleep
<1>11. CASE g.ret = "ok"
  <2>1. x = [g EXCEPT !.ios = mmc_power_off(g.ios)]
    BY <1>1, <1>11
  <2>2. mmc_power_off(g.ios) \in MmcIos /\ mmc_power_off(g.ios).power = "off"
    BY <1>9, PowerOffOutcome DEF Kept, Sessions
  <2>3. /\ x \in Sessions /\ x.board = g.board /\ x.traits = g.traits
        /\ x.ios.power = "off" /\ x.chip = g.chip /\ x.mem = g.mem
        /\ x.spoilt = g.spoilt /\ x.ret = "ok"
    BY <1>9, <1>11, <2>1, <2>2 DEF Kept, Sessions
  <2> QED BY <1>9, <1>11, <2>3 DEF Kept, Asleep
<1> QED BY <1>10, <1>11

-----------------------------------------------------------------------------
(* The inductive invariant.                                                *)

CardInv ==
  /\ card \in Sessions /\ <<card.board, card.traits>> \in Setups
  /\ MemFits(card.traits, card.mem)
  /\ suspended <=> card.ios.power = "off"
  /\ suspended => ~card.mem.bkops
  /\ card.chip.cache => card.mem.cache
  /\ sound => card.mem.cache = card.chip.cache /\ card.mem.cmdq = card.chip.cmdq
  /\ card.chip.dirty => card.chip.cache
  /\ card.chip.bkops => card.mem.bkops \/ ~card.traits.hpi

BusInv ==
  sound /\ ~suspended /\ ~card.spoilt => Fit(card) /\ card.chip.mode = "tran"

(* A card that expects to be told will be, as long as the flag is set; a   *)
(* board that can cut all power tells it whenever it suspends.             *)
NotifyInv ==
  /\ suspended /\ card.board.fullCycle => ~card.mem.notify
  /\ sound /\ card.chip.notify =>
       card.mem.notify \/ (suspended /\ Told(card.chip))

ShutdownInv ==
  system \in {"haltResumed", "down"} /\ suspended /\ sound /\ card.chip.notify =>
    Told(card.chip)

Active == {u \in Users : pc[u] # "out"}

StopInv ==
  /\ system \in {"prepared", "stopped", "disable", "asleep", "failed", "woken"} =>
       Watchers \subseteq stopped /\ Out(Watchers)
  /\ system \in {"stopped", "disable", "asleep", "failed", "woken", "halt",
                 "haltResumed", "down"} =>
       Queue \subseteq stopped /\ Out(Queue)

(* Every reference is a user's, but for one of a sleep or a shutdown.      *)
UsersInv ==
  /\ \A u \in Users : pc[u] = "serve" <=> holder = u
  /\ IsFiniteSet(Active)
  /\ rpm.usage = Cardinality(Active) + (IF system = "run" THEN 0 ELSE 1)

RpmInv ==
  /\ rpm.error => rpm.status = "active"
  /\ rpm.disabled => system = "asleep"
  /\ rpm.status = "suspending" =>
       system = "run" /\ \A u \in Users : pc[u] \in {"out", "get"}
  /\ \A u \in Users : pc[u] = "resume" => rpm.status = "resuming"
  /\ \A u, v \in Users : pc[u] = "resume" /\ pc[v] = "resume" => u = v
  /\ \A u \in Users : pc[u] \in {"claim", "serve", "put"} => rpm.status = "active"
  /\ suspended /\ system \notin {"disable", "down"} =>
       rpm.status \in {"suspended", "resuming"}

CardGood == CardInv /\ BusInv /\ OffClean /\ NotifyInv

IInv == TypeOK /\ CardGood /\ ShutdownInv /\ StopInv /\ UsersInv /\ RpmInv

-----------------------------------------------------------------------------
(* The card's side of every step.                                          *)

LEMMA InitialisedOutcome ==
  ASSUME NEW b, NEW t, <<b, t>> \in Setups, NEW f \in FieldsOf(t),
         NEW x \in Initialised[<<b, t, f>>]
  PROVE  Come(b, t, x)
<1>1. <<b, t, f>> \in
        UNION {{<<st[1], st[2], g>> : g \in FieldsOf(st[2])} : st \in Setups}
  <2> DEFINE K(st) == {<<st[1], st[2], g>> : g \in FieldsOf(st[2])}
  <2>1. <<b, t, f>> \in K(<<b, t>>)
    OBVIOUS
  <2> HIDE DEF K
  <2>2. <<b, t, f>> \in UNION {K(st) : st \in Setups}
    BY <2>1
  <2> QED BY <2>2 DEF K
<1>2. Initialised[<<b, t, f>>] = mmc_init_card(PoweredUp(b, t, f))
  BY <1>1 DEF Initialised
<1> QED BY <1>2, InitOutcome

(* Only the result of the last function differs.                           *)
LEMMA ResultOnly ==
  ASSUME CardGood, card' = [card EXCEPT !.ret = "ok"], UNCHANGED <<suspended, sound>>
  PROVE  CardGood' /\ (ShutdownInv /\ system' = system => ShutdownInv')
<1>1. /\ card' \in Sessions /\ card'.board = card.board /\ card'.traits = card.traits
      /\ card'.ios = card.ios /\ card'.chip = card.chip /\ card'.mem = card.mem
      /\ card'.spoilt = card.spoilt
  BY DEF CardGood, CardInv, Sessions
<1> QED
  BY <1>1 DEF CardGood, CardInv, BusInv, OffClean, NotifyInv, ShutdownInv, Fit

LEMMA UntouchedKeeps ==
  ASSUME CardGood, Untouched
  PROVE  CardGood'
  BY DEF Untouched, CardGood, CardInv, BusInv, OffClean, NotifyInv, Fit

LEMMA SuspendedKeeps ==
  ASSUME CardGood, NEW is \in BOOLEAN, Suspended(is)
  PROVE  /\ CardGood' /\ (card'.ret # "ok" => ~suspended')
         /\ sound' /\ suspended' /\ card'.chip.notify /\ ~is =>
              Told(card'.chip) \/ (suspended /\ card'.chip = card.chip)
         /\ sound' => sound
<1>1. CASE suspended
  <2>1. card' = [card EXCEPT !.ret = "ok"] /\ UNCHANGED <<suspended, sound>>
    BY <1>1 DEF Suspended
  <2>2. CardGood'
    BY <2>1, ResultOnly
  <2>3. card'.ret = "ok" /\ card'.chip = card.chip
    BY <2>1 DEF CardGood, CardInv, Sessions
  <2> QED BY <1>1, <2>1, <2>2, <2>3
<1>2. CASE ~suspended
  <2>1. /\ card' \in _mmc_suspend(card, is)
        /\ suspended' = (card'.ret = "ok")
        /\ sound' = (sound /\ card'.ret = "ok")
    BY <1>2 DEF Suspended
  <2>2. Asleep(card, is, card')
    <3>1. /\ card \in Sessions /\ (card.chip.dirty => card.mem.cache)
          /\ (card.chip.bkops => card.mem.bkops \/ ~card.traits.hpi)
      BY DEF CardGood, CardInv
    <3> QED BY <2>1, <3>1, SuspendOutcome
  <2>3. CardInv'
    <3>1. card.ios.power = "on"
      BY <1>2 DEF CardGood, CardInv, Sessions, MmcIos
    <3> QED BY <2>1, <2>2, <3>1 DEF CardGood, CardInv, Asleep, MemFits
  <2>4. BusInv'
    BY <2>1 DEF BusInv
  <2>5. OffClean'
    <3>1. card.ios.power # "off"
      BY <1>2 DEF CardGood, CardInv
    <3> QED BY <2>2, <3>1 DEF OffClean, Asleep
  <2>6. NotifyInv'
    <3>1. sound /\ card.chip.notify => card.mem.notify
      BY <1>2 DEF CardGood, NotifyInv
    <3>2. is \in BOOLEAN /\ card'.board = card.board
      BY <2>2 DEF Asleep
    <3> QED BY <2>1, <2>2, <3>1, <3>2 DEF NotifyInv, Asleep
  <2>7. sound' /\ suspended' /\ card'.chip.notify /\ ~is => Told(card'.chip)
    BY <2>2, <2>6, <2>1 DEF NotifyInv, Asleep
  <2> QED BY <2>1, <2>3, <2>4, <2>5, <2>6, <2>7 DEF CardGood
<1> QED BY <1>1, <1>2

LEMMA ResumedKeeps ==
  ASSUME CardGood, NEW c, Resumed(c)
  PROVE  CardGood' /\ ~suspended'
<1>1. CASE ~suspended
  <2>1. card' = [card EXCEPT !.ret = "ok"] /\ UNCHANGED <<suspended, sound>>
    BY <1>1 DEF Resumed
  <2> QED BY <1>1, <2>1, ResultOnly
<1>2. CASE suspended
  <2>1. /\ card' \in Initialised[<<card.board, card.traits, card.mem>>]
        /\ suspended' = FALSE
        /\ sound' = (card'.ret = "ok")
    BY <1>2 DEF Resumed
  <2>2. card.mem \in FieldsOf(card.traits) /\ <<card.board, card.traits>> \in Setups
    BY <1>2 DEF CardGood, CardInv, FieldsOf, MemFits, Sessions
  <2>3. Come(card.board, card.traits, card')
    BY <2>1, <2>2, InitialisedOutcome
  <2>4. /\ ~Reset.cache /\ ~Reset.dirty /\ ~Reset.bkops
    BY DEF Reset
  <2>5. card'.ret = "ok" \/ card'.chip = Reset
    BY <2>3 DEF Come
  <2>6. CardInv'
    BY <2>1, <2>2, <2>3, <2>4, <2>5 DEF CardInv, Come, Whole, Ready, Quiet
  <2>7. BusInv' /\ OffClean' /\ NotifyInv'
    BY <2>1, <2>3 DEF BusInv, OffClean, NotifyInv, Come, Whole, Ready, Quiet
  <2> QED BY <2>1, <2>6, <2>7 DEF CardGood
<1> QED BY <1>1, <1>2

(* Who works on the card finds it awake.                                   *)
LEMMA Awake ==
  ASSUME IInv, NEW u \in Users, Serving(u)
  PROVE  ~suspended /\ card.ios.power = "on"
<1>1. u \in Queue => system \notin {"disable", "down"}
  BY DEF Serving, IInv, StopInv, Out
<1>2. u \in Watchers => system # "disable"
  BY DEF Serving, IInv, StopInv, Out
<1>3. system \notin {"disable", "down"}
  BY <1>1, <1>2 DEF Serving, Users
<1>4. rpm.status = "active"
  BY DEF Serving, IInv, RpmInv
<1>5. ~suspended
  BY <1>3, <1>4 DEF IInv, RpmInv
<1> QED BY <1>5 DEF IInv, CardGood, CardInv, Sessions, MmcIos

-----------------------------------------------------------------------------
(* What a step leaves alone.                                               *)

LEMMA Typed ==
  ASSUME IInv
  PROVE  /\ pc \in [Users -> Stages] /\ system \in SystemStages
         /\ stopped \subseteq Users
         /\ holder \in Users \cup {Nobody}
         /\ rpm \in [status : {"active", "suspending", "suspended", "resuming"},
                     usage : Nat, disabled : BOOLEAN, error : BOOLEAN]
         /\ suspended \in BOOLEAN /\ sound \in BOOLEAN
  BY DEF IInv, TypeOK

LEMMA Counted ==
  ASSUME IInv
  PROVE  /\ Cardinality(Active) \in Nat /\ IsFiniteSet(Active)
         /\ rpm.usage = 0 => Active = {} /\ system = "run"
  BY Typed, FS_CardinalityType, FS_EmptySet DEF IInv, UsersInv

(* A user goes from one stage to another while it has its reference.       *)
LEMMA Moves ==
  ASSUME IInv, NEW u \in Users, pc[u] # "out", NEW c \in Stages \ {"out"},
         pc' = [pc EXCEPT ![u] = c], UNCHANGED <<system, stopped>>,
         rpm'.usage = rpm.usage
  PROVE  /\ pc' \in [Users -> Stages] /\ pc'[u] = c
         /\ \A v \in Users : v # u => pc'[v] = pc[v]
         /\ StopInv' /\ IsFiniteSet(Active')
         /\ rpm'.usage = Cardinality(Active') + (IF system' = "run" THEN 0 ELSE 1)
<1>1. /\ pc' \in [Users -> Stages] /\ pc'[u] = c
      /\ \A v \in Users : v # u => pc'[v] = pc[v]
  BY Typed
<1>2. Active' = Active
  BY <1>1 DEF Active
<1>3. StopInv'
  BY <1>1 DEF IInv, StopInv, Out, Users
<1> QED BY <1>1, <1>2, <1>3 DEF IInv, UsersInv

(* A step of runtime PM, of the card or of the system moves no user.       *)
LEMMA UsersStay ==
  ASSUME IInv, UNCHANGED <<holder, pc>>,
         rpm'.usage - (IF system' = "run" THEN 0 ELSE 1)
           = rpm.usage - (IF system = "run" THEN 0 ELSE 1),
         rpm'.usage \in Nat
  PROVE  UsersInv'
<1>1. Active' = Active
  BY DEF Active
<1>2. rpm.usage \in Nat /\ Cardinality(Active) \in Nat
  BY Typed, Counted
<1>3. rpm'.usage = Cardinality(Active) + (IF system' = "run" THEN 0 ELSE 1)
  BY <1>2 DEF IInv, UsersInv
<1> QED BY <1>1, <1>3 DEF IInv, UsersInv

LEMMA ShutdownStays ==
  ASSUME IInv, Untouched, system' = system
  PROVE  CardGood' /\ ShutdownInv'
  BY UntouchedKeeps DEF IInv, Untouched, ShutdownInv

LEMMA StopStays ==
  ASSUME IInv, UNCHANGED <<pc, system, stopped>>
  PROVE  StopInv'
  BY DEF IInv, StopInv, Out

LEMMA TypedNext ==
  ASSUME CardGood', suspended' \in BOOLEAN, sound' \in BOOLEAN,
         rpm' \in [status : {"active", "suspending", "suspended", "resuming"},
                   usage : Nat, disabled : BOOLEAN, error : BOOLEAN],
         holder' \in Users \cup {Nobody}, pc' \in [Users -> Stages],
         system' \in SystemStages, stopped' \subseteq Users
  PROVE  TypeOK'
  BY DEF TypeOK, CardGood, CardInv, Sessions

LEMMA SuspendedTyped ==
  ASSUME IInv, NEW is \in BOOLEAN, Suspended(is)
  PROVE  suspended' \in BOOLEAN /\ sound' \in BOOLEAN
  BY Typed DEF Suspended

LEMMA ResumedTyped ==
  ASSUME IInv, NEW c, Resumed(c)
  PROVE  suspended' \in BOOLEAN /\ sound' \in BOOLEAN
  BY Typed DEF Resumed

-----------------------------------------------------------------------------
(* Runtime PM and the users.                                               *)

LEMMA AutosuspendStartStep ==
  ASSUME IInv, AutosuspendStart
  PROVE  IInv'
<1>1. CardGood' /\ ShutdownInv'
  BY ShutdownStays DEF AutosuspendStart
<1>2. StopInv'
  BY StopStays DEF AutosuspendStart
<1>3. rpm'.usage = rpm.usage /\ rpm'.status = "suspending"
      /\ rpm'.error = rpm.error /\ rpm'.disabled = rpm.disabled
      /\ rpm' \in [status : {"active", "suspending", "suspended", "resuming"},
                   usage : Nat, disabled : BOOLEAN, error : BOOLEAN]
  BY Typed DEF AutosuspendStart
<1>4. UsersInv'
  BY <1>3, UsersStay, Typed DEF AutosuspendStart
<1>5. Active = {} /\ system = "run"
  BY Counted DEF AutosuspendStart
<1>6. RpmInv'
  <2>1. \A u \in Users : pc'[u] = "out"
    BY <1>5 DEF Active, AutosuspendStart
  <2>2. ~suspended'
    BY <1>5 DEF IInv, RpmInv, AutosuspendStart, Untouched
  <2> QED BY <1>3, <1>5, <2>1, <2>2 DEF RpmInv, AutosuspendStart
<1>7. TypeOK'
  BY <1>1, <1>3, Typed, TypedNext DEF AutosuspendStart, Untouched
<1> QED BY <1>1, <1>2, <1>4, <1>6, <1>7 DEF IInv

LEMMA RuntimeSuspendStep ==
  ASSUME IInv, mmc_runtime_suspend
  PROVE  IInv'
<1>1. /\ system = "run" /\ system' = "run" /\ \A u \in Users : pc[u] \in {"out", "get"}
      /\ ~suspended
  BY DEF IInv, RpmInv, mmc_runtime_suspend
<1>2. /\ CardGood' /\ suspended' \in BOOLEAN /\ sound' \in BOOLEAN
      /\ card'.ret # "ok" => ~suspended'
  <2>1. CASE card.board.aggressive
    BY <2>1, SuspendedKeeps, SuspendedTyped DEF mmc_runtime_suspend, IInv
  <2>2. CASE ~card.board.aggressive
    <3>1. card' = [card EXCEPT !.ret = "ok"] /\ UNCHANGED <<suspended, sound>>
      BY <2>2 DEF mmc_runtime_suspend
    <3> QED BY <1>1, <3>1, Typed, ResultOnly DEF IInv
  <2> QED BY <2>1, <2>2
<1>3. ShutdownInv'
  BY <1>1 DEF ShutdownInv
<1>4. /\ rpm'.usage = rpm.usage /\ rpm'.disabled = rpm.disabled
      /\ \/ card'.ret = "ok" /\ rpm'.status = "suspended" /\ rpm'.error = rpm.error
         \/ card'.ret # "ok" /\ rpm'.status = "active" /\ rpm'.error
      /\ rpm' \in [status : {"active", "suspending", "suspended", "resuming"},
                   usage : Nat, disabled : BOOLEAN, error : BOOLEAN]
  BY Typed DEF mmc_runtime_suspend
<1>5. StopInv'
  BY StopStays DEF mmc_runtime_suspend
<1>6. UsersInv'
  BY <1>1, <1>4, UsersStay, Typed DEF mmc_runtime_suspend
<1>7. RpmInv'
  <2>1. pc' = pc /\ ~rpm.error
    BY DEF IInv, RpmInv, mmc_runtime_suspend
  <2>2. \A u \in Users : pc'[u] \in {"out", "get"}
    BY <1>1, <2>1
  <2>3. rpm'.disabled => system' = "asleep"
    BY <1>1, <1>4 DEF IInv, RpmInv
  <2> QED BY <1>1, <1>2, <1>4, <2>1, <2>2, <2>3 DEF RpmInv
<1>8. TypeOK'
  BY <1>1, <1>2, <1>4, Typed, TypedNext DEF mmc_runtime_suspend
<1> QED BY <1>2, <1>3, <1>5, <1>6, <1>7, <1>8 DEF IInv

LEMMA GetReferenceStep ==
  ASSUME IInv, NEW u \in Users, GetReference(u)
  PROVE  IInv'
<1>1. CardGood' /\ ShutdownInv'
  BY ShutdownStays DEF GetReference
<1>2. /\ pc' \in [Users -> Stages] /\ pc'[u] = "get" /\ pc[u] = "out"
      /\ \A v \in Users : v # u => pc'[v] = pc[v]
  BY Typed DEF GetReference, Stages
<1>3. /\ rpm'.usage = rpm.usage + 1 /\ rpm'.disabled = rpm.disabled
      /\ rpm'.error = rpm.error /\ rpm'.status = rpm.status
      /\ rpm' \in [status : {"active", "suspending", "suspended", "resuming"},
                   usage : Nat, disabled : BOOLEAN, error : BOOLEAN]
  BY Typed DEF GetReference
<1>4. StopInv'
  BY <1>2 DEF IInv, StopInv, Out, Users, GetReference
<1>5. UsersInv'
  <2>1. Active' = Active \cup {u} /\ u \notin Active
    BY <1>2 DEF Active
  <2>2. IsFiniteSet(Active') /\ Cardinality(Active') = Cardinality(Active) + 1
    BY <2>1, Counted, FS_AddElement
  <2>3. \A v \in Users : pc'[v] = "serve" <=> holder' = v
    BY <1>2 DEF IInv, UsersInv, GetReference
  <2>4. rpm'.usage = Cardinality(Active') + (IF system' = "run" THEN 0 ELSE 1)
    BY <1>3, <2>2, Counted DEF IInv, UsersInv, GetReference
  <2> QED BY <2>2, <2>3, <2>4 DEF UsersInv
<1>6. RpmInv'
  BY <1>2, <1>3 DEF IInv, RpmInv, GetReference, Untouched
<1>7. TypeOK'
  BY <1>1, <1>2, <1>3, Typed, TypedNext DEF GetReference, Untouched
<1> QED BY <1>1, <1>4, <1>5, <1>6, <1>7 DEF IInv

LEMMA GetSyncStep ==
  ASSUME IInv, NEW u \in Users, GetSync(u)
  PROVE  IInv'
<1>1. CardGood' /\ ShutdownInv'
  BY ShutdownStays DEF GetSync
<1>2. ~rpm.disabled
  BY DEF IInv, RpmInv, StopInv, Out, Users, GetSync
<1>3. \/ /\ rpm.status = "active" /\ rpm' = rpm /\ pc' = [pc EXCEPT ![u] = "claim"]
      \/ /\ rpm.status = "suspended" /\ pc' = [pc EXCEPT ![u] = "resume"]
         /\ rpm' = [rpm EXCEPT !.status = "resuming"] /\ ~rpm.error
  BY <1>2, Typed DEF IInv, RpmInv, GetSync, Busy
<1>4. /\ rpm'.usage = rpm.usage /\ rpm'.disabled = rpm.disabled
      /\ rpm'.error = rpm.error
      /\ rpm.status = "active" => rpm' = rpm
      /\ rpm.status # "active" => rpm'.status = "resuming"
      /\ rpm' \in [status : {"active", "suspending", "suspended", "resuming"},
                   usage : Nat, disabled : BOOLEAN, error : BOOLEAN]
  BY <1>3, Typed
<1>5. PICK c \in {"claim", "resume"} :
        /\ pc' = [pc EXCEPT ![u] = c]
        /\ c = "claim" <=> rpm.status = "active"
  BY <1>3
<1>6. /\ pc' \in [Users -> Stages] /\ pc'[u] = c
      /\ \A v \in Users : v # u => pc'[v] = pc[v]
      /\ StopInv' /\ IsFiniteSet(Active')
      /\ rpm'.usage = Cardinality(Active') + (IF system' = "run" THEN 0 ELSE 1)
  BY <1>4, <1>5, Moves DEF GetSync, Stages
<1>7. UsersInv'
  BY <1>6 DEF IInv, UsersInv, GetSync
<1>8. RpmInv'
  <2>1. UNCHANGED <<suspended, system>>
    BY DEF GetSync, Untouched
  <2>2. CASE rpm.status = "active"
    BY <1>3, <1>5, <1>6, <2>1, <2>2 DEF IInv, RpmInv
  <2>3. CASE rpm.status = "suspended" /\ ~rpm.error
    <3>1. \A v \in Users : pc[v] \in {"out", "get"}
      BY <2>3, Typed DEF IInv, RpmInv, Stages
    <3> QED BY <1>2, <1>4, <1>5, <1>6, <2>1, <2>3, <3>1 DEF RpmInv
  <2> QED BY <1>3, <2>2, <2>3
<1>9. TypeOK'
  BY <1>1, <1>4, <1>6, Typed, TypedNext DEF GetSync, Untouched
<1> QED BY <1>1, <1>6, <1>7, <1>8, <1>9 DEF IInv

LEMMA RuntimeResumeStep ==
  ASSUME IInv, NEW u \in Users, mmc_runtime_resume(u)
  PROVE  IInv'
<1>1. CardGood' /\ ~suspended' /\ suspended' \in BOOLEAN /\ sound' \in BOOLEAN
  BY ResumedKeeps, ResumedTyped DEF mmc_runtime_resume, IInv
<1>2. ShutdownInv'
  BY <1>1 DEF ShutdownInv
<1>3. /\ rpm'.usage = rpm.usage /\ rpm'.disabled = rpm.disabled
      /\ rpm'.error = rpm.error
      /\ rpm'.status = "active"
      /\ rpm' \in [status : {"active", "suspending", "suspended", "resuming"},
                   usage : Nat, disabled : BOOLEAN, error : BOOLEAN]
  BY Typed DEF mmc_runtime_resume
<1>4. /\ pc' \in [Users -> Stages] /\ pc'[u] = "claim"
      /\ \A v \in Users : v # u => pc'[v] = pc[v]
      /\ StopInv' /\ IsFiniteSet(Active')
      /\ rpm'.usage = Cardinality(Active') + (IF system' = "run" THEN 0 ELSE 1)
  BY <1>3, Moves DEF mmc_runtime_resume, Stages
<1>5. UsersInv'
  BY <1>4 DEF IInv, UsersInv, mmc_runtime_resume
<1>6. RpmInv'
  BY <1>1, <1>3, <1>4 DEF IInv, RpmInv, mmc_runtime_resume
<1>7. TypeOK'
  BY <1>1, <1>3, <1>4, Typed, TypedNext DEF mmc_runtime_resume
<1> QED BY <1>1, <1>2, <1>4, <1>5, <1>6, <1>7 DEF IInv

LEMMA ClaimHostStep ==
  ASSUME IInv, NEW u \in Users, ClaimHost(u)
  PROVE  IInv'
<1>1. CardGood' /\ ShutdownInv'
  BY ShutdownStays DEF ClaimHost
<1>2. /\ pc' \in [Users -> Stages] /\ pc'[u] = "serve"
      /\ \A v \in Users : v # u => pc'[v] = pc[v]
      /\ StopInv' /\ IsFiniteSet(Active')
      /\ rpm'.usage = Cardinality(Active') + (IF system' = "run" THEN 0 ELSE 1)
  BY Moves DEF ClaimHost, Stages
<1>3. UsersInv'
  <2>1. holder = Nobody
    BY DEF IInv, UsersInv, ClaimHost, Free
  <2>2. \A v \in Users : pc[v] # "serve"
    BY <2>1, UsersAssumption DEF IInv, UsersInv, Users
  <2> QED BY <1>2, <2>2 DEF UsersInv, ClaimHost
<1>4. RpmInv'
  BY <1>2 DEF IInv, RpmInv, ClaimHost, Untouched
<1>5. TypeOK'
  BY <1>1, <1>2, Typed, TypedNext DEF ClaimHost, Untouched
<1> QED BY <1>1, <1>2, <1>3, <1>4, <1>5 DEF IInv

LEMMA ReleaseHostStep ==
  ASSUME IInv, NEW u \in Users, ReleaseHost(u)
  PROVE  IInv'
<1>1. CardGood' /\ ShutdownInv'
  BY ShutdownStays DEF ReleaseHost
<1>2. /\ pc' \in [Users -> Stages] /\ pc'[u] = "put"
      /\ \A v \in Users : v # u => pc'[v] = pc[v]
      /\ StopInv' /\ IsFiniteSet(Active')
      /\ rpm'.usage = Cardinality(Active') + (IF system' = "run" THEN 0 ELSE 1)
  BY Moves DEF ReleaseHost, Stages
<1>3. UsersInv'
  <2>1. holder = u /\ holder' = Nobody
    BY DEF IInv, UsersInv, ReleaseHost
  <2>2. \A v \in Users : pc'[v] # "serve"
    BY <1>2, <2>1 DEF IInv, UsersInv
  <2> QED BY <1>2, <2>1, <2>2, UsersAssumption DEF UsersInv, Users
<1>4. RpmInv'
  BY <1>2 DEF IInv, RpmInv, ReleaseHost, Untouched
<1>5. TypeOK'
  BY <1>1, <1>2, Typed, TypedNext DEF ReleaseHost, Untouched
<1> QED BY <1>1, <1>2, <1>3, <1>4, <1>5 DEF IInv

LEMMA PutReferenceStep ==
  ASSUME IInv, NEW u \in Users, PutReference(u)
  PROVE  IInv'
<1>1. CardGood' /\ ShutdownInv'
  BY ShutdownStays DEF PutReference
<1>2. /\ pc' \in [Users -> Stages] /\ pc'[u] = "out" /\ pc[u] = "put"
      /\ \A v \in Users : v # u => pc'[v] = pc[v]
  BY Typed DEF PutReference, Stages
<1>3. /\ Active' = Active \ {u} /\ u \in Active
      /\ IsFiniteSet(Active') /\ Cardinality(Active') = Cardinality(Active) - 1
  <2>1. Active' = Active \ {u} /\ u \in Active
    BY <1>2 DEF Active
  <2> QED BY <2>1, Counted, FS_RemoveElement
<1>4. Cardinality(Active') \in Nat
  BY <1>3, FS_CardinalityType
<1>5. /\ rpm'.usage = rpm.usage - 1 /\ rpm'.disabled = rpm.disabled
      /\ rpm'.error = rpm.error /\ rpm'.status = rpm.status
  BY Typed DEF PutReference
<1>6. rpm'.usage = Cardinality(Active') + (IF system' = "run" THEN 0 ELSE 1)
  BY <1>3, <1>5, Counted DEF IInv, UsersInv, PutReference
<1>7. rpm' \in [status : {"active", "suspending", "suspended", "resuming"},
                usage : Nat, disabled : BOOLEAN, error : BOOLEAN]
  BY <1>4, <1>6, Typed DEF PutReference
<1>8. StopInv'
  BY <1>2 DEF IInv, StopInv, Out, Users, PutReference
<1>9. UsersInv'
  BY <1>2, <1>3, <1>6 DEF IInv, UsersInv, PutReference
<1>10. RpmInv'
  BY <1>2, <1>5 DEF IInv, RpmInv, PutReference, Untouched
<1>11. TypeOK'
  BY <1>1, <1>2, <1>7, Typed, TypedNext DEF PutReference, Untouched
<1> QED BY <1>1, <1>8, <1>9, <1>10, <1>11 DEF IInv

-----------------------------------------------------------------------------
(* The driver and the card.                                                *)

LEMMA CardOnly ==
  ASSUME IInv, CardGood', ShutdownInv',
         UNCHANGED <<suspended, sound, rpm, holder, pc, system, stopped>>
  PROVE  IInv'
<1>1. StopInv'
  BY StopStays
<1>2. UsersInv'
  BY UsersStay, Typed
<1>3. RpmInv'
  BY DEF IInv, RpmInv
<1>4. TypeOK'
  BY Typed, TypedNext
<1> QED BY <1>1, <1>2, <1>3, <1>4 DEF IInv

LEMMA WriteStep ==
  ASSUME IInv, NEW u \in Users, Write(u)
  PROVE  IInv'
<1>1. ~suspended /\ card.ios.power = "on"
  BY Awake DEF Write, Serving
<1>2. card \in Sessions
  BY DEF IInv, CardGood, CardInv
<1>3. /\ card' \in Sessions /\ card'.board = card.board /\ card'.traits = card.traits
      /\ card'.ios = card.ios /\ card'.mem = card.mem /\ card'.spoilt = card.spoilt
      /\ card'.chip = [card.chip EXCEPT !.dirty = TRUE]
  BY <1>2 DEF Sessions, Chips, Write
<1>4. /\ card'.chip.cache = card.chip.cache /\ card'.chip.cmdq = card.chip.cmdq
      /\ card'.chip.notify = card.chip.notify /\ card'.chip.bkops = card.chip.bkops
      /\ card'.chip.mode = card.chip.mode /\ card'.chip.refused = card.chip.refused
      /\ card'.chip.timing = card.chip.timing /\ card'.chip.width = card.chip.width
      /\ card'.chip.data = card.chip.data
  BY <1>2, <1>3 DEF Sessions, Chips
<1>5. /\ card.chip.cache
      /\ UNCHANGED <<suspended, sound, rpm, holder, pc, system, stopped>>
  BY DEF Write
<1>6. CardInv'
  BY <1>3, <1>4, <1>5 DEF IInv, CardGood, CardInv
<1>7. BusInv' /\ OffClean'
  BY <1>1, <1>3, <1>4, <1>5 DEF IInv, CardGood, BusInv, OffClean, Fit, Agree
<1>8. NotifyInv' /\ ShutdownInv'
  BY <1>1, <1>3, <1>4, <1>5 DEF IInv, CardGood, NotifyInv, ShutdownInv
<1> QED BY <1>5, <1>6, <1>7, <1>8, CardOnly DEF CardGood

LEMMA StartBkopsStep ==
  ASSUME IInv, NEW u \in Users, mmc_start_bkops(u)
  PROVE  IInv'
<1>1. ~suspended /\ card.ios.power = "on"
  BY Awake DEF mmc_start_bkops, Serving
<1>2. card \in Sessions
  BY DEF IInv, CardGood, CardInv
<1>3. /\ card' \in Sessions /\ card'.board = card.board /\ card'.traits = card.traits
      /\ card'.ios = card.ios /\ card'.spoilt = card.spoilt
      /\ card'.chip = [card.chip EXCEPT !.bkops = TRUE]
      /\ card'.mem = [card.mem EXCEPT !.bkops = TRUE]
  BY <1>2 DEF Sessions, Chips, Fields, mmc_start_bkops
<1>4. /\ card'.chip.cache = card.chip.cache /\ card'.chip.cmdq = card.chip.cmdq
      /\ card'.chip.notify = card.chip.notify /\ card'.chip.dirty = card.chip.dirty
      /\ card'.chip.mode = card.chip.mode /\ card'.chip.refused = card.chip.refused
      /\ card'.chip.timing = card.chip.timing /\ card'.chip.width = card.chip.width
      /\ card'.chip.data = card.chip.data
  BY <1>2, <1>3 DEF Sessions, Chips
<1>5. /\ card'.mem.bkops /\ card'.mem.cache = card.mem.cache
      /\ card'.mem.cmdq = card.mem.cmdq /\ card'.mem.notify = card.mem.notify
      /\ card'.mem.cmdqSupport = card.mem.cmdqSupport
  BY <1>2, <1>3 DEF Sessions, Fields
<1>6. UNCHANGED <<suspended, sound, rpm, holder, pc, system, stopped>>
  BY DEF mmc_start_bkops
<1>7. CardInv'
  BY <1>1, <1>3, <1>4, <1>5, <1>6 DEF IInv, CardGood, CardInv, MemFits
<1>8. BusInv' /\ OffClean'
  BY <1>1, <1>3, <1>4, <1>6 DEF IInv, CardGood, BusInv, OffClean, Fit, Agree
<1>9. NotifyInv' /\ ShutdownInv'
  BY <1>1, <1>3, <1>4, <1>5, <1>6 DEF IInv, CardGood, NotifyInv, ShutdownInv
<1> QED BY <1>6, <1>7, <1>8, <1>9, CardOnly DEF CardGood

LEMMA BkopsEndStep ==
  ASSUME IInv, BkopsEnd
  PROVE  IInv'
<1>1. card \in Sessions /\ ~suspended
  BY DEF IInv, CardGood, CardInv, BkopsEnd
<1>2. /\ card' \in Sessions /\ card'.board = card.board /\ card'.traits = card.traits
      /\ card'.ios = card.ios /\ card'.mem = card.mem /\ card'.spoilt = card.spoilt
      /\ card'.chip = [card.chip EXCEPT !.bkops = FALSE]
  BY <1>1 DEF Sessions, Chips, BkopsEnd
<1>3. /\ card'.chip.cache = card.chip.cache /\ card'.chip.cmdq = card.chip.cmdq
      /\ card'.chip.notify = card.chip.notify /\ card'.chip.dirty = card.chip.dirty
      /\ card'.chip.mode = card.chip.mode /\ card'.chip.refused = card.chip.refused
      /\ card'.chip.timing = card.chip.timing /\ card'.chip.width = card.chip.width
      /\ card'.chip.data = card.chip.data /\ ~card'.chip.bkops
  BY <1>1, <1>2 DEF Sessions, Chips
<1>4. UNCHANGED <<suspended, sound, rpm, holder, pc, system, stopped>>
  BY DEF BkopsEnd
<1>5. CardInv'
  BY <1>2, <1>3, <1>4 DEF IInv, CardGood, CardInv
<1>6. BusInv' /\ OffClean'
  BY <1>1, <1>2, <1>3, <1>4 DEF IInv, CardGood, BusInv, OffClean, Fit, Agree
<1>7. NotifyInv' /\ ShutdownInv'
  BY <1>1, <1>2, <1>3, <1>4 DEF IInv, CardGood, NotifyInv, ShutdownInv
<1> QED BY <1>4, <1>5, <1>6, <1>7, CardOnly DEF CardGood

-----------------------------------------------------------------------------
(* The sleep and the shutdown of the system.                               *)

(* A step of the system that touches neither the card nor the users.       *)
LEMMA SystemOnly ==
  ASSUME IInv, Untouched, UNCHANGED <<holder, pc>>,
         system' \in SystemStages, stopped' \subseteq Users,
         rpm' \in [status : {"active", "suspending", "suspended", "resuming"},
                   usage : Nat, disabled : BOOLEAN, error : BOOLEAN],
         rpm'.usage - (IF system' = "run" THEN 0 ELSE 1)
           = rpm.usage - (IF system = "run" THEN 0 ELSE 1),
         system' \in {"haltResumed", "down"} => system = system',
         StopInv', RpmInv'
  PROVE  IInv'
<1>1. CardGood'
  BY UntouchedKeeps DEF IInv
<1>2. ShutdownInv'
  BY DEF IInv, ShutdownInv, Untouched
<1>3. UsersInv'
  BY UsersStay
<1>4. TypeOK'
  BY <1>1, Typed, TypedNext DEF Untouched
<1> QED BY <1>1, <1>2, <1>3, <1>4 DEF IInv

LEMMA PrepareStep ==
  ASSUME IInv, Prepare
  PROVE  IInv'
<1>1. /\ rpm'.usage = rpm.usage + 1 /\ rpm'.disabled = rpm.disabled
      /\ rpm'.error = rpm.error /\ rpm'.status = rpm.status
      /\ rpm' \in [status : {"active", "suspending", "suspended", "resuming"},
                   usage : Nat, disabled : BOOLEAN, error : BOOLEAN]
  BY Typed DEF Prepare
<1>2. StopInv'
  BY DEF IInv, StopInv, Out, Prepare, At
<1>3. RpmInv'
  BY <1>1 DEF IInv, RpmInv, Prepare, At, Untouched, Busy
<1>4. system = "run" /\ system' = "prepared" /\ rpm.usage \in Nat
  BY Typed DEF Prepare, At
<1>5. rpm'.usage - (IF system' = "run" THEN 0 ELSE 1)
        = rpm.usage - (IF system = "run" THEN 0 ELSE 1)
  BY <1>1, <1>4
<1> QED BY <1>1, <1>2, <1>3, <1>4, <1>5, SystemOnly, Typed
        DEF Prepare, SystemStages, Users

LEMMA DriverSuspendStep ==
  ASSUME IInv, DriverSuspend
  PROVE  IInv'
<1>1. system = "prepared" /\ system' = "stopped" /\ rpm' = rpm
  BY DEF DriverSuspend, At
<1>2. StopInv'
  BY DEF IInv, StopInv, Out, DriverSuspend, At
<1>3. RpmInv'
  BY DEF IInv, RpmInv, DriverSuspend, At, Untouched, Busy
<1> QED BY <1>1, <1>2, <1>3, SystemOnly, Typed DEF DriverSuspend, SystemStages, Users

LEMMA SuspendStep ==
  ASSUME IInv, mmc_suspend
  PROVE  IInv'
<1>1. /\ CardGood' /\ (card'.ret # "ok" => ~suspended')
      /\ suspended' \in BOOLEAN /\ sound' \in BOOLEAN
  BY SuspendedKeeps, SuspendedTyped DEF mmc_suspend, IInv
<1>2. /\ system = "stopped"
      /\ \/ system' = "disable"
         \/ system' = "failed" /\ ~suspended'
  BY <1>1 DEF mmc_suspend
<1>3. ShutdownInv'
  BY <1>2 DEF ShutdownInv
<1>4. StopInv'
  BY <1>2 DEF IInv, StopInv, Out, mmc_suspend
<1>5. UsersInv'
  BY <1>2, UsersStay, Typed DEF mmc_suspend
<1>6. RpmInv'
  BY <1>2 DEF IInv, RpmInv, mmc_suspend
<1>7. TypeOK'
  BY <1>1, <1>2, Typed, TypedNext DEF mmc_suspend, SystemStages
<1> QED BY <1>1, <1>3, <1>4, <1>5, <1>6, <1>7 DEF IInv

LEMMA SuspendDisablesStep ==
  ASSUME IInv, mmc_suspendDisables
  PROVE  IInv'
<1>1. system = "disable" /\ system' = "asleep"
  BY DEF mmc_suspendDisables, At
<1>2. /\ rpm'.usage = rpm.usage /\ rpm'.disabled
      /\ ~rpm'.error /\ rpm'.status = "suspended"
      /\ rpm' \in [status : {"active", "suspending", "suspended", "resuming"},
                   usage : Nat, disabled : BOOLEAN, error : BOOLEAN]
  BY Typed DEF mmc_suspendDisables
<1>3. StopInv'
  BY <1>1 DEF IInv, StopInv, Out, mmc_suspendDisables
<1>4. \A u \in Users : pc'[u] = "out"
  BY <1>1 DEF IInv, StopInv, Out, Users, mmc_suspendDisables
<1>5. RpmInv'
  BY <1>1, <1>2, <1>4 DEF RpmInv
<1> QED BY <1>1, <1>2, <1>3, <1>5, SystemOnly, Typed
        DEF mmc_suspendDisables, SystemStages

LEMMA ResumeStep ==
  ASSUME IInv, mmc_resume
  PROVE  IInv'
<1>1. system = "asleep" /\ system' = "woken"
  BY DEF mmc_resume, At
<1>2. /\ rpm'.usage = rpm.usage /\ ~rpm'.disabled
      /\ rpm'.error = rpm.error /\ rpm'.status = rpm.status
      /\ rpm' \in [status : {"active", "suspending", "suspended", "resuming"},
                   usage : Nat, disabled : BOOLEAN, error : BOOLEAN]
  BY Typed DEF mmc_resume
<1>3. StopInv'
  BY <1>1 DEF IInv, StopInv, Out, mmc_resume
<1>4. RpmInv'
  BY <1>1, <1>2 DEF IInv, RpmInv, mmc_resume, Untouched
<1> QED BY <1>1, <1>2, <1>3, <1>4, SystemOnly, Typed DEF mmc_resume, SystemStages

LEMMA DriverResumeStep ==
  ASSUME IInv, DriverResume
  PROVE  IInv'
<1>1. system \in {"woken", "failed"} /\ system' = "run"
  BY DEF DriverResume
<1>2. /\ rpm'.usage = rpm.usage - 1 /\ rpm'.disabled = rpm.disabled
      /\ rpm'.error = rpm.error /\ rpm'.status = rpm.status
  BY Typed DEF DriverResume
<1>3. rpm.usage = Cardinality(Active) + 1 /\ Cardinality(Active) \in Nat
  BY <1>1, Counted DEF IInv, UsersInv
<1>4. /\ rpm' \in [status : {"active", "suspending", "suspended", "resuming"},
                   usage : Nat, disabled : BOOLEAN, error : BOOLEAN]
  BY <1>2, <1>3, Typed DEF DriverResume
<1>5. StopInv'
  BY <1>1 DEF StopInv
<1>6. RpmInv'
  BY <1>1, <1>2 DEF IInv, RpmInv, DriverResume, Untouched
<1>7. rpm'.usage - (IF system' = "run" THEN 0 ELSE 1)
        = rpm.usage - (IF system = "run" THEN 0 ELSE 1)
  BY <1>1, <1>2, <1>3
<1> QED BY <1>1, <1>4, <1>5, <1>6, <1>7, SystemOnly, Typed
        DEF DriverResume, SystemStages

LEMMA ShutdownStartStep ==
  ASSUME IInv, ShutdownStart
  PROVE  IInv'
<1>1. /\ rpm'.usage = rpm.usage + 1 /\ rpm'.disabled = rpm.disabled
      /\ rpm'.error = rpm.error /\ rpm'.status = rpm.status
      /\ rpm' \in [status : {"active", "suspending", "suspended", "resuming"},
                   usage : Nat, disabled : BOOLEAN, error : BOOLEAN]
  BY Typed DEF ShutdownStart
<1>2. system = "run" /\ system' = "halting" /\ rpm.usage \in Nat
  BY Typed DEF ShutdownStart, At
<1>3. StopInv'
  BY <1>2 DEF StopInv
<1>4. RpmInv'
  BY <1>1, <1>2 DEF IInv, RpmInv, ShutdownStart, Untouched, Busy
<1>5. rpm'.usage - (IF system' = "run" THEN 0 ELSE 1)
        = rpm.usage - (IF system = "run" THEN 0 ELSE 1)
  BY <1>1, <1>2
<1> QED BY <1>1, <1>2, <1>3, <1>4, <1>5, SystemOnly, Typed
        DEF ShutdownStart, SystemStages

LEMMA DriverShutdownStep ==
  ASSUME IInv, DriverShutdown
  PROVE  IInv'
<1>1. system = "halting" /\ system' = "halt" /\ rpm' = rpm
  BY DEF DriverShutdown, At
<1>2. StopInv'
  BY <1>1 DEF IInv, StopInv, Out, DriverShutdown
<1>3. RpmInv'
  BY <1>1 DEF IInv, RpmInv, DriverShutdown, Untouched
<1> QED BY <1>1, <1>2, <1>3, SystemOnly, Typed DEF DriverShutdown, SystemStages, Users

LEMMA ShutdownStep ==
  ASSUME IInv, mmc_shutdown
  PROVE  IInv'
<1>1. system = "halt" /\ system' \in {"haltResumed", "down"}
  BY DEF mmc_shutdown
<1>2. /\ CardGood' /\ suspended' \in BOOLEAN /\ sound' \in BOOLEAN /\ ShutdownInv'
      /\ suspended' => suspended
  <2>1. CASE mmc_can_poweroff_notify(card) /\ ~card.board.fullCycle
    <3>1. CardGood' /\ ~suspended' /\ suspended' \in BOOLEAN /\ sound' \in BOOLEAN
      BY <2>1, ResumedKeeps, ResumedTyped DEF mmc_shutdown, IInv
    <3> QED BY <3>1 DEF ShutdownInv
  <2>2. CASE ~(mmc_can_poweroff_notify(card) /\ ~card.board.fullCycle)
    <3>1. card' = [card EXCEPT !.ret = "ok"] /\ UNCHANGED <<suspended, sound>>
      BY <2>2 DEF mmc_shutdown
    <3>2. CardGood'
      BY <3>1, ResultOnly DEF IInv
    <3>3. suspended => ~card.mem.notify
      BY <2>2 DEF IInv, CardGood, NotifyInv, mmc_can_poweroff_notify
    <3>4. card'.mem = card.mem
      BY <3>1 DEF IInv, CardGood, CardInv, Sessions
    <3>5. ShutdownInv'
      BY <3>1, <3>2, <3>3, <3>4 DEF CardGood, NotifyInv, ShutdownInv
    <3> QED BY <3>1, <3>2, <3>5, Typed
  <2> QED BY <2>1, <2>2
<1>3. StopInv'
  BY <1>1 DEF IInv, StopInv, Out, mmc_shutdown
<1>4. UsersInv'
  BY <1>1, UsersStay, Typed DEF mmc_shutdown
<1>5. RpmInv'
  BY <1>1, <1>2 DEF IInv, RpmInv, mmc_shutdown
<1>6. TypeOK'
  BY <1>1, <1>2, Typed, TypedNext DEF mmc_shutdown, SystemStages
<1> QED BY <1>2, <1>3, <1>4, <1>5, <1>6 DEF IInv

LEMMA ShutdownSuspendsStep ==
  ASSUME IInv, mmc_shutdownSuspends
  PROVE  IInv'
<1>1. system = "haltResumed" /\ system' = "down"
  BY DEF mmc_shutdownSuspends, At
<1>2. /\ CardGood' /\ suspended' \in BOOLEAN /\ sound' \in BOOLEAN
      /\ sound' /\ suspended' /\ card'.chip.notify =>
           Told(card'.chip) \/ (suspended /\ card'.chip = card.chip)
      /\ sound' => sound
  BY SuspendedKeeps, SuspendedTyped DEF mmc_shutdownSuspends, IInv
<1>3. ShutdownInv'
  BY <1>1, <1>2 DEF IInv, ShutdownInv
<1>4. StopInv'
  BY <1>1 DEF IInv, StopInv, Out, mmc_shutdownSuspends
<1>5. UsersInv'
  BY <1>1, UsersStay, Typed DEF mmc_shutdownSuspends
<1>6. RpmInv'
  BY <1>1 DEF IInv, RpmInv, mmc_shutdownSuspends
<1>7. TypeOK'
  BY <1>1, <1>2, Typed, TypedNext DEF mmc_shutdownSuspends, SystemStages
<1> QED BY <1>2, <1>3, <1>4, <1>5, <1>6, <1>7 DEF IInv

-----------------------------------------------------------------------------
(* The theorems.                                                           *)

LEMMA Initially ==
  ASSUME Init
  PROVE  IInv
<1>1. PICK st \in Setups : card \in Initialised[<<st[1], st[2], NewFields(st[2])>>]
                           /\ card.ret = "ok"
  BY DEF Init, Attached
<1>2. PICK b \in MmcBoards, t \in MmcTraits : st = <<b, t>>
  BY <1>1, SetupsAssumption
<1>3. NewFields(t) \in FieldsOf(t) /\ NewFields(t).notify = FALSE
  BY DEF NewFields, FieldsOf, Fields, MmcTraits
<1>4. Come(b, t, card)
  BY <1>1, <1>2, <1>3, InitialisedOutcome
<1>5. suspended = FALSE /\ sound = TRUE
  BY DEF Init
<1>6. CardInv
  BY <1>1, <1>2, <1>4, <1>5 DEF CardInv, Come, Whole, Ready, Quiet
<1>7. BusInv /\ OffClean /\ NotifyInv
  BY <1>1, <1>4, <1>5 DEF BusInv, OffClean, NotifyInv, Come, Whole, Ready, Quiet
<1>8. ShutdownInv /\ StopInv
  BY DEF Init, ShutdownInv, StopInv
<1>9. UsersInv
  <2>1. Active = {}
    BY DEF Init, Active
  <2>2. IsFiniteSet(Active) /\ Cardinality(Active) = 0
    BY <2>1, FS_EmptySet
  <2> QED BY <2>2, UsersAssumption DEF Init, UsersInv, Users
<1>10. RpmInv
  BY DEF Init, RpmInv
<1>11. TypeOK
  BY <1>6 DEF Init, TypeOK, CardInv, Sessions, Stages, SystemStages
<1> QED BY <1>6, <1>7, <1>8, <1>9, <1>10, <1>11 DEF IInv, CardGood

LEMMA NextStep ==
  ASSUME IInv, [Next]_vars
  PROVE  IInv'
<1>1. CASE AutosuspendStart
  BY <1>1, AutosuspendStartStep
<1>2. CASE mmc_runtime_suspend
  BY <1>2, RuntimeSuspendStep
<1>3. CASE BkopsEnd
  BY <1>3, BkopsEndStep
<1>4. CASE SystemStep
  BY <1>4, PrepareStep, DriverSuspendStep, SuspendStep, SuspendDisablesStep, ResumeStep,
     DriverResumeStep, ShutdownStartStep, DriverShutdownStep, ShutdownStep,
     ShutdownSuspendsStep
     DEF SystemStep
<1>5. CASE \E u \in Users : UserStep(u)
  <2>1. PICK u \in Users : UserStep(u)
    BY <1>5
  <2> QED
    BY <2>1, GetReferenceStep, GetSyncStep, RuntimeResumeStep, ClaimHostStep, WriteStep,
       StartBkopsStep, ReleaseHostStep, PutReferenceStep
       DEF UserStep
<1>6. CASE UNCHANGED vars
  <2>1. CardGood' /\ ShutdownInv'
    BY <1>6, ShutdownStays DEF vars, Untouched
  <2> QED BY <1>6, <2>1, CardOnly DEF vars
<1> QED BY <1>1, <1>2, <1>3, <1>4, <1>5, <1>6 DEF Next

(* The invariant holds in every reachable state: what struct mmc_card, the *)
(* registers of the card, the runtime PM state and the users' places say of *)
(* each other.                                                             *)
THEOREM Invariance == Spec => []IInv
<1>1. Init => IInv
  BY Initially
<1>2. IInv /\ [Next]_vars => IInv'
  BY NextStep
<1> QED BY <1>1, <1>2, PTL DEF Spec

(* The fields keep their types; the usage count of the card's device never *)
(* goes below 0, though references are given back by users, by the end of  *)
(* a sleep and never by a shutdown.                                        *)
THEOREM TypeCorrect == Spec => []TypeOK
<1>1. IInv => TypeOK
  BY DEF IInv
<1> QED BY <1>1, Invariance, PTL

(* Whoever has taken the card by mmc_get_card finds it powered and not     *)
(* suspended, though pm_runtime_get_sync comes before the claim and a      *)
(* runtime suspend or a sleep may have come between; only a rescan after   *)
(* the shutdown does not.                                                  *)
THEOREM Served == Spec => []ServedAwake
<1>1. IInv => ServedAwake
  BY Awake DEF ServedAwake
<1> QED BY <1>1, Invariance, PTL

(* Host and card agree on width, timing, clock and level whenever a card   *)
(* that came up is served, after any run of mmc_init_card with any outcome *)
(* of its commands that does not leave the code in the dark (spoilt).      *)
THEOREM Agreed == Spec => []BusAgrees
<1>1. IInv => BusAgrees
  BY Awake DEF BusAgrees, IInv, CardGood, BusInv, Fit
<1> QED BY <1>1, Invariance, PTL

(* The fields of struct mmc_card that outlive a suspend tell of the cache  *)
(* and the command queue what the card's registers do.                     *)
THEOREM FieldsCorrect == Spec => []FieldsTrue
<1>1. IInv => FieldsTrue
  BY DEF FieldsTrue, IInv, CardGood, CardInv
<1> QED BY <1>1, Invariance, PTL

(* _mmc_suspend takes no power from a card with data in its cache, nor     *)
(* from one that still takes commands, unless it refused to be told.       *)
THEOREM Clean == Spec => []OffClean
<1>1. IInv => OffClean
  BY DEF IInv, CardGood
<1> QED BY <1>1, Invariance, PTL

(* A card that expects a power off notification has it after mmc_shutdown, *)
(* even if runtime PM had put it to sleep before.                          *)
THEOREM ToldOff == Spec => []ToldAtShutdown
<1>1. IInv => ToldAtShutdown
  BY DEF ToldAtShutdown, IInv, ShutdownInv, Told
<1> QED BY <1>1, Invariance, PTL

-----------------------------------------------------------------------------
(* The claims made here are those HostLock allows.                         *)
Lock == INSTANCE HostLock WITH Groups <- Users,
          owner <- holder, depth <- IF holder = Nobody THEN 0 ELSE 1

LEMMA HolderSteps ==
  ASSUME IInv, [Next]_vars
  PROVE  \/ holder = Nobody /\ holder' \in Users
         \/ holder # Nobody /\ holder' = Nobody
         \/ UNCHANGED holder
<1>1. ASSUME NEW u \in Users, ClaimHost(u)
      PROVE  holder = Nobody /\ holder' = u
  BY <1>1 DEF ClaimHost, Free, IInv, UsersInv
<1>2. ASSUME NEW u \in Users, ReleaseHost(u)
      PROVE  holder # Nobody /\ holder' = Nobody
  BY <1>2, UsersAssumption DEF ReleaseHost, IInv, UsersInv, Users
<1>3. ASSUME NEW u \in Users,
             \/ GetReference(u) \/ GetSync(u) \/ mmc_runtime_resume(u)
             \/ Write(u) \/ mmc_start_bkops(u) \/ PutReference(u)
      PROVE  UNCHANGED holder
  BY <1>3 DEF GetReference, GetSync, mmc_runtime_resume, Write, mmc_start_bkops,
              PutReference
<1>4. ASSUME SystemStep PROVE UNCHANGED holder
  BY <1>4 DEF SystemStep, Prepare, DriverSuspend, mmc_suspend, mmc_suspendDisables,
              mmc_resume, DriverResume, ShutdownStart, DriverShutdown, mmc_shutdown,
              mmc_shutdownSuspends
<1>5. ASSUME AutosuspendStart \/ mmc_runtime_suspend \/ BkopsEnd \/ UNCHANGED vars
      PROVE  UNCHANGED holder
  BY <1>5 DEF AutosuspendStart, mmc_runtime_suspend, BkopsEnd, vars
<1> QED
  BY <1>1, <1>2, <1>3, <1>4, <1>5 DEF Next, UserStep

(* Users of the card take the host only when it is free, though they hold  *)
(* their reference before and after, and give it back once; what suspends, *)
(* resumes and a shutdown do with the host ends with it as it was.         *)
THEOREM ClaimsAllowed == Spec => Lock!Spec
<1>1. Init => Lock!Init
  BY DEF Init, Lock!Init
<1>2. IInv /\ [Next]_vars => [Lock!Next]_(Lock!lockVars)
  <2>1. SUFFICES ASSUME IInv, [Next]_vars
                 PROVE  Lock!Next \/ UNCHANGED Lock!lockVars
    OBVIOUS
  <2>2. ASSUME holder = Nobody, holder' \in Users PROVE Lock!Acquire(holder')
    BY <2>2, UsersAssumption DEF Lock!Acquire, Users
  <2>3. ASSUME holder # Nobody, holder' = Nobody PROVE Lock!Release
    BY <2>3 DEF Lock!Release
  <2> QED
    BY <2>1, <2>2, <2>3, HolderSteps DEF Lock!Next, Lock!lockVars
<1> QED
  BY <1>1, <1>2, Invariance, PTL DEF Spec, Lock!Spec
==============================================================================
