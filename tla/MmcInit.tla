-------------------------------- MODULE MmcInit --------------------------------
(***************************************************************************)
(* mmc_init_card of core/mmc.c and what it calls: how an eMMC or MMC card  *)
(* is identified, its timing and bus width chosen and its features turned  *)
(* on.  The thread that runs it has claimed the host, so that nothing but  *)
(* the faults of the card comes between its steps.  Each function is an    *)
(* operator from a session to the sessions it may end in; a session is     *)
(*                                                                         *)
(*   board   what the host can do, constant                                *)
(*   traits  what the card can do, constant                                *)
(*   ios     host->ios                                                     *)
(*   chip    the registers of the card                                     *)
(*   mem     fields of struct mmc_card                                     *)
(*   ret     what the last function returned: "ok", "refused" (-EBADMSG,   *)
(*           the card reports a switch error) or "failed" (anything else)  *)
(*   spoilt  a write that was reported as failed has reached the card, or  *)
(*           the case described at mmc_select_hs400es has occurred         *)
(*                                                                         *)
(* Not here: registers nothing below reads again (ERASE_GROUP_DEF apart    *)
(* from its command, HPI, the power class, driver strength, DSR, the       *)
(* partition), the start of the command queue engine, 1.2 V signalling.    *)
(***************************************************************************)
EXTENDS HostPower

Timings == {"legacy", "hs", "ddr52", "hs200", "hs400", "hs400es"}

MmcBoards ==
  [lines      : {1, 4, 8},    \* MMC_CAP_4_BIT_DATA, MMC_CAP_8_BIT_DATA
   wired      : {1, 4, 8},    \* data lines that reach the card
   drives     : {{33}, {18}, {18, 33}},
   avoid33    : BOOLEAN,      \* MMC_CAP2_AVOID_3_3V
   fullCycle  : BOOLEAN,      \* MMC_CAP2_FULL_PWR_CYCLE
   aggressive : BOOLEAN,      \* MMC_CAP_AGGRESSIVE_PM
   cqe        : BOOLEAN]      \* MMC_CAP2_CQE

(* modes is card->mmc_avail_type: what mmc_select_card_type found both     *)
(* host and card capable of.                                               *)
MmcTraits ==
  [modes    : SUBSET (Timings \ {"legacy"}),
   ext      : BOOLEAN,        \* mmc_can_ext_csd
   sleeps   : BOOLEAN,        \* ext_csd.rev >= 3
   notifies : BOOLEAN,        \* ext_csd.rev >= 6
   cache    : BOOLEAN,        \* ext_csd.cache_size > 0
   cmdq     : BOOLEAN,        \* ext_csd.cmdq_support
   bkops    : BOOLEAN,        \* ext_csd.man_bkops_en
   hpi      : BOOLEAN]        \* ext_csd.hpi_en

MmcIos == [power : {"off", "on"}, clock : {"none", "init", "legacy", "hs", "hs200"},
           level : {33, 18}, width : {1, 4, 8}, timing : Timings]

(* mode is the card's state: identification or lost, transfer, stand-by,   *)
(* asleep, told that power goes; refused is the switch error bit.          *)
Chips == [mode : {"idle", "tran", "stby", "slp", "told"},
          timing : {"legacy", "hs", "hs200", "hs400"}, width : {1, 4, 8},
          data : {"sdr", "ddr", "strobe"}, refused : BOOLEAN,
          notify : BOOLEAN, cache : BOOLEAN, cmdq : BOOLEAN,
          dirty : BOOLEAN, bkops : BOOLEAN]

Reset == [mode |-> "idle", timing |-> "legacy", width |-> 1, data |-> "sdr",
          refused |-> FALSE, notify |-> FALSE, cache |-> FALSE, cmdq |-> FALSE,
          dirty |-> FALSE, bkops |-> FALSE]

Fields == [notify : BOOLEAN, cache : BOOLEAN, cmdq : BOOLEAN,
           cmdqSupport : BOOLEAN, bkops : BOOLEAN]

NewFields(t) == [notify |-> FALSE, cache |-> FALSE, cmdq |-> FALSE,
                 cmdqSupport |-> t.cmdq, bkops |-> FALSE]

-----------------------------------------------------------------------------
(* Commands.                                                               *)

Fail(s)    == [s EXCEPT !.ret = "failed"]
Command(s) == {s, Fail(s)}
Then(S, Op(_)) == UNION {IF s.ret = "ok" THEN Op(s) ELSE {s} : s \in S}

(* A switch whose status is looked at: taken; refused, which the status    *)
(* tells; lost; or taken, but the answer lost.                             *)
mmc_switch(s, chip) ==
  {[s EXCEPT !.chip = chip], [s EXCEPT !.ret = "refused"], Fail(s),
   Fail([s EXCEPT !.chip = chip, !.spoilt = TRUE])}

(* __mmc_switch that sets a timing: before the status is asked for, and    *)
(* back if that fails.                                                     *)
SwitchTimed(s, chip, timing) ==
  Then(mmc_switch(s, chip), LAMBDA x : {[x EXCEPT !.ios.timing = timing]})

(* A switch without send_status: a refusal is left to be found.            *)
SwitchBlind(s, chip) ==
  {[s EXCEPT !.chip = chip], [s EXCEPT !.chip.refused = TRUE], Fail(s),
   Fail([s EXCEPT !.chip = chip, !.spoilt = TRUE])}

(* Asking for the status clears the switch error.                          *)
Answer(s) ==
  IF s.chip.refused THEN [s EXCEPT !.ret = "refused", !.chip.refused = FALSE] ELSE s
StatusIgnored(s) == {s, Fail(s)}
mmc_switch_status(s) == {Answer(s), Fail(s)}

(* crc_err_fatal is FALSE: an answer that came garbled counts as good.     *)
LenientStatus(s) == {Answer(s), [s EXCEPT !.chip.refused = FALSE], Fail(s)}

mmc_set_signal_voltage(s, level) ==
  IF level \in s.board.drives THEN [s EXCEPT !.ios.level = level] ELSE Fail(s)
mmc_set_timing(s, timing) == [s EXCEPT !.ios.timing = timing]
mmc_set_clock(s, clock)   == [s EXCEPT !.ios.clock = clock]

ClockOf(timing) ==
  CASE timing \in {"hs200", "hs400", "hs400es"} -> "hs200"
    [] timing = "hs"                            -> "hs"
    [] OTHER                                    -> "legacy"
mmc_set_bus_speed(s) == mmc_set_clock(s, ClockOf(s.ios.timing))

(* Host and card agree on how data are sent.                               *)
BusOf(timing) ==
  CASE timing = "legacy"  -> <<"legacy", "sdr">>
    [] timing = "hs"      -> <<"hs", "sdr">>
    [] timing = "ddr52"   -> <<"hs", "ddr">>
    [] timing = "hs200"   -> <<"hs200", "sdr">>
    [] timing = "hs400"   -> <<"hs400", "ddr">>
    [] timing = "hs400es" -> <<"hs400", "strobe">>
Agree(ios, chip) ==
  /\ ios.width = chip.width
  /\ BusOf(ios.timing) = <<chip.timing, chip.data>>

(* mmc_compare_ext_csds or mmc_bus_test: data arrive, or they do not.      *)
mmc_bus_test(s) ==
  IF Agree(s.ios, s.chip) /\ s.ios.width <= s.board.wired
  THEN {s, Fail(s)} ELSE {Fail(s)}

-----------------------------------------------------------------------------
(* Bus width and timing.                                                   *)

TryWidth(s, w) ==
  LET sent == mmc_switch([s EXCEPT !.ret = "ok"],
                         [s.chip EXCEPT !.width = w, !.data = "sdr"])
  IN Then(sent, LAMBDA x : mmc_bus_test([x EXCEPT !.ios.width = w]))

(* Eight lines, then four.  With no choice to make it returns 0, which is  *)
(* "ok" here and keeps the width at one line.                              *)
mmc_select_bus_width(s) ==
  LET eight == IF s.board.lines = 8 THEN TryWidth(s, 8) ELSE {Fail(s)}
  IN IF ~s.traits.ext \/ s.board.lines = 1 THEN {s}
     ELSE UNION {IF x.ret = "ok" THEN {x} ELSE TryWidth(x, 4) : x \in eight}

SwitchHs(s) == SwitchBlind(s, [s.chip EXCEPT !.timing = "hs"])
SwitchHs400(s) == SwitchBlind(s, [s.chip EXCEPT !.timing = "hs400"])

mmc_select_hs(s) == SwitchTimed(s, [s.chip EXCEPT !.timing = "hs"], "hs")

(* At 1.8 V if the host can, else at the level of before.                  *)
mmc_select_hs_ddr(s) ==
  IF "ddr52" \notin s.traits.modes \/ s.ios.width = 1 THEN {s}
  ELSE Then(SwitchTimed(s, [s.chip EXCEPT !.data = "ddr"], "ddr52"),
            LAMBDA x : LET y == mmc_set_signal_voltage(x, 18) IN
                       {IF y.ret = "ok" THEN y ELSE mmc_set_signal_voltage(x, 33)})

(* A refused switch puts the timing back; any error puts the level back.   *)
HS200Switched(s) ==
  Then(SwitchBlind(s, [s.chip EXCEPT !.timing = "hs200"]), LAMBDA x :
    {IF y.ret = "refused" THEN mmc_set_timing(y, x.ios.timing) ELSE y :
       y \in LenientStatus(mmc_set_timing(x, "hs200"))})

mmc_select_hs200(s) ==
  LET up   == mmc_set_signal_voltage(s, 18)
      wide == mmc_select_bus_width(up)
      done == Then(wide, LAMBDA x :
                IF x.ios.width = 1 THEN {x} ELSE HS200Switched(x))
  IN IF up.ret # "ok" THEN {up}
     ELSE {IF x.ret = "ok" THEN x ELSE [x EXCEPT !.ios.level = s.ios.level] : x \in done}

(* The host goes down to HS, then up to HS400, each time after the card.   *)
mmc_select_hs400(s) ==
  LET hs    == Then(SwitchHs(s), LAMBDA x :
                 mmc_switch_status(mmc_set_clock(mmc_set_timing(x, "hs"), "hs")))
      ddr   == Then(hs, LAMBDA x : mmc_switch(x, [x.chip EXCEPT !.data = "ddr"]))
      hs400 == Then(ddr, LAMBDA x : SwitchHs400(x))
  IN IF "hs400" \notin s.traits.modes \/ s.ios.width # 8 THEN {s}
     ELSE Then(hs400, LAMBDA x :
            mmc_switch_status(mmc_set_bus_speed(mmc_set_timing(x, "hs400"))))

(* A status that tells of a refusal finds the host's timing changed, and   *)
(* nobody changes it back, though mmc_select_timing takes a refused switch *)
(* for one that changed nothing: such a session is spoilt.                 *)
Spoil(S) == {[x EXCEPT !.spoilt = @ \/ x.ret = "refused"] : x \in S}

mmc_select_hs400es(s) ==
  LET up     == mmc_set_signal_voltage(s, 18)
      wide   == {IF x.ret = "ok" /\ x.ios.width # 8 THEN Fail(x) ELSE x :
                   x \in mmc_select_bus_width(up)}
      hs     == Then(Then(wide, SwitchHs), LAMBDA x :
                  Spoil(mmc_switch_status(mmc_set_timing(x, "hs"))))
      strobe == Then(hs, LAMBDA x : mmc_switch(mmc_set_clock(x, "hs"),
                                               [x.chip EXCEPT !.data = "strobe"]))
  IN IF s.board.lines # 8 THEN {Fail(s)}
     ELSE IF up.ret # "ok" THEN {up}
     ELSE Then(Then(strobe, SwitchHs400), LAMBDA x :
            Spoil(mmc_switch_status(mmc_set_timing(x, "hs400es"))))

mmc_select_timing(s) ==
  LET chosen ==
        IF ~s.traits.ext THEN {s}
        ELSE IF "hs400es" \in s.traits.modes THEN mmc_select_hs400es(s)
        ELSE IF "hs200" \in s.traits.modes THEN mmc_select_hs200(s)
        ELSE IF "hs" \in s.traits.modes THEN mmc_select_hs(s)
        ELSE {s}
  IN {IF x.ret = "failed" THEN x ELSE mmc_set_bus_speed([x EXCEPT !.ret = "ok"]) :
        x \in chosen}

(* Tuning looks for data, which come only if host and card agree.          *)
mmc_hs200_tuning(s) == IF Agree(s.ios, s.chip) THEN Command(s) ELSE {Fail(s)}

(* After the timing: HS200 is tuned and may become HS400; otherwise the    *)
(* width is chosen, and not finding one is no error.                       *)
SelectBus(s) ==
  IF s.ios.timing = "hs200" THEN Then(mmc_hs200_tuning(s), mmc_select_hs400)
  ELSE IF s.ios.timing = "hs400es" THEN {s}
  ELSE UNION {IF x.ret = "ok" /\ x.ios.width # 1 /\ x.ios.timing = "hs"
              THEN mmc_select_hs_ddr(x) ELSE {[x EXCEPT !.ret = "ok"]} :
                x \in mmc_select_bus_width(s)}

-----------------------------------------------------------------------------
(* Features.                                                               *)

(* A refused switch only means that the feature stays off.                 *)
Tolerate(S, Off(_)) ==
  {IF x.ret = "refused" THEN Off([x EXCEPT !.ret = "ok"]) ELSE x : x \in S}
Same(s) == s

EnableEraseGroup(s) ==
  IF s.traits.sleeps THEN Tolerate(mmc_switch(s, s.chip), Same) ELSE {s}

EnableNotification(s) ==
  IF ~s.traits.notifies THEN {s}
  ELSE Tolerate(Then(mmc_switch(s, [s.chip EXCEPT !.notify = TRUE]),
                     LAMBDA x : {[x EXCEPT !.mem.notify = TRUE]}), Same)

EnableCacheKeepsFlag(s) ==
  IF ~s.traits.cache THEN {s}
  ELSE Tolerate(Then(mmc_switch(s, [s.chip EXCEPT !.cache = TRUE]),
                     LAMBDA x : {[x EXCEPT !.mem.cache = TRUE]}), Same)

EnableCache(s) ==
  IF ~s.traits.cache THEN {s}
  ELSE Tolerate(Then(mmc_switch(s, [s.chip EXCEPT !.cache = TRUE]),
                     LAMBDA x : {[x EXCEPT !.mem.cache = TRUE]}),
                LAMBDA x : [x EXCEPT !.mem.cache = FALSE])

mmc_cmdq_enable(s) ==
  Then(mmc_switch(s, [s.chip EXCEPT !.cmdq = TRUE]),
       LAMBDA x : {[x EXCEPT !.mem.cmdq = TRUE]})

EnableQueue(s) ==
  LET off == [s EXCEPT !.mem.cmdq = FALSE]
  IN IF ~(s.mem.cmdqSupport /\ s.board.cqe) THEN {off}
     ELSE Tolerate(mmc_cmdq_enable(off),
                   LAMBDA x : [x EXCEPT !.mem.cmdqSupport = FALSE])

CheckVoltage(s) ==
  IF s.board.avoid33 /\ s.ios.level = 33 THEN {Fail(s)} ELSE {s}

-----------------------------------------------------------------------------
(* From CMD0, which resets the card and takes it out of sleep, to the      *)
(* selection of the card, with one line at the initial clock.              *)
Identify(s) ==
  {Fail(s), [s EXCEPT !.chip = [Reset EXCEPT !.mode = "tran"]]}

(* What has been set up when it fails is of no consequence: the card is    *)
(* freed, or the next thing that works on it is power off and this again.  *)
Unsettled(s) ==
  IF s.ret = "ok" THEN s
  ELSE [s EXCEPT !.chip = Reset, !.spoilt = FALSE, !.ret = "failed",
                 !.ios = [mmc_set_initial_state(s.ios) EXCEPT !.clock = "init"]]

mmc_init_card(s) ==
  LET start    == [s EXCEPT !.ret = "ok", !.spoilt = FALSE]
      powered  == Then(Then(Identify(start), EnableEraseGroup), EnableNotification)
      bus      == Then(Then(powered, mmc_select_timing), SelectBus)
      features == Then(Then(bus, EnableCache), EnableQueue)
  IN {Unsettled(x) : x \in Then(features, CheckVoltage)}
=============================================================================
