------------------------------- MODULE HostPower -------------------------------
(***************************************************************************)
(* The power, clock and signal voltage of a host, as core/core.c keeps     *)
(* them in host->ios, and what they do to the card: operators on records,  *)
(* for the modules that initialise a card.                                 *)
(***************************************************************************)
EXTENDS Naturals

(* What the board can do: its capabilities, the operations its driver has, *)
(* and whether power off reaches the card.                                 *)
Boards ==
  {b \in [uhs       : BOOLEAN,    \* mmc_host_uhs
          wide      : BOOLEAN,    \* MMC_CAP_4_BIT_DATA
          hs        : BOOLEAN,    \* MMC_CAP_SD_HIGHSPEED
          avoid33   : BOOLEAN,    \* MMC_CAP2_AVOID_3_3V
          fullCycle : BOOLEAN,    \* MMC_CAP2_FULL_PWR_CYCLE
          switches  : BOOLEAN,    \* ops->start_signal_voltage_switch
          verifies  : BOOLEAN,    \* ops->card_busy
          drives    : {{33}, {18}, {18, 33}},   \* signal levels, in 0.1 V
          cuts      : BOOLEAN] :  \* the card loses power with the host
     /\ b.uhs => b.wide
     /\ b.fullCycle => b.cuts
     /\ ~b.switches => b.drives = {33}}

Ios == [power : {"off", "on"}, clock : {"none", "init", "fast"},
        level : {33, 18}, width : {1, 4}, timing : {"legacy", "hs", "uhs"}]

mmc_set_initial_signal_voltage(b) == IF 33 \in b.drives THEN 33 ELSE 18

mmc_set_initial_state(i) == [i EXCEPT !.width = 1, !.timing = "legacy"]

mmc_power_off(i) ==
  IF i.power = "off" THEN i
  ELSE [mmc_set_initial_state(i) EXCEPT !.power = "off", !.clock = "none"]

mmc_power_up(b, i) ==
  IF i.power = "on" THEN i
  ELSE [mmc_set_initial_state(i) EXCEPT
          !.power = "on", !.clock = "init",
          !.level = mmc_set_initial_signal_voltage(b)]

mmc_power_cycle(b, i) == mmc_power_up(b, mmc_power_off(i))

-----------------------------------------------------------------------------
(* The card.  It switches its level in two steps, between which it answers *)
(* nothing; its memory and its I/O part have each their bus width, and the *)
(* I/O part its timing.                                                    *)

CardState == [level : {33, 18}, switching : BOOLEAN, width : {1, 4},
              ioWidth : {1, 4}, ioTiming : {"legacy", "hs", "uhs"}]

Fresh(b) == [level |-> mmc_set_initial_signal_voltage(b), switching |-> FALSE,
             width |-> 1, ioWidth |-> 1, ioTiming |-> "legacy"]

Unpowered(b, k) == IF b.cuts THEN Fresh(b) ELSE k

(* The card can answer a command, and send data of its memory part.        *)
Answers(i, k)     == i.power = "on" /\ i.clock # "none" /\ ~k.switching
AnswersData(i, k) == Answers(i, k) /\ i.width = k.width

(* mmc_go_idle resets the memory part, sdio_reset the I/O part; neither is *)
(* checked, and either may be lost.                                        *)
MemReset(k) == [k EXCEPT !.width = 1]
IoReset(k)  == [k EXCEPT !.ioWidth = 1, !.ioTiming = "legacy"]

mmc_go_idle(i, k) == IF Answers(i, k) THEN {k, MemReset(k)} ELSE {k}
sdio_reset(i, k)  == IF Answers(i, k) THEN {k, IoReset(k)} ELSE {k}
ResetBoth(i, k)   == UNION {mmc_go_idle(i, r) : r \in sdio_reset(i, k)}
=============================================================================
