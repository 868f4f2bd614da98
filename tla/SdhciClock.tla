------------------------------- MODULE SdhciClock -------------------------------
(***************************************************************************)
(* The clock of an SDHCI controller (host/sdhci.c): how sdhci_set_clock    *)
(* turns it off, how sdhci_calc_clk finds a divider in the 8 + 2 bits of   *)
(* the clock register, and how sdhci_enable_clk waits for the clock before *)
(* the card gets it.  The card's driver has the host claimed meanwhile;    *)
(* preset values and timing are set between two calls.                     *)
(***************************************************************************)
EXTENDS Naturals, FiniteSetsExt

CONSTANTS
  LowBits,    \* SDHCI_DIV_MASK_LEN: 8 in the code
  HighBits,   \* further bits of the divider since version 3.00: 2
  Word,       \* an unsigned int holds less than this
  Slow,       \* up to this a broken divider 0 is avoided: 25 MHz
  Hosts,      \* controllers
  Clocks      \* clocks that are asked for

(* mul is host->clk_mul: 0 without programmable clock mode.                *)
HostType == [spec300 : BOOLEAN, max_clk : Nat \ {0}, mul : Nat, zeroBroken : BOOLEAN]

ASSUME ClockAssumption ==
  /\ LowBits \in Nat \ {0} /\ HighBits \in Nat \ {0} /\ Word \in Nat \ {0}
  /\ Slow \in Nat /\ Hosts \subseteq HostType /\ Clocks \subseteq Nat

(* The divisors of version 2.00, which each pass of a loop doubles.        *)
Doubled[k \in Nat] == IF k = 0 THEN 1 ELSE 2 * Doubled[k - 1]

Fields    == Doubled[LowBits + HighBits]
MaxDiv200 == Doubled[LowBits]     \* SDHCI_MAX_DIV_SPEC_200
MaxDiv300 == 2 * (Fields - 1)     \* SDHCI_MAX_DIV_SPEC_300

VARIABLES
  host,      \* the controller, constant
  pc,        \* where sdhci_set_clock is; "idle" between two calls
  clock,     \* its argument
  reg,       \* SDHCI_CLOCK_CONTROL: mode, divider, clock to the card
  preset,    \* the preset register for the timing, and whether it is used
  actual     \* mmc->actual_clock

clockVars == <<host, pc, clock, reg, preset, actual>>

NoPreset == [used |-> FALSE, div |-> 0, prog |-> FALSE]
Off == [prog |-> FALSE, div |-> 0, card |-> FALSE]

-----------------------------------------------------------------------------
(* sdhci_calc_clk returns what goes into the register and actual_clock.    *)
(* A loop over divisors ends with the first one that is slow enough, or,   *)
(* without one, with the value that ends it.                               *)

FirstBelow(divs, end, base, c) == Min({d \in divs : base \div d < c} \cup {end})
FirstOf(divs, end, base, c)    == Min({d \in divs : base \div d <= c} \cup {end})

Product(h) == (h.max_clk * h.mul) % Word

Setting(prog, div, base, real) ==
  [prog |-> prog, div |-> div % Fields, actual |-> base \div real]

ProgDivisor(h, c) == FirstOf(1 .. Fields, Fields + 1, Product(h), c)
ProgReaches(h, c) == Product(h) \div ProgDivisor(h, c) <= c
ProgClock(h, c) ==
  LET d == ProgDivisor(h, c) IN Setting(TRUE, d - 1, Product(h), d)

BaseClock(h, c) ==
  LET d == IF h.max_clk <= c THEN 1
           ELSE FirstOf({2 * k : k \in 1 .. Fields - 2}, MaxDiv300, h.max_clk, c)
      broken == h.zeroBroken /\ d = 1 /\ h.max_clk <= Slow
  IN  Setting(FALSE, IF broken THEN 1 ELSE d \div 2, h.max_clk, d)

PowerClock(h, c) ==
  LET d == FirstOf({Doubled[k] : k \in 0 .. LowBits - 1}, MaxDiv200, h.max_clk, c)
  IN  Setting(FALSE, d \div 2, h.max_clk, d)

(* The register, just cleared, reads as 0 or as the preset; the code ors   *)
(* the preset's divider to it.                                             *)
PresetClockOffByOne(h) ==
  IF h.mul > 0 /\ preset.prog
  THEN Setting(TRUE, preset.div, Product(h), Max({1, preset.div}))
  ELSE Setting(FALSE, preset.div, h.max_clk, Max({1, 2 * preset.div}))

PresetClock(h) ==
  IF h.mul > 0 /\ preset.prog
  THEN Setting(TRUE, preset.div, Product(h), preset.div + 1)
  ELSE Setting(FALSE, preset.div, h.max_clk, Max({1, 2 * preset.div}))

sdhci_calc_clk(h, c) ==
  IF ~h.spec300 THEN PowerClock(h, c)
  ELSE IF preset.used THEN PresetClock(h)
  ELSE IF h.mul > 0 /\ ProgReaches(h, c) THEN ProgClock(h, c)
  ELSE BaseClock(h, c)

-----------------------------------------------------------------------------
ClockInit ==
  /\ host \in Hosts
  /\ pc = "idle" /\ clock = 0 /\ actual = 0
  /\ reg = Off
  /\ preset = NoPreset

(* sdhci_set_clock: the clock stops before its divider changes.            *)
SetClock(c) ==
  /\ pc = "idle"
  /\ clock' = c /\ actual' = 0 /\ reg' = Off
  /\ pc' = IF c = 0 THEN "idle" ELSE "calc"
  /\ UNCHANGED <<host, preset>>

(* sdhci_calc_clk, and the first write of sdhci_enable_clk.                *)
Calculate ==
  /\ pc = "calc" /\ pc' = "wait"
  /\ LET s == sdhci_calc_clk(host, clock) IN
     /\ reg' = [prog |-> s.prog, div |-> s.div, card |-> FALSE]
     /\ actual' = s.actual
  /\ UNCHANGED <<host, clock, preset>>

(* sdhci_enable_clk: the internal clock is stable, or is not after 20 ms.  *)
Stable ==
  /\ pc = "wait" /\ pc' = "idle"
  /\ reg' = [reg EXCEPT !.card = TRUE]
  /\ UNCHANGED <<host, clock, preset, actual>>

NeverStable ==
  /\ pc = "wait" /\ pc' = "idle"
  /\ UNCHANGED <<host, clock, reg, preset, actual>>

(* The driver (not in the repository) sets host->timing and turns preset   *)
(* values on, with the card's clock off.  Programmable presets are for     *)
(* controllers that have the mode.                                         *)
UsePreset(div, prog) ==
  /\ pc = "idle" /\ ~reg.card /\ host.spec300 /\ (prog => host.mul > 0)
  /\ preset' = [used |-> TRUE, div |-> div, prog |-> prog]
  /\ UNCHANGED <<host, pc, clock, reg, actual>>

(* sdhci_do_reset with SDHCI_RESET_ALL.                                    *)
ResetAll ==
  /\ pc = "idle" /\ reg' = Off
  /\ preset' = NoPreset
  /\ UNCHANGED <<host, pc, clock, actual>>

ClockNext ==
  \/ \E c \in Clocks : SetClock(c)
  \/ Calculate \/ Stable \/ NeverStable \/ ResetAll
  \/ \E div \in 0 .. Fields - 1, prog \in BOOLEAN : UsePreset(div, prog)

ClockSpec == ClockInit /\ [][ClockNext]_clockVars

-----------------------------------------------------------------------------
(* What the controller makes of its register, by the SD host specification *)
(* (external): the base clock over twice the divider, where 0 stands for   *)
(* the base clock itself, or the multiplied clock over the divider plus 1. *)
Made(h, prog, div) ==
  IF prog THEN (h.max_clk * h.mul) \div (div + 1)
  ELSE h.max_clk \div Max({1, 2 * div})
Driven == Made(host, reg.prog, reg.div)

(* All clocks a controller can make.                                       *)
BaseClocks(h) ==
  {Made(h, FALSE, d) : d \in IF h.spec300 THEN 0 .. Fields - 1
                             ELSE {0} \cup {Doubled[k] : k \in 0 .. LowBits - 1}}
ProgClocks(h) ==
  IF h.spec300 /\ h.mul > 0 THEN {Made(h, TRUE, d) : d \in 0 .. Fields - 1} ELSE {}

(* The multiplied clock fits into an unsigned int.                         *)
Fits == host.max_clk * host.mul < Word

(* The request lies just below the slowest multiplied clock: one more step *)
(* of the loop would reach it, but its divisor has no place in the field.  *)
InGap ==
  /\ host.spec300 /\ host.mul > 0 /\ ~preset.used
  /\ Product(host) \div Fields > clock
  /\ Product(host) \div (Fields + 1) <= clock

(* sdhci_calc_clk avoids divider 0 on such a controller.                   *)
ZeroAvoided == host.spec300 /\ host.zeroBroken /\ host.max_clk <= Slow

(* The card gets the fastest clock the controller can make that is not     *)
(* above the one asked for, and, if there is none, the slowest base clock; *)
(* half of the base clock where that would be it and divider 0 is broken   *)
(* (sdhci_calc_clk).                                                       *)
BestClock ==
  reg.card /\ ~preset.used /\ Fits /\ ~InGap =>
    LET slower == {f \in BaseClocks(host) \cup ProgClocks(host) : f <= clock}
        best   == IF slower = {} THEN Min(BaseClocks(host)) ELSE Max(slower)
    IN  IF ZeroAvoided /\ ~reg.prog /\ best = host.max_clk THEN reg.div = 1
        ELSE Driven = best

(* The clock the host reports is the clock the card gets, also from a      *)
(* preset (sdhci_set_clock, sdhci_get_preset_value; debugfs.c:65).         *)
ActualIsDriven ==
  reg.card /\ Fits /\ ~InGap /\ ~host.zeroBroken => actual = Driven

(* "Divisor can be too small to reach clock speed requirement.  Then use   *)
(* the base clock" (sdhci.c:287): programmable mode only for a request its *)
(* divisors reach.                                                         *)
ProgOnlyIfReached ==
  reg.card /\ reg.prog /\ ~preset.used => Driven <= clock
=============================================================================
