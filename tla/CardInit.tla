------------------------------- MODULE CardInit --------------------------------
(***************************************************************************)
(* From power up to a registered card: one frequency after the other,      *)
(* mmc_rescan_try_freq (core/core.c) tries mmc_attach_sdio (core/sdio.c),  *)
(* then mmc_attach_sd (core/sd.c), in one thread that has claimed the      *)
(* host.  HostLifecycle has all of this as the one step AttachInit; here   *)
(* each step is a command, or several that fail alike, and every command   *)
(* may fail.  A write that fails may have reached the card.                *)
(*                                                                         *)
(* mmc_sd_get_csd has its body commented out, so csd.cmdclass and          *)
(* csd.max_dtr of every card are 0.  With that mmc_read_switch,            *)
(* mmc_sd_switch_hs and mmc_sd_init_uhs_card return at once, and the       *)
(* steps they would take are not here.                                     *)
(***************************************************************************)
EXTENDS HostPower

CONSTANTS
  Freqs,     \* the number of frequencies mmc_rescan tries
  Retries    \* voltage switches tried: 10 in the code

ASSUME InitAssumption == Freqs \in Nat \ {0} /\ Retries \in Nat \ {0}

VARIABLES
  board,    \* capabilities of the board, constant
  traits,   \* what the card is, constant
  ios,      \* host->ios
  card,     \* the state of the card
  pc,       \* where the thread is
  freq,     \* the frequency being tried
  bus,      \* host->bus_ops, by name
  loc,      \* locals of the initialisation and fields of its card structure
  mem       \* the card structures

vars  == <<board, traits, ios, card, pc, freq, bus, loc, mem>>
const == <<board, traits>>
line  == <<ios, card>>

Traits == {t \in [kind : {"sd", "sdio", "combo"}, s18 : BOOLEAN,
                  uhs : BOOLEAN, slow : BOOLEAN] :
             (t.uhs => t.s18 /\ ~t.slow) /\ (t.kind = "sd" => ~t.uhs /\ ~t.slow)}

Stages == {"off", "ioProbe", "ioOpCond", "cmd11", "switch", "ioAddress",
  "ioCccr", "ioCis", "ioHs", "ioWide", "ioSpeed", "ioCheck", "ioAdd", "sdProbe",
  "sdOpCond", "sdCid", "sdSetup", "sdSpeed", "sdCheck", "sdAdd", "mmcProbe",
  "ready", "none"}

Start(uhs) == [retries |-> Retries, ocr18 |-> uhs, s18a |-> FALSE,
               type |-> "sdio", sd3 |-> FALSE]

(* One structure at a time is the initialisation's card, or host->card.    *)
Allocate(m) == [m EXCEPT !.struct = "live", !.alive = @ + 1]
mmc_remove_card(m) ==
  [m EXCEPT !.struct = "freed", !.twice = @ \/ m.struct = "freed",
            !.alive = IF m.struct = "live" THEN @ - 1 ELSE @]

(* The attach function returns an error: no handler, no host->card.        *)
Fail(m) ==
  /\ mem' = [m EXCEPT !.struct = "none", !.hostCard = FALSE]
  /\ bus' = "none"
  /\ pc' = IF bus = "sdio" THEN "sdProbe" ELSE "mmcProbe"
Leave  == Fail(mem) /\ UNCHANGED loc
RemoveKeepsCard == Fail(mem) /\ UNCHANGED loc
Remove == Fail(mmc_remove_card(mem)) /\ UNCHANGED loc

(* What answers, when it answers: the card's I/O part to CMD5 and CMD52,   *)
(* its memory part to ACMD41, and with data in mmc_sd_setup_card.          *)
mmc_send_io_op_cond  == traits.kind # "sd" /\ Answers(ios, card)
mmc_io_rw_direct     == Answers(ios, card)
mmc_send_app_op_cond == traits.kind # "sdio" /\ Answers(ios, card)
mmc_sd_setup_card    == AnswersData(ios, card)

At(stage) == pc = stage /\ UNCHANGED <<const, freq>>
Offers18  == traits.s18 /\ card.level = 33

-----------------------------------------------------------------------------
(* mmc_rescan_try_freq.  The attach function of MMC, tried last, finds no  *)
(* MMC card in these sockets.                                              *)

TryFreq ==
  /\ At("off") /\ pc' = "ioProbe"
  /\ ios' = mmc_power_up(board, ios)
  /\ card' \in ResetBoth(ios', card)
  /\ UNCHANGED <<bus, loc, mem>>

GiveUp ==
  /\ pc = "mmcProbe"
  /\ ios' = mmc_power_off(ios) /\ card' = Unpowered(board, card)
  /\ freq' = freq + 1
  /\ pc' = IF freq = Freqs THEN "none" ELSE "off"
  /\ UNCHANGED <<const, bus, loc, mem>>

mmc_select_voltage ==
  IF board.fullCycle
  THEN ios' = mmc_power_cycle(board, ios) /\ card' = Unpowered(board, card)
  ELSE UNCHANGED line

-----------------------------------------------------------------------------
(* mmc_set_uhs_voltage, for either caller: bus tells which.  NoSwitch is   *)
(* an error, SwitchAgain is -EAGAIN, after a power cycle.                  *)

NoSwitchKeeps18 ==
  /\ \/ bus = "sdio" /\ pc' = "ioAddress" /\ UNCHANGED loc
     \/ bus = "sd" /\ pc' = "sdOpCond" /\ loc' = [loc EXCEPT !.retries = 0]
  /\ UNCHANGED mem

NoSwitch ==
  /\ \/ bus = "sdio" /\ pc' = "ioAddress" /\ loc' = [loc EXCEPT !.ocr18 = FALSE]
     \/ bus = "sd" /\ pc' = "sdOpCond" /\ loc' = [loc EXCEPT !.retries = 0]
  /\ UNCHANGED mem

RetryUncounted == UNCHANGED loc
Retry == loc' = [loc EXCEPT !.retries = @ - 1]

SwitchAgain ==
  /\ ios' = mmc_power_cycle(board, ios) /\ Retry
  /\ \/ /\ bus = "sdio" /\ pc' = "ioOpCond"    \* mmc_sdio_resend_if_cond
        /\ card' \in ResetBoth(ios', Unpowered(board, card))
        /\ mem' = mmc_remove_card(mem)
     \/ /\ bus = "sd" /\ pc' = "sdOpCond"
        /\ card' = Unpowered(board, card)
        /\ UNCHANGED mem

(* The command.  A card that takes it pulls its lines low and answers      *)
(* nothing more until the levels have changed.                             *)
SendCmd11 ==
  card' \in IF board.switches /\ Answers(ios, card)
            THEN {card, [card EXCEPT !.switching = TRUE]} ELSE {card}

Cmd11Fails ==
  /\ At("cmd11") /\ SendCmd11 /\ NoSwitch
  /\ UNCHANGED <<ios, bus>>

Cmd11 ==
  /\ At("cmd11") /\ pc' = "switch"
  /\ board.switches /\ Answers(ios, card) /\ SendCmd11
  /\ UNCHANGED <<ios, bus, loc, mem>>

(* The card is not low, the host cannot switch, or the card stays low.     *)
SwitchFails == At("switch") /\ SwitchAgain /\ UNCHANGED bus

(* mmc_host_set_uhs_voltage, with the clock gated and back.                *)
Switch ==
  /\ At("switch") /\ 18 \in board.drives
  /\ board.verifies => card.switching
  /\ ios' = [ios EXCEPT !.level = 18]
  /\ \/ card' = [card EXCEPT !.level = IF card.switching THEN 18 ELSE @,
                             !.switching = FALSE]
     \/ ~board.verifies /\ card' = card
  /\ pc' = IF bus = "sdio" THEN "ioAddress" ELSE "sdCid"
  /\ UNCHANGED <<bus, loc, mem>>

-----------------------------------------------------------------------------
(* mmc_attach_sdio, mmc_sdio_init_card.                                    *)

IoProbe ==
  /\ At("ioProbe") /\ UNCHANGED mem
  /\ \/ /\ mmc_send_io_op_cond
        /\ bus' = "sdio" /\ mmc_select_voltage
        /\ loc' = Start(board.uhs) /\ pc' = "ioOpCond"
     \/ pc' = "sdProbe" /\ UNCHANGED <<line, bus, loc>>

(* A new structure each time.  The memory of a combo card is asked for its *)
(* CID; failing that, it is an SDIO card.                                  *)
IoOpCond ==
  /\ At("ioOpCond") /\ UNCHANGED ios
  /\ \/ Leave /\ UNCHANGED card
     \/ LET ocr18 == loc.ocr18 /\ loc.retries > 0 IN
        /\ mmc_send_io_op_cond /\ mem' = Allocate(mem)
        /\ \/ card' = card
              /\ loc' = [loc EXCEPT !.ocr18 = ocr18, !.s18a = ocr18 /\ Offers18,
                                    !.type = "sdio"]
           \/ traits.kind = "combo" /\ card' \in mmc_go_idle(ios, card)
              /\ loc' = [loc EXCEPT !.ocr18 = ocr18, !.s18a = ocr18 /\ Offers18,
                                    !.type = "combo"]
        /\ pc' = IF loc'.s18a THEN "cmd11" ELSE "ioAddress"
        /\ UNCHANGED bus

(* CMD3, CMD7.                                                             *)
IoAddress ==
  /\ At("ioAddress") /\ UNCHANGED line
  /\ \/ Remove
     \/ Answers(ios, card) /\ pc' = "ioCccr" /\ UNCHANGED <<bus, loc, mem>>

(* sdio_read_cccr.  On an error mmc_sdio_resend_if_cond frees the card;    *)
(* without R4_18V_PRESENT the code goes on to remove, which frees it too.  *)
IoCccr ==
  /\ At("ioCccr") /\ pc' = "ioCis" /\ mmc_io_rw_direct
  /\ loc' = [loc EXCEPT !.sd3 = loc.ocr18 /\ traits.uhs /\ board.uhs]
  /\ UNCHANGED <<line, bus, mem>>

IoCccrFails ==
  /\ At("ioCccr") /\ card' \in ResetBoth(ios, card) /\ UNCHANGED ios
  /\ \/ /\ loc.ocr18 /\ pc' = "ioOpCond" /\ loc' = [loc EXCEPT !.retries = 0]
        /\ mem' = mmc_remove_card(mem) /\ UNCHANGED bus
     \/ /\ ~loc.ocr18 /\ UNCHANGED loc
        /\ Fail(mmc_remove_card(mmc_remove_card(mem)))

(* The CIS; mmc_sd_setup_card, whose failure makes a combo card an SDIO    *)
(* card; sdio_disable_cd.                                                  *)
IoCis ==
  /\ At("ioCis") /\ UNCHANGED ios
  /\ \/ Remove /\ card' \in {card} \cup mmc_go_idle(ios, card)
     \/ /\ Answers(ios, card)
        /\ \/ /\ loc.type = "combo" => mmc_sd_setup_card
              /\ UNCHANGED <<card, loc>>
           \/ loc.type = "combo" /\ card' \in mmc_go_idle(ios, card)
              /\ loc' = [loc EXCEPT !.type = "sdio"]
        /\ pc' = IF loc.ocr18 /\ loc.sd3 THEN "ioWide" ELSE "ioHs"
        /\ UNCHANGED <<bus, mem>>

(* sdio_enable_hs and the clock.  The memory of a combo card does not go   *)
(* to high speed, so its I/O part is switched back, unchecked, and its     *)
(* clock is the lower of the two: 0.                                       *)
IoHs ==
  /\ At("ioHs")
  /\ \/ /\ board.hs /\ Remove /\ UNCHANGED ios
        /\ card' \in IF mmc_io_rw_direct THEN {card, [card EXCEPT !.ioTiming = "hs"]}
                     ELSE {card}
     \/ /\ loc.type = "sdio" /\ board.hs /\ mmc_io_rw_direct
        /\ card' = [card EXCEPT !.ioTiming = "hs"]
        /\ ios' = [ios EXCEPT !.timing = "hs", !.clock = "fast"]
        /\ pc' = "ioWide" /\ UNCHANGED <<bus, loc, mem>>
     \/ /\ loc.type = "sdio" /\ ~board.hs
        /\ ios' = [ios EXCEPT !.clock = "fast"]
        /\ pc' = "ioWide" /\ UNCHANGED <<card, bus, loc, mem>>
     \/ /\ loc.type = "combo" /\ (board.hs => mmc_io_rw_direct)
        /\ card' \in IF board.hs THEN {[card EXCEPT !.ioTiming = t] : t \in {"legacy", "hs"}}
                     ELSE {card}
        /\ ios' = [ios EXCEPT !.clock = "none"]
        /\ pc' = "ioWide" /\ UNCHANGED <<bus, loc, mem>>

(* sdio_enable_4bit_bus.                                                   *)
Widened == pc' = IF loc.ocr18 /\ loc.sd3 THEN "ioSpeed" ELSE "ioCheck"
IoWide ==
  /\ At("ioWide")
  /\ \/ /\ ~board.wide \/ (loc.type = "sdio" /\ traits.slow)
        /\ Widened /\ UNCHANGED <<line, bus, loc, mem>>
     \/ /\ board.wide /\ Remove /\ UNCHANGED ios
        /\ card' \in IF ~mmc_io_rw_direct THEN {card}
                     ELSE IF loc.type = "sdio" THEN {card, [card EXCEPT !.ioWidth = 4]}
                     ELSE {[card EXCEPT !.width = w, !.ioWidth = v] : w, v \in {1, 4}}
     \/ /\ board.wide /\ ~traits.slow /\ mmc_io_rw_direct
        /\ card' = [card EXCEPT !.ioWidth = 4,
                                !.width = IF loc.type = "combo" THEN 4 ELSE @]
        /\ ios' = [ios EXCEPT !.width = 4]
        /\ Widened /\ UNCHANGED <<bus, loc, mem>>

(* sdio_set_bus_speed_mode and tuning.  Host and card may have no UHS mode *)
(* in common: SDR12, which leaves the host as it is.                       *)
IoSpeed ==
  /\ At("ioSpeed")
  /\ \/ /\ Remove /\ \E done \in {FALSE} \cup {mmc_io_rw_direct}, tuned \in BOOLEAN :
             /\ card' = IF done THEN [card EXCEPT !.ioTiming = "uhs"] ELSE card
             /\ ios' = IF done /\ tuned
                       THEN [ios EXCEPT !.timing = "uhs", !.clock = "fast"] ELSE ios
     \/ /\ mmc_io_rw_direct /\ pc' = "ioCheck" /\ UNCHANGED <<bus, loc, mem>>
        /\ \/ /\ card' = [card EXCEPT !.ioTiming = "uhs"]
              /\ ios' = [ios EXCEPT !.timing = "uhs", !.clock = "fast"]
           \/ UNCHANGED line

(* The end of either initialisation: MMC_CAP2_AVOID_3_3V, host->card.      *)
Check(from, to) ==
  /\ At(from) /\ UNCHANGED line
  /\ IF board.avoid33 /\ ios.level = 33 THEN Remove
     ELSE mem' = [mem EXCEPT !.hostCard = TRUE] /\ pc' = to /\ UNCHANGED <<bus, loc>>
IoCheck == Check("ioCheck", "ioAdd")
SdCheck == Check("sdCheck", "sdAdd")

(* Runtime PM, the functions of the card, mmc_add_card, sdio_add_func; on  *)
(* an error mmc_sdio_remove.                                               *)
IoAdd ==
  /\ At("ioAdd") /\ UNCHANGED <<line, loc>>
  /\ \/ Remove
     \/ Answers(ios, card) /\ pc' = "ready" /\ UNCHANGED <<bus, mem>>

-----------------------------------------------------------------------------
(* mmc_attach_sd, mmc_sd_get_cid, mmc_sd_init_card.                        *)

SdProbe ==
  /\ At("sdProbe") /\ UNCHANGED mem
  /\ \/ /\ mmc_send_app_op_cond
        /\ bus' = "sd" /\ mmc_select_voltage
        /\ loc' = Start(board.uhs) /\ pc' = "sdOpCond"
     \/ pc' = "mmcProbe" /\ UNCHANGED <<line, bus, loc>>

(* CMD0, CMD8, ACMD41, which asks for 1.8 V as long as retries are left.   *)
Asks18 == loc.retries > 0 /\ board.uhs
SdOpCond ==
  /\ At("sdOpCond") /\ UNCHANGED ios
  /\ card' \in mmc_go_idle(ios, card)
  /\ \/ Leave
     \/ /\ mmc_send_app_op_cond
        /\ loc' = [loc EXCEPT !.s18a = Asks18 /\ Offers18]
        /\ pc' = IF loc'.s18a THEN "cmd11" ELSE "sdCid"
        /\ UNCHANGED <<bus, mem>>

(* CMD2 and the structure; then CMD3, CMD7 and mmc_sd_setup_card.          *)
SdCid ==
  /\ At("sdCid") /\ UNCHANGED line
  /\ \/ Leave
     \/ /\ Answers(ios, card) /\ mem' = Allocate(mem)
        /\ pc' = "sdSetup" /\ UNCHANGED <<bus, loc>>

SdSetup ==
  /\ At("sdSetup") /\ UNCHANGED line
  /\ \/ Remove
     \/ mmc_sd_setup_card /\ pc' = "sdSpeed" /\ UNCHANGED <<bus, loc, mem>>

(* At 1.8 V mmc_sd_init_uhs_card does nothing.  Else the clock is set to   *)
(* csd.max_dtr, which is 0: the ACMD6 after it gets no answer.  Every SD   *)
(* card has a bus of 4 bits.                                               *)
SdSpeed ==
  /\ At("sdSpeed") /\ UNCHANGED card
  /\ \/ /\ loc.s18a /\ board.uhs /\ pc' = "sdCheck"
        /\ UNCHANGED <<ios, bus, loc, mem>>
     \/ /\ ~(loc.s18a /\ board.uhs) /\ ios' = [ios EXCEPT !.clock = "none"]
        /\ IF board.wide THEN Remove
           ELSE pc' = "sdCheck" /\ UNCHANGED <<bus, loc, mem>>

SdAdd ==
  /\ At("sdAdd") /\ UNCHANGED <<line, loc>>
  /\ \/ Remove
     \/ pc' = "ready" /\ UNCHANGED <<bus, mem>>

-----------------------------------------------------------------------------
Init ==
  /\ board \in Boards /\ traits \in Traits
  /\ card = Fresh(board)
  /\ ios = [power |-> "off", clock |-> "none", level |-> 33, width |-> 1,
            timing |-> "legacy"]
  /\ pc = "off" /\ freq = 1 /\ bus = "none"
  /\ loc = Start(FALSE)
  /\ mem = [struct |-> "none", hostCard |-> FALSE, alive |-> 0, twice |-> FALSE]

Next ==
  \/ TryFreq \/ GiveUp
  \/ Cmd11 \/ Cmd11Fails \/ Switch \/ SwitchFails
  \/ IoProbe \/ IoOpCond \/ IoAddress \/ IoCccr \/ IoCccrFails \/ IoCis
  \/ IoHs \/ IoWide \/ IoSpeed \/ IoCheck \/ IoAdd
  \/ SdProbe \/ SdOpCond \/ SdCid \/ SdSetup \/ SdSpeed \/ SdCheck \/ SdAdd

(* The detect work runs on: nothing here waits for anybody.                *)
Spec == Init /\ [][Next]_vars /\ WF_vars(Next)

-----------------------------------------------------------------------------
(* Properties.                                                             *)

(* Every variable keeps its type; in particular the retries that are left  *)
(* never go below zero, whichever way an attempt ends.                     *)
TypeOK ==
  /\ board \in Boards /\ traits \in Traits
  /\ ios \in Ios /\ card \in CardState
  /\ pc \in Stages /\ freq \in 1 .. Freqs + 1
  /\ bus \in {"none", "sdio", "sd"}
  /\ loc \in [retries : 0 .. Retries, ocr18 : BOOLEAN, s18a : BOOLEAN,
              type : {"sdio", "combo"}, sd3 : BOOLEAN]
  /\ mem \in [struct : {"none", "live", "freed"}, hostCard : BOOLEAN,
              alive : Nat, twice : BOOLEAN]

(* No card structure is lost: across all retries and failures the only one *)
(* alive is the one being initialised or host->card, which is never a      *)
(* freed one; host->card is there for a registered card, under its bus     *)
(* handler, and gone when an attach function has failed.                   *)
CardOwned ==
  /\ mem.alive = IF mem.struct = "live" THEN 1 ELSE 0
  /\ mem.hostCard => mem.struct = "live" /\ bus # "none"
  /\ pc = "ready" => mem.hostCard
  /\ bus = "none" => mem.struct = "none"

(* On a board whose power off reaches the card and whose driver can see    *)
(* the card's lines, host and card signal at the same level at every       *)
(* command, unless the card is stuck in a voltage switch and answers       *)
(* nothing; and a card that is registered has been told of the bus width,  *)
(* and as an SDIO card of the timing, that the host uses, the UHS timings  *)
(* only at 1.8 V.                                                          *)
LevelsAgree ==
  ios.power = "on" => ios.level = card.level \/ card.switching
WidthAgrees ==
  pc = "ready" /\ ios.width = 4 =>
    /\ bus = "sd" \/ loc.type = "combo" => card.width = 4
    /\ bus = "sdio" => card.ioWidth = 4
TimingAgrees ==
  pc = "ready" /\ bus = "sdio" =>
    /\ ios.timing # "legacy" => card.ioTiming = ios.timing
    /\ ios.timing = "uhs" => ios.level = 18
BusAgrees ==
  board.cuts /\ board.verifies => LevelsAgree /\ WidthAgrees /\ TimingAgrees

(* The initialisation ends, with a card or without: retries, falling back  *)
(* from 1.8 V and trying SDIO, SD and the next frequency do not go round   *)
(* in circles, whatever fails.                                             *)
InitReturns == <>(pc \in {"ready", "none"})

(* "Unregister a new MMC card with the driver model, and (eventually) free *)
(* it" (core/bus.c:369): once.                                             *)
FreedOnce == ~mem.twice
=============================================================================
