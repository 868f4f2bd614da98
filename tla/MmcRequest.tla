------------------------------ MODULE MmcRequest ------------------------------
(***************************************************************************)
(* The request engine of core/core.c and the re-tuning bookkeeping of      *)
(* core/host.c, driven by the callers that make the two hard: __mmc_switch,*)
(* mmc_sleep, HPI, BKOPS, the HS400 <-> HS200 walks that a re-tune makes   *)
(* through the very engine it was called from, and a transfer that stays   *)
(* in flight while other commands are sent (cap_cmd_during_tfr).           *)
(*                                                                         *)
(* The thread that owns the host is a call stack.  A frame is one          *)
(* activation of a function; `ret' is the value the last callee returned,  *)
(* "none" while nothing has returned.  Beside that thread run the host     *)
(* controller, which answers requests, and the re-tuning timer.            *)
(***************************************************************************)
EXTENDS Naturals, Sequences, FiniteSets

CONSTANTS
  CmdRetries,  \* MMC_CMD_RETRIES
  MaxPolls,    \* bound on the polls a busy wait makes before it expires
  MaxTuning,   \* bound on the tuning blocks one execute_tuning() sends
  Ops          \* the top-level functions called on the host

ASSUME RequestAssumption ==
  /\ CmdRetries \in Nat
  /\ MaxPolls \in Nat
  /\ MaxTuning \in Nat \ {0}

VARIABLES
  stack,     \* call stack, the running activation first
  ret,       \* what the last callee returned
  hold,      \* host->hold_retune
  now,       \* host->retune_now
  need,      \* host->need_retune
  doing,     \* host->doing_retune
  can,       \* host->can_retune
  parked,    \* the cap_cmd_during_tfr request in flight, or Idle
  timing,    \* host->ios.timing
  card,      \* host->card: "none", "present" or "removed"
  bkops,     \* mmc_card_doing_bkops(card)
  cqe,       \* host->cqe_on
  cardBusy   \* host->ops->card_busy is implemented

vars == <<stack, ret, hold, now, need, doing, can, parked, timing, card, bkops,
          cqe, cardBusy>>

tune == <<hold, now, need, doing, can>>
env  == <<parked, card, bkops, cqe, cardBusy>>

Timings == {"LEGACY", "HS", "DDR52", "HS200", "HS400"}
Errors  == {"crc", "timeout", "badmsg", "inval", "other"}
Results == Errors \cup {"ok"}

(* Requests, by what the engine tells apart: cmd3 is a command with        *)
(* MMC_CMD_RETRIES, cmd0 one without, status is CMD13, cmd6 is SWITCH and  *)
(* sanitize the SWITCH with sanitize_busy set; data, tuning and tfr carry  *)
(* data; sdio is an SDIO read or write, which waits for card busy.         *)
Requests == {"cmd3", "cmd0", "status", "cmd6", "sanitize", "sdio", "data",
             "tuning", "tfr"}
RetriesOf(fn) ==
  IF fn \in {"cmd3", "status", "cmd6", "sanitize"} THEN CmdRetries ELSE 0

(* Activations of __mmc_switch: with send_status (switch and, with the     *)
(* sanitize index, switchSanitize), with a timing too (switchHs), without  *)
(* send_status (switchBus), without the busy signal (switchBkops).         *)
Switches == {"switch", "switchSanitize", "switchHs", "switchBus", "switchBkops"}
SendStatus(fn) == fn \in {"switch", "switchSanitize", "switchHs"}

(* A function that calls one after the other and returns the first error:  *)
(* what it calls, and the timing it sets when that call succeeds.          *)
Call(fn) == [call |-> fn, then |-> "keep"]
CallSet(fn, t) == [call |-> fn, then |-> t]

SleepScript == <<Call("cmd3"), Call("cmd0")>>
AliveScript == <<Call("status")>>
HsScript    == <<Call("switchHs")>>

(* mmc_select_hs200, then the tuning and mmc_select_hs400 of mmc_init_card.*)
Hs200Script ==
  <<CallSet("switchBus", "HS200"), Call("lax"),
    Call("execute_tuning"), Call("hs200_to_hs400")>>

Hs200ToHs400Script ==
  <<CallSet("switchBus", "HS"), Call("status"), Call("switch"),
    CallSet("switchBus", "HS400"), Call("status")>>
Hs400ToHs200Script ==
  <<CallSet("switchBus", "DDR52"), Call("status"),
    CallSet("switchBus", "HS"), Call("status"),
    CallSet("switchBus", "HS200"), Call("lax")>>

Script(fn) ==
  CASE fn = "sleep"  -> SleepScript
    [] fn = "detect" -> AliveScript
    [] fn = "hs"     -> HsScript
    [] fn = "hs200"  -> Hs200Script
    [] fn = "hs200_to_hs400" -> Hs200ToHs400Script
    [] fn = "hs400_to_hs200" -> Hs400ToHs200Script

Scripts == {"sleep", "detect", "hs", "hs200", "hs200_to_hs400",
            "hs400_to_hs200"}
Others  == {"mmc_retune", "execute_tuning", "hpi", "start_bkops", "stop_bkops"}

Frames == [fn : Requests \cup Switches \cup Scripts \cup Others,
           at : {"start", "retune", "tuned", "issue", "host", "wait", "hpi",
                 "decide", "cmd", "poll", "status", "run"},
           step : 1 .. 6,
           left : 0 .. CmdRetries + MaxPolls + MaxTuning,
           err : Results, old : Timings]
Idle == [fn |-> "none"]

(* Only the engine re-tunes: nobody else calls mmc_retune.                 *)
ASSUME OpsAssumption ==
  /\ Ops \subseteq Requests \cup Switches \cup Scripts \cup Others \cup {"cqe"}
  /\ "mmc_retune" \notin Ops

-----------------------------------------------------------------------------
(* The stack.                                                              *)

Top     == Head(stack)
Below   == Tail(stack)
Fn(S)   == stack # <<>> /\ Top.fn \in S
At(p)   == Top.at = p
Ready   == ret = "none"                 \* no callee's value is pending
Back    == ret # "none"

Frame(fn) ==
  [fn |-> fn, at |-> IF fn \in Requests \cup Switches THEN "start" ELSE "run",
   step |-> 1, err |-> "ok", old |-> timing,
   left |-> CASE fn \in Requests -> RetriesOf(fn)
              [] fn = "execute_tuning" -> MaxTuning
              [] OTHER -> MaxPolls]

Goto(f)       == stack' = <<f>> \o Below /\ ret' = "none"
GotoAt(p)     == Goto([Top EXCEPT !.at = p])
CallFrom(f, fn) ==
  /\ stack' = <<Frame(IF fn = "lax" THEN "status" ELSE fn), f>> \o Below
  /\ ret' = "none"
Return(e)     == stack' = Below /\ ret' = IF Below = <<>> THEN "none" ELSE e

mmc_retune_hold    == hold' = hold + 1 /\ now' = (hold = 0 \/ now)
mmc_retune_release == hold' = (IF hold = 0 THEN 0 ELSE hold - 1) /\ now' = now
mmc_retune_needed(crc) == need' = (need \/ (crc /\ can))

(* What the card may say in the response to CMD13.                         *)
CardStates == {"tran", "prg", "switch_error", "illegal"}

-----------------------------------------------------------------------------
(* A request: mmc_wait_for_req and what it calls.                          *)

InFlight == parked.fn = "tfr" /\ parked.at = "host"
Removed == card = "removed"

(* mmc_wait_ongoing_tfr_cmd waits for cmd_completion.  Only                *)
(* mmc_request_done completes it, together with the whole transfer: the    *)
(* core has nothing that a controller could call when the command alone    *)
(* has been answered.                                                      *)
mmc_wait_ongoing_tfr_cmdSkip == TRUE
mmc_wait_ongoing_tfr_cmd == ~InFlight

(* mmc_start_request: the hold, then the checks that end a request early.  *)
mmc_start_request ==
  /\ Fn(Requests) /\ Ready /\ At("start")
  /\ mmc_wait_ongoing_tfr_cmd
  /\ mmc_retune_hold
  /\ \/ Removed /\ Goto([Top EXCEPT !.at = "wait", !.err = "other"])
     \/ ~Removed /\ GotoAt("retune")
     \/ /\ ~Removed /\ Top.fn \in {"data", "tfr"}
        /\ Goto([Top EXCEPT !.at = "wait", !.err = "inval"])
  /\ UNCHANGED <<need, doing, can, timing, env>>

(* mmc_retune, up to the first call it makes.                              *)
mmc_retune ==
  /\ Fn(Requests) /\ Ready /\ At("retune")
  /\ now' = FALSE
  /\ IF now /\ need /\ ~doing /\ card # "none"
     THEN /\ need' = FALSE /\ doing' = TRUE
          /\ CallFrom([Top EXCEPT !.at = "tuned"], "mmc_retune")
     ELSE GotoAt("issue") /\ UNCHANGED <<need, doing>>
  /\ UNCHANGED <<hold, can, timing, env>>

(* mmc_request_done, for the request f: a CRC error of anything but a      *)
(* tuning block asks for a re-tune.                                        *)
mmc_request_done(f, e) == mmc_retune_needed(e = "crc" /\ f.fn # "tuning")

(* Back from mmc_retune: its error is the command's error.                 *)
RetuneReturned ==
  /\ Fn(Requests) /\ Back /\ At("tuned")
  /\ IF ret = "ok" THEN GotoAt("issue") /\ need' = need
     ELSE /\ Goto([Top EXCEPT !.at = "wait", !.err = ret])
          /\ mmc_request_done(Top, ret)
  /\ UNCHANGED <<hold, now, doing, can, timing, env>>

(* The rest of __mmc_start_request: the SDIO busy wait, which gives up     *)
(* with -EBUSY, then cqe_off() and ops->request().                         *)
__mmc_start_request ==
  /\ Fn(Requests) /\ Ready /\ At("issue")
  /\ \/ /\ Top.fn = "sdio" /\ cardBusy
        /\ Goto([Top EXCEPT !.at = "wait", !.err = "other"])
        /\ UNCHANGED <<parked, cqe>>
     \/ /\ cqe' = FALSE
        /\ IF Top.fn = "tfr"
           THEN parked' = [Top EXCEPT !.at = "host"] /\ Return("ok")
           ELSE parked' = parked /\ GotoAt("host")
  /\ UNCHANGED <<tune, timing, card, bkops, cardBusy>>

(* The host controller completes the request, with the error of its        *)
(* command, or of its data, sbc or stop: the engine treats them alike for  *)
(* requests without retries, and only those have data here.                *)
HostDone ==
  /\ \E e \in {"ok", "crc", "timeout"} :
       \/ /\ stack # <<>> /\ Top.at = "host"
          /\ stack' = <<[Top EXCEPT !.at = "wait", !.err = e]>> \o Below
          /\ mmc_request_done(Top, e) /\ parked' = parked
       \/ /\ InFlight
          /\ parked' = [parked EXCEPT !.at = "wait", !.err = e]
          /\ mmc_request_done(parked, e) /\ stack' = stack
  /\ UNCHANGED <<ret, hold, now, doing, can, timing, card, bkops, cqe, cardBusy>>

(* The card answers the command of the transfer in flight: the data goes   *)
(* on, the command line is free.                                           *)
Answered == parked.step = 3

CommandAnswered ==
  /\ InFlight /\ ~Answered
  /\ parked' = [parked EXCEPT !.step = 3]
  /\ UNCHANGED <<stack, ret, tune, timing, card, bkops, cqe, cardBusy>>

(* A transfer that failed before it was started is waited for like any     *)
(* other: mmc_wait_for_req returns without mmc_wait_for_req_done.          *)
ParkFailedTransfer ==
  /\ Fn({"tfr"}) /\ Ready /\ At("wait") /\ Top.step = 1
  /\ parked' = Top /\ Return("ok")
  /\ UNCHANGED <<tune, timing, card, bkops, cqe, cardBusy>>

(* mmc_wait_for_req_done: try again, or release the hold and return.       *)
mmc_retune_recheckAlways == now' = TRUE

mmc_retune_recheck == now' = (now \/ hold <= 1)
RetryOrReturnEndless(f) ==
  IF f.err = "ok" \/ f.left = 0 \/ Removed
  THEN mmc_retune_release /\ Return(f.err)
  ELSE /\ mmc_retune_recheck /\ hold' = hold
       /\ Goto([f EXCEPT !.at = "retune", !.err = "ok"])

RetryOrReturn(f) ==
  IF f.err = "ok" \/ f.left = 0 \/ Removed
  THEN mmc_retune_release /\ Return(f.err)
  ELSE /\ mmc_retune_recheck /\ hold' = hold
       /\ Goto([f EXCEPT !.at = "retune", !.left = @ - 1, !.err = "ok"])

mmc_wait_for_req_done ==
  /\ Fn(Requests) /\ Ready /\ At("wait")
  /\ Top.fn = "tfr" => Top.step = 2
  /\ IF Top.fn = "sanitize" /\ Top.err = "timeout"
     THEN CallFrom([Top EXCEPT !.at = "hpi"], "hpi") /\ UNCHANGED <<hold, now>>
     ELSE RetryOrReturn(Top)
  /\ UNCHANGED <<need, doing, can, timing, env>>

SanitizeInterrupted ==
  /\ Fn({"sanitize"}) /\ Back /\ At("hpi")
  /\ IF ret = "ok" THEN mmc_retune_release /\ Return("ok")
     ELSE RetryOrReturn(Top)
  /\ UNCHANGED <<need, doing, can, timing, env>>

Request ==
  \/ mmc_start_request \/ mmc_retune \/ RetuneReturned \/ __mmc_start_request
  \/ ParkFailedTransfer \/ mmc_wait_for_req_done \/ SanitizeInterrupted

-----------------------------------------------------------------------------
(* __mmc_switch.                                                           *)

SwitchReturn(e) == mmc_retune_release /\ Return(e)

SwitchStart ==
  /\ Fn(Switches) /\ Ready /\ At("start")
  /\ mmc_retune_hold
  /\ CallFrom([Top EXCEPT !.at = "cmd"],
              IF Top.fn = "switchSanitize" THEN "sanitize" ELSE "cmd6")
  /\ UNCHANGED <<need, doing, can, timing, env>>

(* out_tim: the new timing, then the status of the switch.                 *)
SwitchStatus ==
  /\ timing' = IF Top.fn = "switchHs" THEN "HS" ELSE timing
  /\ IF SendStatus(Top.fn)
     THEN CallFrom([Top EXCEPT !.at = "status"], "status") /\ UNCHANGED <<hold, now>>
     ELSE SwitchReturn("ok")

(* The SWITCH command has returned.  A host that waits while the card is   *)
(* busy goes on; any other polls first.                                    *)
SwitchSent ==
  /\ Fn(Switches) /\ Back /\ At("cmd")
  /\ IF ret # "ok" \/ Top.fn = "switchBkops"
     THEN SwitchReturn(ret) /\ timing' = timing
     ELSE \/ SwitchStatus
          \/ GotoAt("poll") /\ UNCHANGED <<hold, now, timing>>
  /\ UNCHANGED <<need, doing, can, env>>

(* mmc_poll_for_busy: by ops->card_busy, by a plain delay, or by CMD13.    *)
mmc_poll_for_busy ==
  /\ Fn(Switches) /\ Ready /\ At("poll")
  /\ IF cardBusy \/ ~SendStatus(Top.fn)
     THEN \/ SwitchStatus
          \/ cardBusy /\ SwitchReturn("timeout") /\ timing' = timing
     ELSE CallFrom(Top, "status") /\ UNCHANGED <<hold, now, timing>>
  /\ UNCHANGED <<need, doing, can, env>>

Polled ==
  LET retry_crc_err == Top.fn = "switchHs"
      busy == \/ SwitchReturn("timeout") /\ timing' = timing
              \/ /\ Top.left > 0 /\ Goto([Top EXCEPT !.left = @ - 1])
                 /\ UNCHANGED <<hold, now, timing>>
  IN /\ Fn(Switches) /\ Back /\ At("poll")
     /\ IF ret = "ok"
        THEN \E r \in CardStates :
               \/ r = "switch_error" /\ SwitchReturn("badmsg") /\ timing' = timing
               \/ r = "prg" /\ busy
               \/ r \in {"tran", "illegal"} /\ SwitchStatus
        ELSE IF ret = "crc" /\ retry_crc_err THEN busy
        ELSE SwitchReturn(ret) /\ timing' = timing
     /\ UNCHANGED <<need, doing, can, env>>

SwitchChecked ==
  /\ Fn(Switches) /\ Back /\ At("status")
  /\ \E e \in IF ret = "ok" THEN {"ok", "badmsg"} ELSE {ret} :
       /\ SwitchReturn(e)
       /\ timing' = IF e # "ok" /\ Top.fn = "switchHs" THEN Top.old ELSE timing
  /\ UNCHANGED <<need, doing, can, env>>

Switch == SwitchStart \/ SwitchSent \/ mmc_poll_for_busy \/ Polled \/ SwitchChecked

-----------------------------------------------------------------------------
(* Functions that call one after the other.                                *)

(* The error a step of fn sees: CMD13 may report a switch error, and       *)
(* __mmc_switch_status(card, false) forgives a CRC error.                  *)
Outcome(call, e) ==
  CASE call = "lax" /\ e = "crc" -> {"ok"}
    [] call \in {"status", "lax"} /\ e = "ok" -> {"ok", "badmsg"}
    [] OTHER -> {e}

(* mmc_sleep takes a hold first.                                           *)
ScriptStep ==
  LET s == Script(Top.fn)[Top.step] IN
  /\ Fn(Scripts) /\ Ready
  /\ IF Top.fn = "sleep" /\ Top.step = 1 THEN mmc_retune_hold
     ELSE UNCHANGED <<hold, now>>
  /\ CallFrom(Top, s.call)
  /\ UNCHANGED <<need, doing, can, timing, env>>

(* The end of fn: mmc_sleep drops its hold, a dead card is marked removed, *)
(* a card of a successful initialisation is host->card, and                *)
(* mmc_select_timing forgives a switch error.  A card or a bus without     *)
(* HS400 is done once HS200 is tuned.                                      *)
ScriptReturn(fn, e) ==
  /\ IF fn = "sleep" THEN mmc_retune_release ELSE UNCHANGED <<hold, now>>
  /\ card' = IF fn = "detect" /\ e # "ok" THEN "removed"
             ELSE IF fn \in {"hs", "hs200"} /\ e = "ok" /\ card = "none"
             THEN "present" ELSE card
  /\ Return(e)

ScriptNext ==
  LET fn == Top.fn
      s  == Script(fn)[Top.step]
  IN
  /\ Fn(Scripts) /\ Back
  /\ \E e \in Outcome(IF fn = "detect" THEN "alive" ELSE s.call, ret) :
       /\ timing' = IF e = "ok" /\ s.then # "keep" THEN s.then
                    ELSE IF fn = "hs200" /\ Top.step = 2 /\ e = "badmsg"
                    THEN Top.old ELSE timing
       /\ \/ /\ e = "ok" /\ Top.step < Len(Script(fn))
             /\ Goto([Top EXCEPT !.step = @ + 1]) /\ UNCHANGED <<hold, now, card>>
          \/ e = "ok" /\ fn = "hs200" /\ Top.step = 3 /\ ScriptReturn(fn, e)
          \/ /\ e = "ok" => Top.step = Len(Script(fn))
             /\ ScriptReturn(fn, IF e = "badmsg" /\ fn \in {"hs", "hs200"} /\ Top.step < 3
                                THEN "ok" ELSE e)
  /\ UNCHANGED <<need, doing, can, parked, bkops, cqe, cardBusy>>

-----------------------------------------------------------------------------
(* mmc_retune from its first call on.  Top.old is the timing it began in;  *)
(* step 1 leaves HS400, step 2 tunes, step 3 returns to HS400.             *)

RetuneBody ==
  /\ Fn({"mmc_retune"}) /\ Ready
  /\ CallFrom([Top EXCEPT !.step = IF @ = 1 /\ timing # "HS400" THEN 2 ELSE @],
              CASE Top.step = 1 /\ timing = "HS400" -> "hs400_to_hs200"
                [] Top.step = 3 -> "hs200_to_hs400"
                [] OTHER -> "execute_tuning")
  /\ UNCHANGED <<tune, timing, env>>

RetuneNextStays ==
  /\ Fn({"mmc_retune"}) /\ Back
  /\ IF ret = "ok" /\ Top.step = 1
     THEN Goto([Top EXCEPT !.step = @ + 1]) /\ doing' = doing
     ELSE Return(ret) /\ doing' = FALSE
  /\ UNCHANGED <<hold, now, need, can, timing, env>>

RetuneNext ==
  /\ Fn({"mmc_retune"}) /\ Back
  /\ IF ret = "ok" /\ (Top.step = 1 \/ (Top.step = 2 /\ Top.old = "HS400"))
     THEN Goto([Top EXCEPT !.step = @ + 1]) /\ doing' = doing
     ELSE Return(ret) /\ doing' = FALSE
  /\ UNCHANGED <<hold, now, need, can, timing, env>>

(* mmc_execute_tuning: the host sends tuning blocks until it is satisfied  *)
(* or gives up; success enables re-tuning.                                 *)
TuningBlock ==
  /\ Fn({"execute_tuning"}) /\ Ready /\ Top.left > 0
  /\ cqe' = FALSE
  /\ CallFrom([Top EXCEPT !.left = @ - 1], "tuning")
  /\ UNCHANGED <<tune, timing, parked, card, bkops, cardBusy>>

TuningDone ==
  /\ Fn({"execute_tuning"}) /\ Back
  /\ \/ Top.left > 0 /\ Goto(Top) /\ can' = can
     \/ ret = "ok" /\ can' = TRUE /\ Return("ok")
     \/ can' = can /\ Return("other")
  /\ UNCHANGED <<hold, now, need, doing, timing, env>>

Retune == RetuneBody \/ RetuneNext \/ TuningBlock \/ TuningDone

-----------------------------------------------------------------------------
(* mmc_interrupt_hpi: step 1 asks for the card's state, step 2 sends the   *)
(* HPI, step 3 waits for the card to leave the programming state.          *)

HpiStep ==
  /\ Fn({"hpi"}) /\ Ready
  /\ \/ CallFrom(Top, IF Top.step = 2 THEN "cmd0" ELSE "status")
     \/ Top.step = 1 /\ Return("other")                 \* !ext_csd.hpi_en
     \/ Top.step = 2 /\ Return("inval")                 \* !ext_csd.hpi
  /\ UNCHANGED <<tune, timing, env>>

HpiNext ==
  /\ Fn({"hpi"}) /\ Back
  /\ IF ret # "ok" THEN Return(ret)
     ELSE \/ Top.step = 1 /\ \E r \in CardStates :
               \/ r = "prg" /\ Goto([Top EXCEPT !.step = 2])
               \/ r = "tran" /\ Return("ok")
               \/ r = "illegal" /\ Return("inval")
          \/ Top.step = 2 /\ Goto([Top EXCEPT !.step = 3])
          \/ Top.step = 3 /\ \/ Return("ok")
                             \/ Return("timeout")
                             \/ Top.left > 0 /\ Goto([Top EXCEPT !.left = @ - 1])
  /\ UNCHANGED <<tune, timing, env>>

(* mmc_start_bkops: step 1 reads the BKOPS status, step 2 switches under a *)
(* hold, which stays while the operation is in progress on the card.       *)
StartBkops ==
  /\ Fn({"start_bkops"}) /\ Ready
  /\ IF Top.step = 1
     THEN /\ IF bkops THEN Return("ok") ELSE CallFrom(Top, "data")
          /\ UNCHANGED <<hold, now>>
     ELSE /\ mmc_retune_hold
          /\ \E fn \in {"switch", "switchBkops"} :
               CallFrom([Top EXCEPT !.step = IF fn = "switch" THEN 2 ELSE 3], fn)
  /\ UNCHANGED <<need, doing, can, timing, env>>

StartBkopsNext ==
  /\ Fn({"start_bkops"}) /\ Back
  /\ IF Top.step = 1
     THEN /\ \/ Return(ret)          \* failed, or nothing to do at this level
             \/ ret = "ok" /\ Goto([Top EXCEPT !.step = 2])
          /\ UNCHANGED <<hold, now, bkops>>
     ELSE /\ Return("ok")
          /\ IF ret = "ok" /\ Top.step = 3
             THEN bkops' = TRUE /\ UNCHANGED <<hold, now>>
             ELSE bkops' = bkops /\ mmc_retune_release
  /\ UNCHANGED <<need, doing, can, timing, parked, card, cqe, cardBusy>>

StopBkopsForgets ==
  /\ Fn({"stop_bkops"})
  /\ \/ Ready /\ CallFrom(Top, "hpi") /\ UNCHANGED <<hold, now, bkops>>
     \/ /\ Back /\ bkops' = FALSE /\ Return("ok")
        /\ IF ret = "ok" THEN mmc_retune_release ELSE UNCHANGED <<hold, now>>
  /\ UNCHANGED <<need, doing, can, timing, parked, card, cqe, cardBusy>>

(* mmc_stop_bkops: an HPI that cannot be issued counts as a stop.          *)
StopBkops ==
  /\ Fn({"stop_bkops"})
  /\ \/ Ready /\ CallFrom(Top, "hpi") /\ UNCHANGED <<hold, now, bkops>>
     \/ /\ ret \in {"ok", "inval"}
        /\ bkops' = FALSE /\ mmc_retune_release /\ Return("ok")
     \/ Back /\ ret \notin {"ok", "inval"} /\ Return(ret) /\ UNCHANGED <<hold, now, bkops>>
  /\ UNCHANGED <<need, doing, can, timing, parked, card, cqe, cardBusy>>

Bkops == HpiStep \/ HpiNext \/ StartBkops \/ StartBkopsNext \/ StopBkops

-----------------------------------------------------------------------------
(* The callers, one top-level call at a time, with the host claimed.       *)

Enter(fn) == stack = <<>> /\ fn \in Ops /\ stack' = <<Frame(fn)>> /\ ret' = "none"

(* What each top-level call needs: a card to be there, the timing the card *)
(* powers up with, BKOPS to be in progress.                                *)
Start ==
  /\ \E fn \in Ops \ {"cqe"} :
       /\ Enter(fn)
       /\ fn \in {"hs", "hs200"} => timing = "LEGACY" /\ card # "removed" /\ ~bkops
       /\ fn \notin {"hs", "hs200", "cmd3"} => card # "none"
       /\ fn \in {"sleep", "hs", "hs200"} => parked = Idle
       /\ fn = "stop_bkops" => bkops
       /\ fn = "tfr" => parked = Idle
  /\ UNCHANGED <<tune, timing, env>>

(* mmc_wait_for_req_done on the transfer.                                  *)
WaitTransfer ==
  /\ stack = <<>> /\ parked.fn = "tfr"
  /\ stack' = <<[parked EXCEPT !.step = 2]>> /\ ret' = "none"
  /\ parked' = Idle
  /\ UNCHANGED <<tune, timing, card, bkops, cqe, cardBusy>>

(* mmc_cqe_start_req turns the command queue engine on.                    *)
CqeOn ==
  /\ stack = <<>> /\ ~cqe /\ card = "present" /\ parked = Idle
  /\ "cqe" \in Ops
  /\ cqe' = TRUE
  /\ UNCHANGED <<stack, ret, tune, timing, parked, card, bkops, cardBusy>>

(* mmc_power_off, through mmc_set_initial_state: mmc_retune_disable and    *)
(* the timing a card powers up with.                                       *)
PowerOff ==
  /\ stack = <<>> /\ parked = Idle /\ ~bkops
  /\ timing' = "LEGACY"
  /\ can' = FALSE /\ now' = FALSE /\ need' = FALSE
  /\ UNCHANGED <<stack, ret, hold, doing, env>>

(* The re-tuning timer, or a runtime resume of the host.                   *)
mmc_retune_timer ==
  /\ can /\ ~need
  /\ mmc_retune_needed(TRUE)
  /\ UNCHANGED <<stack, ret, hold, now, doing, can, timing, env>>

Init ==
  /\ stack = <<>> /\ ret = "none"
  /\ hold = 0 /\ now = FALSE /\ need = FALSE /\ doing = FALSE /\ can = FALSE
  /\ parked = Idle /\ timing = "LEGACY" /\ card = "none" /\ bkops = FALSE
  /\ cqe = FALSE /\ cardBusy \in BOOLEAN

(* Weak fairness is assumed of Run: the claiming thread runs, and every    *)
(* request handed to a controller is completed, for its driver arms a      *)
(* timeout for each.                                                       *)
Run == Request \/ HostDone \/ Switch \/ ScriptStep \/ ScriptNext \/ Retune \/ Bkops

Next == Run \/ CommandAnswered \/ Start \/ WaitTransfer \/ CqeOn \/ PowerOff \/ mmc_retune_timer

Spec == Init /\ [][Next]_vars

-----------------------------------------------------------------------------
(* Every variable has its type.                                            *)
TypeOK ==
  /\ stack \in Seq(Frames)
  /\ ret \in Results \cup {"none"}
  /\ hold \in Nat
  /\ {now, need, doing, can, bkops, cqe, cardBusy} \subseteq BOOLEAN
  /\ parked = Idle \/ (parked \in Frames /\ parked.fn = "tfr")
  /\ timing \in Timings
  /\ card \in {"none", "present", "removed"}

(* The activations that hold re-tuning at this moment.                     *)
Holding(f) ==
  \/ f.fn \in Requests /\ f.at # "start"
  \/ f.fn \in Switches /\ f.at # "start"
  \/ f.fn = "sleep" /\ (f.step = 2 \/ f # stack[1] \/ ret # "none")
  \/ f.fn = "start_bkops" /\ (f.step = 3 \/ (f.step = 2 /\ (f # stack[1] \/ ret # "none")))

(* host->hold_retune counts exactly the activations that hold re-tuning,   *)
(* the transfer in flight and the BKOPS left running on the card: no path  *)
(* through the retries, HPI and early returns leaks or drops a hold.       *)
HoldBalanced ==
  hold = Cardinality({i \in 1 .. Len(stack) : Holding(stack[i])})
         + (IF parked = Idle THEN 0 ELSE 1) + (IF bkops THEN 1 ELSE 0)

Retuning(i) == stack[i].fn = "mmc_retune"

(* No re-tune starts inside a sequence that holds re-tuning once its first *)
(* command is through: between a SWITCH and its status polls, after the    *)
(* card has been deselected for sleep, during a transfer or BKOPS.  Nor    *)
(* inside another, although it sends its requests through the engine that  *)
(* it was called from.                                                     *)
HeldNotTuned ==
  \A i \in 1 .. Len(stack) : Retuning(i) =>
    /\ ~bkops /\ ~InFlight
    /\ \A j \in i + 1 .. Len(stack) :
         /\ stack[j].fn \in Switches => stack[j].at = "cmd"
         /\ stack[j].fn = "sleep" => stack[j].step = 1
         /\ ~Retuning(j)

(* The command line belongs to one request at a time: those that the       *)
(* controller has been given, but for a transfer in flight whose command   *)
(* has been answered (the transfers of two requests are up to their        *)
(* callers).                                                               *)
CommandLineExclusive ==
  Cardinality({i \in 1 .. Len(stack) : stack[i].at = "host"})
    + (IF InFlight /\ ~Answered THEN 1 ELSE 0) <= 1

(* "In the case of 'cap_cmd_during_tfr' requests, the transfer is ongoing  *)
(* and the caller can issue further commands that do not use the data      *)
(* lines" (core.c:611), after a wait "for the command line to become       *)
(* available" (core.c:291): a command without data is not held up once the *)
(* command of the transfer has been answered.                              *)
FurtherCommands ==
  Fn(Requests \ {"data", "tuning", "tfr", "sdio"}) /\ At("start") /\ InFlight /\ Answered
    => mmc_wait_ongoing_tfr_cmd

(* A re-tune that succeeds leaves the bus in the timing it found it in.    *)
TimingRestored ==
  [][stack # <<>> /\ Fn({"mmc_retune"}) /\ stack' = Below /\ ret' = "ok"
     => timing = Top.old]_vars

(* Every call of the engine returns, whatever the controller answers:      *)
(* retries, polls, HPI and nested re-tunes all come to an end.             *)
RequestReturns == stack # <<>> ~> stack = <<>>
=============================================================================
