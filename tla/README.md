# Verification of the MMC/SD/SDIO stack in `src/drivers/mmc-test`

The repository is a copy of the Linux 4.19 MMC subsystem, taken apart and put
together again as loadable modules for an i.MX6ULL board.  This directory holds
TLA+ specifications of it, TLC runs that check them on small instances, and
TLAPS proofs.  File and line references are to `src/drivers/mmc-test`.

## 1. The system

| Component | Files | State | Operations |
|---|---|---|---|
| Claiming the host | `core/core.c` 972-1072 | `claimed`, `claimer`, `claim_cnt`, `wq`, PM usage | `__mmc_claim_host`, `mmc_release_host`, `mmc_get_card`, `mmc_put_card` |
| Request engine | `core/core.c` 286-651 | `ongoing_mrq`, `cqe_on`, each request's error and retries | `mmc_start_request`, `mmc_request_done`, `mmc_wait_for_req(_done)`, `mmc_wait_for_cmd` |
| Re-tuning | `core/host.c` 51-100, 202-237, `core/host.h` | `hold_retune`, `retune_now`, `need_retune`, `doing_retune`, `can_retune`, timer | `mmc_retune`, `mmc_retune_hold/release/recheck/enable/disable` |
| MMC operations | `core/mmc_ops.c` | card busy, BKOPS in progress | `__mmc_switch`, busy polling, HPI, BKOPS, cache flush, tuning blocks |
| eMMC and MMC cards | `core/mmc.c` | `host->card`, `ios`, EXT_CSD, suspended flag, cache, queue and notification flags | init, timing and width selection, detect, remove, suspend, resume, shutdown, runtime PM |
| SD cards | `core/sd.c`, `core/sd_ops.c` | SCR, SSR, switch capabilities, signal voltage | init with retry at 1.8 V, UHS selection |
| SDIO cards | `core/sdio.c`, `core/sdio_ops.c` | CCCR, functions, the card's references | init with ten retries, making and adding functions, undoing it |
| SDIO CIS tuples | `core/sdio_cis.c` | a list of tuples per function, which ends in the card's | reading a chain, freeing it |
| SDIO function access | `core/sdio_io.c` | block size, the card's register of it | block size, transfers split into commands, padding of sizes |
| SDIO bus | `core/sdio_bus.c` | references, presence, bound driver, runtime PM usage | probe, remove, add, free |
| SDIO interrupts | `core/sdio_irq.c` | `sdio_irqs`, `sdio_irq_pending`, `sdio_single_irq`, thread, abort flag | claim and release an interrupt, the thread, the work item |
| Detection, life of a host | `core/core.c` 135-167, 811-965, 1104-1120, 1426-1603, `core/slot-gpio.c` | `bus_ops`, `bus_refs`, `bus_dead`, `rescan_disable`, `rescan_entered`, the detect work | `mmc_rescan`, attach, detach, `mmc_pm_notify`, `mmc_stop_host` |
| Voltage and power | `core/core.c`, `core/pwrseq.c` | `ios.power_mode`, signal voltage | power up, off, cycle, switch voltage |
| Command queue engine | `host/cqhci.c` | slots, `qcnt`, `recovery_halt`, `waiting_for_idle`, registers | request, interrupt, timeout, recovery, off |
| Card bus | `core/bus.c` | | probe, PM callbacks: the order of driver and card |
| SDHCI library | `host/sdhci.c`, `host/sdhci.h` | clock register, `actual_clock`, running requests | clock, reset, ending requests on removal |
| i.MX glue | `host/sdhci-esdhc-imx-test.c` | clocks, pins | probe |
| Rest | `debugfs.c`, `quirks.h` | | printing, tables |

How they interact.  Everything that talks to a card does so with the host
*claimed*: clients, the SDIO interrupt thread, the detect work, suspend.  The
claim is a reentrant lock whose owner is a task or a context.  With the host
claimed, a client calls the *request engine*; before each command the engine may
*re-tune*, which sends commands through the same engine.  Sequences that must
not be disturbed hold re-tuning.  The *detect work* runs beside the clients,
attaches and detaches the *bus handler* of the kind of card it finds, under a
reference count and not under the claim; the PM notifier and `mmc_stop_host`
cancel that work before they touch the same state.  The *SDIO interrupt thread*
claims the host like a client, and is stopped by a client that holds the host.
An eMMC card is *suspended*, by runtime PM when nobody uses it, by the sleep of the
system and its shutdown, with the host claimed; coming back it is identified again,
like a new card, into the old structure.  The *functions* of an SDIO card are devices
of their own: they hold the card, their drivers come and go, and others hold them.
The *command queue engine* shares its slots between the owner of the host, its
interrupt handler and the block layer's timeouts.

What is hard: lost wake-ups and nested claims; a lock that the stopped thread
needs and the stopper holds; a re-tune inside the engine that called it; holds
dropped on early returns; completion racing timeout racing recovery; callbacks
used without a lock; card events that come while nobody looks; a card and a host
that disagree on the bus after a switch of which nobody knows whether it was taken;
references of objects that are half set up when a step fails.  The complete
list, line by line and with the properties that watch each, is under `hazards`
in `PROJECT.json`.

Parts of the kernel it relies on are not in the repository and are modelled
from how the code here uses them (`external` in the map): the host controller
drivers that answer requests; the kernel's wait queues, work queues, threads
and timers; the driver core and the two PM cores (runtime and system), with what they
promise to the callbacks in `core/bus.c` and `core/sdio_bus.c`; the drivers of cards.

## 2. Modules

`HostLock` is an abstract specification.  `HostClaim` implements it; that the other
modules use the host only as it allows is proved (`ClaimsAllowed`).  `HostPower`
holds operators on power, clock and voltage; `CardInit` and `MmcInit` are built from
them, and `MmcCard` composes `MmcInit` with the claim and the PM cores.  `SdioFunc`
is built from `SdioCis` and `SdioIo`, two modules of operators.  `SdhciClock` stands
alone: it is the other side of `ios.clock`.  `SdioIrq`,
`HostLifecycle`, `MmcCard` and `SdioFunc` use the host through it: their `holder` (in
`SdioIrq` `claimer`) is the owner of `HostLock`.  In `MmcRequest` and `CardInit` the
thread that owns it is the only caller.

A module `MC<Name>` gives `<Name>` its instance for TLC.  Three of them run two modules
that share no state: `MCCore` (`HostClaim` and `MmcRequest`), `MCControllers` (`Cqhci`
and `SdhciClock`) and `MCSdio` (`SdioIrq` and `SdioFunc`).  Their variable `part`, chosen
at the start, says which of the two moves, so that TLC explores the union of the two
state spaces and not their product; they also state the fairness of the threads of
their modules.

Every module writes one step per critical section, or per access to state that
no lock protects; between two steps any other actor may move.  Some modules hold,
beside an operator, variants of it that differ by one plausible mistake
(`ReleaseWakeOne` beside `ReleaseWake`); nothing refers to them.  They document
what each property is able to catch: put in the operator's place, the property
named in `PROJECT.json` fails.

### HostClaim

`claimed`, `claimer`, `claimCnt` and `ctxTask` are the host's fields and the task
fields of the contexts; `claims` is a history of what was granted and not yet
given back; `pmUse` is the usage count of the controller that claims account for.
`ClaimEnter`, then `ClaimGrant`, `ClaimSleep` or `ClaimStop` (the body of the
loop, under `host->lock`), then `ClaimResume` (`pm_runtime_get_sync`, after the
lock) are `__mmc_claim_host`; `Release`, `ReleaseWake` and `ReleasePut` are
`mmc_release_host`.  The abort flag belongs to the SDIO interrupt thread.

Properties: one owner (`ClaimExclusive`, proved), the controller is resumed for a task
whose claim has returned (`HolderPowered`), PM references balance
(`PmBalanced`), no lost wake-up (`NoStrandedWaiter`), an aborted claimer returns
(`AbortReturns`), refinement of the lock (`LockSpec`).

### SdioIrq

Three kinds of host: with the interrupt thread, with polling, and with a work
item instead of the thread.  The thread's locations `tpc` follow the lines of
`sdio_irq_thread`: claim with abort, dispatch, clear the pending flag, back off,
arm, unmask, sleep, exit.  A driver's locations `dpc` follow `sdio_claim_irq` and
`sdio_release_irq`.  The card asserts interrupts; the host's handler masks the
line and wakes whoever dispatches.  CMD52 and thread creation may fail; a write
that fails may still have reached the card.

Properties: the short cut calls a handler that is there and the only one
(`FastPathSafe`); with no handler left, also after failures, the line is masked and the
thread gone (`QuietWhenUnused`), so that a signal never meets a thread that is gone,
although `sdio_irq_thread` is never cleared; the line stays masked until a dispatch is
over (`MaskedWhileDispatched`); a handled interrupt is served (`InterruptServed`); a
driver that stops the thread gets its call back (`StopReturns`).

### MmcRequest

The thread that owns the host is a call stack of *activations*.  A request goes
through `start` (`mmc_start_request`), `retune` (`mmc_retune`), `tuned` (back from
it), `issue` (`__mmc_start_request`), `host`, `wait` (`mmc_wait_for_req_done`).
`__mmc_switch`, HPI, BKOPS and tuning are activations with their own steps; the
functions that only call one after the other until an error (`mmc_sleep`,
`mmc_select_hs`, `mmc_select_hs200`, `mmc_select_hs400`, `mmc_hs400_to_hs200`) are
scripts of calls.  Requests are told apart only by what the engine looks at:
whether they retry, carry data, tune, sanitize, wait for the card, or leave the
command line free during the transfer.  Beside the thread run the controller,
which answers with success, a CRC error or a timeout, and the re-tuning timer.

A transfer that leaves the command line free (`cap_cmd_during_tfr`) stays in flight
while the thread makes further requests.  `CommandAnswered` is the moment at which the
card has answered its command and only the data goes on: an event at the controller, of
which the core is not told, for nothing in it could be called then.
`mmc_wait_ongoing_tfr_cmd` waits for `cmd_completion`, which comes with the whole transfer.

Properties: `hold_retune` counts exactly the activations that hold
(`HoldBalanced`); no re-tune where a hold forbids it, nor inside another
(`HeldNotTuned`); no command is given to the controller while that of another request is
unanswered (`CommandLineExclusive`); a re-tune that succeeds leaves the timing as it was
(`TimingRestored`); every call returns (`RequestReturns`).  That commands without data
go on while a transfer is in flight (`FurtherCommands`) is what the documentation says
and the code does not do (section 5).

### Cqhci

Driver fields, and the registers of the engine as the driver sees them: the
doorbell, the completion notifications (TCN), the interrupt status and mask, the
tasks in error (TERRI).  Actors: the owner of the host (queueing, waiting for idle,
turning the engine off, recovery), the interrupt handler in its four steps (read
the status, error under the lock, read TCN, complete under the lock), and the
timeout handler.  Halting and clearing the engine may time out.

Properties: a request is in its slot until it is handed back, once
(`QueueAccounting`); a recovery that is due has a task in error
(`RecoveryMarksOne`); outside recovery the engine owns nothing while it is off
(`OffMeansIdle`); no lost wake-up in `cqhci_wait_for_idle` (`NoLostWakeup`, proved); nothing
completes that the engine has not finished (`NoFalseCompletion`); recoveries end
(`RecoveryEnds`).

Assumed of the engine: clearing its tasks, or resetting it, also empties its
completion notifications.  Assumed of the machine (`PromptIrq`): a hard interrupt
handler that has begun is over before a whole recovery, with its sleeping waits, is.
Without that, TLC shows that a handler which has read TCN before a recovery
completes a request queued after it in the same slot; `cqhci.c` has no check
against it.

### HostLifecycle

`worker` follows `mmc_rescan`, `mmc_rescan_try_freq`, `mmc_attach_mmc` and
`mmc_detect`; `control` follows suspends (`mmc_pm_notify`) and at last
`mmc_stop_host`; a card driver claims and releases the host; the user inserts
cards and pulls them, quickly or slowly (the switch opens before the contacts
part).  `bus_ops` is the kind of card attached; only `mmc_ops` has callbacks.

Properties: the bus handler's references (`BusRefsBalanced`, proved), callbacks run with
their handler and card in place (`CallbackSafe`), after `mmc_stop_host` nothing is
left (`StopFinal`), it returns (`StopReturns`), and a card that is gone is noticed
(`RemovalNoticed`).

Abstracted: the two critical sections of `mmc_detach_bus` are one step (nothing
reads `bus_dead` without also taking a reference, which both leave alone);
`card_event` and the clock, voltage and bus mode settings between the commands of
an attach are left out; `mmc_pm_notify`'s removal of a card is dead code here, no
bus handler having a `pre_suspend`.

### HostPower and CardInit

`HostPower`: `ios` is `host->ios`, `board` the capabilities and operations of the
host, `card` what the card believes: its level, whether it is stuck half way through
a voltage switch, the widths of its memory and I/O parts, its timing.  Power off
reaches the card only if `board.cuts`.

`CardInit` runs one attempt after the other, over frequencies, SDIO and SD.  `pc`
follows `mmc_sdio_init_card` and `mmc_sd_init_card` command by command, or several
that fail alike; `mmc_set_uhs_voltage` (`cmd11`, `switch`) is shared, and `bus_ops`
tells to whom it returns.  `loc` has the locals (`retries`, the request for 1.8 V in
`ocr`, S18A in `rocr`) and the fields of the card; `mem` counts card structures.
Every command may fail, and a write that fails may have reached the card.  A card
answers nothing without power, clock, or in the middle of a switch; at different
levels it may answer or not.

`mmc_sd_get_csd` has an empty body in this repository.  All that hangs on
`csd.cmdclass` (the switch function, UHS modes of SD cards, the repair of a card left
at 1.8 V) is unreachable and not modelled, and `csd.max_dtr` is 0: outside 1.8 V the
clock of an SD or combo card is set to 0.

Properties: no card structure is lost (`CardOwned`); host and card agree on level,
width and timing, and UHS timing is at 1.8 V (`BusAgrees`, on boards that cut power
and can see the card's lines); the retries end (`InitReturns`).

Abstracted: the supply voltage and 1.2 V; the functions of an SDIO card are one
step, `IoAdd`; in this module nobody else uses the host.

### MmcInit and MmcCard

`MmcInit` is `mmc_init_card` and what it calls.  Its thread has the host claimed, so
that only the faults of the card come between its steps, and each function is an
operator from a *session* to the set of sessions it may end in.  A session has the
board, the card's traits (`modes` is what `mmc_select_card_type` found in common),
`ios`, the card's registers (`chip`), fields of `struct mmc_card` (`mem`) and what the
last function returned.  `Then` is the code's `if (err) return err`, `Tolerate` its
`if (err && err != -EBADMSG)`.  Every command may fail; a switch is taken, refused,
lost, or taken with its answer lost; whether the refusal is seen depends on who asks
for the status (`SwitchTimed`, `SwitchBlind`, `mmc_switch_status`, `LenientStatus`).
`spoilt` marks the sessions in which the code cannot know: a switch reported as
failed was taken, or `mmc_select_hs400es` met the case listed in section 5.

In `MmcCard` users take the card (`mmc_get_card`: reference, resume, claim) and give it
back (`mmc_put_card`).  `Queue` are the threads of the card's driver, which it stops
before a suspend; `Watchers` is `mmc_rescan`, which only the PM notifier stops, so not at
a shutdown.  The other actors are the runtime suspend behind the last user
(`AutosuspendStart`, `mmc_runtime_suspend`), and the sleep or shutdown of the system
(`system`), whose steps are the phases of the PM core and the callbacks of
`core/bus.c`: the driver first, then the card.  A callback that claims the host is one
step that needs the host free: whoever might look in between has to claim it.
`sound` is FALSE once a suspend or an initialisation has failed.

Properties: who has taken the card finds it powered and not suspended (`ServedAwake`);
host and card agree on width, timing, clock and level (`BusAgrees`); the fields for
cache and command queue are true over any number of re-initialisations (`FieldsTrue`);
no power is taken from a card with data in its cache, or that has not been put to
sleep, deselected or told (`OffClean`); a shutdown tells a card that expects it, also
one that runtime PM has put to sleep (`ToldAtShutdown`); whoever asks for the card
gets it (`GetReturns`).

Abstracted: registers that nothing in the module reads again (power class, driver
strength, partition); after a failed initialisation the bus is as after power up
(`Unsettled`), for the card is freed, or powered down and identified again.

### SdioCis, SdioIo and SdioFunc

`SdioCis` has `sdio_read_cis` as a function on a chain of tuples, with the reads that
fail as a parameter, and `ReadRight`, the same without a loop.  `SdioIo` has the
arithmetic of `sdio_io.c` on a record of the limits of host, card and function; the
limits of the command (512 bytes, 511 blocks, words of 4 bytes) are constants.

`SdioFunc`: `attach` follows `mmc_attach_sdio` after the card's initialisation, function
by function, and the way back when a step fails (`unwind`, which is `mmc_sdio_remove`).
`card.refs` and `func[f].refs` are the reference counts of the devices, `present` is
`sdio_func_present`, `linked` the functions whose list of tuples ends in the card's and
holds a reference to it.  Beside it drivers are bound and unbound
(`ProbeStart`..`RemoveEnd`, `sdio_bus_probe` and `sdio_bus_remove` in their steps), set
block sizes, transfer command by command and use an interrupt, and others hold devices
(`UserGet`, `UserPut`).  A block size is written as two bytes, the second of which may
fail (`HalfWritten`).

A transfer starts on any function, also on one that has told no block size.  Its next
command is taken by the request engine (`TransferCommand`), or refused because a block,
their number or the whole is too large for the host (`TransferRefused`, `mmc_mrq_prep`);
or there is none, since the sizes are zero (`TransferStalls`): a division by zero, or a
command of no bytes that is sent for ever.  A stalled transfer keeps the host.

Properties: the card outlives whatever points into it (`CardOutlives`); after everything
has been taken down each added function is freed, and the card if every function that
came up had been added (`Reclaimed`); runtime PM counts are what the rules in
`sdio_bus_probe` say (`PmBalanced`); no interrupt handler outlives its driver
(`QuietAfterRemove`); the commands of a transfer keep to the limits of SD_IO_RW_EXTENDED
and together move each byte once, the engine refuses one only for exceeding the host's
transfer size, and only a function without a maximum block size stalls (`TransferExact`).
That the bytes moved are what the host expects is not claimed while the last setting of the
block size has failed (`torn`): the driver was told, and the card's register is neither the
old size nor the new.  Two promises of comments do not hold (section 5): that functions
never added are freed too (`FunctionsFreed`), and that commands keep to the host's transfer
size (`TransfersSplit`).  A reading of chains that differs from `ReadRight`, and
a padded size that is too small, not stable, too large, or costs another command, would
be found by the two ASSUMEs of `MCSdioFunc`.

Abstracted: the contents of tuples, but for the block size; `MMC_QUIRK_NONSTD_SDIO`,
which nothing sets; `sdio_enable_func` and `sdio_disable_func`; slots of
`card->sdio_func` that were freed.

### SdhciClock

`SetClock`, `Calculate`, then `Stable` or `NeverStable` are `sdhci_set_clock`: the clock
is stopped, `sdhci_calc_clk` finds a divider, `sdhci_enable_clk` writes it, waits, and
gives the card the clock.  `reg` is the clock register, `actual` what the host reports.
The three loops over divisors are `FirstOf`, the first element of a set that is slow
enough, or else the value that ends the loop; the older divisors are those a one reaches by
doubling (`Doubled`).  The widths of the divider, the width of
an `unsigned int` (`Word`) and the 25 MHz of the quirk are constants.  A driver sets
preset values, and resets the controller, between two calls.

Properties: the card gets the fastest clock the controller can make that is not above
the one asked for, also around a controller whose divider 0 is broken (`BestClock`); what
the host reports is what the card gets, with presets too (`ActualIsDriven`).  They
hold where the product of clock and multiplier fits a word (`Fits`) and outside the gap
of finding 3 (`InGap`); the reported clock only without the quirk.

Assumed of the controller: it makes of its register what the SD host specification
says (`Made`).  Abstracted: from which register the preset of a timing is read
(`UsePreset` takes any), delays, LED, card detection and the bus mode bits.

## 3. Runs

| Run | Instance | Shows |
|---|---|---|
| `core` | claims: 3 tasks, one claiming for a context, one abortable, 2 nested claims each; requests: 1 retry, 1 poll, 1 tuning block, every kind of operation | all of HostClaim, and that it implements HostLock; all of MmcRequest |
| `further_commands` | no retries, three operations | **violated**: a command without data waits for the whole transfer in flight (`core/core.c:294`, `:371`) |
| `controllers` | 2 slots, 2 requests queued again and again; a divider of 2 + 1 bits, words below 64, 32 controllers, 21 requests from 0 to 45 | all of Cqhci; all of SdhciClock |
| `sdio` | interrupts: 2 functions, 3 kinds of host, 4 driver calls, 2 failures; functions: 2, commands of at most 3 bytes or 2 blocks, words of 4, a host that takes 6 bytes at once | all of SdioIrq and of SdioFunc; its ASSUMEs check `sdio_read_cis` on all chains of up to 3 tuples, `sdio_align_size` on all sizes up to 24 |
| `functions_freed` | the second half of `sdio` | **violated**: a function that was never added is not freed (`core/sdio_bus.c:352`) |
| `transfers_split` | the second half of `sdio` | **violated**: a command exceeds the host's transfer size and is refused (`core/sdio_io.c:319`) |
| `lifecycle` | 2 frequencies, 3 insertions or removals, 2 suspends, removable or not, polled or not | all of HostLifecycle for eMMC and MMC cards |
| `lifecycle_kinds` | the same with SD and SDIO cards | **violated**: removing such a card calls a NULL callback (`core/core.c:1528`, `:923`) |
| `card_init` | 2 frequencies, 2 voltage switches, all boards, all SD, SDIO and combo cards | all of CardInit |
| `card_freed_once` | the same | **violated**: a card structure is freed twice (`core/sdio.c:702`, `:708`) |
| `mmc_card` | one driver thread and one rescan, four cards on their boards | all of MmcCard, with every outcome of every initialisation |
| `clock_gap` | the second half of `controllers` | **violated**: "Divisor can be too small to reach clock speed requirement. Then use the base clock" (`host/sdhci.c:286`) |

Each run checks the properties of its module that the list in section 2 does not call
proved.  Types, `ClaimExclusive`, `BusRefsBalanced` and `NoLostWakeup` were checked by TLC
and are now left to the proofs.  The inductive invariants of section 4 were checked by TLC
on the instances of the runs before they were proved.

Why the bounds are enough.  *core*, claims: three tasks are an owner, a sleeper and a third
who overtakes; two nested claims tell the first and the last from the others.
*sdio*, interrupts: two functions tell "the only one" from "one of several", four calls let
both claim and release, two failures let a call fail on the way in and on the way
out.  *core*, requests: one retry gives a first and a last attempt, one poll a busy and a
ready answer; the stack is bounded by the code (a switch inside a script inside a
re-tune inside a request inside an operation).  *controllers*, queue: two slots tell "one of the
queue" from "the queue"; requests come again without limit.  A run with a third
request, sharing a slot, passed for safety (4.1 million states); it is too slow to
keep.  *lifecycle*: three moves are a pull, an insertion and another pull around any
scan, two suspends let one follow another.  *card_init*: two frequencies let a card meet
what an earlier attempt left behind, two of the ten voltage switches give a retry that
asks for 1.8 V again and one that no longer does.  *mmc_card*: the callbacks exclude
each other by the host and by `rpm.status`; two users of different kinds are one that the
driver stops and one that it does not.  The four setups take between them every branch of
`mmc_init_card` and `_mmc_suspend` (HS400 by way of HS200, HS400ES with a board that cuts
all power and BKOPS without HPI, eight lines of which four are wired with HS, DDR52, cache
and queue, and a card without EXT_CSD).  *sdio*, functions: one function is up while the other
comes or fails; one has runtime PM, the other not.  With limits of 3 bytes, 2 blocks and
6 bytes in all, transfers of 7 and 8 in blocks of 2 and 4 take block commands up to the
limit and below it, bytes, a command that is too large for the host, and
none where there is no block size; the limits themselves are parameters of the proofs.
*controllers*, clock: clocks of 13
and 20, one on each side of the quirk's limit, times 0, 2, 3 or 5 give no programmable
mode, products below the word and above it; 21 requests from 0 to 45 lie below the slowest clock, between
any two dividers, in the gap, and above the base clock.

Fairness.  Weak fairness is put on threads once they run inside a function, on the
work queue and on handlers of pending interrupts: the scheduler runs what is
runnable.  Nothing is assumed of clients, users, cards and the command queue engine,
except that a card driver releases the host it has claimed, a half pulled card comes
out, and the controller ends every request it was given, if only with its timeout.
Strong fairness is used in `HostLifecycle` for threads that wait for the host (its
wait queue is not ordered, but a driver claims again and again only as it is served)
and for the recovery in `Cqhci`, which the owner starts from its idle state, between
requests.  In `MmcCard` the claim and the resume, which needs it, have strong fairness:
`HostClaim` shows that a release wakes a waiter, and users take the host no more often
than they are scheduled; nothing obliges the system to sleep or users to come.
`SdioFunc` and `SdhciClock` state no fairness; they have no liveness property.  The
fairness of `HostClaim`, `MmcRequest`, `Cqhci` and `SdioIrq` is in `MCCore`,
`MCControllers` and `MCSdio`, where it holds for the part that moves.  `lifecycle`,
`sdio`, `card_init` and `mmc_card` do not check deadlock: a stopped host, a
card nobody uses, a system that is down, or an initialisation that is over may stay as
it is.  `CardInit` has
one thread, which runs on.

## 4. Proofs

`HostClaimProofs` proves about `HostClaim`, for any tasks, contexts and nesting
bound: `TypeCorrect`, `ClaimExclusiveHolds`, `ClaimAccountingHolds`,
`NoStrandedWaiterHolds`, `PmBalancedHolds`, `HolderPoweredHolds` and
`LockRefinement`.  The only assumption on constants is `ClaimAssumption`: finitely
many tasks, contexts that are not tasks, a bound of at least one nested claim.

The argument.  None of the properties is inductive: from a state in which `claimCnt`
is 1 while two tasks hold claims, a release would free a held host.  The inductive
invariant `IInv` adds what the code maintains: `claimCnt` is the cardinality of
`claims`; `claimed`, `claimer` and the context's task name the owner of every one of
them (`ClaimAccounting`); a task that waits to resume the controller has the first
claim; the sleepers of a free host have a waker (`NoStrandedWaiter`); and `pmUse` is
the number of tasks that owe a put, plus one for the claim that has resumed
(`PmInv`).  Each conjunct is preserved by each action; cardinalities come from
`FiniteSetTheorems`.  `HolderPoweredHolds` has a hypothesis, that no two tasks claim
in the name of the same context: without it a second task of the context returns
before the first has resumed the controller (a hazard in `PROJECT.json`).
`LockRefinement` maps grants to `Acquire`, releases to `Release`, the rest to
stuttering.

`HostLifecycleProofs` proves about `HostLifecycle`, for any kinds of card (also those
without callbacks), frequencies and bounds: `TypeCorrect`, `BusRefsBalancedHolds`,
`CallbackSafeHolds`, `StopFinalHolds`.  Neither `host->card` nor `bus_ops` is
protected by the claim in every function that writes it; what keeps them together is
which thread can be where.  `IInv` says so: there is a card exactly while its handler
is attached, but for the time of its initialisation and removal (`CardInv`); each
stage of the detect work knows whether a handler is attached (`WorkerInv`); once
`mmc_stop_host` has cancelled the work the worker is idle and nothing is queued
(`StopInv`).

`ControllerProofs` proves about `Cqhci`, for any slots and requests: `TypeCorrect`,
`QueueAccountingHolds`, `NoLostWakeupHolds`, `RecoveryMarksOneHolds`, and, if
`PromptIrq`, `OffMeansIdleHolds` and `NoFalseCompletionHolds`.  `IInv` adds that the
slot of the request being queued is free, that a queue found idle stays empty until
the owner queues again, and that the stages of a recovery run only while one is due.
For the last two theorems `TasksInv` keeps three sets of tasks apart: those the
engine works on, those it has finished, and those whose completion the handler has
read and not delivered; without `PromptIrq` the third can survive a recovery.  That
every set of slots has a first one, which `cqhci_error_irq` marks when the engine
names none, comes from `NatLessThanWellFounded`.

It proves about `SdhciClock`, for any widths of the divider and of a word, any controllers
and requests, `ClockBest` and `ClockActual`.  The only assumption is `ClockAssumption`: the constants are
numbers, and not zero where one divides.  The divisors of each mode are a
set that grows, a larger divisor makes no faster clock, so that the first that is slow
enough is the best (`FirstIsBest`); that the driver and the controller mean the same
divisor by what is in the register is `ClockInvariance`, mode by mode.  `Doubled` is a
recursive function: that there is one, and that it grows, is proved by induction.

`SdioIrqProofs` proves about `SdioIrq`, for any functions, kinds of host and numbers of
calls and failures: `TypeCorrect`, `FastPathIsSafe`, `IrqsCounted`, `QuietHolds`,
`MaskedHolds`.  `IInv` says that `sdio_irqs` is the number of handlers (`CountInv`; also
`IrqsCounted`), that whoever is inside a claim or a release has the host (`HolderInv`),
when the short cut may be set (`SingleInv`), that a thread without handlers to serve is
being stopped (`ThreadInv`), and where the thread may be while the line is unmasked
(`MaskInv`).  The first and the last handler are told from the others by the cardinality
of the set of handlers.

`SdioFuncProofs` proves about the operators of `SdioIo`, for all sizes and limits, that
each command of a transfer that has a next one keeps to those of SD_IO_RW_EXTENDED and
moves at least a byte (`CommandFits`; a missing block size is excluded only as far as the
transfer stalls on it), and that a padded size is
not too small (`AlignHolds`) nor too large (`AlignBounded`) and, where a block is a whole
number of words, not padded again (`AlignStable`) and sent in no more commands
(`AlignNoDearer`); about `SdioCis`, for chains of any length, that its loop reads them as
`ReadRight` says (`CisReadRight`); and about `SdioFunc`, under the assumptions it
declares on counts and sizes, `TypeCorrect`, `CardOutlivesFunctions`,
`FunctionsReclaimed`, `PmIsBalanced`, `NoHandlerLeft`.  The point is what a reference
count stands for, stage by stage of the attachment: who holds a function (`CountInv`, as
a sum over the functions for the card), whose tuples end in the card's (`LinkInv`), which
functions have a place in `card->sdio_func` (`PlaceInv`), that what has been freed is in
nobody's hands (`MemoryInv`), and what a driver has while it is bound (`DriverInv`).
`TransferIsExact` joins the two halves: a block size never exceeds what the host can take,
and the card's register has it unless a setting failed (`BlockInv`); a transfer has the
host, so that nobody changes that size under it, and a size is missing only where the
maximum is; and what it has sent lies side by side from
the start of the buffer up to what is left (`XferInv`), to which `CommandFits` adds one
command.  That no command is refused for the size or the number of its blocks follows from
the same limits; that it is not refused for its total cannot be proved, as it is not so.
No induction over the size is needed: the transfer's state has it.  The number of
commands of a size, and the loop of `sdio_read_cis`, do need one.  For the loop it says
what has been queued and found after any number of passes: what the tuples so far give,
before the first that stops the reading; the final result, after it.

`CardInitProofs` proves about `CardInit`, for any frequencies and number of voltage
switches: `TypeCorrect`, `CardOwnedHolds`, `BusAgreesHolds`.  A stage says whether there
is a card structure (`HasStruct` in `OwnInv`) and that retries are left where a voltage is
being chosen (`LocInv`).  On boards that cut power and see the card's lines (`Good`)
`BusI` holds too: host and card are at one level unless the card is half way through a
switch (`LevelInv`), the width is 1 until the card has been told (`WidthInv`), a UHS
timing is chosen only at 1.8 V (`UhsInv`), the host is fast only after the card
(`TimingInv`).  On other boards `BusAgrees` says nothing, as the code cannot know.

`MmcRequestProofs` proves about `MmcRequest`, for any number of retries, polls and
tuning blocks and any set of top-level calls (`RequestAssumption`, `OpsAssumption`):
`Invariance`, `TypeCorrect`, `Balance`, `HeldSequences`, `Exclusive`, and the action
property `Restored`. What holds the stack together is who may call whom, and where in
its code the caller then is (`Calls`, `Linked`), so that each return finds a caller that
waits for this callee; the proof does not use its depth. `HoldInv` counts: `hold_retune`
is the number of activations that hold (`TopCount`, in which the top of the stack is
told from those below it, for a hold is taken or given back when a callee has returned),
one for a transfer in flight and one for BKOPS. `NowInv` is what makes holds work: while
a re-tune is due (`now`), no activation is past its first command (`Firm`), so that a
re-tune never begins above one that must not be interrupted, and `Guarded` keeps it so
while it runs. `FlightInv` and `BkopsInv` say what may run beside a transfer and beside
BKOPS. `TimingInv` follows the walk HS400 -> HS200 -> tuning -> HS400 inside a re-tune;
`Restored` reads it at the step in which the re-tune returns. Pushing, popping and
moving on in the running activation have a lemma each, and each action is one of them.

`MmcCardProofs` proves about `MmcCard` with `MmcInit`, for every board, every card, any
setups of the two (`SetupsAssumption`) and any threads of the driver and watchers
(`UsersAssumption`): `Invariance`, `TypeCorrect`, `Served`, `Agreed`, `FieldsCorrect`,
`Clean`, `ToldOff`.  Its first half says of each function of `MmcInit` what every session it
may end in has in common with the one it began in: `Of` (board, traits, and what is not its
business), then how far the bus has come (`Settled`, `Chosen`, `Timed`, `Fitted`), up to
`Come` for `mmc_init_card` and `Kept`, `Gone`, `Asleep` for `_mmc_suspend` and its
parts.  From then on those functions are known by these lemmas alone.  The second half is
`IInv`: what struct mmc_card, the card and the bus say of each other (`CardInv`, `BusInv`,
`NotifyInv`, `OffClean`), that a shutdown has told a card it finds asleep (`ShutdownInv`),
whom the system has stopped (`StopInv`), whose references make up the usage count
(`UsersInv`), and what runtime PM may do while users are where they are (`RpmInv`); the
last two give `Served`: runtime PM suspends only at a usage count of zero, and the sleep of
the system stops the users first.  A shutdown does not stop the rescan, which is the
exception `ServedAwake` makes.

Every other module with a `holder` keeps to `HostLock` (`ClaimsAllowed`, in
`SdioIrqProofs`, `HostLifecycleProofs`, `MmcCardProofs` and `SdioFuncProofs`): each of
their steps takes a free host, gives back one that is held, or leaves it alone.  With
`LockRefinement` this closes the composition: `HostClaim` implements the lock that the
others are written against.  In `SdioFunc` the claim at the start is `mmc_rescan`'s, so
that there the theorem is about steps only.

Only model-checked is liveness: `AbortReturns`, `InterruptServed`, `StopReturns`,
`RequestReturns`, `RecoveryEnds`, `RemovalNoticed`, `InitReturns`, `GetReturns`.  They rest
on fairness, hence on `ENABLED`, which is out of TLAPS's reach.  Every other invariant and
action property that a passing run checks is also a theorem, as is what the two ASSUMEs
of `MCSdioFunc` say.  The library's induction theorems, which take an operator as a parameter,
are of no use to the installed provers; the inductions here are made with a set
(`Induction`: a set that has 0, and with each number the next, has all of them), which
follows from `NatLessThanWellFounded`.

## 5. Disagreements between the code and its text

1. `core/core.c:1528` (run `lifecycle_kinds`).  `mmc_sd_ops` and `mmc_sdio_ops` have
   every callback commented out.  `mmc_stop_host` calls `bus_ops->remove`, `mmc_rescan`
   calls `bus_ops->detect`, neither checks.  Removing a host with an SD or SDIO card,
   or the first card event after one was attached, is a call through NULL.
2. `core/sdio.c:708` (run `card_freed_once`).  When reading the CCCR fails and 1.8 V was
   not asked for, `mmc_sdio_resend_if_cond` frees the card and `goto remove` frees it
   again; `core/bus.c:368` says "(eventually) free it".
3. `host/sdhci.c:275` (run `clock_gap`).  "Divisor can be too small to reach clock speed
   requirement. Then use the base clock": the loop ends with 1025 when none of the 1024
   divisors reaches the request, and the test is made with 1025.  A request between
   1/1025 and 1/1024 of the multiplied clock passes; 1024 does not fit the
   ten bits of the divider, and the card gets the undivided multiplied clock.
4. `core/core.c:371` (run `further_commands`).  "In the case of 'cap_cmd_during_tfr'
   requests, the transfer is ongoing and the caller can issue further commands that do not
   use the data lines" (`core/core.c:611`), after a wait "for the command line to become
   available" (`:291`).  The wait is for `cmd_completion`, which is completed only with
   the whole request (`:405`, or `:554` if it is refused); this copy of the core has no
   function that a controller could call when the command alone has been answered.  A
   further command waits for the transfer.
5. `core/sdio_bus.c:353` (run `functions_freed`).  `sdio_remove_func` returns early for a
   function that was never added, so that it is not freed, nor the card it refers to; the
   comment at 345 says "(eventually) free it", also when "`sdio_add_func()` was never
   executed".
6. `core/sdio_io.c:319` (run `transfers_split`).  "Blocks per command is limited by host
   count, host transfer size and the maximum for IO_RW_EXTENDED" (`:317`), but the code
   takes only the first and the third.  A command above `max_req_size` is refused by the
   request engine (`core/core.c:349`), and the transfer ends with `-EINVAL` part of the way.

Observed while modelling; no run is about these.

- Re-tuning: the switch status checks of the HS200 and HS400 selection (`core/mmc.c`
  1180, 1212, 1472) run without a hold at initialisation, against the comment at
  `core/mmc_ops.c:429`; called from a re-tune they are covered by the hold of the request
  that re-tunes.
- Claiming, re-tuning, interrupts: the window between the abort flag and `kthread_stop`
  (`core/sdio_irq.c:245`); a re-tune that fails half way leaves the timing there
  (`core/host.c:220`).
- SD cards: `core/sd.c:937` speaks of detecting a card that is still at 1.8 V, but
  `mmc_sd_card_using_v18` is always false, because the CSD is never read (`core/sd.c:587`).
- SD cards: `core/sd.c:1073` clears `host->card` before it claims the host,
  `core/mmc.c:2247` after; outside 1.8 V a card on a host with four data lines never
  comes up, since its clock is set to 0 before ACMD6 (`core/sd.c:984`); an error in answer
  to CMD11 returns without the power cycle that the comment at `core/core.c:1284` asks
  for in a later step.
- SDIO cards: when `mmc_attach_sdio` fails, `mmc_attach_sd` goes on with the timing and
  width it left in the host, and `sdio_enable_hs` ignores whether a combo card's I/O
  part went back from high speed (`core/sdio.c:519`), which is why `BusAgrees` speaks of
  the timing of SDIO cards only, and never the other way round.
- MMC cards, initialisation: a switch error in `mmc_select_hs400es` leaves the host's timing
  changed, against what the comment at `core/mmc.c:1474` leads one to expect (part of
  `spoilt`); a negative result of `mmc_select_bus_width` is ignored; after a refused
  re-initialisation `power_off_notification` and `erase_group_def` are those of the
  time before.
- MMC cards, power: a notification that fails clears the flag all the same; when
  `mmc_sleep` fails after deselecting, the card stays deselected but active, and runtime
  PM, in error, does not come again; `mmc_runtime_resume` returns 0 also on failure; BKOPS may
  run while power is taken if the card has no HPI; `mmc_rescan` is not stopped at shutdown.
- SDIO functions: after a CIS that failed to read the list ends in the card's
  tuples without a reference; `sdio_free_func_cis` gives back a reference that was never
  taken for `MMC_QUIRK_NONSTD_SDIO`.
- SDIO transfers: without a FUNCE tuple `max_blksize` is 0, and `core/sdio_io.c:324` divides by
  zero, or the loop at 343 sends commands of no bytes (`TransferStalls`); a timeout in `sdio_enable_func` leaves the function's enable bit set; padding
  may cost one more command at the block limit, or where a block is not a whole number of
  words, although `core/sdio_io.c:207` speaks of an improved size: with blocks of 3 bytes on
  a function that takes 4, 15 bytes (one command) become 19 (two), and with blocks of 5
  where 5 are taken, 8 bytes become 9, and 9 become 14.
- SDHCI: around a broken divider 0 the register has 1 and `actual_clock` the
  undivided clock (`host/sdhci.c:306`, `:322`); the product of clock and multiplier wraps at
  32 bits; `actual_clock` stays set when the clock never stabilises, and after a reset.
- i.MX: the probe falls through into its own error path, frees the host and returns 0
  (`host/sdhci-esdhc-imx-test.c:406`).

## 6. Not modelled

- Decoding of registers: CSD, EXT_CSD, CID, SCR, SSR, CCCR, the contents of tuples.  The
  models take what was decoded as a trait of the card.
- The supply voltage, power class, driver strength, partitions: written once, and read
  by nothing here.
- `sdio_enable_func`, `sdio_disable_func`, reads and writes of single bytes: one command
  under a claimed host.
- `mmc_sd_get_csd` and what its empty body makes unreachable (UHS modes of SD cards).
- The end of requests when an SDHCI host is removed: the request path, the
  interrupt handler and the tasklet it races are not in the repository.  The rest of
  the SDHCI library here is reading capabilities and printing registers.
- i.MX glue, apart from its probe a set of register accesses; `core/pwrseq.c`, which forwards calls;
  sysfs, debugfs, quirks, board files.

`PROJECT.json` gives the reason for each component.

## 7. Plan

What is left, the most useful first.

1. `sdio_enable_func` and `sdio_disable_func` as driver calls of `SdioFunc`.
2. `SdhciFinish`: the requests a removed controller ends, if its request path is
   added to the repository.
