-------------------------------- MODULE SdioFunc --------------------------------
(***************************************************************************)
(* The functions of an SDIO card (core/sdio.c, core/sdio_bus.c,            *)
(* core/sdio_cis.c, core/sdio_io.c): mmc_attach_sdio sets them up one by   *)
(* one and takes everything down again when a step fails; meanwhile        *)
(* drivers are bound to those already added, set block sizes, transfer     *)
(* data and use an interrupt, and others hold references to the devices.   *)
(* The driver core and the drivers are external.                           *)
(*                                                                         *)
(* The address space of a function starts at 0; the attached card has read *)
(* its common CIS.  Cards of MMC_QUIRK_NONSTD_SDIO, which nothing in the   *)
(* repository sets, are left out.                                          *)
(***************************************************************************)
EXTENDS SdioCis, SdioIo

CONSTANTS N,          \* functions the card announces
          Geometry,   \* the host's and the card's part of SdioIo's record
          FuncBlk,    \* the maximum block size a funce_func tuple tells
          Radix,      \* values of the lower byte of the block size register
          Chains,     \* CIS chains of functions
          BlockSizes, Sizes,   \* what drivers ask for
          RuntimePm,  \* functions whose drivers support runtime PM
          PowerOff    \* MMC_CAP_POWER_OFF_CARD

Funcs == 1 .. N

ASSUME CountAssumption == N \in Nat /\ Radix \in Nat \ {0} /\ FuncBlk \in Nat
ASSUME SizesAssumption == BlockSizes \subseteq Nat /\ Sizes \subseteq Nat \ {0}
ASSUME GeometryAssumption == Geometry \in HostLimits
ASSUME PmAssumption == PowerOff \in BOOLEAN /\ RuntimePm \subseteq Funcs

VARIABLES attach,   \* where mmc_attach_sdio stands: [at, i, funcs]
          card,     \* struct mmc_card: [refs, use]
          func,     \* struct sdio_func, and the card's block size register
          devices,  \* functions in the driver model (device_add)
          present,  \* sdio_func_present
          linked,   \* functions whose tuples end in the card's and hold it
          users,    \* functions whose device somebody else holds
          handlers, \* functions with an interrupt handler
          torn,     \* functions whose last sdio_set_block_size failed
          holder,   \* who has claimed the host: a function's driver, 0 for the attach
          xfer      \* the transfer under way

tree == <<devices, present, linked, users>>
io   == <<handlers, torn, xfer>>
vars == <<attach, card, func, tree, io, holder>>

Nobody == N + 1
NoXfer == [f |-> 0]

Unmade == [mem |-> "none", refs |-> 0, max |-> 0, cur |-> 0, reg |-> 0,
           driver |-> "none", usage |-> 0]

Made(max) == [mem |-> "live", refs |-> 1, max |-> max, cur |-> 0, reg |-> 0,
              driver |-> "none", usage |-> 0]

(* put_device on the card, and on a function, whose release                *)
(* (sdio_free_func_cis) gives up the reference to the card.                *)
PutCard(c) == [c EXCEPT !.refs = @ - 1]

LastRef(f) == func[f].refs = 1

PutFunc(r) == [r EXCEPT !.refs = @ - 1, !.mem = IF r.refs = 1 THEN "freed" ELSE @]

FreedLinks(f) == IF LastRef(f) THEN linked \ {f} ELSE linked

-----------------------------------------------------------------------------
(* mmc_attach_sdio and what undoes it.                                     *)

(* sdio_remove_func, on the way back from a failed sdio_init_func, returns *)
(* at once: the function is not present.  What was made of it stays.       *)
FailInit ==
  /\ attach' = [attach EXCEPT !.at = "unwind", !.i = 0]
  /\ holder' = Nobody

PmFails ==
  /\ attach.at = "pm" /\ PowerOff
  /\ card' = [card EXCEPT !.use = 1]
  /\ FailInit
  /\ UNCHANGED <<func, tree, io>>

PmEnabled ==
  /\ attach.at = "pm"
  /\ attach' = [attach EXCEPT !.at = "init"]
  /\ card' = [card EXCEPT !.use = IF PowerOff THEN 1 ELSE 0]
  /\ UNCHANGED <<func, tree, io, holder>>

(* sdio_init_func: no memory; or the function's registers or its CIS       *)
(* cannot be read, and nobody will look at it again; or all is well, the   *)
(* function's tuples end in the card's and hold a reference to it.         *)
InitFuncFails ==
  /\ attach.at = "init" /\ attach.i < N
  /\ FailInit
  /\ \/ UNCHANGED func
     \/ func' = [func EXCEPT ![attach.i + 1] = Made(0)]
  /\ UNCHANGED <<card, tree, io>>

Outcomes == {sdio_read_cis(c, L, TRUE) : c \in Chains, L \in {{}, {1}, {2}}}

InitFuncBadCis ==
  /\ attach.at = "init" /\ attach.i < N
  /\ \E out \in Outcomes : out.ret # "ok"
  /\ FailInit
  /\ func' = [func EXCEPT ![attach.i + 1] = Made(0)]
  /\ UNCHANGED <<card, tree, io>>

sdio_read_func_cis_unheld(c) == c

sdio_read_func_cis(c) == [c EXCEPT !.refs = @ + 1]

InitFunc ==
  /\ attach.at = "init" /\ attach.i < N
  /\ \E out \in Outcomes :
       /\ out.ret = "ok"
       /\ func' = [func EXCEPT ![attach.i + 1] = Made(IF out.sized THEN FuncBlk ELSE 0)]
  /\ linked' = linked \cup {attach.i + 1}
  /\ card' = sdio_read_func_cis(card)
  /\ attach' = [attach EXCEPT !.i = @ + 1, !.funcs = @ + 1]
  /\ UNCHANGED <<devices, present, users, io, holder>>

InitDone ==
  /\ attach.at = "init" /\ attach.i = N
  /\ attach' = [attach EXCEPT !.at = "card", !.i = 0]
  /\ holder' = Nobody
  /\ UNCHANGED <<card, func, tree, io>>

AddCard ==
  /\ attach.at = "card"
  /\ \E at \in {"add", "unwind"} : attach' = [attach EXCEPT !.at = at]
  /\ UNCHANGED <<card, func, tree, io, holder>>

(* sdio_add_func: device_add, within which drivers may be probed, and then *)
(* the function is present.  A device holds its parent.                    *)
AddFuncFails ==
  /\ attach.at = "add" /\ attach.i < N
  /\ attach' = [attach EXCEPT !.at = "unwind", !.i = 0]
  /\ UNCHANGED <<card, func, tree, io, holder>>

AddFunc ==
  /\ attach.at = "add" /\ attach.i < N
  /\ attach' = [attach EXCEPT !.at = "adding"]
  /\ devices' = devices \cup {attach.i + 1}
  /\ card' = [card EXCEPT !.refs = @ + 1]
  /\ UNCHANGED <<func, present, linked, users, io, holder>>

Unbound(f) == func[f].driver = "none"

AddFuncDone ==
  /\ attach.at = "adding"
  /\ func[attach.i + 1].driver \in {"none", "bound"}
  /\ present' = present \cup {attach.i + 1}
  /\ attach' = [attach EXCEPT !.at = "add", !.i = @ + 1]
  /\ UNCHANGED <<card, func, devices, linked, users, io, holder>>

AddDone ==
  /\ attach.at = "add" /\ attach.i = N
  /\ attach' = [attach EXCEPT !.at = "up"]
  /\ card' = [card EXCEPT !.use = 0]
  /\ UNCHANGED <<func, tree, io, holder>>

(* mmc_sdio_remove: one function after the other, those that are not       *)
(* present being passed over by sdio_remove_func; device_del waits for the *)
(* driver to go.                                                           *)
RemoveFuncSkip ==
  /\ attach.at = "unwind" /\ attach.i < attach.funcs
  /\ attach.i + 1 \notin present
  /\ attach' = [attach EXCEPT !.i = @ + 1]
  /\ UNCHANGED <<card, func, tree, io, holder>>

RemoveFuncUnput ==
  /\ attach.at = "unwind" /\ attach.i < attach.funcs
  /\ attach.i + 1 \in present /\ Unbound(attach.i + 1)
  /\ devices' = devices \ {attach.i + 1}
  /\ card' = PutCard(card)
  /\ attach' = [attach EXCEPT !.i = @ + 1]
  /\ UNCHANGED <<func, present, linked, users, io, holder>>

RemoveFunc ==
  /\ attach.at = "unwind" /\ attach.i < attach.funcs
  /\ attach.i + 1 \in present /\ Unbound(attach.i + 1)
  /\ devices' = devices \ {attach.i + 1}
  /\ func' = [func EXCEPT ![attach.i + 1] = PutFunc(@)]
  /\ linked' = FreedLinks(attach.i + 1)
  /\ card' = IF LastRef(attach.i + 1) THEN PutCard(PutCard(card)) ELSE PutCard(card)
  /\ attach' = [attach EXCEPT !.i = @ + 1]
  /\ UNCHANGED <<present, users, io, holder>>

RemoveCard ==
  /\ attach.at = "unwind" /\ attach.i = attach.funcs
  /\ card' = PutCard(card)
  /\ attach' = [attach EXCEPT !.at = "gone"]
  /\ UNCHANGED <<func, tree, io, holder>>

-----------------------------------------------------------------------------
(* Others that hold the device of a function: whoever reads an attribute.  *)

UserGet(f) ==
  /\ f \in devices /\ f \notin users
  /\ users' = users \cup {f}
  /\ func' = [func EXCEPT ![f].refs = @ + 1]
  /\ UNCHANGED <<attach, card, devices, present, linked, io, holder>>

UserPut(f) ==
  /\ f \in users
  /\ users' = users \ {f}
  /\ func' = [func EXCEPT ![f] = PutFunc(@)]
  /\ linked' = FreedLinks(f)
  /\ card' = IF LastRef(f) THEN PutCard(card) ELSE card
  /\ UNCHANGED <<attach, devices, present, io, holder>>

-----------------------------------------------------------------------------
(* sdio_set_block_size: the register is written byte by byte; a failing    *)
(* write may have taken effect, and what it left is not undone.            *)
HalfWritten(reg, blk) == (reg \div Radix) * Radix + (blk % Radix)

SetBlockSizeOk(f, r, blk) ==
  /\ func' = [func EXCEPT ![f] = [r EXCEPT !.reg = blk, !.cur = blk]]
  /\ torn' = torn \ {f}

SetBlockSizeFails(f, r, blk) ==
  \E reg \in {r.reg, HalfWritten(r.reg, blk), blk} :
    /\ func' = [func EXCEPT ![f] = [r EXCEPT !.reg = reg]]
    /\ torn' = torn \cup {f}

GeometryOf(f) ==
  [hostBlk |-> Geometry.hostBlk, hostCount |-> Geometry.hostCount,
   hostReq |-> Geometry.hostReq, multi |-> Geometry.multi,
   quirkBlk |-> Geometry.quirkBlk, quirk512 |-> Geometry.quirk512,
   max |-> func[f].max, cur |-> func[f].cur]

(* sdio_bus_probe, in three parts.  The power domain or the function's     *)
(* runtime resume may fail, which leaves things as they were.              *)
Used(r)   == [r EXCEPT !.usage = IF PowerOff THEN @ + 1 ELSE @]
Unused(r) == [r EXCEPT !.usage = IF PowerOff THEN @ - 1 ELSE @]

ProbeStart(f) ==
  /\ f \in devices /\ Unbound(f)
  /\ func' = [func EXCEPT ![f] = [Used(@) EXCEPT !.driver = "probing"]]
  /\ UNCHANGED <<attach, card, tree, io, holder>>

ProbeFailedUsed(r) == [r EXCEPT !.driver = "none"]

ProbeFailed(r) == [Unused(r) EXCEPT !.driver = "none"]

ProbeBlockSize(f) ==
  /\ func[f].driver = "probing" /\ holder = Nobody
  /\ LET blk == DefaultBlockSize(GeometryOf(f)) IN
     \/ SetBlockSizeOk(f, [func[f] EXCEPT !.driver = "sized"], blk)
     \/ SetBlockSizeFails(f, ProbeFailed(func[f]), blk)
  /\ UNCHANGED <<attach, card, tree, handlers, xfer, holder>>

(* A driver that supports runtime PM drops the reference it was given, and *)
(* takes it back when it is removed.                                       *)
ProbeDriver(f) ==
  /\ func[f].driver = "sized"
  /\ \/ func' = [func EXCEPT ![f] = ProbeFailed(@)]
     \/ func' = [func EXCEPT ![f] =
                   [(IF f \in RuntimePm THEN Unused(@) ELSE @) EXCEPT !.driver = "bound"]]
  /\ UNCHANGED <<attach, card, tree, io, holder>>

(* sdio_bus_remove: the driver lets go, or forgets its interrupt handler.  *)
RemoveStart(f) ==
  /\ func[f].driver = "bound" /\ xfer.f # f
  /\ func' = [func EXCEPT ![f] =
       [Used(IF f \in RuntimePm THEN Used(@) ELSE @) EXCEPT !.driver = "removing"]]
  /\ handlers' \in {handlers, handlers \ {f}}
  /\ UNCHANGED <<attach, card, tree, torn, xfer, holder>>

RemoveEndForgets(f) ==
  /\ func[f].driver = "removing"
  /\ func' = [func EXCEPT ![f] = [Unused(Unused(@)) EXCEPT !.driver = "none"]]
  /\ UNCHANGED <<attach, card, tree, io, holder>>

RemoveEnd(f) ==
  /\ func[f].driver = "removing"
  /\ f \in handlers => holder = Nobody
  /\ handlers' = handlers \ {f}
  /\ func' = [func EXCEPT ![f] = [Unused(Unused(@)) EXCEPT !.driver = "none"]]
  /\ UNCHANGED <<attach, card, tree, torn, xfer, holder>>

-----------------------------------------------------------------------------
(* What a bound driver does, with the host claimed.                        *)

ClaimIrq(f) ==
  /\ func[f].driver = "bound" /\ holder = Nobody
  /\ handlers' = handlers \cup {f}
  /\ UNCHANGED <<attach, card, func, tree, torn, xfer, holder>>

sdio_set_block_size(f, blk) ==
  /\ func[f].driver = "bound" /\ holder = Nobody
  /\ blk <= Geometry.hostBlk
  /\ LET size == IF blk = 0 THEN DefaultBlockSize(GeometryOf(f)) ELSE blk IN
     SetBlockSizeOk(f, func[f], size) \/ SetBlockSizeFails(f, func[f], size)
  /\ UNCHANGED <<attach, card, tree, handlers, xfer, holder>>

(* sdio_memcpy_fromio, sdio_writesb and the like.                          *)
TransferStart(f, size, incr) ==
  /\ func[f].driver = "bound" /\ holder = Nobody
  /\ holder' = f
  /\ xfer' = [f |-> f, at |-> "on", size |-> size, incr |-> incr, left |-> size,
              addr |-> 0, inBlocks |-> InBlocks(GeometryOf(f), size), sent |-> <<>>]
  /\ UNCHANGED <<attach, card, func, tree, handlers, torn>>

(* sdio_io_rw_ext_helper comes to its next command.                        *)
Due == xfer # NoXfer /\ xfer.at = "on" /\ xfer.left > 0
Stalled == Stalls(GeometryOf(xfer.f), xfer.inBlocks, xfer.left)
Command == NextCommand(GeometryOf(xfer.f), xfer.inBlocks, xfer.left)

(* The card moves blocks of the size in its register.                      *)
TransferCommand ==
  /\ Due /\ ~Stalled /\ mmc_mrq_prep(GeometryOf(xfer.f), Command)
  /\ LET c     == Command
         moved == IF c.blocks = 0 THEN c.blksz ELSE c.blocks * func[xfer.f].reg
         sent  == [cmd |-> c, off |-> xfer.size - xfer.left, addr |-> xfer.addr,
                   moved |-> moved]
     IN xfer' = [xfer EXCEPT !.left = @ - Bytes(c),
                             !.addr = IF xfer.incr THEN @ + Bytes(c) ELSE @,
                             !.sent = Append(@, sent)]
  /\ UNCHANGED <<attach, card, func, tree, handlers, torn, holder>>

(* The request engine returns -EINVAL without asking the host.             *)
TransferRefused ==
  /\ Due /\ ~Stalled /\ ~mmc_mrq_prep(GeometryOf(xfer.f), Command)
  /\ xfer' = [xfer EXCEPT !.at = "refused"]
  /\ UNCHANGED <<attach, card, func, tree, handlers, torn, holder>>

(* What a division by zero does is the processor's: the thread may be gone *)
(* with the host claimed, or the quotient be zero, which is a command of   *)
(* no bytes like those of byte mode, sent again and again until one fails. *)
TransferStalls ==
  /\ Due /\ Stalled
  /\ xfer' = [xfer EXCEPT !.at = "stalled"]
  /\ UNCHANGED <<attach, card, func, tree, handlers, torn, holder>>

(* It is over, or a command has failed.                                    *)
TransferEnd ==
  /\ xfer # NoXfer
  /\ xfer' = NoXfer
  /\ holder' = Nobody
  /\ UNCHANGED <<attach, card, func, tree, handlers, torn>>

-----------------------------------------------------------------------------
(* mmc_sdio_init_card has returned.                                        *)
Init ==
  /\ attach = [at |-> "pm", i |-> 0, funcs |-> 0]
  /\ card = [refs |-> 1, use |-> 0]
  /\ func = [f \in Funcs |-> Unmade]
  /\ devices = {} /\ present = {} /\ linked = {} /\ users = {}
  /\ handlers = {} /\ torn = {}
  /\ holder = 0
  /\ xfer = NoXfer

AttachStep ==
  \/ PmFails \/ PmEnabled \/ InitFuncFails \/ InitFuncBadCis \/ InitFunc \/ InitDone
  \/ AddCard \/ AddFuncFails \/ AddFunc \/ AddFuncDone \/ AddDone
  \/ RemoveFuncSkip \/ RemoveFunc \/ RemoveCard

FuncStep(f) ==
  \/ UserGet(f) \/ UserPut(f)
  \/ ProbeStart(f) \/ ProbeBlockSize(f) \/ ProbeDriver(f) \/ RemoveStart(f) \/ RemoveEnd(f)
  \/ ClaimIrq(f)
  \/ \E blk \in BlockSizes : sdio_set_block_size(f, blk)
  \/ \E size \in Sizes, incr \in BOOLEAN : TransferStart(f, size, incr)

TransferStep ==
  TransferCommand \/ TransferRefused \/ TransferStalls \/ TransferEnd

Next == AttachStep \/ TransferStep \/ \E f \in Funcs : FuncStep(f)

Spec == Init /\ [][Next]_vars

-----------------------------------------------------------------------------
(* Fields hold values of their types; no count goes below zero.            *)
TypeOK ==
  /\ attach \in [at : {"pm", "init", "card", "add", "adding", "up", "unwind", "gone"},
                 i : 0 .. N, funcs : 0 .. N]
  /\ card \in [refs : Nat, use : {0, 1}]
  /\ func \in [Funcs -> [mem : {"none", "live", "freed"}, refs : Nat,
                         max : Nat, cur : Nat, reg : Nat,
                         driver : {"none", "probing", "sized", "bound", "removing"},
                         usage : Nat]]
  /\ devices \subseteq Funcs /\ present \subseteq Funcs /\ linked \subseteq Funcs
  /\ users \subseteq Funcs /\ handlers \subseteq Funcs /\ torn \subseteq Funcs
  /\ holder \in 0 .. Nobody

(* "we must make sure we have a reference to it": as long as a function's  *)
(* tuples end in the card's, or its device is there, the card has not been *)
(* freed, however late the last user of the function lets go.              *)
CardOutlives == devices \cup linked # {} => card.refs > 0

(* When everything has been taken down and nobody holds a device any more, *)
(* each function that had been added is freed; and so is the card, once    *)
(* every function that came up had been added.                             *)
Down == attach.at = "gone" /\ users = {}

Reclaimed ==
  Down => /\ \A f \in present : func[f].mem = "freed"
          /\ 1 .. attach.funcs \subseteq present => card.refs = 0

(* "Unregister a SDIO function with the driver model, and (eventually)     *)
(* free it.  This function can be called through error paths where         *)
(* sdio_add_func() was never executed (because a failure occurred at an    *)
(* earlier point)" (sdio_bus.c:344): no function is left, however far the  *)
(* attachment got.                                                         *)
FunctionsFreed == Down => \A f \in Funcs : func[f].mem # "live"

(* "Unbound SDIO functions are always suspended": the references that      *)
(* probe, remove and the driver take and drop add up to none on a function *)
(* without a driver, and to one, or none if the driver supports runtime    *)
(* PM, on one with a driver.                                               *)
PmBalanced ==
  \A f \in Funcs :
    /\ Unbound(f) => func[f].usage = 0
    /\ func[f].driver = "bound" =>
         func[f].usage = IF PowerOff /\ f \notin RuntimePm THEN 1 ELSE 0

(* No interrupt is dispatched to a driver that has gone.                   *)
QuietAfterRemove == \A f \in handlers : ~Unbound(f)

(* Each command of a transfer keeps to the limits of SD_IO_RW_EXTENDED and *)
(* moves as many bytes as the host expects, given that the last setting of *)
(* the block size succeeded (the driver was told when it did not); the     *)
(* commands together move each byte of the buffer once, from or to its own *)
(* address or the one of the FIFO.  The request engine refuses none for    *)
(* the size or the number of its blocks, and none is missing a size unless *)
(* the function told no maximum.                                           *)
Cells(s) ==
  {<<s.off + k, s.addr + (IF xfer.incr THEN k ELSE 0)>> : k \in 0 .. Bytes(s.cmd) - 1}

TransferExact ==
  xfer # NoXfer =>
    LET sent == {xfer.sent[k] : k \in 1 .. Len(xfer.sent)} IN
    /\ \A s \in sent :
         /\ s.cmd.blocks <= BlockLimit /\ Bytes(s.cmd) > 0
         /\ s.cmd.blocks = 0 => s.cmd.blksz <= ByteLimit
         /\ xfer.f \notin torn => s.moved = Bytes(s.cmd)
    /\ \A s, t \in sent : s = t \/ Cells(s) \cap Cells(t) = {}
    /\ xfer.left = 0 =>
         UNION {Cells(s) : s \in sent} =
           {<<k, IF xfer.incr THEN k ELSE 0>> : k \in 0 .. xfer.size - 1}
    /\ xfer.at = "refused" => Bytes(Command) > Geometry.hostReq
    /\ xfer.at = "stalled" => func[xfer.f].max = 0

(* "Split an arbitrarily sized data transfer into several IO_RW_EXTENDED   *)
(* commands", where "blocks per command is limited by host count, host     *)
(* transfer size and the maximum for IO_RW_EXTENDED" (sdio_io.c:303, 317): *)
(* no command is larger than the request engine accepts.                   *)
TransfersSplit == xfer # NoXfer => xfer.at # "refused"
=============================================================================
