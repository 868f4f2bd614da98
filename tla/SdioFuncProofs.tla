----------------------------- MODULE SdioFuncProofs -----------------------------
(***************************************************************************)
(* The safety properties of SdioFunc, for any number of functions and any  *)
(* geometry, and what the arithmetic of SdioIo guarantees for every size.  *)
(***************************************************************************)
EXTENDS SdioFunc, Integers, FiniteSetTheorems, WellFoundedInduction, TLAPS

One(b) == IF b THEN 1 ELSE 0

(* Who holds a function: the driver model or mmc_attach_sdio, until the    *)
(* function is removed, and a user of its device.                          *)
Claims(f) == One(f \in devices \/ f \notin present) + One(f \in users)

Bare(f) == f \notin devices /\ f \notin linked /\ f \notin users

MemoryInv ==
  \A f \in Funcs :
    /\ func[f].mem = "none"  => func[f].refs = 0 /\ Bare(f) /\ f \notin present
    /\ func[f].mem = "live"  => func[f].refs = Claims(f) /\ func[f].refs > 0
    /\ func[f].mem = "freed" => func[f].refs = 0 /\ Bare(f) /\ f \in present

(* How far mmc_attach_sdio has come, and what there is at each place.      *)
PlaceInv ==
  /\ attach.at = "pm" => attach.i = 0 /\ attach.funcs = 0
  /\ attach.at = "init" => attach.i = attach.funcs
  /\ attach.at \in {"pm", "init"} => \A f \in Funcs : f > attach.i => func[f].mem = "none"
  /\ attach.at \in {"pm", "init", "card"} => devices = {} /\ present = {}
  /\ attach.at = "card" => attach.i = 0
  /\ attach.at \in {"card", "add", "adding", "up"} => attach.funcs = N
  /\ attach.at = "adding" => attach.i < N
  /\ attach.at = "add" => devices = 1 .. attach.i /\ present = 1 .. attach.i
  /\ attach.at = "adding" => devices = 1 .. attach.i + 1 /\ present = 1 .. attach.i
  /\ attach.at = "up" => devices = Funcs /\ present = Funcs
  /\ attach.at = "unwind" =>
       /\ \A f \in Funcs : f \in devices <=> f \in present /\ f > attach.i
       /\ attach.i <= attach.funcs
  /\ attach.at = "gone" => devices = {}

LinkInv ==
  /\ linked = {f \in 1 .. attach.funcs : func[f].mem = "live"}
  /\ \A f \in 1 .. attach.funcs : func[f].mem # "none"
  /\ devices \subseteq 1 .. attach.funcs /\ present \subseteq 1 .. attach.funcs

CountInv ==
  card.refs = One(attach.at # "gone") + Cardinality(devices) + Cardinality(linked)

(* What the driver core and the driver hold of its runtime PM.             *)
UsageOf(f, driver) ==
  IF ~PowerOff \/ driver = "none" THEN 0
  ELSE IF driver = "bound" THEN One(f \notin RuntimePm)
  ELSE IF driver = "removing" THEN 2 ELSE 1

DriverInv ==
  \A f \in Funcs :
    /\ func[f].driver # "none" => f \in devices
    /\ f \in handlers => func[f].driver \in {"bound", "removing"}
    /\ func[f].usage = UsageOf(f, func[f].driver)

Records ==
  [mem : {"none", "live", "freed"}, refs : Int, max : Nat, cur : Nat, reg : Nat,
   driver : {"none", "probing", "sized", "bound", "removing"}, usage : Int]

Types ==
  /\ attach \in [at : {"pm", "init", "card", "add", "adding", "up", "unwind", "gone"},
                 i : 0 .. N, funcs : 0 .. N]
  /\ card \in [refs : Int, use : {0, 1}]
  /\ func \in [Funcs -> Records]
  /\ devices \subseteq Funcs /\ present \subseteq Funcs /\ linked \subseteq Funcs
  /\ users \subseteq Funcs /\ handlers \subseteq Funcs /\ torn \subseteq Funcs
  /\ holder \in 0 .. Nobody

IInv == Types /\ MemoryInv /\ PlaceInv /\ LinkInv /\ CountInv /\ DriverInv

-----------------------------------------------------------------------------
(* A change of one function's record.                                      *)
LEMMA OneRecord ==
  ASSUME Types, NEW f \in Funcs, NEW r \in Records, func' = [func EXCEPT ![f] = r]
  PROVE  /\ func' \in [Funcs -> Records] /\ func'[f] = r
         /\ \A g \in Funcs \ {f} : func'[g] = func[g]
BY DEF Types

(* What a driver and the driver core do with a function leaves its memory  *)
(* and the tree alone.                                                     *)
LEMMA DriverStep ==
  ASSUME IInv, NEW f \in Funcs, NEW r \in Records, func' = [func EXCEPT ![f] = r],
         r.mem = func[f].mem, r.refs = func[f].refs,
         r.driver # "none" => f \in devices,
         r.usage = UsageOf(f, r.driver),
         handlers' \subseteq handlers \cup {f},
         f \in handlers' => r.driver \in {"bound", "removing"},
         torn' \subseteq torn \cup {f}, holder' \in 0 .. Nobody,
         UNCHANGED <<attach, card, devices, present, linked, users>>
  PROVE  IInv'
<1>1. /\ func' \in [Funcs -> Records] /\ func'[f] = r
      /\ \A g \in Funcs \ {f} : func'[g] = func[g]
  BY OneRecord DEF IInv
<1>2. Types'
  BY <1>1 DEF IInv, Types, Nobody
<1>3. \A g \in Funcs : func'[g].mem = func[g].mem /\ func'[g].refs = func[g].refs
  BY <1>1
<1>4. MemoryInv'
  BY <1>3 DEF IInv, MemoryInv, Bare, Claims, One
<1>5. PlaceInv'
  BY <1>3 DEF IInv, PlaceInv
<1>6. LinkInv'
  <2>1. 1 .. attach.funcs \subseteq Funcs
    BY CountAssumption DEF IInv, Types, Funcs
  <2> QED
    BY <1>3, <2>1 DEF IInv, LinkInv
<1>7. CountInv'
  BY DEF IInv, CountInv
<1>8. DriverInv'
  BY <1>1 DEF IInv, DriverInv
<1> QED
  BY <1>2, <1>4, <1>5, <1>6, <1>7, <1>8 DEF IInv

LEMMA RecordOf ==
  ASSUME IInv, NEW f \in Funcs
  PROVE  func[f] \in Records /\ func[f].usage = UsageOf(f, func[f].driver)
BY DEF IInv, Types, DriverInv

(* A function's record with one more or one less reference on its runtime  *)
(* PM, and another driver.                                                 *)
LEMMA UsedRecord ==
  ASSUME NEW r \in Records
  PROVE  /\ Used(r) \in Records /\ Unused(r) \in Records
         /\ Used(r).usage = r.usage + One(PowerOff)
         /\ Unused(r).usage = r.usage - One(PowerOff)
         /\ \A u \in {Used(r), Unused(r)} :
              u.mem = r.mem /\ u.refs = r.refs /\ u.driver = r.driver
<1>1. CASE PowerOff
  BY <1>1 DEF Records, Used, Unused, One
<1>2. CASE ~PowerOff
  <2>1. Used(r) = r /\ Unused(r) = r
    BY <1>2 DEF Records, Used, Unused
  <2> QED
    BY <1>2, <2>1 DEF One, Records
<1> QED
  BY <1>1, <1>2

LEMMA WithDriver ==
  ASSUME NEW r \in Records,
         NEW d \in {"none", "probing", "sized", "bound", "removing"}
  PROVE  /\ [r EXCEPT !.driver = d] \in Records
         /\ [r EXCEPT !.driver = d].driver = d
         /\ [r EXCEPT !.driver = d].usage = r.usage
         /\ [r EXCEPT !.driver = d].mem = r.mem
         /\ [r EXCEPT !.driver = d].refs = r.refs
BY DEF Records

(* And with another block size or another value of its register.           *)
LEMMA WithBlockSize ==
  ASSUME NEW r \in Records, NEW reg \in Nat, NEW cur \in Nat
  PROVE  /\ [r EXCEPT !.reg = reg, !.cur = cur] \in Records
         /\ [r EXCEPT !.reg = reg, !.cur = cur].driver = r.driver
         /\ [r EXCEPT !.reg = reg, !.cur = cur].usage = r.usage
         /\ [r EXCEPT !.reg = reg, !.cur = cur].mem = r.mem
         /\ [r EXCEPT !.reg = reg, !.cur = cur].refs = r.refs
         /\ [r EXCEPT !.reg = reg] \in Records
         /\ [r EXCEPT !.reg = reg].driver = r.driver
         /\ [r EXCEPT !.reg = reg].usage = r.usage
         /\ [r EXCEPT !.reg = reg].mem = r.mem
         /\ [r EXCEPT !.reg = reg].refs = r.refs
BY DEF Records

LEMMA FreedRecord ==
  ASSUME NEW r \in Records, NEW n \in Int
  PROVE  /\ [r EXCEPT !.refs = n, !.mem = "freed"] \in Records
         /\ [r EXCEPT !.refs = n, !.mem = "freed"].driver = r.driver
         /\ [r EXCEPT !.refs = n, !.mem = "freed"].usage = r.usage
         /\ [r EXCEPT !.refs = n, !.mem = "freed"].mem = "freed"
         /\ [r EXCEPT !.refs = n, !.mem = "freed"].refs = n
BY DEF Records

LEMMA ProbeStartKeeps ==
  ASSUME IInv, NEW f \in Funcs, ProbeStart(f)
  PROVE  IInv'
<1> DEFINE u == Used(func[f])
           r == [u EXCEPT !.driver = "probing"]
<1>1. /\ u \in Records /\ u.mem = func[f].mem /\ u.refs = func[f].refs
      /\ u.usage = UsageOf(f, "probing")
  BY RecordOf, UsedRecord, PmAssumption DEF ProbeStart, Unbound, UsageOf, One
<1>2. func' = [func EXCEPT ![f] = r]
  BY DEF ProbeStart
<1> HIDE DEF u
<1>3. /\ r \in Records /\ r.mem = func[f].mem /\ r.refs = func[f].refs
      /\ r.usage = UsageOf(f, r.driver) /\ r.driver = "probing"
  BY <1>1, WithDriver
<1> HIDE DEF r
<1>4. f \in devices /\ f \notin handlers /\ holder \in 0 .. Nobody
  BY DEF IInv, DriverInv, Types, ProbeStart, Unbound
<1>5. UNCHANGED <<attach, card, tree, io, holder>>
  BY DEF ProbeStart
<1> QED
  BY <1>2, <1>3, <1>4, <1>5, DriverStep DEF tree, io

LEMMA HalfWrittenType ==
  ASSUME NEW reg \in Nat, NEW blk \in Nat
  PROVE  HalfWritten(reg, blk) \in Nat
<1>1. reg \div Radix \in Nat /\ blk % Radix \in Nat
  BY CountAssumption
<1>2. \A a \in Nat, b \in Nat, c \in Nat : a * b + c \in Nat
  OBVIOUS
<1> QED
  BY <1>1, <1>2, CountAssumption DEF HalfWritten

LEMMA DefaultBlockSizeType ==
  ASSUME IInv, NEW f \in Funcs
  PROVE  DefaultBlockSize(GeometryOf(f)) \in Nat
BY RecordOf, GeometryAssumption, LimitsAssumption
DEF DefaultBlockSize, GeometryOf, HostLimits, Least, Records

(* A setting of the block size that goes well, and one that fails, on the  *)
(* way to a record that agrees with the driver's stage.                    *)
LEMMA SetBlockSizeStep ==
  ASSUME IInv, NEW f \in Funcs, NEW r \in Records, NEW blk \in Nat,
         SetBlockSizeOk(f, r, blk) \/ SetBlockSizeFails(f, r, blk),
         r.mem = func[f].mem, r.refs = func[f].refs,
         r.driver # "none" => f \in devices,
         r.usage = UsageOf(f, r.driver),
         f \in handlers => r.driver \in {"bound", "removing"},
         UNCHANGED <<attach, card, tree, handlers, holder>>
  PROVE  IInv'
<1>1. PICK reg \in Nat, cur \in Nat :
        /\ func' = [func EXCEPT ![f] = [r EXCEPT !.reg = reg, !.cur = cur]]
        /\ torn' \subseteq torn \cup {f}
  <2>1. CASE SetBlockSizeOk(f, r, blk)
    BY <2>1 DEF SetBlockSizeOk
  <2>2. CASE SetBlockSizeFails(f, r, blk)
    <3>1. r.reg \in Nat /\ r.cur \in Nat /\ HalfWritten(r.reg, blk) \in Nat
      BY HalfWrittenType DEF Records
    <3>2. PICK reg \in Nat : /\ func' = [func EXCEPT ![f] = [r EXCEPT !.reg = reg]]
                             /\ torn' = torn \cup {f}
      BY <2>2, <3>1 DEF SetBlockSizeFails
    <3>3. [r EXCEPT !.reg = reg] = [r EXCEPT !.reg = reg, !.cur = r.cur]
      BY DEF Records
    <3> QED
      BY <3>1, <3>2, <3>3
  <2> QED
    BY <2>1, <2>2
<1> DEFINE new == [r EXCEPT !.reg = reg, !.cur = cur]
<1>2. /\ new \in Records /\ new.driver = r.driver /\ new.usage = r.usage
      /\ new.mem = r.mem /\ new.refs = r.refs
  BY WithBlockSize, ZenonT(30)
<1>3. func' = [func EXCEPT ![f] = new]
  BY <1>1
<1> HIDE DEF new
<1>4. holder' \in 0 .. Nobody
  BY DEF IInv, Types
<1> QED
  BY <1>1, <1>2, <1>3, <1>4, DriverStep DEF tree

LEMMA ProbeFailedRecord ==
  ASSUME IInv, NEW f \in Funcs, func[f].driver \in {"probing", "sized"}
  PROVE  /\ ProbeFailed(func[f]) \in Records
         /\ ProbeFailed(func[f]).mem = func[f].mem
         /\ ProbeFailed(func[f]).refs = func[f].refs
         /\ ProbeFailed(func[f]).driver = "none"
         /\ ProbeFailed(func[f]).usage = UsageOf(f, "none")
<1> DEFINE u == Unused(func[f])
           r == [u EXCEPT !.driver = "none"]
<1>1. /\ u \in Records /\ u.mem = func[f].mem /\ u.refs = func[f].refs
      /\ u.usage = UsageOf(f, "none")
  BY RecordOf, UsedRecord, PmAssumption DEF UsageOf, One
<1>2. ProbeFailed(func[f]) = r
  BY DEF ProbeFailed
<1> HIDE DEF u
<1>3. /\ r \in Records /\ r.mem = u.mem /\ r.refs = u.refs
      /\ r.driver = "none" /\ r.usage = u.usage
  BY <1>1, WithDriver
<1> HIDE DEF r
<1> QED
  BY <1>1, <1>2, <1>3

LEMMA ProbeBlockSizeKeeps ==
  ASSUME IInv, NEW f \in Funcs, ProbeBlockSize(f)
  PROVE  IInv'
<1> DEFINE blk == DefaultBlockSize(GeometryOf(f))
           ok  == [func[f] EXCEPT !.driver = "sized"]
           bad == ProbeFailed(func[f])
<1>1. /\ func[f].driver = "probing" /\ f \in devices /\ f \notin handlers
      /\ UNCHANGED <<attach, card, tree, handlers, holder>>
  BY DEF ProbeBlockSize, IInv, DriverInv
<1>2. blk \in Nat
  BY DefaultBlockSizeType
<1>3. SetBlockSizeOk(f, ok, blk) \/ SetBlockSizeFails(f, bad, blk)
  BY DEF ProbeBlockSize
<1>4. /\ ok \in Records /\ ok.mem = func[f].mem /\ ok.refs = func[f].refs
      /\ ok.driver = "sized" /\ ok.usage = UsageOf(f, "sized")
  <2>1. func[f] \in Records /\ func[f].usage = UsageOf(f, "sized")
    BY <1>1, RecordOf DEF UsageOf
  <2> QED
    BY <2>1, WithDriver
<1>5. /\ bad \in Records /\ bad.mem = func[f].mem /\ bad.refs = func[f].refs
      /\ bad.driver = "none" /\ bad.usage = UsageOf(f, "none")
  BY <1>1, ProbeFailedRecord
<1> HIDE DEF blk, ok, bad
<1>6. CASE SetBlockSizeOk(f, ok, blk)
  BY <1>1, <1>2, <1>4, <1>6, SetBlockSizeStep
<1>7. CASE SetBlockSizeFails(f, bad, blk)
  BY <1>1, <1>2, <1>5, <1>7, SetBlockSizeStep
<1> QED
  BY <1>3, <1>6, <1>7

LEMMA BlockSizeKeeps ==
  ASSUME IInv, NEW f \in Funcs, NEW blk \in BlockSizes, sdio_set_block_size(f, blk)
  PROVE  IInv'
<1> DEFINE size == IF blk = 0 THEN DefaultBlockSize(GeometryOf(f)) ELSE blk
<1>1. /\ func[f].driver = "bound" /\ f \in devices
      /\ UNCHANGED <<attach, card, tree, handlers, holder>>
      /\ SetBlockSizeOk(f, func[f], size) \/ SetBlockSizeFails(f, func[f], size)
  BY DEF sdio_set_block_size, IInv, DriverInv
<1>2. size \in Nat
  BY DefaultBlockSizeType, SizesAssumption
<1> HIDE DEF size
<1> QED
  BY <1>1, <1>2, RecordOf, SetBlockSizeStep

LEMMA ProbeDriverKeeps ==
  ASSUME IInv, NEW f \in Funcs, ProbeDriver(f)
  PROVE  IInv'
<1> DEFINE u   == IF f \in RuntimePm THEN Unused(func[f]) ELSE func[f]
           ok  == [u EXCEPT !.driver = "bound"]
           bad == ProbeFailed(func[f])
<1>1. /\ func[f].driver = "sized" /\ f \in devices /\ f \notin handlers
      /\ UNCHANGED <<attach, card, tree, io, holder>> /\ holder \in 0 .. Nobody
  BY DEF ProbeDriver, IInv, DriverInv, Types
<1>2. func' = [func EXCEPT ![f] = ok] \/ func' = [func EXCEPT ![f] = bad]
  BY DEF ProbeDriver
<1>3. /\ u \in Records /\ u.mem = func[f].mem /\ u.refs = func[f].refs
      /\ u.usage = UsageOf(f, "bound")
  <2>1. CASE f \in RuntimePm
    BY <1>1, <2>1, RecordOf, UsedRecord, PmAssumption DEF UsageOf, One
  <2>2. CASE f \notin RuntimePm
    BY <1>1, <2>2, RecordOf DEF UsageOf, One
  <2> QED
    BY <2>1, <2>2
<1> HIDE DEF u
<1>4. /\ ok \in Records /\ ok.mem = func[f].mem /\ ok.refs = func[f].refs
      /\ ok.driver = "bound" /\ ok.usage = UsageOf(f, "bound")
  BY <1>3, WithDriver
<1>5. /\ bad \in Records /\ bad.mem = func[f].mem /\ bad.refs = func[f].refs
      /\ bad.driver = "none" /\ bad.usage = UsageOf(f, "none")
  BY <1>1, ProbeFailedRecord
<1> HIDE DEF ok, bad
<1>6. CASE func' = [func EXCEPT ![f] = ok]
  BY <1>1, <1>4, <1>6, DriverStep DEF tree, io
<1>7. CASE func' = [func EXCEPT ![f] = bad]
  BY <1>1, <1>5, <1>7, DriverStep DEF tree, io
<1> QED
  BY <1>2, <1>6, <1>7

LEMMA RemoveStartKeeps ==
  ASSUME IInv, NEW f \in Funcs, RemoveStart(f)
  PROVE  IInv'
<1> DEFINE b == IF f \in RuntimePm THEN Used(func[f]) ELSE func[f]
           u == Used(b)
           r == [u EXCEPT !.driver = "removing"]
<1>1. /\ func[f].driver = "bound" /\ f \in devices /\ handlers' \subseteq handlers
      /\ UNCHANGED <<attach, card, tree, torn, xfer, holder>> /\ holder \in 0 .. Nobody
  BY DEF RemoveStart, IInv, DriverInv, Types
<1>2. func' = [func EXCEPT ![f] = r]
  BY DEF RemoveStart
<1>3. /\ b \in Records /\ b.mem = func[f].mem /\ b.refs = func[f].refs
      /\ b.usage = One(PowerOff)
  <2>1. CASE f \in RuntimePm
    BY <1>1, <2>1, RecordOf, UsedRecord, PmAssumption DEF UsageOf, One
  <2>2. CASE f \notin RuntimePm
    BY <1>1, <2>2, RecordOf DEF UsageOf, One
  <2> QED
    BY <2>1, <2>2
<1> HIDE DEF b
<1>4. /\ u \in Records /\ u.mem = func[f].mem /\ u.refs = func[f].refs
      /\ u.usage = UsageOf(f, "removing")
  BY <1>3, UsedRecord DEF UsageOf, One
<1> HIDE DEF u
<1>5. /\ r \in Records /\ r.mem = func[f].mem /\ r.refs = func[f].refs
      /\ r.driver = "removing" /\ r.usage = UsageOf(f, "removing")
  BY <1>4, WithDriver
<1> HIDE DEF r
<1> QED
  BY <1>1, <1>2, <1>5, DriverStep DEF tree

LEMMA RemoveEndKeeps ==
  ASSUME IInv, NEW f \in Funcs, RemoveEnd(f)
  PROVE  IInv'
<1> DEFINE b == Unused(func[f])
           u == Unused(b)
           r == [u EXCEPT !.driver = "none"]
<1>1. /\ func[f].driver = "removing" /\ f \in devices /\ handlers' = handlers \ {f}
      /\ UNCHANGED <<attach, card, tree, torn, xfer, holder>> /\ holder \in 0 .. Nobody
  BY DEF RemoveEnd, IInv, DriverInv, Types
<1>2. func' = [func EXCEPT ![f] = r]
  BY DEF RemoveEnd
<1>3. /\ b \in Records /\ b.mem = func[f].mem /\ b.refs = func[f].refs
      /\ b.usage = One(PowerOff)
  BY <1>1, RecordOf, UsedRecord DEF UsageOf, One
<1> HIDE DEF b
<1>4. /\ u \in Records /\ u.mem = func[f].mem /\ u.refs = func[f].refs
      /\ u.usage = UsageOf(f, "none")
  BY <1>3, UsedRecord DEF UsageOf, One
<1> HIDE DEF u
<1>5. /\ r \in Records /\ r.mem = func[f].mem /\ r.refs = func[f].refs
      /\ r.driver = "none" /\ r.usage = UsageOf(f, "none")
  BY <1>4, WithDriver
<1> HIDE DEF r
<1> QED
  BY <1>1, <1>2, <1>5, DriverStep DEF tree

(* What touches neither memory nor drivers.                                *)
LEMMA IoStep ==
  ASSUME IInv, UNCHANGED <<attach, card, func, tree, torn>>, holder' \in 0 .. Nobody,
         \A f \in handlers' : f \in Funcs /\ (f \in handlers \/ func[f].driver = "bound")
  PROVE  IInv'
<1>1. Types'
  BY DEF IInv, Types, tree, Nobody
<1>2. MemoryInv'
  BY DEF IInv, MemoryInv, Bare, Claims, One, tree
<1>3. PlaceInv' /\ LinkInv' /\ CountInv'
  BY DEF IInv, PlaceInv, LinkInv, CountInv, tree
<1>4. DriverInv'
  BY DEF IInv, DriverInv, tree
<1> QED
  BY <1>1, <1>2, <1>3, <1>4 DEF IInv

LEMMA ClaimIrqKeeps ==
  ASSUME IInv, NEW f \in Funcs, ClaimIrq(f)
  PROVE  IInv'
<1>1. handlers \subseteq Funcs /\ holder \in 0 .. Nobody
  BY DEF IInv, Types
<1> QED
  BY <1>1, IoStep DEF ClaimIrq

LEMMA TransferKeeps ==
  ASSUME IInv, NEW f \in Funcs,
         \/ \E size \in Sizes, incr \in BOOLEAN : TransferStart(f, size, incr)
         \/ TransferStep
  PROVE  IInv'
<1>1. handlers \subseteq Funcs /\ holder \in 0 .. Nobody
  BY DEF IInv, Types
<1>2. f \in 0 .. Nobody /\ Nobody \in 0 .. Nobody
  BY CountAssumption DEF Nobody, Funcs
<1>3. /\ UNCHANGED <<attach, card, func, tree, torn, handlers>>
      /\ holder' \in {f, Nobody, holder}
  BY DEF TransferStart, TransferStep, TransferCommand, TransferRefused, TransferStalls,
         TransferEnd
<1> QED
  BY <1>1, <1>2, <1>3, IoStep

-----------------------------------------------------------------------------
(* The device of a function is got and put by others.                      *)
LEMMA Finite ==
  ASSUME IInv
  PROVE  /\ IsFiniteSet(devices) /\ IsFiniteSet(linked)
         /\ Cardinality(devices) \in Nat /\ Cardinality(linked) \in Nat
<1>1. IsFiniteSet(Funcs)
  BY FS_Interval, CountAssumption DEF Funcs
<1>2. devices \in SUBSET Funcs /\ linked \in SUBSET Funcs
  BY DEF IInv, Types
<1> QED
  BY <1>1, <1>2, FS_Subset, FS_CardinalityType

LEMMA UserGetKeeps ==
  ASSUME IInv, NEW f \in Funcs, UserGet(f)
  PROVE  IInv'
<1> DEFINE r == [func[f] EXCEPT !.refs = @ + 1]
<1>1. /\ f \in devices /\ f \notin users /\ users' = users \cup {f}
      /\ UNCHANGED <<attach, card, devices, present, linked, handlers, torn, holder>>
      /\ func' = [func EXCEPT ![f] = r]
  BY DEF UserGet, io
<1>2. /\ r \in Records /\ r.mem = func[f].mem /\ r.driver = func[f].driver
      /\ r.usage = func[f].usage /\ r.refs = func[f].refs + 1
  BY RecordOf DEF Records
<1> HIDE DEF r
<1>3. /\ func' \in [Funcs -> Records] /\ func'[f] = r
      /\ \A g \in Funcs \ {f} : func'[g] = func[g]
  BY <1>1, <1>2, OneRecord DEF IInv
<1>4. \A g \in Funcs : /\ func'[g].mem = func[g].mem /\ func'[g].driver = func[g].driver
                       /\ func'[g].usage = func[g].usage
  BY <1>2, <1>3
<1>5. Types'
  BY <1>1, <1>3 DEF IInv, Types, Nobody
<1>6. func[f].mem = "live"
  <2>1. func[f].mem \in {"none", "live", "freed"}
    BY RecordOf DEF Records
  <2> QED
    BY <1>1, <2>1 DEF IInv, MemoryInv, Bare
<1>7. MemoryInv'
  <2>1. ASSUME NEW g \in Funcs \ {f}
        PROVE  func'[g] = func[g] /\ (g \in users <=> g \in users')
    BY <1>1, <1>3
  <2>2. func'[f].mem = "live" /\ func'[f].refs = Claims(f)' /\ func'[f].refs > 0
    BY <1>1, <1>2, <1>3, <1>6 DEF IInv, MemoryInv, Claims, One
  <2> QED
    BY <1>1, <2>1, <2>2 DEF IInv, MemoryInv, Claims, Bare, One
<1>8. PlaceInv'
  BY <1>1, <1>4 DEF IInv, PlaceInv
<1>9. LinkInv'
  <2>1. 1 .. attach.funcs \subseteq Funcs
    BY CountAssumption DEF IInv, Types, Funcs
  <2> QED
    BY <1>1, <1>4, <2>1 DEF IInv, LinkInv
<1>10. CountInv' /\ DriverInv'
  BY <1>1, <1>4 DEF IInv, CountInv, DriverInv
<1> QED
  BY <1>5, <1>7, <1>8, <1>9, <1>10 DEF IInv

(* A reference that is dropped, by a user or with the device: the last one *)
(* frees the function and gives up its reference to the card.              *)
LEMMA PutFuncEffect ==
  ASSUME IInv, NEW f \in Funcs, func[f].mem = "live",
         func' = [func EXCEPT ![f] = PutFunc(func[f])],
         linked' = FreedLinks(f), LastRef(f) => f \in linked
  PROVE  /\ func' \in [Funcs -> Records]
         /\ func'[f].mem = IF LastRef(f) THEN "freed" ELSE "live"
         /\ func'[f].refs = func[f].refs - 1
         /\ \A g \in Funcs \ {f} : func'[g] = func[g]
         /\ \A g \in Funcs : /\ func'[g].driver = func[g].driver
                              /\ func'[g].usage = func[g].usage
         /\ linked' = {g \in 1 .. attach.funcs : func'[g].mem = "live"}
         /\ \A g \in 1 .. attach.funcs : func'[g].mem # "none"
         /\ Cardinality(linked') = Cardinality(linked) - One(LastRef(f))
<1> DEFINE r == PutFunc(func[f])
<1>1. /\ r \in Records /\ r.driver = func[f].driver /\ r.usage = func[f].usage
      /\ r.refs = func[f].refs - 1 /\ r.mem = IF LastRef(f) THEN "freed" ELSE "live"
  <2>1. CASE LastRef(f)
    <3> DEFINE n == func[f].refs - 1
    <3>1. r = [func[f] EXCEPT !.refs = n, !.mem = "freed"] /\ n \in Int
      BY <2>1, RecordOf DEF PutFunc, LastRef, Records
    <3> HIDE DEF r
    <3>2. /\ r \in Records /\ r.driver = func[f].driver /\ r.usage = func[f].usage
          /\ r.refs = func[f].refs - 1 /\ r.mem = "freed"
      BY <3>1, RecordOf, FreedRecord
    <3> QED
      BY <2>1, <3>2
  <2>2. CASE ~LastRef(f)
    <3>1. r = [func[f] EXCEPT !.refs = @ - 1]
      BY <2>2, RecordOf DEF PutFunc, LastRef, Records
    <3> HIDE DEF r
    <3>2. /\ r \in Records /\ r.driver = func[f].driver /\ r.usage = func[f].usage
          /\ r.refs = func[f].refs - 1 /\ r.mem = func[f].mem
      BY <3>1, RecordOf DEF Records
    <3> QED
      BY <2>2, <3>2
  <2> QED
    BY <2>1, <2>2
<1> HIDE DEF r
<1>2. /\ func' \in [Funcs -> Records] /\ func'[f] = r
      /\ \A g \in Funcs \ {f} : func'[g] = func[g]
  BY <1>1, OneRecord DEF IInv, r
<1>3. 1 .. attach.funcs \subseteq Funcs
  BY CountAssumption DEF IInv, Types, Funcs
<1>4. /\ linked' = {g \in 1 .. attach.funcs : func'[g].mem = "live"}
      /\ \A g \in 1 .. attach.funcs : func'[g].mem # "none"
  BY <1>1, <1>2, <1>3 DEF IInv, LinkInv, FreedLinks
<1>5. Cardinality(linked') = Cardinality(linked) - One(LastRef(f))
  <2>1. CASE LastRef(f)
    BY <2>1, Finite, FS_RemoveElement DEF FreedLinks, One
  <2>2. CASE ~LastRef(f)
    BY <2>2, Finite DEF FreedLinks, One
  <2> QED
    BY <2>1, <2>2
<1> QED
  BY <1>1, <1>2, <1>4, <1>5

LEMMA UserPutKeeps ==
  ASSUME IInv, NEW f \in Funcs, UserPut(f)
  PROVE  IInv'
<1>1. /\ f \in users /\ users' = users \ {f} /\ linked' = FreedLinks(f)
      /\ func' = [func EXCEPT ![f] = PutFunc(func[f])]
      /\ card' = IF LastRef(f) THEN PutCard(card) ELSE card
      /\ UNCHANGED <<attach, devices, present, handlers, torn, holder>>
  BY DEF UserPut, io
<1>2. func[f].mem = "live"
  <2>1. func[f].mem \in {"none", "live", "freed"}
    BY RecordOf DEF Records
  <2> QED
    BY <1>1, <2>1 DEF IInv, MemoryInv, Bare
<1>3. func[f].refs = Claims(f) /\ func[f].refs > 0
  BY <1>2 DEF IInv, MemoryInv
<1>4. LastRef(f) => f \in present /\ f \notin devices
  BY <1>1, <1>3 DEF LastRef, Claims, One
<1>5. LastRef(f) => f \in linked
  BY <1>2, <1>4 DEF IInv, LinkInv
<1>6. /\ func' \in [Funcs -> Records]
      /\ func'[f].mem = IF LastRef(f) THEN "freed" ELSE "live"
      /\ func'[f].refs = func[f].refs - 1
      /\ \A g \in Funcs \ {f} : func'[g] = func[g]
      /\ \A g \in Funcs : /\ func'[g].driver = func[g].driver
                           /\ func'[g].usage = func[g].usage
      /\ linked' = {g \in 1 .. attach.funcs : func'[g].mem = "live"}
      /\ \A g \in 1 .. attach.funcs : func'[g].mem # "none"
      /\ Cardinality(linked') = Cardinality(linked) - One(LastRef(f))
  BY <1>1, <1>2, <1>5, PutFuncEffect
<1>7. linked' \subseteq linked
  BY <1>1 DEF FreedLinks
<1>8. Types'
  BY <1>1, <1>6, <1>7 DEF IInv, Types, Nobody, PutCard, FreedLinks
<1>9. MemoryInv'
  <2>1. ASSUME NEW g \in Funcs \ {f}
        PROVE  /\ func'[g] = func[g] /\ (g \in users <=> g \in users')
               /\ g \in linked <=> g \in linked'
    BY <1>1, <1>6 DEF FreedLinks
  <2>2. CASE LastRef(f)
    <3>1. func'[f].mem = "freed" /\ func'[f].refs = 0 /\ Bare(f)' /\ f \in present'
      BY <1>1, <1>4, <1>6, <2>2 DEF Bare, LastRef, FreedLinks
    <3> QED
      BY <1>1, <2>1, <3>1 DEF IInv, MemoryInv, Claims, Bare, One
  <2>3. CASE ~LastRef(f)
    <3>1. func[f].refs \in Int
      BY RecordOf DEF Records
    <3>2. func'[f].mem = "live" /\ func'[f].refs = Claims(f)' /\ func'[f].refs > 0
      BY <1>1, <1>3, <1>6, <2>3, <3>1 DEF Claims, One, LastRef
    <3> QED
      BY <1>1, <2>1, <3>2 DEF IInv, MemoryInv, Claims, Bare, One
  <2> QED
    BY <2>2, <2>3
<1>10. PlaceInv'
  <2>1. attach.at \in {"pm", "init"} => devices = {} /\ present = {}
    BY DEF IInv, PlaceInv
  <2>2. attach.at \in {"pm", "init"} =>
          \A g \in Funcs : g > attach.i => func'[g].mem = "none"
    BY <1>1, <1>2, <1>6 DEF IInv, PlaceInv
  <2> QED
    BY <1>1, <2>2 DEF IInv, PlaceInv
<1>11. LinkInv'
  BY <1>1, <1>6 DEF IInv, LinkInv
<1>12. CountInv'
  BY <1>1, <1>6, Finite DEF IInv, Types, CountInv, PutCard, One
<1>13. DriverInv'
  BY <1>1, <1>6 DEF IInv, DriverInv
<1> QED
  BY <1>8, <1>9, <1>10, <1>11, <1>12, <1>13 DEF IInv

-----------------------------------------------------------------------------
(* mmc_attach_sdio.                                                        *)

(* Steps that only go from one place to the next.                          *)
LEMMA PlaceStep ==
  ASSUME IInv, PlaceInv',
         attach' \in [at : {"pm", "init", "card", "add", "adding", "up", "unwind", "gone"},
                      i : 0 .. N, funcs : 0 .. N],
         attach'.funcs = attach.funcs, card' \in [refs : Int, use : {0, 1}],
         card'.refs = card.refs - One(attach.at # "gone") + One(attach'.at # "gone"),
         holder' \in 0 .. Nobody,
         UNCHANGED <<func, devices, linked, users, io>>,
         present' = present \/ \E f \in devices : present' = present \cup {f}
  PROVE  IInv'
<1>1. devices \subseteq Funcs /\ present' \subseteq Funcs
  BY DEF IInv, Types
<1>2. Types'
  BY <1>1 DEF IInv, Types, io, Nobody
<1>3. MemoryInv'
  BY DEF IInv, MemoryInv, Bare, Claims, One, io
<1>4. LinkInv'
  BY DEF IInv, LinkInv, io
<1>5. CountInv'
  BY Finite DEF IInv, Types, CountInv, One
<1>6. DriverInv'
  BY DEF IInv, DriverInv, io
<1> QED
  BY <1>2, <1>3, <1>4, <1>5, <1>6 DEF IInv

LEMMA PlaceTypes ==
  ASSUME IInv
  PROVE  /\ holder \in 0 .. Nobody /\ Nobody \in 0 .. Nobody /\ card.refs \in Int
         /\ attach.i \in 0 .. N /\ attach.funcs \in 0 .. N
         /\ \A u \in {0, 1} : /\ [card EXCEPT !.use = u] \in [refs : Int, use : {0, 1}]
                              /\ [card EXCEPT !.use = u].refs = card.refs
BY CountAssumption DEF IInv, Types, Nobody

LEMMA PmKeeps ==
  ASSUME IInv, PmFails \/ PmEnabled
  PROVE  IInv'
<1>1. /\ attach' \in [at : {"init", "unwind"}, i : {0}, funcs : {0}]
      /\ attach.at = "pm" /\ attach.funcs = 0
  BY DEF IInv, Types, PlaceInv, PmFails, PmEnabled, FailInit
<1>2. PlaceInv'
  <2>1. /\ devices' = {} /\ present' = {} /\ attach'.i = 0 /\ attach'.funcs = 0
        /\ \A f \in Funcs : f > attach'.i => func'[f].mem = "none"
    BY <1>1 DEF IInv, PlaceInv, PmFails, PmEnabled, tree
  <2> QED
    BY <1>1, <2>1 DEF PlaceInv
<1>3. card' \in [refs : Int, use : {0, 1}] /\ card'.refs = card.refs
  BY PlaceTypes, PmAssumption DEF PmFails, PmEnabled
<1>4. holder' \in 0 .. Nobody /\ UNCHANGED <<func, tree, io>>
  BY PlaceTypes DEF PmFails, PmEnabled, FailInit
<1> QED
  BY <1>1, <1>2, <1>3, <1>4, PlaceStep, PlaceTypes, CountAssumption DEF tree, One

LEMMA InitDoneKeeps ==
  ASSUME IInv, InitDone \/ AddCard
  PROVE  IInv'
<1>1. /\ attach' \in [at : {"card", "add", "unwind"}, i : {0}, funcs : {N}]
      /\ attach.at \in {"init", "card"} /\ attach.funcs = N
  BY DEF IInv, Types, PlaceInv, InitDone, AddCard
<1>2. PlaceInv'
  <2>1. devices' = {} /\ present' = {} /\ attach'.i = 0 /\ attach'.funcs = N
    BY <1>1 DEF IInv, PlaceInv, InitDone, AddCard, tree
  <2> QED
    BY <1>1, <2>1, CountAssumption DEF PlaceInv
<1>3. holder' \in 0 .. Nobody /\ UNCHANGED <<card, func, tree, io>>
  BY PlaceTypes DEF InitDone, AddCard
<1>4. card \in [refs : Int, use : {0, 1}]
  BY DEF IInv, Types
<1> QED
  BY <1>1, <1>2, <1>3, <1>4, PlaceStep, PlaceTypes, CountAssumption DEF tree, One

LEMMA AddDoneKeeps ==
  ASSUME IInv, AddFuncFails \/ AddDone
  PROVE  IInv'
<1>1. /\ attach' \in [at : {"unwind", "up"}, i : 0 .. N, funcs : {N}]
      /\ attach.at = "add" /\ attach.funcs = N
      /\ attach'.at = "unwind" => attach'.i = 0
      /\ attach'.at = "up" => attach.i = N
  <2>1. attach.at = "add" /\ attach.funcs = N
    BY DEF IInv, PlaceInv, AddFuncFails, AddDone
  <2>2. CASE AddFuncFails
    <3>1. attach' = [at |-> "unwind", i |-> 0, funcs |-> attach.funcs]
      BY <2>2 DEF IInv, Types, AddFuncFails
    <3> QED
      BY <2>1, <3>1, CountAssumption
  <2>3. CASE AddDone
    BY <2>1, <2>3, CountAssumption DEF IInv, Types, AddDone
  <2> QED
    BY <2>2, <2>3
<1>2. PlaceInv'
  BY <1>1, CountAssumption DEF IInv, Types, PlaceInv, AddFuncFails, AddDone, tree, Funcs
<1>3. card' \in [refs : Int, use : {0, 1}] /\ card'.refs = card.refs
  BY PlaceTypes DEF AddFuncFails, AddDone, IInv, Types
<1>4. holder' \in 0 .. Nobody /\ UNCHANGED <<func, tree, io>>
  BY PlaceTypes DEF AddFuncFails, AddDone
<1> QED
  BY <1>1, <1>2, <1>3, <1>4, PlaceStep, PlaceTypes, CountAssumption DEF tree, One

LEMMA AddFuncDoneKeeps ==
  ASSUME IInv, AddFuncDone
  PROVE  IInv'
<1>1. /\ attach' \in [at : {"add"}, i : 0 .. N, funcs : {N}]
      /\ attach.at = "adding" /\ attach.funcs = N /\ attach'.i = attach.i + 1
      /\ attach.i \in 0 .. N - 1
  <2>1. attach.at = "adding" /\ attach.funcs = N /\ attach.i < N
    BY DEF IInv, PlaceInv, AddFuncDone
  <2>2. attach.i \in 0 .. N - 1 /\ attach.i + 1 \in 0 .. N
    BY <2>1, PlaceTypes, CountAssumption
  <2>3. attach' = [attach EXCEPT !.at = "add", !.i = @ + 1]
    BY DEF AddFuncDone
  <2> QED
    BY <2>1, <2>2, <2>3 DEF IInv, Types
<1>2. /\ attach.i + 1 \in devices /\ present' = present \cup {attach.i + 1}
      /\ devices' = 1 .. attach'.i /\ present' = 1 .. attach'.i
  BY <1>1 DEF IInv, PlaceInv, AddFuncDone
<1>3. PlaceInv'
  BY <1>1, <1>2 DEF PlaceInv
<1>4. card' = card /\ card \in [refs : Int, use : {0, 1}]
  BY DEF AddFuncDone, IInv, Types
<1>5. holder' \in 0 .. Nobody /\ UNCHANGED <<func, devices, linked, users, io>>
  BY PlaceTypes DEF AddFuncDone
<1>6. \E f \in devices : present' = present \cup {f}
  BY <1>2
<1>7. /\ attach' \in [at : {"pm", "init", "card", "add", "adding", "up", "unwind", "gone"},
                      i : 0 .. N, funcs : 0 .. N]
      /\ attach'.funcs = attach.funcs
      /\ card'.refs = card.refs - One(attach.at # "gone") + One(attach'.at # "gone")
  BY <1>1, <1>4, PlaceTypes, CountAssumption DEF One
<1> QED
  BY <1>3, <1>4, <1>5, <1>6, <1>7, PlaceStep

LEMMA RemoveCardKeeps ==
  ASSUME IInv, RemoveCard
  PROVE  IInv'
<1>1. /\ attach' \in [at : {"gone"}, i : 0 .. N, funcs : 0 .. N]
      /\ attach.at = "unwind" /\ attach'.funcs = attach.funcs
  BY DEF IInv, Types, RemoveCard
<1>2. devices = {}
  <2>1. \A f \in devices : f \in 1 .. attach.funcs /\ f > attach.i /\ f \in Funcs
    BY <1>1 DEF IInv, Types, PlaceInv, LinkInv
  <2> QED
    BY <2>1, PlaceTypes DEF RemoveCard
<1>3. PlaceInv'
  BY <1>1, <1>2 DEF PlaceInv, RemoveCard, tree
<1>4. card' \in [refs : Int, use : {0, 1}] /\ card'.refs = card.refs - 1
  BY DEF RemoveCard, PutCard, IInv, Types
<1>5. holder' \in 0 .. Nobody /\ UNCHANGED <<func, tree, io>>
  BY PlaceTypes DEF RemoveCard
<1> QED
  BY <1>1, <1>3, <1>4, <1>5, PlaceStep, PlaceTypes, CountAssumption DEF tree, One

LEMMA RemoveFuncSkipKeeps ==
  ASSUME IInv, RemoveFuncSkip
  PROVE  IInv'
<1>1. /\ attach' \in [at : {"unwind"}, i : 0 .. N, funcs : 0 .. N]
      /\ attach.at = "unwind" /\ attach'.funcs = attach.funcs
      /\ attach'.i = attach.i + 1 /\ attach.i < attach.funcs
  BY PlaceTypes, CountAssumption DEF IInv, Types, RemoveFuncSkip
<1>2. PlaceInv'
  <2>1. \A f \in Funcs : f \in present /\ f > attach.i => f > attach.i + 1
    BY PlaceTypes, CountAssumption DEF RemoveFuncSkip, Funcs
  <2>2. \A f \in Funcs : f > attach.i + 1 => f > attach.i
    BY PlaceTypes, CountAssumption DEF Funcs
  <2>3. \A f \in Funcs : f \in devices <=> f \in present /\ f > attach'.i
    BY <1>1, <2>1, <2>2 DEF IInv, PlaceInv
  <2> QED
    BY <1>1, <2>3, PlaceTypes DEF PlaceInv, RemoveFuncSkip, tree
<1>3. card' = card /\ card \in [refs : Int, use : {0, 1}]
  BY DEF RemoveFuncSkip, IInv, Types
<1>4. holder' \in 0 .. Nobody /\ UNCHANGED <<func, tree, io>>
  BY PlaceTypes DEF RemoveFuncSkip
<1> QED
  BY <1>1, <1>2, <1>3, <1>4, PlaceStep, PlaceTypes, CountAssumption DEF tree, One

(* A new function is held by mmc_attach_sdio alone, and has no driver.     *)
LEMMA MakeEffect ==
  ASSUME IInv, attach.at = "init", attach.i < N, NEW max \in Nat,
         func' = [func EXCEPT ![attach.i + 1] = Made(max)],
         UNCHANGED <<devices, present, users, handlers>>
  PROVE  /\ attach.i + 1 \in Funcs /\ attach.i \in 0 .. N - 1
         /\ func' \in [Funcs -> Records]
         /\ func'[attach.i + 1].mem = "live"
         /\ \A g \in Funcs : g # attach.i + 1 => func'[g] = func[g]
         /\ attach.i + 1 \notin linked
         /\ (linked' \subseteq linked \cup {attach.i + 1} /\ linked \subseteq linked'
              => MemoryInv')
         /\ DriverInv'
<1>0. attach.i \in 0 .. N - 1 /\ attach.i + 1 \in Funcs
  BY PlaceTypes, CountAssumption DEF Funcs
<1>1. PICK f \in Funcs : f = attach.i + 1 /\ f > attach.i
  BY <1>0
<1>2. /\ func[f].mem = "none" /\ Bare(f) /\ f \notin present /\ f \notin handlers
      /\ devices = {} /\ present = {}
  <2>1. func[f].mem = "none" /\ devices = {} /\ present = {}
    BY <1>1 DEF IInv, PlaceInv
  <2> QED
    BY <1>1, <2>1 DEF IInv, MemoryInv, DriverInv
<1> DEFINE r == Made(max)
<1>3. /\ r \in Records /\ r.mem = "live" /\ r.refs = 1 /\ r.driver = "none"
      /\ r.usage = 0
  <2>1. r = [mem |-> "live", refs |-> 1, max |-> max, cur |-> 0, reg |-> 0,
             driver |-> "none", usage |-> 0]
    BY DEF Made, Unmade
  <2> QED
    BY <2>1 DEF Records
<1>4. func' = [func EXCEPT ![f] = r]
  BY <1>1
<1> HIDE DEF r
<1>5. /\ func' \in [Funcs -> Records] /\ func'[f] = r
      /\ \A g \in Funcs \ {f} : func'[g] = func[g]
  BY <1>1, <1>3, <1>4, OneRecord DEF IInv
<1>6. linked' \subseteq linked \cup {f} /\ linked \subseteq linked' => MemoryInv'
  <2>1. Claims(f)' = 1
    BY <1>2 DEF Claims, One, Bare
  <2>2. CASE linked' \subseteq linked \cup {f} /\ linked \subseteq linked'
    <3>1. \A g \in Funcs \ {f} : g \in linked' <=> g \in linked
      BY <2>2
    <3> QED
      BY <1>3, <1>5, <2>1, <3>1 DEF IInv, MemoryInv, Bare, Claims, One
  <2> QED
    BY <2>2
<1>7. DriverInv'
  <2>1. UsageOf(f, "none") = 0
    BY DEF UsageOf
  <2> QED
    BY <1>2, <1>3, <1>5, <2>1 DEF IInv, DriverInv
<1> QED
  BY <1>0, <1>1, <1>2, <1>3, <1>5, <1>6, <1>7 DEF Bare

LEMMA InitFuncFailsKeeps ==
  ASSUME IInv, InitFuncFails \/ InitFuncBadCis
  PROVE  IInv'
<1>1. /\ attach' \in [at : {"unwind"}, i : {0}, funcs : 0 .. N]
      /\ attach.at = "init" /\ attach'.funcs = attach.funcs /\ attach.i < N
      /\ UNCHANGED <<card, devices, present, linked, users, handlers, torn, xfer>>
      /\ holder' = Nobody
      /\ func' = func \/ func' = [func EXCEPT ![attach.i + 1] = Made(0)]
  BY DEF IInv, Types, InitFuncFails, InitFuncBadCis, FailInit, tree, io
<1>2. PlaceInv'
  <2>1. devices' = {} /\ present' = {} /\ attach'.i = 0 /\ attach'.funcs \in 0 .. N
    BY <1>1 DEF IInv, PlaceInv
  <2> QED
    BY <1>1, <2>1 DEF PlaceInv
<1>3. attach.at # "gone" /\ attach'.at # "gone" /\ attach' \in
        [at : {"pm", "init", "card", "add", "adding", "up", "unwind", "gone"},
         i : 0 .. N, funcs : 0 .. N]
  BY <1>1, CountAssumption
<1>4. CASE func' = func
  <2>1. card \in [refs : Int, use : {0, 1}] /\ card.refs \in Int /\ holder' \in 0 .. Nobody
    BY <1>1, PlaceTypes DEF IInv, Types
  <2> QED
    BY <1>1, <1>2, <1>3, <1>4, <2>1, PlaceStep DEF One, io
<1>5. CASE func' = [func EXCEPT ![attach.i + 1] = Made(0)]
  <2>1. /\ attach.i + 1 \in Funcs /\ func' \in [Funcs -> Records]
        /\ \A g \in Funcs : g # attach.i + 1 => func'[g] = func[g]
        /\ MemoryInv' /\ DriverInv' /\ attach.i \in 0 .. N - 1
    BY <1>1, <1>5, MakeEffect
  <2>2. Types'
    BY <1>1, <1>3, <2>1, PlaceTypes DEF IInv, Types, Nobody
  <2>3. LinkInv'
    <3>1. attach.funcs = attach.i
      BY <1>1 DEF IInv, PlaceInv
    <3>2. \A g \in 1 .. attach.funcs : g \in Funcs /\ g # attach.i + 1
      BY <2>1, <3>1, CountAssumption DEF Funcs
    <3>3. \A g \in 1 .. attach.funcs : func'[g] = func[g]
      BY <2>1, <3>2
    <3> QED
      BY <1>1, <3>3 DEF IInv, LinkInv
  <2>4. CountInv'
    BY <1>1, <1>3 DEF IInv, CountInv
  <2> QED
    BY <1>2, <2>1, <2>2, <2>3, <2>4 DEF IInv
<1> QED
  BY <1>1, <1>4, <1>5

LEMMA InitFuncKeeps ==
  ASSUME IInv, InitFunc
  PROVE  IInv'
<1> DEFINE f == attach.i + 1
<1>1. PICK max \in Nat : func' = [func EXCEPT ![f] = Made(max)]
  BY CountAssumption DEF InitFunc
<1>2. /\ attach.at = "init" /\ attach.i < N /\ attach.funcs = attach.i
      /\ UNCHANGED <<devices, present, users, handlers, torn, holder>>
      /\ linked' = linked \cup {f} /\ card' = [card EXCEPT !.refs = @ + 1]
      /\ attach' = [attach EXCEPT !.i = @ + 1, !.funcs = @ + 1]
  BY DEF InitFunc, sdio_read_func_cis, io, IInv, PlaceInv
<1>3. /\ f \in Funcs /\ attach.i \in 0 .. N - 1
      /\ func' \in [Funcs -> Records] /\ func'[f].mem = "live"
      /\ \A g \in Funcs : g # f => func'[g] = func[g]
      /\ f \notin linked /\ MemoryInv' /\ DriverInv'
  <2>1. linked' \subseteq linked \cup {f} /\ linked \subseteq linked'
    BY <1>2
  <2> QED
    BY <1>1, <1>2, <2>1, MakeEffect
<1>4. attach'.at = "init" /\ attach'.i = f /\ attach'.funcs = f /\ f \in 0 .. N
  BY <1>2, <1>3, PlaceTypes, CountAssumption DEF IInv, Types
<1>5. Types'
  <2>1. attach' = [at |-> "init", i |-> f, funcs |-> f]
    BY <1>2 DEF IInv, Types
  <2>2. card' \in [refs : Int, use : {0, 1}]
    BY <1>2 DEF IInv, Types
  <2> QED
    BY <1>2, <1>3, <1>4, <2>1, <2>2 DEF IInv, Types, Nobody
<1>6. PlaceInv'
  <2>1. \A g \in Funcs : g > f => g # f /\ g > attach.i
    <3>1. attach.i \in Nat
      BY PlaceTypes
    <3> QED
      BY <3>1 DEF Funcs
  <2>2. \A g \in Funcs : g > attach'.i => func'[g].mem = "none"
    BY <1>2, <1>3, <1>4, <2>1 DEF IInv, PlaceInv
  <2>3. devices' = {} /\ present' = {}
    BY <1>2 DEF IInv, PlaceInv
  <2> QED
    BY <1>4, <2>2, <2>3 DEF PlaceInv
<1>7. LinkInv'
  <2>1. 1 .. attach'.funcs = (1 .. attach.funcs) \cup {f}
    BY <1>2, <1>3, <1>4
  <2>2. \A g \in 1 .. attach.funcs : g \in Funcs /\ g # f
    BY <1>2, <1>3, CountAssumption DEF Funcs
  <2>3. \A g \in 1 .. attach.funcs : func'[g] = func[g]
    BY <1>3, <2>2
  <2>4. linked' = {g \in 1 .. attach'.funcs : func'[g].mem = "live"}
    BY <1>2, <1>3, <2>1, <2>3 DEF IInv, LinkInv
  <2>5. \A g \in 1 .. attach'.funcs : func'[g].mem # "none"
    BY <1>3, <2>1, <2>3 DEF IInv, LinkInv
  <2>6. devices' \subseteq 1 .. attach'.funcs /\ present' \subseteq 1 .. attach'.funcs
    BY <1>2, <2>1 DEF IInv, LinkInv
  <2> QED
    BY <2>4, <2>5, <2>6 DEF LinkInv
<1>8. CountInv'
  <2>1. Cardinality(linked') = Cardinality(linked) + 1
    BY <1>2, <1>3, Finite, FS_AddElement
  <2>2. card'.refs = card.refs + 1
    BY <1>2 DEF IInv, Types
  <2> QED
    BY <1>2, <1>4, <2>1, <2>2, Finite DEF IInv, CountInv, One
<1> QED
  BY <1>3, <1>5, <1>6, <1>7, <1>8 DEF IInv

LEMMA AddFuncKeeps ==
  ASSUME IInv, AddFunc
  PROVE  IInv'
<1> DEFINE f == attach.i + 1
<1>1. /\ attach.at = "add" /\ attach.funcs = N /\ attach.i < N
      /\ devices = 1 .. attach.i /\ present = 1 .. attach.i
      /\ UNCHANGED <<func, present, linked, users, handlers, torn, holder>>
      /\ devices' = devices \cup {f} /\ card' = [card EXCEPT !.refs = @ + 1]
      /\ attach' = [attach EXCEPT !.at = "adding"]
  BY DEF AddFunc, io, IInv, PlaceInv
<1>2. /\ f \in Funcs /\ f \notin devices /\ f \notin present
      /\ 1 .. attach.i + 1 = devices \cup {f}
  <2>1. attach.i \in Nat /\ attach.i < N /\ N \in Nat
    BY <1>1, PlaceTypes, CountAssumption
  <2>2. f \in Nat /\ 1 <= f /\ f <= N /\ f > attach.i
    BY <2>1
  <2>3. f \in Funcs
    BY <2>1, <2>2 DEF Funcs
  <2>4. f \notin 1 .. attach.i /\ 1 .. attach.i + 1 = (1 .. attach.i) \cup {f}
    BY <2>1, <2>2
  <2> QED
    BY <1>1, <2>3, <2>4
<1>3. attach'.at = "adding" /\ attach'.i = attach.i /\ attach'.funcs = attach.funcs
  BY <1>1 DEF IInv, Types
<1>4. Types'
  <2>1. card' \in [refs : Int, use : {0, 1}]
    BY <1>1 DEF IInv, Types
  <2> QED
    BY <1>1, <1>2, <2>1 DEF IInv, Types, Nobody
<1>5. MemoryInv'
  <2>1. func[f].mem = "live"
    <3>1. func[f].mem # "none"
      BY <1>1, <1>2 DEF IInv, LinkInv, Funcs
    <3>2. func[f].mem # "freed"
      BY <1>2 DEF IInv, MemoryInv
    <3> QED
      BY <1>2, <3>1, <3>2, RecordOf DEF Records
  <2>2. Claims(f)' = Claims(f)
    BY <1>1, <1>2 DEF Claims, One
  <2> QED
    BY <1>1, <1>2, <2>1, <2>2 DEF IInv, MemoryInv, Bare, Claims, One
<1>6. PlaceInv'
  BY <1>1, <1>2, <1>3 DEF PlaceInv
<1>7. LinkInv'
  BY <1>1, <1>2, <1>3 DEF IInv, LinkInv, Funcs
<1>8. CountInv'
  <2>1. Cardinality(devices') = Cardinality(devices) + 1
    BY <1>1, <1>2, Finite, FS_AddElement
  <2>2. card'.refs = card.refs + 1
    BY <1>1 DEF IInv, Types
  <2> QED
    BY <1>1, <1>3, <2>1, <2>2, Finite DEF IInv, CountInv, One
<1>9. DriverInv'
  BY <1>1 DEF IInv, DriverInv
<1> QED
  BY <1>4, <1>5, <1>6, <1>7, <1>8, <1>9 DEF IInv

LEMMA RemoveFuncKeeps ==
  ASSUME IInv, RemoveFunc
  PROVE  IInv'
<1>0. attach.i + 1 \in Funcs
  BY PlaceTypes, CountAssumption DEF RemoveFunc, Funcs
<1>f. PICK f \in Funcs : f = attach.i + 1
  BY <1>0
<1>1. /\ attach.at = "unwind" /\ attach.i < attach.funcs /\ f \in present
      /\ func[f].driver = "none"
      /\ UNCHANGED <<present, users, handlers, torn, holder>>
      /\ devices' = devices \ {f} /\ linked' = FreedLinks(f)
      /\ func' = [func EXCEPT ![f] = PutFunc(func[f])]
      /\ card' = IF LastRef(f) THEN PutCard(PutCard(card)) ELSE PutCard(card)
      /\ attach' = [attach EXCEPT !.i = @ + 1]
  BY <1>f DEF RemoveFunc, io, Unbound
<1>2. f \in Funcs /\ f \in devices /\ f \in 1 .. attach.funcs /\ f > attach.i
  <2>1. f \in Funcs /\ f > attach.i /\ f \in 1 .. attach.funcs
    BY <1>1, <1>f, PlaceTypes, CountAssumption DEF Funcs
  <2> QED
    BY <1>1, <2>1 DEF IInv, PlaceInv
<1>3. func[f].mem = "live" /\ func[f].refs = Claims(f) /\ f \in linked
  <2>1. func[f].mem \in {"none", "live", "freed"}
    BY <1>2, RecordOf DEF Records
  <2>2. func[f].mem = "live"
    BY <1>2, <2>1 DEF IInv, MemoryInv, Bare
  <2> QED
    BY <1>2, <2>2 DEF IInv, MemoryInv, LinkInv
<1>4. /\ func' \in [Funcs -> Records]
      /\ func'[f].mem = IF LastRef(f) THEN "freed" ELSE "live"
      /\ func'[f].refs = func[f].refs - 1
      /\ \A g \in Funcs \ {f} : func'[g] = func[g]
      /\ \A g \in Funcs : /\ func'[g].driver = func[g].driver
                           /\ func'[g].usage = func[g].usage
      /\ linked' = {g \in 1 .. attach.funcs : func'[g].mem = "live"}
      /\ \A g \in 1 .. attach.funcs : func'[g].mem # "none"
      /\ Cardinality(linked') = Cardinality(linked) - One(LastRef(f))
  BY <1>1, <1>2, <1>3, PutFuncEffect
<1>5. /\ attach'.at = "unwind" /\ attach'.i = f /\ attach'.funcs = attach.funcs
      /\ attach' \in [at : {"unwind"}, i : 0 .. N, funcs : 0 .. N]
  BY <1>1, <1>f, PlaceTypes, CountAssumption DEF IInv, Types
<1>6. Types'
  <2>1. card' \in [refs : Int, use : {0, 1}]
    <3>1. /\ card \in [refs : Int, use : {0, 1}]
          /\ \A c \in [refs : Int, use : {0, 1}] : PutCard(c) \in [refs : Int, use : {0, 1}]
      BY DEF IInv, Types, PutCard
    <3> QED
      BY <1>1, <3>1
  <2>2. linked' \subseteq Funcs /\ devices' \subseteq Funcs
    BY <1>1 DEF IInv, Types, FreedLinks
  <2> QED
    BY <1>1, <1>4, <1>5, <2>1, <2>2 DEF IInv, Types, Nobody
<1>7. MemoryInv'
  <2>1. ASSUME NEW g \in Funcs \ {f}
        PROVE  /\ func'[g] = func[g] /\ (g \in devices <=> g \in devices')
               /\ g \in linked <=> g \in linked'
    BY <1>1, <1>4 DEF FreedLinks
  <2>2. func[f].refs = 1 + One(f \in users)
    BY <1>2, <1>3 DEF Claims, One
  <2>3. CASE LastRef(f)
    <3>1. func'[f].mem = "freed" /\ func'[f].refs = 0 /\ Bare(f)' /\ f \in present'
      BY <1>1, <1>4, <2>2, <2>3 DEF Bare, LastRef, FreedLinks, One
    <3> QED
      BY <1>1, <2>1, <3>1 DEF IInv, MemoryInv, Claims, Bare, One
  <2>4. CASE ~LastRef(f)
    <3>1. func'[f].mem = "live" /\ func'[f].refs = Claims(f)' /\ func'[f].refs > 0
      BY <1>1, <1>4, <2>2, <2>4 DEF Claims, One, LastRef
    <3> QED
      BY <1>1, <2>1, <3>1 DEF IInv, MemoryInv, Claims, Bare, One
  <2> QED
    BY <2>3, <2>4
<1>8. PlaceInv'
  <2>1. \A g \in Funcs : g > f <=> g > attach.i /\ g # f
    BY <1>2, <1>f, PlaceTypes, CountAssumption DEF Funcs
  <2>2. \A g \in Funcs : g \in devices' <=> g \in present' /\ g > attach'.i
    BY <1>1, <1>5, <2>1 DEF IInv, PlaceInv
  <2>3. attach'.i <= attach'.funcs
    BY <1>1, <1>f, <1>5, PlaceTypes
  <2> QED
    BY <1>5, <2>2, <2>3 DEF PlaceInv
<1>9. LinkInv'
  BY <1>1, <1>4, <1>5 DEF IInv, LinkInv
<1>10. CountInv'
  <2>1. Cardinality(devices') = Cardinality(devices) - 1
    BY <1>1, <1>2, Finite, FS_RemoveElement
  <2>2. card'.refs = card.refs - 1 - One(LastRef(f))
    BY <1>1 DEF IInv, Types, PutCard, One
  <2> QED
    BY <1>1, <1>4, <1>5, <2>1, <2>2, Finite, PlaceTypes DEF IInv, CountInv, One
<1>11. DriverInv'
  <2>1. \A g \in Funcs : g \in devices /\ g # f => g \in devices'
    BY <1>1
  <2> QED
    BY <1>1, <1>4, <2>1 DEF IInv, DriverInv
<1> QED
  BY <1>6, <1>7, <1>8, <1>9, <1>10, <1>11 DEF IInv

-----------------------------------------------------------------------------
(* The arithmetic of transfers.                                            *)

LEMMA Division ==
  ASSUME NEW a \in Nat, NEW b \in Nat \ {0}
  PROVE  /\ a \div b \in Nat /\ (a \div b) * b <= a
         /\ ((a + (b - 1)) \div b) * b >= a
         /\ a >= b => a \div b >= 1
         /\ a = ((a \div b) * b) + (a % b) /\ a % b \in Nat /\ (a \div b) * b \in Nat
<1>1. a \div b \in Nat
  OBVIOUS
<1>2. (a \div b) * b <= a
  OBVIOUS
<1>3. ((a + (b - 1)) \div b) * b >= a
  OBVIOUS
<1>4. a >= b => a \div b >= 1
  OBVIOUS
<1>5. a = ((a \div b) * b) + (a % b) /\ a % b \in Nat
  OBVIOUS
<1>6. (a \div b) * b \in Nat
  BY <1>1
<1> QED
  BY <1>1, <1>2, <1>3, <1>4, <1>5, <1>6

LEMMA ByteSize ==
  ASSUME NEW g \in Geometries
  PROVE  /\ sdio_max_byte_size(g) \in Nat
         /\ sdio_max_byte_size(g) <= g.hostBlk /\ sdio_max_byte_size(g) <= ByteLimit
         /\ g.max > 0 /\ g.cur > 0 => sdio_max_byte_size(g) \in Nat \ {0}
BY LimitsAssumption DEF Geometries, sdio_max_byte_size, Least

(* The loop gets on whenever the function has sizes; and lacks them only   *)
(* when it told no maximum, if its block size is 0 only then.              *)
LEMMA NeverStalls ==
  ASSUME NEW g \in Geometries, NEW inBlocks, NEW left
  PROVE  /\ g.max > 0 /\ g.cur > 0 => ~Stalls(g, inBlocks, left)
         /\ Stalls(g, inBlocks, left) /\ (g.cur = 0 => g.max = 0) => g.max = 0
BY LimitsAssumption DEF Geometries, sdio_max_byte_size, Least, Stalls

(* Each command of sdio_io_rw_ext_helper, when it has the sizes it needs,  *)
(* moves something, so that the loop ends, and not more than is left; it   *)
(* fits SD_IO_RW_EXTENDED, and the host's size and number of blocks.       *)
THEOREM CommandFits ==
  ASSUME NEW g \in Geometries, NEW left \in Nat \ {0}, NEW inBlocks \in BOOLEAN,
         ~Stalls(g, inBlocks, left)
  PROVE  LET c == NextCommand(g, inBlocks, left) IN
         /\ Bytes(c) \in 1 .. left /\ c.blocks \in Nat
         /\ c.blocks <= BlockLimit /\ c.blocks <= g.hostCount
         /\ c.blocks = 0 => c.blksz \in 1 .. ByteLimit
         /\ c.blocks > 0 => c.blksz = g.cur
         /\ g.cur <= g.hostBlk => c.blksz <= g.hostBlk
<1>1. CASE inBlocks /\ left >= g.cur
  <2> DEFINE q == left \div g.cur
             n == Least(q, max_blocks(g))
  <2>1. q \in Nat /\ q >= 1 /\ q * g.cur <= left /\ g.cur \in Nat /\ g.cur >= 1
    <3>1. left \in Nat /\ g.cur \in Nat \ {0} /\ left >= g.cur
      BY <1>1 DEF Geometries, Stalls
    <3>2. q \in Nat /\ q >= 1 /\ q * g.cur <= left
      BY ONLY <3>1, Division
    <3> HIDE DEF q
    <3> QED
      BY <3>1, <3>2
  <2> HIDE DEF q
  <2>2. /\ n \in Nat /\ n >= 1 /\ n <= q /\ n <= BlockLimit /\ n <= g.hostCount
    BY <2>1, LimitsAssumption DEF Geometries, Least, max_blocks
  <2>3. NextCommand(g, inBlocks, left) = [blocks |-> n, blksz |-> g.cur]
    BY <1>1 DEF NextCommand, BlockCommand, q
  <2> HIDE DEF n
  <2>4. n * g.cur <= q * g.cur /\ n * g.cur >= g.cur /\ n * g.cur \in Nat
    BY <2>1, <2>2
  <2>5. n * g.cur \in 1 .. left
    BY <2>1, <2>4
  <2> QED
    BY <2>1, <2>2, <2>3, <2>5 DEF Bytes
<1>2. CASE ~(inBlocks /\ left >= g.cur)
  <2> DEFINE b == Least(left, sdio_max_byte_size(g))
  <2>1. /\ b \in 1 .. left /\ b <= ByteLimit /\ b <= g.hostBlk
    BY <1>2, ByteSize, LimitsAssumption DEF Least, Geometries, Stalls
  <2>2. NextCommand(g, inBlocks, left) = [blocks |-> 0, blksz |-> b]
    BY <1>2 DEF NextCommand, ByteCommand
  <2> HIDE DEF b
  <2> QED
    BY <2>1, <2>2, LimitsAssumption DEF Bytes, Geometries
<1> QED
  BY <1>1, <1>2

(* Rounding up to a multiple; a multiple stays as it is.                   *)
Padded(x, w) == ((x + (w - 1)) \div w) * w

LEMMA Remainder ==
  ASSUME NEW k \in Nat, NEW w \in Nat \ {0}, NEW r \in 0 .. w - 1
  PROVE  (k * w + r) \div w = k /\ (k * w + r) % w = r
<1> DEFINE a == k * w + r
           q == a \div w
           m == a % w
<1>1. a \in Nat /\ k * w \in Nat
  OBVIOUS
<1>2. q \in Nat /\ m \in 0 .. w - 1 /\ a = q * w + m /\ q * w \in Nat
  BY <1>1, Division
<1> HIDE DEF q, m
<1>3. ASSUME NEW x \in Nat, NEW y \in Nat, x + 1 <= y PROVE x * w + w <= y * w
  BY <1>3
<1>4. ~(k + 1 <= q) /\ ~(q + 1 <= k)
  BY <1>1, <1>2, <1>3
<1>5. q = k
  BY <1>2, <1>4
<1> QED
  BY <1>1, <1>2, <1>5 DEF q, m

LEMMA PaddedIs ==
  ASSUME NEW x \in Nat, NEW w \in Nat \ {0}
  PROVE  /\ Padded(x, w) \in Nat /\ x <= Padded(x, w) /\ Padded(x, w) < x + w
         /\ \E k \in Nat : Padded(x, w) = k * w
<1> DEFINE a == x + (w - 1)
           k == a \div w
<1>1. a \in Nat
  OBVIOUS
<1>2. k \in Nat /\ k * w <= a /\ k * w >= x /\ k * w \in Nat
  BY <1>1, Division
<1> HIDE DEF k
<1>3. Padded(x, w) = k * w
  BY DEF Padded, k
<1> QED
  BY <1>2, <1>3

LEMMA PaddedMultiple ==
  ASSUME NEW k \in Nat, NEW w \in Nat \ {0}
  PROVE  Padded(k * w, w) = k * w /\ (k * w) % w = 0
<1>1. (k * w + (w - 1)) \div w = k
  BY Remainder
<1>2. (k * w + 0) % w = 0 /\ k * w + 0 = k * w
  BY Remainder
<1> QED
  BY <1>1, <1>2 DEF Padded

LEMMA MultipleIs ==
  ASSUME NEW x \in Nat, NEW w \in Nat \ {0}, x % w = 0
  PROVE  \E k \in Nat : x = k * w
<1>1. x = ((x \div w) * w) + (x % w) /\ x \div w \in Nat
  BY Division
<1> QED
  BY <1>1

(* mmc_align_data_size rounds up to a multiple of a word, and is stable.   *)
LEMMA AlignIs ==
  ASSUME NEW x \in Nat
  PROVE  LET p == mmc_align_data_size(x)
         IN  /\ p \in Nat /\ x <= p /\ p < x + Word
             /\ p % Word = 0
             /\ mmc_align_data_size(p) = p
<1>1. Word \in Nat \ {0} /\ mmc_align_data_size(x) = Padded(x, Word)
  BY LimitsAssumption DEF mmc_align_data_size, Padded
<1>2. PICK k \in Nat : Padded(x, Word) = k * Word
  BY <1>1, PaddedIs
<1>3. Padded(k * Word, Word) = k * Word /\ (k * Word) % Word = 0
  BY <1>1, PaddedMultiple
<1>4. Padded(x, Word) \in Nat /\ x <= Padded(x, Word) /\ Padded(x, Word) < x + Word
  BY <1>1, PaddedIs
<1> QED
  BY <1>1, <1>2, <1>3, <1>4 DEF mmc_align_data_size, Padded

LEMMA AlignedIs ==
  ASSUME NEW x \in Nat
  PROVE  x % Word = 0 <=> mmc_align_data_size(x) = x
<1>1. Word \in Nat \ {0}
  BY LimitsAssumption
<1>2. ASSUME x % Word = 0 PROVE mmc_align_data_size(x) = x
  <2>1. PICK k \in Nat : x = k * Word
    BY <1>1, <1>2, MultipleIs
  <2> QED
    BY <1>1, <2>1, PaddedMultiple DEF Padded, mmc_align_data_size
<1>3. ASSUME mmc_align_data_size(x) = x PROVE x % Word = 0
  BY <1>3, AlignIs
<1> QED
  BY <1>2, <1>3

(* The multiples of a multiple.                                            *)
LEMMA Transitive ==
  ASSUME NEW x \in Nat, NEW b \in Nat \ {0}, NEW w \in Nat \ {0}, x % b = 0, b % w = 0
  PROVE  x % w = 0
<1>1. PICK k \in Nat : x = k * b
  BY MultipleIs
<1>2. PICK m \in Nat : b = m * w
  BY MultipleIs
<1>3. k * m \in Nat /\ x = (k * m) * w
  BY <1>1, <1>2
<1> QED
  BY <1>3, PaddedMultiple

(* "Pads a data size to a more optimal value": never to a smaller one.     *)
THEOREM AlignHolds ==
  ASSUME NEW g \in Geometries, g.max > 0, g.cur > 0, NEW s \in Nat
  PROVE  sdio_align_size(g, s) >= s
<1> DEFINE sz    == mmc_align_data_size(s)
           total == ((sz + (g.cur - 1)) \div g.cur) * g.cur
           blk   == mmc_align_data_size(total)
           rest  == mmc_align_data_size(sz % g.cur)
           most  == sdio_max_byte_size(g)
<1>1. sz \in Nat /\ sz >= s /\ g.cur \in Nat \ {0} /\ most \in Nat \ {0}
  BY AlignIs, ByteSize DEF Geometries
<1> HIDE DEF sz, most
<1>2. blk >= sz /\ blk \in Nat
  <2>1. (sz + (g.cur - 1)) \div g.cur \in Nat
    BY <1>1, Division
  <2>2. total >= sz /\ total \in Nat
    <3>1. sz + (g.cur - 1) \in Nat
      BY <1>1
    <3> QED
      BY <1>1, <3>1, Division
  <2> HIDE DEF total
  <2>3. blk >= total /\ blk \in Nat
    BY <2>2, AlignIs
  <2> HIDE DEF blk
  <2> QED
    BY <1>1, <2>2, <2>3
<1>3. (sz \div g.cur) * g.cur + rest >= sz
  <2>1. /\ sz = ((sz \div g.cur) * g.cur) + (sz % g.cur) /\ sz % g.cur \in Nat
        /\ (sz \div g.cur) * g.cur \in Nat
    BY <1>1, Division
  <2>2. rest >= sz % g.cur /\ rest \in Nat
    BY <2>1, AlignIs
  <2> HIDE DEF rest
  <2> QED
    BY <1>1, <2>1, <2>2
<1>4. Chunked(s, most) >= s
  <2>1. /\ s = ((s \div most) * most) + (s % most) /\ s % most \in Nat
        /\ (s \div most) * most \in Nat
    BY <1>1, Division
  <2>2. /\ mmc_align_data_size(s % most) >= s % most
        /\ mmc_align_data_size(s % most) \in Nat
    BY <2>1, AlignIs
  <2>3. CASE s % most = 0
    BY <2>1, <2>3 DEF Chunked
  <2>4. CASE s % most # 0
    BY <2>1, <2>2, <2>4 DEF Chunked
  <2> QED
    BY <2>3, <2>4
<1>5. sdio_align_size(g, s)
        \in {sz, blk, (sz \div g.cur) * g.cur + rest, Chunked(s, most), s}
  BY DEF sdio_align_size, sz, most
<1> HIDE DEF blk, rest
<1>6. (sz \div g.cur) * g.cur + rest >= s
  <2>1. (sz \div g.cur) * g.cur \in Nat /\ rest \in Nat
    BY <1>1, Division, AlignIs DEF rest
  <2> QED
    BY <1>1, <1>3, <2>1
<1> QED
  BY <1>1, <1>2, <1>4, <1>5, <1>6 DEF sz, most

(* A word-aligned bound survives the padding.                              *)
LEMMA PaddedFits ==
  ASSUME NEW x \in Nat, NEW most \in Nat, x <= most, most % Word = 0
  PROVE  mmc_align_data_size(x) <= most
<1> DEFINE p == mmc_align_data_size(x)
<1>1. Word \in Nat \ {0} /\ p \in Nat /\ p < x + Word /\ p % Word = 0
  BY AlignIs, LimitsAssumption
<1> HIDE DEF p
<1>2. PICK i \in Nat : p = i * Word
  BY <1>1, MultipleIs
<1>3. PICK k \in Nat : most = k * Word
  BY <1>1, MultipleIs
<1>4. CASE i <= k
  BY <1>1, <1>2, <1>3, <1>4 DEF p
<1>5. CASE k + 1 <= i
  <2>1. k * Word + Word <= i * Word
    BY <1>1, <1>5
  <2> QED
    BY <1>1, <1>2, <1>3, <2>1
<1> QED
  BY <1>4, <1>5

(* The padding is less than a block's worth of words.                      *)
THEOREM AlignBounded ==
  ASSUME NEW g \in Geometries, g.max > 0, g.cur > 0, NEW s \in Nat
  PROVE  sdio_align_size(g, s) < s + g.cur * Word
<1> DEFINE sz    == mmc_align_data_size(s)
           total == ((sz + (g.cur - 1)) \div g.cur) * g.cur
           blk   == mmc_align_data_size(total)
           rest  == mmc_align_data_size(sz % g.cur)
           whole == (sz \div g.cur) * g.cur
           most  == sdio_max_byte_size(g)
<1>1. g.cur \in Nat \ {0} /\ most \in Nat \ {0} /\ Word \in Nat \ {0}
  BY ByteSize, LimitsAssumption DEF Geometries
<1>2. sz \in Nat /\ sz < s + Word
  BY AlignIs
<1>3. g.cur * Word \in Nat /\ Word <= g.cur * Word
      /\ (g.cur # 1 => 2 * Word + g.cur - 2 <= g.cur * Word)
  <2>1. g.cur \in Nat \ {0} /\ Word \in Nat \ {0}
    BY <1>1
  <2> QED
    BY ONLY <2>1
<1> HIDE DEF sz, most
<1>4. total \in Nat /\ total < sz + g.cur
  <2>1. Padded(sz, g.cur) \in Nat /\ Padded(sz, g.cur) < sz + g.cur
    BY <1>1, <1>2, PaddedIs
  <2> QED
    BY <2>1 DEF Padded
<1> HIDE DEF total
<1>5. blk \in Nat /\ blk < total + Word
  BY <1>4, AlignIs
<1>6. /\ sz = whole + (sz % g.cur) /\ whole \in Nat /\ sz % g.cur \in Nat
      /\ rest \in Nat /\ rest < (sz % g.cur) + Word
  <2>1. sz = whole + (sz % g.cur) /\ whole \in Nat /\ sz % g.cur \in Nat
    BY <1>1, <1>2, Division
  <2> QED
    BY <2>1, AlignIs
<1>7. Chunked(s, most) < s + Word /\ Chunked(s, most) \in Nat
  <2>1. /\ s = ((s \div most) * most) + (s % most) /\ s % most \in Nat
        /\ (s \div most) * most \in Nat
    BY <1>1, Division
  <2>2. /\ mmc_align_data_size(s % most) \in Nat
        /\ mmc_align_data_size(s % most) < (s % most) + Word
    BY <2>1, AlignIs
  <2>3. CASE s % most = 0
    BY <1>1, <2>1, <2>3 DEF Chunked
  <2>4. CASE s % most # 0
    BY <1>1, <2>1, <2>2, <2>4 DEF Chunked
  <2> QED
    BY <2>3, <2>4
<1>8. \/ sdio_align_size(g, s) \in {sz, Chunked(s, most), s}
      \/ sz % g.cur # 0 /\ sdio_align_size(g, s) \in {blk, whole + rest}
  BY DEF sdio_align_size, sz, most, total
<1>9. sz % g.cur # 0 => g.cur # 1
  BY <1>2
<1> HIDE DEF blk, rest, whole
<1>10. blk < s + 2 * Word + g.cur - 2 /\ whole + rest < s + 2 * Word + g.cur - 1
  BY <1>1, <1>2, <1>4, <1>5, <1>6
<1> DEFINE room == g.cur * Word
           a    == sdio_align_size(g, s)
<1>11. CASE sz % g.cur # 0 /\ sdio_align_size(g, s) \in {blk, whole + rest}
  <2>1. whole + rest <= sz + Word - 1
    BY <1>1, <1>2, <1>6
  <2>2. 2 * Word + g.cur - 2 <= room /\ room \in Nat
    BY <1>3, <1>9, <1>11
  <2>3. whole + rest < s + 2 * Word + g.cur - 2
    BY <1>1, <1>2, <1>6, <2>1
  <2>4. a = blk \/ a = whole + rest
    BY <1>11
  <2>5. whole \in Nat /\ rest \in Nat
    BY <1>6
  <2> HIDE DEF room, a
  <2>6. a < s + room
    BY <1>1, <1>2, <1>5, <1>10, <2>2, <2>3, <2>4, <2>5
  <2> QED
    BY <2>6 DEF room, a
<1>12. CASE sdio_align_size(g, s) \in {sz, Chunked(s, most), s}
  <2>1. a = sz \/ a = Chunked(s, most) \/ a = s
    BY <1>12
  <2>2. Word <= room /\ room \in Nat
    BY <1>3
  <2>3. sz < s + room /\ s < s + room
    <3> HIDE DEF room
    <3> QED
      BY <1>1, <1>2, <2>2
  <2>4. Chunked(s, most) < s + room
    <3> HIDE DEF room
    <3> QED
      BY <1>1, <1>7, <2>2
  <2> HIDE DEF room, a
  <2>5. a < s + room
    BY <2>1, <2>3, <2>4
  <2> QED
    BY <2>5 DEF room, a
<1> QED
  BY <1>8, <1>11, <1>12

(* Where blocks are of whole words, a size is padded to what one byte      *)
(* command moves or to whole blocks.                                       *)
LEMMA AlignSingle ==
  ASSUME NEW g \in Geometries, g.max > 0, g.cur > 0, g.multi, g.cur % Word = 0,
         NEW s \in Nat
  PROVE  LET p == sdio_align_size(g, s)
         IN  /\ p \in Nat /\ p % Word = 0
             /\ p <= sdio_max_byte_size(g) \/ p % g.cur = 0
<1> DEFINE sz    == mmc_align_data_size(s)
           total == ((sz + (g.cur - 1)) \div g.cur) * g.cur
           most  == sdio_max_byte_size(g)
           p     == sdio_align_size(g, s)
<1>1. g.cur \in Nat \ {0} /\ most \in Nat \ {0} /\ Word \in Nat \ {0}
  BY ByteSize, LimitsAssumption DEF Geometries
<1>2. sz \in Nat /\ sz % Word = 0
  BY AlignIs
<1>3. total \in Nat /\ total % g.cur = 0
  <2> HIDE DEF sz
  <2>1. PICK k \in Nat : Padded(sz, g.cur) = k * g.cur
    BY <1>1, <1>2, PaddedIs
  <2>2. (k * g.cur) % g.cur = 0 /\ Padded(sz, g.cur) \in Nat
    BY <1>1, <1>2, PaddedIs, PaddedMultiple
  <2> QED
    BY <2>1, <2>2 DEF Padded
<1>4. total % Word = 0 /\ mmc_align_data_size(total) = total
  <2> HIDE DEF total
  <2>1. total % Word = 0
    BY <1>1, <1>3, Transitive
  <2> QED
    BY <1>3, <2>1, AlignedIs
<1>5. p = IF sz <= most \/ sz % g.cur = 0 THEN sz ELSE total
  BY <1>3, <1>4 DEF sdio_align_size
<1> HIDE DEF sz, total, most
<1> QED
  BY <1>2, <1>3, <1>4, <1>5 DEF most

(* A padded size is padded already, where blocks are of whole words or not *)
(* used.                                                                   *)
THEOREM AlignStable ==
  ASSUME NEW g \in Geometries, g.max > 0, g.cur > 0, g.multi => g.cur % Word = 0,
         NEW s \in Nat
  PROVE  LET p == sdio_align_size(g, s) IN sdio_align_size(g, p) = p
<1> DEFINE sz   == mmc_align_data_size(s)
           most == sdio_max_byte_size(g)
           p    == sdio_align_size(g, s)
<1>1. g.cur \in Nat \ {0} /\ most \in Nat \ {0} /\ Word \in Nat \ {0}
      /\ g.multi \in BOOLEAN
  BY ByteSize, LimitsAssumption DEF Geometries
<1>2. sz \in Nat /\ mmc_align_data_size(sz) = sz
  BY AlignIs
<1>3. CASE g.multi
  <2>1. p \in Nat /\ p % Word = 0 /\ (p <= most \/ p % g.cur = 0)
    BY <1>3, AlignSingle
  <2> HIDE DEF p, most
  <2>2. mmc_align_data_size(p) = p
    BY <2>1, AlignedIs
  <2>3. sdio_align_size(g, p) = p
    BY <1>3, <2>1, <2>2 DEF sdio_align_size, most
  <2> QED
    BY <2>3 DEF p
<1>4. CASE ~g.multi /\ sz <= most
  BY <1>2, <1>4 DEF sdio_align_size
<1>5. CASE ~g.multi /\ ~(sz <= most) /\ mmc_align_data_size(most) # most
  BY <1>5 DEF sdio_align_size
<1>6. CASE ~g.multi /\ ~(sz <= most) /\ mmc_align_data_size(most) = most
  <2> DEFINE q    == s \div most
             r    == s % most
             rest == IF r = 0 THEN 0 ELSE mmc_align_data_size(r)
  <2>1. p = q * most + rest
    BY <1>6 DEF sdio_align_size, Chunked
  <2>2. q \in Nat /\ r \in 0 .. most - 1
    BY <1>1, Division
  <2> HIDE DEF q, r, most, sz
  <2>3. rest \in Nat /\ rest % Word = 0
    <3>1. 0 % Word = 0
      BY <1>1
    <3> QED
      BY <2>2, <3>1, AlignIs
  <2>4. most % Word = 0
    BY <1>1, <1>6, AlignedIs
  <2>5. rest <= most
    <3>1. r \in Nat /\ r <= most
      BY <1>1, <2>2
    <3> QED
      BY ONLY <1>1, <2>4, <3>1, PaddedFits
  <2> HIDE DEF p, rest
  <2>6. p \in Nat /\ p % Word = 0
    <3>1. PICK i \in Nat : rest = i * Word
      BY <1>1, <2>3, MultipleIs
    <3>2. PICK k \in Nat : most = k * Word
      BY <1>1, <2>4, MultipleIs
    <3>3. p = (q * k + i) * Word /\ q * k + i \in Nat
      BY <1>1, <2>1, <2>2, <3>1, <3>2
    <3> QED
      BY <1>1, <3>3, PaddedMultiple
  <2>7. mmc_align_data_size(p) = p
    BY <2>6, AlignedIs
  <2>8. Chunked(p, most) = p
    <3>1. CASE rest < most
      <4>1. p \div most = q /\ p % most = rest
        BY <1>1, <2>1, <2>2, <2>3, <3>1, Remainder
      <4>2. rest = 0 \/ mmc_align_data_size(rest) = rest
        BY <2>3, AlignedIs
      <4>3. q * most \in Nat
        BY <1>1, <2>2
      <4> QED
        BY <2>1, <2>3, <4>1, <4>2, <4>3 DEF Chunked
    <3>2. CASE rest = most
      <4>1. p = (q + 1) * most + 0 /\ q + 1 \in Nat
        BY <1>1, <2>1, <2>2, <3>2
      <4>2. p \div most = q + 1 /\ p % most = 0
        <5>1. 0 \in 0 .. most - 1
          BY <1>1
        <5> HIDE DEF q
        <5>2. /\ ((q + 1) * most + 0) \div most = q + 1
              /\ ((q + 1) * most + 0) % most = 0
          BY <1>1, <4>1, <5>1, Remainder
        <5> QED
          BY <4>1, <5>2
      <4>3. (q + 1) * most \in Nat
        BY <1>1, <4>1
      <4> QED
        BY <4>1, <4>2, <4>3 DEF Chunked
    <3> QED
      BY <1>1, <2>3, <2>5, <3>1, <3>2
  <2>9. sdio_align_size(g, p) = p
    BY <1>6, <2>7, <2>8 DEF sdio_align_size, most
  <2> QED
    BY <2>9 DEF p
<1> QED
  BY <1>1, <1>3, <1>4, <1>5, <1>6

(* A set that holds 0 and, with a number, the next one holds them all.     *)
LEMMA Induction ==
  ASSUME NEW S, 0 \in S, \A n \in Nat : n \in S => n + 1 \in S
  PROVE  Nat \subseteq S
<1> DEFINE Missing == Nat \ S
<1>1. SUFFICES ASSUME Missing # {} PROVE FALSE
  OBVIOUS
<1>2. PICK n \in Missing : \A m \in Missing : <<m, n>> \notin OpToRel(<, Nat)
  BY <1>1, NatLessThanWellFounded, WFMin
<1>3. n \in Nat /\ n \notin S
  OBVIOUS
<1>4. PICK m \in Nat : n = m + 1
  <2>1. n # 0
    BY <1>3
  <2> QED
    BY <1>3, <2>1
<1>5. m \notin Missing
  <2>1. <<m, n>> \in OpToRel(<, Nat)
    BY <1>3, <1>4 DEF OpToRel
  <2> QED
    BY <1>2, <2>1
<1> QED
  BY <1>3, <1>4, <1>5

(* The commands of a transfer, taken one by one, are a function of what is *)
(* left.                                                                   *)
TakenBy(f, m, g, inBlocks) ==
  /\ f \in [0 .. m -> Nat] /\ f[0] = 0
  /\ \A left \in 1 .. m : f[left] = 1 + f[left - Bytes(NextCommand(g, inBlocks, left))]

LEMMA TakesExists ==
  ASSUME NEW g \in Geometries, g.max > 0, g.cur > 0, NEW inBlocks \in BOOLEAN,
         NEW size \in Nat
  PROVE  \E f : TakenBy(f, size, g, inBlocks)
<1> DEFINE b == [left \in Nat \ {0} |-> Bytes(NextCommand(g, inBlocks, left))]
           Some == {m \in Nat : \E f : TakenBy(f, m, g, inBlocks)}
<1>1. ASSUME NEW left \in Nat \ {0} PROVE b[left] \in 1 .. left
  BY CommandFits, NeverStalls
<1> HIDE DEF b
<1>2. 0 \in Some
  <2>1. TakenBy([left \in 0 .. 0 |-> 0], 0, g, inBlocks)
    BY DEF TakenBy
  <2> QED
    BY <2>1
<1>3. ASSUME NEW m \in Nat, m \in Some PROVE m + 1 \in Some
  <2>1. PICK f : TakenBy(f, m, g, inBlocks)
    BY <1>3
  <2>2. /\ f \in [0 .. m -> Nat] /\ f[0] = 0
        /\ \A left \in 1 .. m : f[left] = 1 + f[left - b[left]]
    BY <2>1 DEF TakenBy, b
  <2> DEFINE h == [left \in 0 .. m + 1 |-> IF left <= m THEN f[left]
                                           ELSE 1 + f[m + 1 - b[m + 1]]]
  <2>3. m + 1 - b[m + 1] \in 0 .. m
    BY <1>1
  <2>4. h \in [0 .. m + 1 -> Nat] /\ h[0] = 0
    BY <2>2, <2>3
  <2>5. ASSUME NEW left \in 1 .. m + 1 PROVE h[left] = 1 + h[left - b[left]]
    <3>1. left - b[left] \in 0 .. left - 1
      BY <1>1
    <3>2. CASE left <= m
      <4>1. h[left] = f[left] /\ h[left - b[left]] = f[left - b[left]]
        BY <3>1, <3>2
      <4> QED
        BY <2>2, <3>2, <4>1
    <3>3. CASE left = m + 1
      <4>1. left - b[left] \in 0 .. m /\ left - b[left] \in 0 .. m + 1
        BY <3>1, <3>3
      <4>2. h[left] = 1 + f[left - b[left]]
        <5>1. left - b[left] = m + 1 - b[m + 1] /\ ~(left <= m)
          BY <1>1, <3>3
        <5> QED
          BY <5>1
      <4>3. h[left - b[left]] = f[left - b[left]]
        BY <4>1
      <4> QED
        BY <4>2, <4>3
    <3> QED
      BY <3>2, <3>3
  <2> HIDE DEF h
  <2>6. TakenBy(h, m + 1, g, inBlocks)
    <3>1. \A left \in 1 .. m + 1 :
            h[left] = 1 + h[left - Bytes(NextCommand(g, inBlocks, left))]
      <4>1. ASSUME NEW left \in 1 .. m + 1
            PROVE  b[left] = Bytes(NextCommand(g, inBlocks, left))
        BY DEF b
      <4> QED
        BY <2>5, <4>1
    <3> QED
      BY <2>4, <3>1 DEF TakenBy
  <2> QED
    BY <2>6
<1> HIDE DEF Some
<1>4. size \in Some
  BY <1>2, <1>3, Induction
<1> QED
  BY <1>4 DEF Some

LEMMA CommandsTaken ==
  ASSUME NEW g \in Geometries, g.max > 0, g.cur > 0, NEW size \in Nat
  PROVE  \E f : TakenBy(f, size, g, InBlocks(g, size)) /\ Commands(g, size) = f[size]
<1> DEFINE inBlocks == InBlocks(g, size)
           b        == [left \in Nat \ {0} |-> Bytes(NextCommand(g, inBlocks, left))]
           Is(f)    == f = [left \in 0 .. size |-> IF left = 0 THEN 0
                                                   ELSE 1 + f[left - b[left]]]
           taken    == CHOOSE f : Is(f)
<1>1. Commands(g, size) = taken[size]
  BY DEF Commands
<1>2. inBlocks \in BOOLEAN
  BY DEF Geometries, InBlocks
<1>3. ASSUME NEW f, TakenBy(f, size, g, inBlocks) PROVE Is(f)
  BY <1>3 DEF TakenBy
<1>4. \E f : Is(f)
  <2> HIDE DEF inBlocks, Is
  <2> QED
    BY <1>2, <1>3, TakesExists
<1>5. Is(taken)
  <2> HIDE DEF Is
  <2> QED
    BY <1>4
<1> HIDE DEF taken
<1>6. taken \in [0 .. size -> Nat]
  <2>1. ASSUME NEW left \in Nat \ {0} PROVE b[left] \in 1 .. left
    BY <1>2, CommandFits, NeverStalls
  <2>2. taken[0] = 0 /\ \A left \in 1 .. size : taken[left] = 1 + taken[left - b[left]]
    BY <1>5
  <2>3. taken = [left \in 0 .. size |-> taken[left]]
    BY <1>5
  <2> HIDE DEF b, inBlocks
  <2> DEFINE S == {n \in Nat : \A left \in 0 .. n : left <= size => taken[left] \in Nat}
  <2>4. 0 \in S
    BY <2>2
  <2>5. ASSUME NEW n \in Nat, n \in S PROVE n + 1 \in S
    <3>1. ASSUME NEW k \in 1 .. size, k = n + 1 PROVE taken[k] \in Nat
      <4>1. k - b[k] \in 0 .. n /\ k - b[k] <= size
        BY <2>1, <3>1
      <4>2. taken[k - b[k]] \in Nat
        BY <2>5, <4>1
      <4> QED
        BY <2>2, <4>2
    <3>2. ASSUME NEW left \in 0 .. n + 1, left <= size PROVE taken[left] \in Nat
      BY <2>5, <3>1, <3>2
    <3> QED
      BY <3>2
  <2> HIDE DEF S
  <2>6. Nat \subseteq S
    BY <2>4, <2>5, Induction
  <2>7. \A left \in 0 .. size : taken[left] \in Nat
    BY <2>6 DEF S
  <2> QED
    BY <2>3, <2>7
<1>7. TakenBy(taken, size, g, inBlocks)
  BY <1>5, <1>6 DEF TakenBy
<1> QED
  BY <1>1, <1>7

LEMMA OneCommand ==
  ASSUME NEW g \in Geometries, g.max > 0, g.cur > 0, NEW size \in Nat \ {0},
         Bytes(NextCommand(g, InBlocks(g, size), size)) = size
  PROVE  Commands(g, size) = 1
<1>1. PICK f : TakenBy(f, size, g, InBlocks(g, size)) /\ Commands(g, size) = f[size]
  BY CommandsTaken
<1>2. f[0] = 0 /\ f[size] = 1 + f[size - size]
  BY <1>1 DEF TakenBy
<1> QED
  BY <1>1, <1>2

LEMMA SomeCommand ==
  ASSUME NEW g \in Geometries, g.max > 0, g.cur > 0, NEW size \in Nat \ {0}
  PROVE  Commands(g, size) \in Nat /\ Commands(g, size) >= 1
<1> DEFINE b == Bytes(NextCommand(g, InBlocks(g, size), size))
<1>1. PICK f : TakenBy(f, size, g, InBlocks(g, size)) /\ Commands(g, size) = f[size]
  BY CommandsTaken
<1>2. b \in 1 .. size
  <2>1. InBlocks(g, size) \in BOOLEAN
    BY DEF InBlocks, Geometries
  <2> QED
    BY <2>1, CommandFits, NeverStalls
<1>3. f \in [0 .. size -> Nat] /\ f[size] = 1 + f[size - b]
  BY <1>1 DEF TakenBy
<1> HIDE DEF b
<1> QED
  BY <1>1, <1>2, <1>3

(* Without block mode: as many commands as it takes of the largest.        *)
LEMMA ByteCommands ==
  ASSUME NEW g \in Geometries, g.max > 0, g.cur > 0, NEW size \in Nat,
         ~InBlocks(g, size)
  PROVE  LET most == sdio_max_byte_size(g)
         IN  Commands(g, size) = (size + (most - 1)) \div most
<1> DEFINE most    == sdio_max_byte_size(g)
           Ceil(x) == (x + (most - 1)) \div most
<1>1. most \in Nat \ {0}
  BY ByteSize
<1>2. PICK f : TakenBy(f, size, g, FALSE) /\ Commands(g, size) = f[size]
  BY CommandsTaken DEF InBlocks, Geometries
<1>3. \A left \in 1 .. size : f[left] = 1 + f[left - Least(left, most)]
  BY <1>2 DEF TakenBy, NextCommand, ByteCommand, Bytes
<1>4. f[0] = 0
  BY <1>2 DEF TakenBy
<1> HIDE DEF most
<1>5. Ceil(0) = 0
  <2>1. (0 * most + (most - 1)) \div most = 0
    BY <1>1, Remainder
  <2> QED
    BY <1>1, <2>1
<1>6. ASSUME NEW x \in 1 .. most PROVE Ceil(x) = 1
  <2>1. x - 1 \in 0 .. most - 1
    BY <1>1, <1>6
  <2>2. (1 * most + (x - 1)) \div most = 1
    BY <1>1, <2>1, Remainder
  <2>3. 1 * most + (x - 1) = x + (most - 1)
    BY <1>1, <1>6
  <2> QED
    BY <2>2, <2>3
<1>7. ASSUME NEW x \in Nat PROVE Ceil(x + most) = 1 + Ceil(x)
  <2> DEFINE a == x + (most - 1)
             q == a \div most
             r == a % most
  <2>1. a \in Nat /\ x + most + (most - 1) = a + most
    BY <1>1
  <2>2. q \in Nat /\ r \in 0 .. most - 1 /\ a = q * most + r
    BY <1>1, <2>1, Division
  <2> HIDE DEF q, r, a
  <2>3. ((q + 1) * most + r) \div most = q + 1
    <3>1. q + 1 \in Nat
      BY <2>2
    <3> QED
      BY ONLY <1>1, <2>2, <3>1, Remainder
  <2>4. (q + 1) * most + r = a + most
    BY <1>1, <2>2
  <2> QED
    BY <2>1, <2>2, <2>3, <2>4 DEF a, q
<1>8. \A x \in 0 .. size : Ceil(x) \in Nat
  BY <1>1, Division
<1> DEFINE S == {n \in Nat : \A left \in 0 .. n : left <= size => f[left] = Ceil(left)}
<1>9. 0 \in S
  BY <1>4, <1>5
<1>10. ASSUME NEW n \in Nat, n \in S PROVE n + 1 \in S
  <2> HIDE DEF Ceil
  <2>1. ASSUME NEW k \in 1 .. size, k = n + 1 PROVE f[k] = Ceil(k)
    <3>1. CASE k <= most
      <4>1. f[k] = 1 + f[0]
        BY <1>1, <1>3, <3>1 DEF Least
      <4> QED
        BY <1>4, <1>6, <3>1, <4>1
    <3>2. CASE ~(k <= most)
      <4>1. k - most \in 0 .. n /\ k - most <= size /\ k = (k - most) + most
        BY <1>1, <2>1, <3>2
      <4>2. f[k] = 1 + f[k - most]
        BY <1>1, <1>3, <3>2 DEF Least
      <4>3. f[k - most] = Ceil(k - most)
        BY <1>10, <4>1
      <4>4. Ceil((k - most) + most) = 1 + Ceil(k - most)
        BY <1>7, <4>1
      <4> QED
        BY <4>1, <4>2, <4>3, <4>4
    <3> QED
      BY <3>1, <3>2
  <2>2. ASSUME NEW left \in 0 .. n + 1, left <= size PROVE f[left] = Ceil(left)
    BY <1>10, <2>1, <2>2
  <2> QED
    BY <2>2
<1> HIDE DEF S, Ceil
<1>11. Nat \subseteq S
  BY <1>9, <1>10, Induction
<1>12. f[size] = Ceil(size)
  BY <1>11 DEF S
<1> QED
  BY <1>2, <1>12 DEF Ceil, most

(* Where blocks are of whole words or not used, a padded size never takes  *)
(* more commands; with blocks, or if a byte command takes all of it, it    *)
(* takes one ("handled in just a single request"), as long as one can take *)
(* all its blocks.                                                         *)
THEOREM AlignNoDearer ==
  ASSUME NEW g \in Geometries, g.max > 0, g.cur > 0, g.multi => g.cur % Word = 0,
         NEW s \in Nat \ {0},
         g.multi => sdio_align_size(g, s) <= g.cur * max_blocks(g)
  PROVE  LET p == sdio_align_size(g, s)
         IN  /\ Commands(g, p) <= Commands(g, s)
             /\ g.multi \/ p <= sdio_max_byte_size(g) => Commands(g, p) = 1
<1> DEFINE p    == sdio_align_size(g, s)
           sz   == mmc_align_data_size(s)
           most == sdio_max_byte_size(g)
<1>1. /\ g.cur \in Nat \ {0} /\ most \in Nat \ {0} /\ Word \in Nat \ {0}
      /\ g.multi \in BOOLEAN /\ max_blocks(g) \in Nat \ {0}
  BY ByteSize, LimitsAssumption DEF Geometries, max_blocks, Least
<1>2. Commands(g, s) \in Nat /\ Commands(g, s) >= 1
  BY SomeCommand
<1>3. p >= s
  BY AlignHolds
<1>4. p \in Nat
  <2>1. CASE g.multi
    BY <2>1, AlignSingle
  <2>2. CASE ~g.multi
    <3>1. sz \in Nat /\ Chunked(s, most) \in Nat
      <4>1. s % most \in Nat /\ (s \div most) * most \in Nat
        BY <1>1, Division
      <4> QED
        BY <4>1, AlignIs DEF Chunked
    <3> QED
      BY <2>2, <3>1 DEF sdio_align_size
  <2> QED
    BY <1>1, <2>1, <2>2
<1>5. ASSUME p <= most PROVE Commands(g, p) = 1
  <2> HIDE DEF p
  <2>1. ~InBlocks(g, p) /\ Bytes(ByteCommand(g, p)) = p
    BY <1>1, <1>4, <1>5 DEF InBlocks, Bytes, ByteCommand, Least, most
  <2>2. Bytes(NextCommand(g, InBlocks(g, p), p)) = p /\ p \in Nat \ {0}
    BY <1>3, <1>4, <2>1 DEF NextCommand
  <2> QED
    BY <2>2, OneCommand
<1>6. ASSUME g.multi, ~(p <= most) PROVE Commands(g, p) = 1
  <2>1. p % g.cur = 0
    BY <1>6, AlignSingle
  <2> HIDE DEF p
  <2>2. PICK k \in Nat : p = k * g.cur
    BY <1>1, <1>4, <2>1, MultipleIs
  <2>3. (k * g.cur + 0) \div g.cur = k
    <3>1. 0 \in 0 .. g.cur - 1
      BY <1>1
    <3> QED
      BY <1>1, <3>1, Remainder
  <2>4. p \div g.cur = k /\ k > 0
    <3>1. k * g.cur + 0 = p
      BY <1>4, <2>2
    <3>2. k # 0
      BY <1>1, <1>3, <2>2
    <3> QED
      BY <2>3, <3>1, <3>2
  <2>5. k <= max_blocks(g) /\ p >= g.cur
    <3>1. k * g.cur <= g.cur * max_blocks(g)
      BY <1>6, <2>2 DEF p
    <3>2. ASSUME max_blocks(g) + 1 <= k PROVE FALSE
      <4>1. max_blocks(g) * g.cur + g.cur <= k * g.cur
        BY <1>1, <3>2
      <4> QED
        BY <1>1, <3>1, <4>1
    <3>3. g.cur <= k * g.cur
      BY <1>1, <2>4
    <3> QED
      BY <1>1, <2>2, <3>2, <3>3
  <2>6. InBlocks(g, p) /\ BlockCommand(g, p) = [blocks |-> k, blksz |-> g.cur]
    BY <1>1, <1>4, <1>6, <2>4, <2>5 DEF InBlocks, BlockCommand, Least, most
  <2>7. Bytes(NextCommand(g, InBlocks(g, p), p)) = p /\ p \in Nat \ {0}
    BY <1>3, <1>4, <2>2, <2>4, <2>5, <2>6 DEF NextCommand, Bytes
  <2> QED
    BY <2>7, OneCommand
<1>7. ASSUME ~g.multi, ~(p <= most) PROVE Commands(g, p) <= Commands(g, s)
  <2> DEFINE q    == s \div most
             r    == s % most
             rest == mmc_align_data_size(r)
  <2>1. CASE p = s
    BY <1>2, <2>1
  <2>2. CASE p # s
    <3>1. mmc_align_data_size(most) = most /\ p = Chunked(s, most)
      BY <1>7, <2>2 DEF sdio_align_size
    <3>2. q \in Nat /\ r \in 0 .. most - 1 /\ s = q * most + r
      BY <1>1, Division
    <3>3. r # 0 /\ p = q * most + rest
      BY <2>2, <3>1, <3>2 DEF Chunked
    <3> HIDE DEF q, r, p, most
    <3>4. rest \in Nat /\ r <= rest /\ rest <= most
      <4>1. most % Word = 0
        BY <1>1, <3>1, AlignedIs
      <4>2. r \in Nat /\ r <= most
        BY <1>1, <3>2
      <4> QED
        BY ONLY <1>1, <4>1, <4>2, AlignIs, PaddedFits
    <3> HIDE DEF rest
    <3>5. (s + (most - 1)) \div most = q + 1 /\ (p + (most - 1)) \div most = q + 1
      <4>1. q + 1 \in Nat /\ r - 1 \in 0 .. most - 1 /\ rest - 1 \in 0 .. most - 1
        BY <1>1, <3>2, <3>3, <3>4
      <4>2. /\ ((q + 1) * most + (r - 1)) \div most = q + 1
            /\ ((q + 1) * most + (rest - 1)) \div most = q + 1
        BY ONLY <1>1, <4>1, Remainder
      <4>3. /\ (q + 1) * most + (r - 1) = s + (most - 1)
            /\ (q + 1) * most + (rest - 1) = p + (most - 1)
        BY <1>1, <3>2, <3>3, <3>4
      <4> QED
        BY <4>2, <4>3
    <3>6. ~InBlocks(g, s) /\ ~InBlocks(g, p)
      BY <1>7 DEF InBlocks
    <3>7. Commands(g, s) = q + 1 /\ Commands(g, p) = q + 1
      BY <1>4, <3>5, <3>6, ByteCommands DEF most
    <3> QED
      BY <1>2, <3>7
  <2> QED
    BY <2>1, <2>2
<1>8. Commands(g, p) = 1 \/ Commands(g, p) <= Commands(g, s)
  BY <1>1, <1>5, <1>6, <1>7
<1>9. Commands(g, p) <= Commands(g, s)
  BY <1>2, <1>8
<1>10. g.multi \/ p <= most => Commands(g, p) = 1
  BY <1>5, <1>6
<1> QED
  BY <1>9, <1>10

-----------------------------------------------------------------------------
LEMMA InitInv ==
  ASSUME Init
  PROVE  IInv
<1>1. \A f \in Funcs : func[f] = Unmade
  BY DEF Init
<1>2. Types
  <2>1. Unmade \in Records
    BY DEF Unmade, Records
  <2> QED
    BY <2>1, CountAssumption DEF Init, Types, Nobody
<1>3. MemoryInv /\ PlaceInv /\ LinkInv
  BY <1>1 DEF Init, MemoryInv, PlaceInv, LinkInv, Unmade, Bare
<1>4. CountInv
  BY FS_EmptySet DEF Init, CountInv, One
<1>5. DriverInv
  BY <1>1 DEF Init, DriverInv, Unmade, UsageOf
<1> QED
  BY <1>2, <1>3, <1>4, <1>5 DEF IInv

LEMMA NextInv ==
  ASSUME IInv, [Next]_vars
  PROVE  IInv'
<1>1. CASE AttachStep
  BY <1>1, PmKeeps, InitFuncFailsKeeps, InitFuncKeeps, InitDoneKeeps, AddFuncKeeps,
     AddFuncDoneKeeps, AddDoneKeeps, RemoveFuncSkipKeeps, RemoveFuncKeeps,
     RemoveCardKeeps DEF AttachStep
<1>2. ASSUME NEW f \in Funcs, FuncStep(f)
      PROVE  IInv'
  BY <1>2, UserGetKeeps, UserPutKeeps, ProbeStartKeeps, ProbeBlockSizeKeeps,
     ProbeDriverKeeps, RemoveStartKeeps, RemoveEndKeeps, ClaimIrqKeeps,
     BlockSizeKeeps, TransferKeeps DEF FuncStep
<1>3. CASE TransferStep \/ UNCHANGED vars
  <2>1. handlers \subseteq Funcs
    BY DEF IInv, Types
  <2> QED
    BY <1>3, <2>1, PlaceTypes, IoStep
    DEF TransferStep, TransferCommand, TransferRefused, TransferStalls, TransferEnd,
        vars, tree, io
<1> QED
  BY <1>1, <1>2, <1>3 DEF Next

(* Every field keeps its type, and no reference is dropped that nobody     *)
(* holds: neither the card's, nor a function's, nor that on its runtime PM.*)
THEOREM TypeCorrect == Spec => []TypeOK
<1>1. IInv => TypeOK
  <2>1. SUFFICES ASSUME IInv PROVE TypeOK
    OBVIOUS
  <2>2. card \in [refs : Nat, use : {0, 1}]
    BY Finite, <2>1 DEF IInv, Types, CountInv, One
  <2>3. \A f \in Funcs : func[f].refs \in Nat /\ func[f].usage \in Nat
    BY <2>1, RecordOf DEF IInv, MemoryInv, DriverInv, UsageOf, One, Records
  <2> QED
    BY <2>1, <2>2, <2>3 DEF IInv, Types, TypeOK, Records
<1> QED
  BY <1>1, InitInv, NextInv, PTL DEF Spec

(* sdio_read_func_cis takes a reference to the card for each function      *)
(* whose list of tuples ends in the card's, and device_add one for each    *)
(* device: while there is one of either, the card is not freed.            *)
THEOREM CardOutlivesFunctions == Spec => []CardOutlives
<1>1. IInv => CardOutlives
  <2>1. SUFFICES ASSUME IInv, devices # {} \/ linked # {} PROVE card.refs > 0
    BY DEF CardOutlives
  <2>2. Cardinality(devices) > 0 \/ Cardinality(linked) > 0
    BY <2>1, Finite, FS_EmptySet
  <2> QED
    BY <2>1, <2>2, Finite DEF IInv, CountInv, One
<1> QED
  BY <1>1, InitInv, NextInv, PTL DEF Spec

(* Once everything is taken down and nobody uses a device any more, each   *)
(* function that was added has been freed; the card has been freed as well *)
(* if every function that came up had been added.                          *)
THEOREM FunctionsReclaimed == Spec => []Reclaimed
<1>1. IInv => Reclaimed
  <2>1. SUFFICES ASSUME IInv, attach.at = "gone", users = {}
                 PROVE  /\ \A f \in present : func[f].mem = "freed"
                        /\ 1 .. attach.funcs \subseteq present => card.refs = 0
    BY DEF Reclaimed, Down
  <2>2. devices = {}
    BY <2>1 DEF IInv, PlaceInv
  <2>3. \A f \in Funcs : f \in present => func[f].mem = "freed"
    <3>1. SUFFICES ASSUME NEW f \in Funcs, f \in present PROVE func[f].mem = "freed"
      OBVIOUS
    <3>2. Claims(f) = 0
      BY <2>1, <2>2, <3>1 DEF Claims, One
    <3>3. func[f].mem \in {"none", "live", "freed"}
      BY <2>1, RecordOf DEF Records
    <3> QED
      BY <2>1, <3>1, <3>2, <3>3 DEF IInv, MemoryInv
  <2>4. present \subseteq Funcs /\ 1 .. attach.funcs \subseteq Funcs
    BY <2>1, PlaceTypes, CountAssumption DEF IInv, Types, Funcs
  <2>5. card.refs = 0 <=> linked = {}
    BY <2>1, <2>2, Finite, FS_EmptySet DEF IInv, CountInv, One
  <2>6. 1 .. attach.funcs \subseteq present => linked = {}
    <3>1. \A f \in 1 .. attach.funcs : f \in linked <=> func[f].mem = "live"
      BY <2>1 DEF IInv, LinkInv
    <3>2. \A f \in 1 .. attach.funcs : func[f].mem = "live" <=> f \notin present
      BY <2>1, <2>3, <2>4, RecordOf DEF IInv, LinkInv, MemoryInv, Records
    <3>3. linked \subseteq 1 .. attach.funcs
      BY <2>1 DEF IInv, LinkInv
    <3> QED
      BY <3>1, <3>2, <3>3
  <2> QED
    BY <2>3, <2>4, <2>5, <2>6
<1> QED
  BY <1>1, InitInv, NextInv, PTL DEF Spec

(* "Unbound SDIO functions are always suspended": what sdio_bus_probe,     *)
(* sdio_bus_remove and the driver take and drop adds up, however a probe   *)
(* fails.                                                                  *)
THEOREM PmIsBalanced == Spec => []PmBalanced
<1>1. IInv => PmBalanced
  BY DEF IInv, DriverInv, PmBalanced, UsageOf, One, Unbound
<1> QED
  BY <1>1, InitInv, NextInv, PTL DEF Spec

(* sdio_bus_remove takes back the interrupt handler a driver has forgotten *)
(* to release: none is left for a function without a driver.               *)
THEOREM NoHandlerLeft == Spec => []QuietAfterRemove
<1>1. IInv => QuietAfterRemove
  BY DEF IInv, Types, DriverInv, QuietAfterRemove, Unbound
<1> QED
  BY <1>1, InitInv, NextInv, PTL DEF Spec

-----------------------------------------------------------------------------
(* Transfers.  What a driver has been told of its block size, and what has *)
(* been sent so far: commands that lie side by side from the start of the  *)
(* buffer on, up to what is left.  Once its default size has been set, a   *)
(* function lacks a block size only if it lacks a maximum.                 *)
Driven(f) == func[f].driver \in {"sized", "bound"}

BlockInv ==
  \A f \in Funcs : /\ func[f].cur <= Geometry.hostBlk
                   /\ f \in torn \/ func[f].reg = func[f].cur
                   /\ Driven(f) /\ func[f].cur = 0 => func[f].max = 0

Sent == {xfer.sent[k] : k \in 1 .. Len(xfer.sent)}

Past(s) == s.off + Bytes(s.cmd)

Chunks == [cmd : [blocks : Nat, blksz : Nat], off : Nat, addr : Nat, moved : Nat]

Transfers == [f : Funcs, at : {"on", "refused", "stalled"}, size : Nat, incr : BOOLEAN, left : Nat, addr : Nat,
              inBlocks : BOOLEAN, sent : Seq(Chunks)]

Fits(s) ==
  /\ s.cmd.blocks <= BlockLimit /\ s.cmd.blocks <= Geometry.hostCount
  /\ s.cmd.blocks = 0 => s.cmd.blksz \in 1 .. ByteLimit
  /\ s.cmd.blksz <= Geometry.hostBlk /\ Bytes(s.cmd) > 0
  /\ xfer.f \notin torn => s.moved = Bytes(s.cmd)
  /\ Past(s) <= xfer.size - xfer.left
  /\ s.addr = IF xfer.incr THEN s.off ELSE 0

Apart(s, t) == s = t \/ Past(s) <= t.off \/ Past(t) <= s.off

Under ==
  /\ xfer \in Transfers /\ xfer.left <= xfer.size
  /\ xfer.addr = IF xfer.incr THEN xfer.size - xfer.left ELSE 0
  /\ holder = xfer.f /\ func[xfer.f].driver = "bound"
  /\ xfer.at = "refused" => Bytes(Command) > Geometry.hostReq
  /\ xfer.at = "stalled" => func[xfer.f].max = 0
  /\ \A s \in Sent : Fits(s)
  /\ \A s, t \in Sent : Apart(s, t)
  /\ \A k \in 0 .. xfer.size - xfer.left - 1 :
       \E s \in Sent : k \in s.off .. Past(s) - 1

XferInv == xfer = NoXfer \/ Under

XInv == IInv /\ BlockInv /\ XferInv

(* There is no transfer while the functions are initialised, nor while the *)
(* host is free.                                                           *)
LEMMA Idle ==
  ASSUME XInv, attach.at \in {"pm", "init", "card"} \/ holder = Nobody
  PROVE  xfer = NoXfer
<1>1. SUFFICES ASSUME Under PROVE FALSE
  BY DEF XInv, XferInv
<1>2. xfer.f \in Funcs /\ holder = xfer.f /\ func[xfer.f].driver = "bound"
  BY <1>1 DEF Under, Transfers
<1>3. xfer.f \in devices
  BY <1>2 DEF XInv, IInv, DriverInv
<1> QED
  BY <1>2, <1>3, CountAssumption DEF XInv, IInv, PlaceInv, Funcs, Nobody

(* A step that neither moves the transfer nor gives the host away keeps    *)
(* both, if it leaves the function's block size as it was.                 *)
SameSize(f) ==
  /\ func'[f].max = func[f].max /\ func'[f].cur = func[f].cur
  /\ func'[f].reg = func[f].reg
  /\ f \in torn' <=> f \in torn
  /\ Driven(f)' => Driven(f)

LEMMA Aside ==
  ASSUME XInv, UNCHANGED xfer, xfer = NoXfer \/ holder' = holder,
         \A f \in Funcs :
           \/ SameSize(f) /\ (xfer.f = f => func'[f].driver = func[f].driver)
           \/ /\ xfer = NoXfer \/ xfer.f # f
              /\ func'[f].cur <= Geometry.hostBlk
              /\ f \in torn' \/ func'[f].reg = func'[f].cur
              /\ Driven(f)' /\ func'[f].cur = 0 => func'[f].max = 0
  PROVE  BlockInv' /\ XferInv'
<1>1. BlockInv'
  BY DEF XInv, BlockInv, SameSize
<1>2. XferInv'
  <2>1. CASE xfer = NoXfer
    BY <2>1 DEF XferInv, NoXfer
  <2>2. CASE Under /\ xfer # NoXfer
    <3>1. xfer.f \in Funcs
      BY <2>2 DEF Under, Transfers
    <3>2. SameSize(xfer.f) /\ func'[xfer.f].driver = func[xfer.f].driver
      BY <2>2, <3>1
    <3>3. Sent' = Sent
      BY DEF Sent
    <3>4. \A s : Fits(s)' <=> Fits(s)
      BY <3>2 DEF Fits, Past, SameSize
    <3>5. GeometryOf(xfer.f)' = GeometryOf(xfer.f)
      BY <3>2 DEF GeometryOf, SameSize
    <3>6. Command' = Command
      BY <3>5 DEF Command
    <3>7. Under'
      BY <2>2, <3>2, <3>3, <3>4, <3>6 DEF Under, Past, Apart, SameSize
    <3> QED
      BY <3>7 DEF XferInv
  <2> QED
    BY <2>1, <2>2 DEF XInv, XferInv
<1> QED
  BY <1>1, <1>2

(* The limits a driver's function lives with are those SdioIo speaks of.   *)
LEMMA GeometryType ==
  ASSUME IInv, NEW f \in Funcs
  PROVE  /\ GeometryOf(f) \in Geometries
         /\ GeometryOf(f).max = func[f].max /\ GeometryOf(f).cur = func[f].cur
         /\ GeometryOf(f).hostBlk = Geometry.hostBlk
         /\ GeometryOf(f).hostCount = Geometry.hostCount
         /\ GeometryOf(f).hostReq = Geometry.hostReq
BY RecordOf, GeometryAssumption DEF GeometryOf, Geometries, HostLimits, Records

LEMMA TransferStartExact ==
  ASSUME XInv, NEW f \in Funcs, NEW size \in Sizes, NEW incr \in BOOLEAN,
         TransferStart(f, size, incr)
  PROVE  BlockInv' /\ XferInv'
<1>1. /\ func[f].driver = "bound"
      /\ holder' = f /\ UNCHANGED <<func, torn>>
      /\ xfer' = [f |-> f, at |-> "on", size |-> size, incr |-> incr, left |-> size, addr |-> 0,
                  inBlocks |-> InBlocks(GeometryOf(f), size), sent |-> <<>>]
  BY DEF TransferStart
<1>2. size \in Nat /\ InBlocks(GeometryOf(f), size) \in BOOLEAN /\ <<>> \in Seq(Chunks)
  BY SizesAssumption DEF InBlocks
<1>3. xfer' \in Transfers
  BY <1>1, <1>2 DEF Transfers
<1>4. Sent' = {}
  BY <1>1 DEF Sent
<1>5. Under'
  BY <1>1, <1>2, <1>3, <1>4 DEF Under
<1>6. BlockInv'
  BY <1>1 DEF XInv, BlockInv, Driven
<1> QED
  BY <1>5, <1>6 DEF XferInv

(* The next command, as the state gives it.                                *)
LEMMA CommandOfState ==
  ASSUME XInv, Under, xfer.left > 0, ~Stalled
  PROVE  LET c == Command IN
         /\ c \in [blocks : Nat, blksz : Nat] /\ Bytes(c) \in 1 .. xfer.left
         /\ c.blocks <= BlockLimit /\ c.blocks <= Geometry.hostCount
         /\ c.blocks = 0 => c.blksz \in 1 .. ByteLimit
         /\ c.blocks > 0 => c.blksz = func[xfer.f].cur
         /\ c.blksz <= Geometry.hostBlk
<1> DEFINE g == GeometryOf(xfer.f)
           c == NextCommand(g, xfer.inBlocks, xfer.left)
<1>1. /\ xfer.f \in Funcs /\ xfer.left \in Nat \ {0} /\ xfer.inBlocks \in BOOLEAN
      /\ ~Stalls(g, xfer.inBlocks, xfer.left)
  BY DEF Under, Transfers, Stalled
<1>2. /\ g \in Geometries
      /\ g.cur = func[xfer.f].cur /\ g.hostBlk = Geometry.hostBlk
      /\ g.hostCount = Geometry.hostCount /\ g.cur <= g.hostBlk /\ g.cur \in Nat
  BY <1>1, GeometryType DEF XInv, BlockInv, Geometries
<1> HIDE DEF g
<1>3. c = [blocks |-> c.blocks, blksz |-> c.blksz]
  BY DEF NextCommand, BlockCommand, ByteCommand
<1>4. /\ Bytes(c) \in 1 .. xfer.left /\ c.blocks \in Nat
      /\ c.blocks <= BlockLimit /\ c.blocks <= g.hostCount
      /\ c.blocks = 0 => c.blksz \in 1 .. ByteLimit
      /\ c.blocks > 0 => c.blksz = g.cur
      /\ g.cur <= g.hostBlk => c.blksz <= g.hostBlk
  BY <1>1, <1>2, CommandFits
<1> HIDE DEF c
<1>5. c.blksz \in Nat
  BY <1>2, <1>4, LimitsAssumption
<1>6. c \in [blocks : Nat, blksz : Nat]
  BY <1>3, <1>4, <1>5
<1> QED
  BY <1>2, <1>4, <1>6 DEF c, g, Command

(* What is left, and the address, after so many more bytes.                *)
LEMMA Advance ==
  ASSUME NEW size \in Nat, NEW rest \in Nat, rest <= size, NEW addr \in Nat, NEW incr,
         addr = IF incr THEN size - rest ELSE 0, NEW b \in 1 .. rest
  PROVE  \E left \in Nat, next \in Nat :
           /\ left = rest - b /\ left <= size
           /\ next = IF incr THEN addr + b ELSE addr
           /\ next = IF incr THEN size - left ELSE 0
           /\ size - left = size - rest + b
<1>1. CASE incr
  <2> WITNESS rest - b \in Nat, addr + b \in Nat
  <2> QED
    BY <1>1
<1>2. CASE ~incr
  <2> WITNESS rest - b \in Nat, addr \in Nat
  <2> QED
    BY <1>2
<1> QED
  BY <1>1, <1>2

LEMMA TransferCommandExact ==
  ASSUME XInv, TransferCommand
  PROVE  BlockInv' /\ XferInv'
<1> DEFINE c     == Command
           moved == IF c.blocks = 0 THEN c.blksz ELSE c.blocks * func[xfer.f].reg
           new   == [cmd |-> c, off |-> xfer.size - xfer.left, addr |-> xfer.addr,
                     moved |-> moved]
           b     == Bytes(c)
<1>1. /\ Under /\ xfer.left > 0 /\ xfer.at = "on" /\ ~Stalled
      /\ UNCHANGED <<func, torn, holder>>
      /\ xfer' = [xfer EXCEPT !.left = @ - Bytes(c),
                              !.addr = IF xfer.incr THEN @ + Bytes(c) ELSE @,
                              !.sent = Append(@, new)]
  BY DEF TransferCommand, Due, XInv, XferInv
<1>2. /\ c \in [blocks : Nat, blksz : Nat] /\ Bytes(c) \in 1 .. xfer.left
      /\ c.blocks <= BlockLimit /\ c.blocks <= Geometry.hostCount
      /\ c.blocks = 0 => c.blksz \in 1 .. ByteLimit
      /\ c.blocks > 0 => c.blksz = func[xfer.f].cur
      /\ c.blksz <= Geometry.hostBlk
  BY <1>1, CommandOfState
<1>3. /\ xfer \in Transfers /\ xfer.f \in Funcs /\ xfer.size \in Nat
      /\ xfer.incr \in BOOLEAN /\ xfer.left \in Nat /\ xfer.addr \in Nat
      /\ xfer.inBlocks \in BOOLEAN /\ xfer.sent \in Seq(Chunks)
      /\ xfer.left <= xfer.size /\ xfer.size - xfer.left \in Nat
  BY <1>1 DEF Under, Transfers
<1>4. func[xfer.f].reg \in Nat /\ func[xfer.f].cur \in Nat
  BY <1>3, RecordOf DEF XInv, Records
<1>5. moved \in Nat /\ (xfer.f \notin torn => moved = Bytes(c))
  <2>1. xfer.f \notin torn => func[xfer.f].reg = func[xfer.f].cur
    BY <1>3 DEF XInv, BlockInv
  <2>2. \A x \in Nat, y \in Nat : x * y \in Nat
    OBVIOUS
  <2>3. CASE c.blocks = 0
    BY <1>2, <2>3 DEF Bytes
  <2>4. CASE c.blocks > 0
    BY <1>2, <1>4, <2>1, <2>2, <2>4 DEF Bytes
  <2> QED
    BY <1>2, <2>3, <2>4
<1> HIDE DEF moved, c
<1>6. PICK n \in Chunks : n = new
  BY <1>2, <1>3, <1>5 DEF Chunks
<1>7. /\ n.cmd = c /\ n.off = xfer.size - xfer.left
      /\ n.addr = xfer.addr /\ n.moved = moved
  BY <1>6
<1> HIDE DEF new
<1>8. PICK left \in Nat, addr \in Nat :
        /\ left = xfer.left - b /\ left <= xfer.size
        /\ addr = IF xfer.incr THEN xfer.addr + b ELSE xfer.addr
        /\ addr = IF xfer.incr THEN xfer.size - left ELSE 0
        /\ xfer.size - left = xfer.size - xfer.left + b
  <2>1. b \in 1 .. xfer.left
    BY <1>2
  <2>2. xfer.addr = IF xfer.incr THEN xfer.size - xfer.left ELSE 0
    BY <1>1 DEF Under
  <2>3. /\ xfer.size \in Nat /\ xfer.left \in Nat /\ xfer.addr \in Nat
        /\ xfer.left <= xfer.size
    BY <1>3
  <2> HIDE DEF b
  <2> QED
    BY <2>1, <2>2, <2>3, Advance
<1>9. /\ xfer' \in Transfers /\ xfer'.at = "on"
      /\ xfer'.f = xfer.f /\ xfer'.size = xfer.size /\ xfer'.incr = xfer.incr
      /\ xfer'.left = left /\ xfer'.addr = addr
      /\ xfer'.sent = Append(xfer.sent, n)
  <2>1. xfer' = [xfer EXCEPT !.left = left, !.addr = addr,
                             !.sent = Append(xfer.sent, n)]
    BY <1>1, <1>3, <1>6, <1>8 DEF Transfers
  <2>2. Append(xfer.sent, n) \in Seq(Chunks)
    BY <1>3
  <2> QED
    BY <1>1, <1>3, <2>1, <2>2 DEF Transfers
<1>10. Sent' = Sent \cup {n} /\ Sent \subseteq Chunks
  <2>1. /\ Len(xfer'.sent) = Len(xfer.sent) + 1
        /\ \A k \in 1 .. Len(xfer.sent) : xfer'.sent[k] = xfer.sent[k]
        /\ xfer'.sent[Len(xfer.sent) + 1] = n
        /\ Len(xfer.sent) \in Nat
    BY <1>3, <1>6, <1>9
  <2>2. 1 .. Len(xfer.sent) + 1 = 1 .. Len(xfer.sent) \cup {Len(xfer.sent) + 1}
    BY <2>1
  <2>3. Sent' = {xfer'.sent[k] : k \in 1 .. Len(xfer.sent) \cup {Len(xfer.sent) + 1}}
    BY <2>1, <2>2 DEF Sent
  <2>4. Sent' = {xfer'.sent[k] : k \in 1 .. Len(xfer.sent)} \cup {n}
    BY <2>1, <2>3
  <2>5. {xfer'.sent[k] : k \in 1 .. Len(xfer.sent)} = Sent
    BY <2>1 DEF Sent
  <2>6. Sent \subseteq Chunks
    BY <1>3 DEF Sent
  <2> QED
    BY <2>4, <2>5, <2>6
<1>11. \A s \in Sent : /\ Past(s) \in Nat /\ s.off \in Nat
                       /\ Past(s) <= xfer.size - xfer.left
  <2>1. \A s \in Chunks : Bytes(s.cmd) \in Nat
    <3>1. \A x \in Nat, y \in Nat : x * y \in Nat
      OBVIOUS
    <3> QED
      BY <3>1 DEF Chunks, Bytes
  <2> QED
    BY <1>1, <1>10, <2>1 DEF Under, Fits, Past, Chunks
<1>12. Past(n) = xfer.size - left /\ b \in Nat \ {0}
  BY <1>2, <1>7, <1>8 DEF Past
<1> HIDE DEF b
<1>13. \A s \in Sent' : Fits(s)'
  <2>1. ASSUME NEW s \in Sent
        PROVE  Fits(s)'
    <3>1. Fits(s)
      BY <1>1 DEF Under
    <3>2. Past(s) <= xfer'.size - xfer'.left
      BY <1>3, <1>8, <1>9, <1>11, <1>12
    <3> QED
      BY <1>1, <1>9, <3>1, <3>2 DEF Fits, Past
  <2>2. Fits(n)'
    <3>1. Past(n) <= xfer'.size - xfer'.left
      BY <1>3, <1>9, <1>12
    <3>2. n.addr = IF xfer'.incr THEN n.off ELSE 0
      BY <1>1, <1>7, <1>9 DEF Under
    <3> QED
      BY <1>1, <1>2, <1>5, <1>7, <1>9, <3>1, <3>2 DEF Fits, Past
  <2> QED
    BY <1>10, <2>1, <2>2
<1>14. \A s, t \in Sent' : Apart(s, t)
  <2>1. \A s \in Sent : Past(s) <= n.off
    BY <1>7, <1>11
  <2> QED
    BY <1>1, <1>10, <2>1 DEF Under, Apart
<1>15. \A k \in 0 .. xfer'.size - xfer'.left - 1 :
         \E s \in Sent' : k \in s.off .. Past(s) - 1
  <2>1. TAKE k \in 0 .. xfer'.size - xfer'.left - 1
  <2>2. CASE k < xfer.size - xfer.left
    <3>1. k \in 0 .. xfer.size - xfer.left - 1
      BY <1>3, <1>9, <2>2
    <3> QED
      BY <1>1, <1>10, <3>1 DEF Under
  <2>3. CASE k >= xfer.size - xfer.left
    <3>1. k \in n.off .. Past(n) - 1
      BY <1>3, <1>7, <1>9, <1>12, <2>3
    <3> QED
      BY <1>10, <3>1
  <2> QED
    BY <1>3, <1>9, <2>2, <2>3
<1>16. Under'
  BY <1>1, <1>8, <1>9, <1>13, <1>14, <1>15 DEF Under, Apart, Past
<1>17. BlockInv'
  BY <1>1 DEF XInv, BlockInv, Driven
<1> QED
  BY <1>16, <1>17 DEF XferInv

(* The transfer stops where it is: a command that is refused is too large  *)
(* for a request, and the loop lacks a size of a function without maximum. *)
LEMMA TransferStopsExact ==
  ASSUME XInv, NEW at \in {"refused", "stalled"}, xfer # NoXfer,
         UNCHANGED <<func, torn, holder>>, xfer' = [xfer EXCEPT !.at = at],
         at = "refused" => Bytes(Command) > Geometry.hostReq,
         at = "stalled" => func[xfer.f].max = 0
  PROVE  BlockInv' /\ XferInv'
<1>1. Under /\ xfer \in Transfers
  BY DEF XInv, XferInv, Under
<1>2. /\ xfer' \in Transfers /\ xfer'.at = at /\ xfer'.f = xfer.f
      /\ xfer'.size = xfer.size /\ xfer'.incr = xfer.incr /\ xfer'.left = xfer.left
      /\ xfer'.addr = xfer.addr /\ xfer'.inBlocks = xfer.inBlocks
      /\ xfer'.sent = xfer.sent
  BY <1>1 DEF Transfers
<1>3. Sent' = Sent /\ Command' = Command
  BY <1>2 DEF Sent, Command, GeometryOf
<1>4. \A s : Fits(s)' <=> Fits(s)
  BY <1>2 DEF Fits, Past
<1>5. Under'
  BY <1>1, <1>2, <1>3, <1>4 DEF Under, Past, Apart
<1>6. BlockInv'
  BY DEF XInv, BlockInv, Driven
<1> QED
  BY <1>5, <1>6 DEF XferInv

LEMMA TransferRefusedExact ==
  ASSUME XInv, TransferRefused
  PROVE  BlockInv' /\ XferInv'
<1>1. /\ Under /\ xfer.left > 0 /\ ~Stalled /\ xfer # NoXfer
      /\ ~mmc_mrq_prep(GeometryOf(xfer.f), Command)
      /\ UNCHANGED <<func, torn, holder>> /\ xfer' = [xfer EXCEPT !.at = "refused"]
  BY DEF TransferRefused, Due, XInv, XferInv
<1>2. /\ Command.blksz <= Geometry.hostBlk /\ Command.blocks <= Geometry.hostCount
      /\ Bytes(Command) \in Nat
  BY <1>1, CommandOfState
<1>3. /\ GeometryOf(xfer.f).hostBlk = Geometry.hostBlk
      /\ GeometryOf(xfer.f).hostCount = Geometry.hostCount
      /\ GeometryOf(xfer.f).hostReq = Geometry.hostReq
  BY DEF GeometryOf
<1>4. Bytes(Command) > Geometry.hostReq
  BY <1>1, <1>2, <1>3, GeometryAssumption DEF mmc_mrq_prep, HostLimits
<1> QED
  BY <1>1, <1>4, TransferStopsExact

LEMMA TransferStallsExact ==
  ASSUME XInv, TransferStalls
  PROVE  BlockInv' /\ XferInv'
<1>1. /\ Under /\ Stalls(GeometryOf(xfer.f), xfer.inBlocks, xfer.left) /\ xfer # NoXfer
      /\ UNCHANGED <<func, torn, holder>> /\ xfer' = [xfer EXCEPT !.at = "stalled"]
  BY DEF TransferStalls, Due, Stalled, XInv, XferInv
<1>2. /\ GeometryOf(xfer.f) \in Geometries
      /\ GeometryOf(xfer.f).max = func[xfer.f].max
      /\ GeometryOf(xfer.f).cur = func[xfer.f].cur
      /\ func[xfer.f].cur = 0 => func[xfer.f].max = 0
  BY <1>1, GeometryType DEF XInv, BlockInv, Driven, Under, Transfers
<1>3. func[xfer.f].max = 0
  BY <1>1, <1>2, NeverStalls
<1> QED
  BY <1>1, <1>3, TransferStopsExact

LEMMA TransferEndExact ==
  ASSUME XInv, TransferEnd
  PROVE  BlockInv' /\ XferInv'
BY DEF TransferEnd, XInv, BlockInv, Driven, XferInv, NoXfer

(* A setting of the block size gives a size that the host can take, and 0  *)
(* only without a maximum; or leaves the register in doubt.                *)
LEMMA SetBlockSizeExact ==
  ASSUME XInv, NEW f \in Funcs, NEW r \in Records, NEW blk \in Nat,
         r.cur = func[f].cur, r.max = func[f].max, blk <= Geometry.hostBlk,
         blk = 0 => func[f].max = 0, xfer = NoXfer, UNCHANGED xfer,
         \/ SetBlockSizeOk(f, r, blk)
         \/ SetBlockSizeFails(f, r, blk) /\ (Driven(f) \/ r.driver = "none")
  PROVE  BlockInv' /\ XferInv'
<1>1. func \in [Funcs -> Records]
  BY DEF XInv, IInv, Types
<1>2. CASE SetBlockSizeOk(f, r, blk)
  <2>1. func'[f].cur = blk /\ func'[f].reg = blk /\ func'[f].max = r.max
    BY <1>1, <1>2 DEF SetBlockSizeOk, Records
  <2>2. \A g \in Funcs \ {f} : SameSize(g)
    BY <1>1, <1>2 DEF SetBlockSizeOk, SameSize, Driven
  <2> QED
    BY <2>1, <2>2, Aside DEF NoXfer, Funcs
<1>3. CASE SetBlockSizeFails(f, r, blk) /\ (Driven(f) \/ r.driver = "none")
  <2>1. /\ func'[f].cur = func[f].cur /\ func'[f].max = func[f].max /\ f \in torn'
        /\ func'[f].driver = r.driver
    BY <1>1, <1>3 DEF SetBlockSizeFails, Records
  <2>2. \A g \in Funcs \ {f} : SameSize(g)
    BY <1>1, <1>3 DEF SetBlockSizeFails, SameSize, Driven
  <2>3. /\ func[f].cur <= Geometry.hostBlk
        /\ Driven(f)' /\ func'[f].cur = 0 => func'[f].max = 0
    BY <1>3, <2>1 DEF XInv, BlockInv, Driven
  <2> QED
    BY <2>1, <2>2, <2>3, Aside DEF NoXfer, Funcs
<1> QED
  BY <1>2, <1>3

LEMMA DefaultIs ==
  ASSUME IInv, NEW f \in Funcs
  PROVE  LET blk == DefaultBlockSize(GeometryOf(f)) IN
         blk \in Nat /\ blk <= Geometry.hostBlk /\ (blk = 0 => func[f].max = 0)
<1>1. /\ GeometryOf(f).hostBlk = Geometry.hostBlk /\ Geometry.hostBlk \in Nat \ {0}
      /\ GeometryOf(f).max = func[f].max
  BY GeometryAssumption DEF GeometryOf, HostLimits
<1>2. func[f].max \in Nat
  BY RecordOf DEF Records
<1> QED
  BY <1>1, <1>2, LimitsAssumption DEF DefaultBlockSize, Least

LEMMA BlockSizeExact ==
  ASSUME XInv, NEW f \in Funcs,
         ProbeBlockSize(f) \/ \E blk \in BlockSizes : sdio_set_block_size(f, blk)
  PROVE  BlockInv' /\ XferInv'
<1> DEFINE default == DefaultBlockSize(GeometryOf(f))
<1>1. holder = Nobody /\ UNCHANGED xfer
  BY DEF ProbeBlockSize, sdio_set_block_size
<1>2. xfer = NoXfer /\ func[f] \in Records
  BY <1>1, Idle, RecordOf DEF XInv
<1>3. default \in Nat /\ default <= Geometry.hostBlk /\ (default = 0 => func[f].max = 0)
  BY DefaultIs DEF XInv
<1>4. CASE ProbeBlockSize(f)
  <2> DEFINE ok  == [func[f] EXCEPT !.driver = "sized"]
             bad == ProbeFailed(func[f])
  <2>1. SetBlockSizeOk(f, ok, default) \/ SetBlockSizeFails(f, bad, default)
    BY <1>4 DEF ProbeBlockSize
  <2>2. ok \in Records /\ ok.cur = func[f].cur /\ ok.max = func[f].max
    BY <1>2 DEF Records
  <2>3. /\ bad \in Records /\ bad.driver = "none"
        /\ bad.cur = func[f].cur /\ bad.max = func[f].max
    <3>1. func[f].driver = "probing"
      BY <1>4 DEF ProbeBlockSize
    <3>2. bad.cur = func[f].cur /\ bad.max = func[f].max
      BY <1>2 DEF ProbeFailed, Unused, Records
    <3> QED
      BY <3>1, <3>2, ProbeFailedRecord DEF XInv
  <2> HIDE DEF default, ok, bad
  <2> QED
    BY <1>1, <1>2, <1>3, <2>1, <2>2, <2>3, SetBlockSizeExact
<1>5. ASSUME NEW blk \in BlockSizes, sdio_set_block_size(f, blk)
      PROVE  BlockInv' /\ XferInv'
  <2> DEFINE size == IF blk = 0 THEN default ELSE blk
  <2>1. /\ Driven(f) /\ blk <= Geometry.hostBlk
        /\ SetBlockSizeOk(f, func[f], size) \/ SetBlockSizeFails(f, func[f], size)
    BY <1>5 DEF sdio_set_block_size, Driven
  <2>2. size \in Nat /\ size <= Geometry.hostBlk /\ (size = 0 => func[f].max = 0)
    BY <1>3, <2>1, SizesAssumption
  <2> HIDE DEF size, default
  <2> QED
    BY <1>1, <1>2, <2>1, <2>2, SetBlockSizeExact
<1> QED
  BY <1>4, <1>5

(* What the driver core, the driver and other users of the device do to a  *)
(* function leaves its block size alone, and its driver while it transfers.*)
LEMMA OtherFuncStepExact ==
  ASSUME XInv, NEW f \in Funcs,
         \/ UserGet(f) \/ UserPut(f) \/ ProbeStart(f) \/ ProbeDriver(f)
         \/ RemoveStart(f) \/ RemoveEnd(f) \/ ClaimIrq(f)
  PROVE  BlockInv' /\ XferInv'
<1>1. func \in [Funcs -> Records]
  BY DEF XInv, IInv, Types
<1>2. UNCHANGED <<xfer, torn, holder>>
  BY DEF UserGet, UserPut, ProbeStart, ProbeDriver, RemoveStart, RemoveEnd, ClaimIrq, io
<1>3. xfer.f = f => xfer # NoXfer /\ func[f].driver = "bound"
  BY DEF XInv, XferInv, Under, NoXfer, Funcs
<1>4. \A g \in Funcs \ {f} : func'[g] = func[g]
  BY <1>1
  DEF UserGet, UserPut, ProbeStart, ProbeDriver, RemoveStart, RemoveEnd, ClaimIrq
<1>5. SameSize(f) /\ (xfer.f = f => func'[f].driver = func[f].driver)
  <2>1. CASE UserGet(f)
    BY <1>1, <1>2, <2>1 DEF UserGet, SameSize, Driven, Records
  <2>2. CASE UserPut(f)
    BY <1>1, <1>2, <2>2 DEF UserPut, PutFunc, SameSize, Driven, Records
  <2>3. CASE ProbeStart(f)
    BY <1>1, <1>2, <1>3, <2>3 DEF ProbeStart, Unbound, Used, SameSize, Driven, Records
  <2>4. CASE ProbeDriver(f)
    <3>1. xfer.f # f
      BY <1>3, <2>4 DEF ProbeDriver
    <3>2. func'[f] = ProbeFailed(func[f]) \/
          \E r \in {func[f], Unused(func[f])} : func'[f] = [r EXCEPT !.driver = "bound"]
      BY <1>1, <2>4 DEF ProbeDriver
    <3>3. /\ func[f] \in Records /\ Unused(func[f]) \in Records
          /\ Unused(func[f]).max = func[f].max /\ Unused(func[f]).cur = func[f].cur
          /\ Unused(func[f]).reg = func[f].reg
      BY <1>1, UsedRecord DEF Unused, Records
    <3>4. \A r \in {func[f], Unused(func[f])}, d \in {"none", "bound"} :
            LET new == [r EXCEPT !.driver = d]
            IN  new.max = func[f].max /\ new.cur = func[f].cur /\ new.reg = func[f].reg
      BY <3>3 DEF Records
    <3> QED
      BY <1>2, <2>4, <3>1, <3>2, <3>4 DEF ProbeDriver, ProbeFailed, SameSize, Driven
  <2>5. CASE RemoveStart(f)
    BY <1>1, <1>2, <2>5 DEF RemoveStart, Used, SameSize, Driven, Records
  <2>6. CASE RemoveEnd(f)
    BY <1>1, <1>2, <1>3, <2>6 DEF RemoveEnd, Unused, SameSize, Driven, Records
  <2>7. CASE ClaimIrq(f)
    BY <1>2, <2>7 DEF ClaimIrq, SameSize, Driven
  <2> QED
    BY <2>1, <2>2, <2>3, <2>4, <2>5, <2>6, <2>7
<1>6. \A g \in Funcs \ {f} : SameSize(g)
  BY <1>2, <1>4 DEF SameSize, Driven
<1> QED
  BY <1>2, <1>4, <1>5, <1>6, Aside

(* mmc_attach_sdio makes functions before there is a driver to transfer,   *)
(* and removes those whose driver has gone.                                *)
LEMMA AttachStepExact ==
  ASSUME XInv, AttachStep
  PROVE  BlockInv' /\ XferInv'
<1>1. func \in [Funcs -> Records] /\ UNCHANGED <<xfer, torn>>
  BY DEF XInv, IInv, Types, AttachStep, PmFails, PmEnabled, InitFuncFails,
     InitFuncBadCis, InitFunc, InitDone, AddCard, AddFuncFails, AddFunc, AddFuncDone,
     AddDone, RemoveFuncSkip, RemoveFunc, RemoveCard, io
<1>2. CASE PmFails \/ PmEnabled \/ InitDone
  <2>1. xfer = NoXfer
    BY <1>2, Idle DEF PmFails, PmEnabled, InitDone
  <2>2. UNCHANGED func
    BY <1>2 DEF PmFails, PmEnabled, InitDone
  <2> QED
    BY <1>1, <2>1, <2>2, Aside DEF SameSize, Driven
<1>3. CASE InitFuncFails \/ InitFuncBadCis \/ InitFunc
  <2> DEFINE f == attach.i + 1
  <2>1. xfer = NoXfer
    BY <1>3, Idle DEF InitFuncFails, InitFuncBadCis, InitFunc
  <2>2. f \in Funcs
    BY <1>3, CountAssumption
    DEF InitFuncFails, InitFuncBadCis, InitFunc, Funcs, XInv, IInv, Types
  <2>3. UNCHANGED func \/ \E max : func' = [func EXCEPT ![f] = Made(max)]
    BY <1>3 DEF InitFuncFails, InitFuncBadCis, InitFunc
  <2> HIDE DEF f
  <2>4. \A g \in Funcs :
          \/ func'[g] = func[g]
          \/ func'[g].cur = 0 /\ func'[g].reg = 0 /\ func'[g].driver = "none"
    BY <1>1, <2>2, <2>3 DEF Made
  <2>5. 0 <= Geometry.hostBlk
    BY GeometryAssumption DEF HostLimits
  <2> QED
    BY <1>1, <2>1, <2>4, <2>5, Aside DEF SameSize, Driven
<1>4. CASE RemoveFunc
  <2> DEFINE f == attach.i + 1
  <2>1. f \in present /\ Unbound(f) /\ func' = [func EXCEPT ![f] = PutFunc(func[f])]
        /\ UNCHANGED holder
    BY <1>4 DEF RemoveFunc
  <2> HIDE DEF f
  <2>2. f \in Funcs
    BY <2>1 DEF XInv, IInv, Types
  <2>3. \A g \in Funcs : SameSize(g) /\ func'[g].driver = func[g].driver
    BY <1>1, <2>1, <2>2 DEF PutFunc, SameSize, Driven, Records
  <2> QED
    BY <1>1, <2>1, <2>3, Aside
<1>5. CASE \/ AddCard \/ AddFuncFails \/ AddFunc \/ AddFuncDone \/ AddDone
           \/ RemoveFuncSkip \/ RemoveCard
  <2>1. UNCHANGED <<func, holder>>
    BY <1>5 DEF AddCard, AddFuncFails, AddFunc, AddFuncDone, AddDone, RemoveFuncSkip,
       RemoveCard
  <2> QED
    BY <1>1, <2>1, Aside DEF SameSize, Driven
<1> QED
  BY <1>2, <1>3, <1>4, <1>5 DEF AttachStep

LEMMA XInvHolds == Spec => []XInv
<1>1. Init => XInv
  <2>1. SUFFICES ASSUME Init PROVE BlockInv /\ XferInv
    BY InitInv DEF XInv
  <2>2. \A f \in Funcs : func[f].cur = 0 /\ func[f].reg = 0 /\ func[f].driver = "none"
    BY <2>1 DEF Init, Unmade
  <2> QED
    BY <2>1, <2>2, GeometryAssumption DEF Init, BlockInv, Driven, XferInv, HostLimits
<1>2. XInv /\ [Next]_vars => XInv'
  <2>1. SUFFICES ASSUME XInv, [Next]_vars PROVE BlockInv' /\ XferInv'
    BY NextInv DEF XInv
  <2>2. ASSUME NEW f \in Funcs, FuncStep(f)
        PROVE  BlockInv' /\ XferInv'
    <3>1. CASE \E size \in Sizes, incr \in BOOLEAN : TransferStart(f, size, incr)
      BY <2>1, <3>1, TransferStartExact
    <3>2. CASE ~\E size \in Sizes, incr \in BOOLEAN : TransferStart(f, size, incr)
      BY <2>1, <2>2, <3>2, BlockSizeExact, OtherFuncStepExact DEF FuncStep
    <3> QED
      BY <3>1, <3>2
  <2>3. CASE UNCHANGED vars
    BY <2>1, <2>3, Aside DEF vars, io, SameSize, Driven
  <2>4. CASE TransferStep
    BY <2>1, <2>4, TransferCommandExact, TransferRefusedExact, TransferStallsExact,
       TransferEndExact DEF TransferStep
  <2> QED
    BY <2>1, <2>2, <2>3, <2>4, AttachStepExact DEF Next
<1> QED
  BY <1>1, <1>2, PTL DEF Spec

(* sdio_io_rw_ext_helper: every command of a transfer keeps to the limits  *)
(* of SD_IO_RW_EXTENDED and moves what the host expects, unless a setting  *)
(* of the block size has failed; none moves a byte of another, and when    *)
(* nothing is left all bytes have been moved.  The request engine refuses  *)
(* a command only for its bytes in all, never for the size or the number   *)
(* of its blocks; and the helper lacks a size to go on with only of a      *)
(* function that told no maximum.                                          *)
THEOREM TransferIsExact == Spec => []TransferExact
<1>1. XInv => TransferExact
  <2>1. SUFFICES ASSUME XInv, xfer # NoXfer PROVE TransferExact
    BY DEF TransferExact
  <2>2. Under
    BY <2>1 DEF XInv, XferInv
  <2>3. /\ xfer.size \in Nat /\ xfer.left \in Nat /\ xfer.incr \in BOOLEAN
        /\ Sent \subseteq Chunks
    BY <2>2 DEF Under, Transfers, Sent
  <2>4. \A s \in Sent : /\ Fits(s) /\ s.off \in Nat /\ s.addr \in Nat
                        /\ Bytes(s.cmd) \in Nat
    <3>1. \A a \in Nat, b \in Nat : a * b \in Nat
      OBVIOUS
    <3> QED
      BY <2>2, <2>3, <3>1 DEF Under, Chunks, Bytes
  <2>5. \A s, t \in Sent : s = t \/ Cells(s) \cap Cells(t) = {}
    <3>1. SUFFICES ASSUME NEW s \in Sent, NEW t \in Sent, s # t,
                          NEW c \in Cells(s), c \in Cells(t)
                   PROVE  FALSE
      OBVIOUS
    <3>2. c[1] \in s.off .. Past(s) - 1 /\ c[1] \in t.off .. Past(t) - 1
      BY <2>4, <3>1 DEF Cells, Past
    <3>3. Past(s) <= t.off \/ Past(t) <= s.off
      BY <2>2, <3>1 DEF Under, Apart
    <3> QED
      BY <2>4, <3>2, <3>3 DEF Past
  <2>6. ASSUME xfer.left = 0
        PROVE  UNION {Cells(s) : s \in Sent} =
                 {<<k, IF xfer.incr THEN k ELSE 0>> : k \in 0 .. xfer.size - 1}
    <3>1. ASSUME NEW k \in 0 .. xfer.size - 1
          PROVE  \E s \in Sent : <<k, IF xfer.incr THEN k ELSE 0>> \in Cells(s)
      <4>1. PICK s \in Sent : k \in s.off .. Past(s) - 1
        BY <2>2, <2>3, <2>6, <3>1 DEF Under
      <4>2. /\ k - s.off \in 0 .. Bytes(s.cmd) - 1 /\ k = s.off + (k - s.off)
            /\ (IF xfer.incr THEN k ELSE 0) =
                 s.addr + (IF xfer.incr THEN k - s.off ELSE 0)
        BY <2>4, <4>1 DEF Past, Fits
      <4> QED
        BY <4>2 DEF Cells
    <3>2. ASSUME NEW s \in Sent, NEW c \in Cells(s)
          PROVE  \E k \in 0 .. xfer.size - 1 : c = <<k, IF xfer.incr THEN k ELSE 0>>
      <4>1. PICK j \in 0 .. Bytes(s.cmd) - 1 :
              c = <<s.off + j, s.addr + (IF xfer.incr THEN j ELSE 0)>>
        BY <3>2 DEF Cells
      <4>2. /\ s.off + j \in 0 .. xfer.size - 1
            /\ s.addr + (IF xfer.incr THEN j ELSE 0) =
                 IF xfer.incr THEN s.off + j ELSE 0
        BY <2>3, <2>4, <2>6, <4>1 DEF Past, Fits
      <4> QED
        BY <4>1, <4>2
    <3> QED
      BY <3>1, <3>2
  <2>7. \A s \in Sent :
          /\ s.cmd.blocks <= BlockLimit /\ Bytes(s.cmd) > 0
          /\ s.cmd.blocks = 0 => s.cmd.blksz <= ByteLimit
          /\ xfer.f \notin torn => s.moved = Bytes(s.cmd)
    BY <2>4, LimitsAssumption DEF Fits
  <2>8. /\ xfer.at = "refused" => Bytes(Command) > Geometry.hostReq
        /\ xfer.at = "stalled" => func[xfer.f].max = 0
    BY <2>2 DEF Under
  <2> QED
    BY <2>5, <2>6, <2>7, <2>8 DEF TransferExact, Sent
<1> QED
  BY <1>1, XInvHolds, PTL

-----------------------------------------------------------------------------
(* The claims made here are those HostLock allows, once mmc_attach_sdio is *)
(* called with the host claimed.                                           *)
Claimants == Funcs \cup {0}

Lock == INSTANCE HostLock WITH Groups <- Claimants,
          owner <- holder, depth <- IF holder = Nobody THEN 0 ELSE 1

HeldInv ==
  /\ holder = 0 <=> attach.at \in {"pm", "init"}
  /\ holder \in Funcs <=> xfer # NoXfer

HolderStep ==
  \/ holder = Nobody /\ holder' \in Claimants
  \/ holder # Nobody /\ holder' = Nobody
  \/ UNCHANGED holder

LEMMA AttachHolds ==
  ASSUME XInv, HeldInv, AttachStep
  PROVE  HeldInv' /\ HolderStep
<1> USE CountAssumption DEF Nobody, Funcs, HeldInv, HolderStep
<1>1. CASE PmFails \/ InitFuncFails \/ InitFuncBadCis \/ InitDone
  <2>1. attach.at \in {"pm", "init"} /\ holder = 0 /\ xfer = NoXfer
    BY <1>1, Idle DEF PmFails, InitFuncFails, InitFuncBadCis, InitDone
  <2>2. holder' = Nobody /\ attach'.at \in {"unwind", "card"} /\ UNCHANGED xfer
    BY <1>1 DEF PmFails, InitFuncFails, InitFuncBadCis, InitDone, FailInit, io, XInv,
                IInv, Types
  <2>3. NoXfer' = NoXfer
    BY DEF NoXfer
  <2> QED
    BY <2>1, <2>2, <2>3
<1>2. CASE ~(PmFails \/ InitFuncFails \/ InitFuncBadCis \/ InitDone)
  <2>1. UNCHANGED <<holder, xfer>>
    BY <1>2 DEF AttachStep, PmEnabled, InitFunc, AddCard, AddFuncFails, AddFunc,
                AddFuncDone, AddDone, RemoveFuncSkip, RemoveFunc, RemoveCard, io
  <2>2. attach'.at \in {"pm", "init"} <=> attach.at \in {"pm", "init"}
    BY <1>2 DEF AttachStep, PmEnabled, InitFunc, AddCard, AddFuncFails, AddFunc,
                AddFuncDone, AddDone, RemoveFuncSkip, RemoveFunc, RemoveCard, XInv,
                IInv, Types
  <2>3. NoXfer' = NoXfer
    BY DEF NoXfer
  <2> QED
    BY <2>1, <2>2, <2>3
<1> QED
  BY <1>1, <1>2

LEMMA FuncHolds ==
  ASSUME XInv, HeldInv, NEW f \in Funcs, FuncStep(f)
  PROVE  HeldInv' /\ HolderStep
<1>1. ASSUME NEW size \in Sizes, NEW incr \in BOOLEAN, TransferStart(f, size, incr)
      PROVE  HeldInv' /\ HolderStep
  <2>1. holder = Nobody /\ holder' = f /\ xfer'.f = f /\ UNCHANGED attach
    BY <1>1 DEF TransferStart
  <2>2. xfer' # NoXfer /\ f # 0 /\ f # Nobody
    BY <2>1, CountAssumption DEF NoXfer, Funcs, Nobody
  <2> QED
    BY <2>1, <2>2, CountAssumption DEF HeldInv, HolderStep, Claimants, Nobody, NoXfer
<1>2. ASSUME ~\E size \in Sizes, incr \in BOOLEAN : TransferStart(f, size, incr)
      PROVE  UNCHANGED <<attach, holder, xfer>>
  BY <1>2 DEF FuncStep, UserGet, UserPut, ProbeStart, ProbeBlockSize, ProbeDriver,
              RemoveStart, RemoveEnd, ClaimIrq, sdio_set_block_size, io
<1> QED
  BY <1>1, <1>2 DEF HeldInv, HolderStep, NoXfer

LEMMA NextHolds ==
  ASSUME XInv, HeldInv, [Next]_vars
  PROVE  HeldInv' /\ HolderStep
<1>1. CASE TransferEnd
  <2>1. xfer # NoXfer /\ xfer' = NoXfer /\ holder' = Nobody /\ UNCHANGED attach
    BY <1>1 DEF TransferEnd
  <2>2. attach.at \notin {"pm", "init"} /\ holder \in Funcs
    BY <2>1, Idle DEF HeldInv
  <2> QED
    BY <2>1, <2>2, CountAssumption DEF HeldInv, HolderStep, Nobody, Funcs, NoXfer
<1>2. CASE TransferCommand \/ TransferRefused \/ TransferStalls
  <2>1. xfer # NoXfer /\ xfer'.f = xfer.f /\ UNCHANGED <<attach, holder>> /\ Under
    BY <1>2 DEF TransferCommand, TransferRefused, TransferStalls, Due, XInv, XferInv,
                Under, Transfers
  <2>2. xfer'.f # 0
    BY <2>1, CountAssumption DEF Under, Transfers, Funcs
  <2> QED
    BY <2>1, <2>2 DEF HeldInv, HolderStep, NoXfer
<1>3. CASE UNCHANGED vars
  BY <1>3 DEF vars, io, HeldInv, HolderStep, NoXfer
<1> QED
  BY <1>1, <1>2, <1>3, AttachHolds, FuncHolds DEF Next, TransferStep

(* Function drivers take the host only when it is free, and only who has   *)
(* it gives it back: mmc_attach_sdio once, whichever way its first part    *)
(* ends, and a driver each time a transfer ends.                           *)
THEOREM ClaimsAllowed == Spec => [][Lock!Next]_(Lock!lockVars)
<1>1. Init => HeldInv
  BY CountAssumption DEF Init, HeldInv, Funcs
<1>2. XInv /\ HeldInv /\ [Next]_vars => HeldInv' /\ HolderStep
  BY NextHolds
<1>3. HolderStep => [Lock!Next]_(Lock!lockVars)
  <2>1. SUFFICES ASSUME HolderStep PROVE Lock!Next \/ UNCHANGED Lock!lockVars
    OBVIOUS
  <2>2. ASSUME holder = Nobody, holder' \in Claimants PROVE Lock!Acquire(holder')
    BY <2>2, CountAssumption DEF Lock!Acquire, Claimants, Nobody, Funcs
  <2>3. ASSUME holder # Nobody, holder' = Nobody PROVE Lock!Release
    BY <2>3 DEF Lock!Release, Nobody
  <2> QED
    BY <2>1, <2>2, <2>3 DEF HolderStep, Lock!Next, Lock!lockVars, Nobody
<1> QED
  BY <1>1, <1>2, <1>3, XInvHolds, PTL DEF Spec

-----------------------------------------------------------------------------
(* sdio_read_cis.                                                          *)

CisStart == [ret |-> "ok", queued |-> <<>>, sized |-> FALSE, next |-> 1]

IsLoop(f, m, chain, Lost, isFunc) ==
  f = [n \in 0 .. m |-> IF n = 0 THEN CisStart
                        ELSE NextRead(f[n - 1], chain, Lost, isFunc)]

(* The loop is a function, and so has the values its passes give it.       *)
LEMMA ReadExists ==
  ASSUME NEW chain, NEW Lost, NEW isFunc, NEW Last \in Nat
  PROVE  \E f : IsLoop(f, Last, chain, Lost, isFunc)
<1> DEFINE Pass(st) == NextRead(st, chain, Lost, isFunc)
           Loops(f, m) == f = [n \in 0 .. m |-> IF n = 0 THEN CisStart
                                                ELSE Pass(f[n - 1])]
           Some == {m \in Nat : \E f : Loops(f, m)}
<1> HIDE DEF Pass
<1>1. 0 \in Some
  <2>1. Loops([n \in 0 .. 0 |-> CisStart], 0)
    OBVIOUS
  <2> QED
    BY <2>1
<1>2. ASSUME NEW m \in Nat, m \in Some PROVE m + 1 \in Some
  <2>1. PICK f : Loops(f, m)
    BY <1>2
  <2>2. \A n \in 0 .. m : f[n] = IF n = 0 THEN CisStart ELSE Pass(f[n - 1])
    BY <2>1
  <2> DEFINE g == [n \in 0 .. m + 1 |-> IF n <= m THEN f[n] ELSE Pass(f[m])]
  <2>3. ASSUME NEW n \in 0 .. m + 1
        PROVE  g[n] = IF n = 0 THEN CisStart ELSE Pass(g[n - 1])
    <3>1. CASE n <= m
      <4>1. n = 0 \/ n - 1 \in 0 .. m
        BY <3>1
      <4> QED
        BY <2>2, <3>1, <4>1
    <3>2. CASE n = m + 1
      <4>1. g[n] = Pass(f[m]) /\ g[n - 1] = f[m] /\ n # 0
        BY <3>2
      <4> QED
        BY <4>1
    <3> QED
      BY <3>1, <3>2
  <2>4. g = [n \in 0 .. m + 1 |-> g[n]]
    OBVIOUS
  <2> HIDE DEF g
  <2>5. Loops(g, m + 1)
    BY <2>3, <2>4
  <2> QED
    BY <2>5
<1> HIDE DEF Some
<1>3. Last \in Some
  BY <1>1, <1>2, Induction
<1> QED
  BY <1>3 DEF Some, Pass, IsLoop

LEMMA ReadIs ==
  ASSUME NEW chain, Len(chain) \in Nat, NEW Lost, NEW isFunc
  PROVE  \E read : /\ sdio_read_cis(chain, Lost, isFunc) = read[Len(chain) + 1]
                   /\ read[0] = CisStart
                   /\ \A n \in 1 .. Len(chain) + 1 :
                        read[n] = NextRead(read[n - 1], chain, Lost, isFunc)
<1> DEFINE Last == Len(chain) + 1
           read == CHOOSE f : IsLoop(f, Last, chain, Lost, isFunc)
<1>1. sdio_read_cis(chain, Lost, isFunc) = read[Last]
  BY DEF sdio_read_cis, CisStart, IsLoop
<1>2. Last \in Nat
  OBVIOUS
<1> HIDE DEF Last
<1>3. IsLoop(read, Last, chain, Lost, isFunc)
  BY <1>2, ReadExists
<1> HIDE DEF read
<1>4. \A n \in 0 .. Last : read[n] = IF n = 0 THEN CisStart
                                  ELSE NextRead(read[n - 1], chain, Lost, isFunc)
  BY <1>3 DEF IsLoop
<1>5. read[0] = CisStart
  BY <1>2, <1>4
<1>6. \A n \in 1 .. Last : read[n] = NextRead(read[n - 1], chain, Lost, isFunc)
  BY <1>2, <1>4
<1> QED
  BY <1>1, <1>5, <1>6 DEF Last

Verdicts == {"queue", "invalid", "ok"}

LEMMA ParseType ==
  ASSUME NEW t \in Tuples, t.code \notin Marks, NEW isFunc \in BOOLEAN
  PROVE  cis_tpl_parse(t, isFunc) \in Verdicts
  BY DEF Tuples, Codes, Marks, Parsed, Unparsed, cis_tpl_parse, Verdicts

(* What one pass makes of the state of the loop: nothing of a tuple it     *)
(* cannot read, and of the others what they say.                           *)
Fails(out, st) == out = [st EXCEPT !.ret = "failed", !.next = 0]

Takes(out, st, t, isFunc, i) ==
  LET verdict == cis_tpl_parse(t, isFunc)
  IN  /\ t.code \in {"end", "stop"} => out = [st EXCEPT !.next = 0]
      /\ t.code = "null" => out = [st EXCEPT !.next = i + 1]
      /\ t.code \notin Marks /\ verdict = "invalid" =>
           out = [st EXCEPT !.ret = "invalid", !.next = 0]
      /\ t.code \notin Marks /\ verdict = "queue" =>
           out = [st EXCEPT !.queued = Append(@, i), !.next = i + 1]
      /\ t.code \notin Marks /\ verdict = "ok" =>
           out = [st EXCEPT !.sized = @ \/ t.code = "funce_func", !.next = i + 1]

LEMMA TupleReadIs ==
  ASSUME NEW st, NEW t \in Tuples, NEW lost \in BOOLEAN, NEW isFunc \in BOOLEAN, NEW i
  PROVE  LET out == TupleRead(st, t, lost, isFunc, i)
         IN  (lost => Fails(out, st)) /\ (~lost => Takes(out, st, t, isFunc, i))
<1> DEFINE verdict == cis_tpl_parse(t, isFunc)
<1>1. t.code \notin Marks => verdict \in Verdicts
  BY ParseType
<1> HIDE DEF verdict
<1>2. "end" \in Marks /\ "stop" \in Marks /\ "null" \in Marks
  BY DEF Marks
<1>3. CASE lost
  BY <1>3 DEF TupleRead, Fails
<1>4. CASE ~lost /\ t.code \in {"end", "stop"}
  BY <1>2, <1>4 DEF TupleRead, Takes
<1>5. CASE ~lost /\ t.code = "null"
  BY <1>2, <1>5 DEF TupleRead, Takes
<1>6. CASE ~lost /\ t.code \notin Marks
  <2>1. CASE verdict = "invalid"
    BY <1>2, <1>6, <2>1 DEF TupleRead, Takes, verdict
  <2>2. CASE verdict = "queue"
    BY <1>2, <1>6, <2>2 DEF TupleRead, Takes, verdict
  <2>3. CASE verdict = "ok"
    BY <1>2, <1>6, <2>3 DEF TupleRead, Takes, verdict
  <2> QED
    BY <1>1, <1>6, <2>1, <2>2, <2>3 DEF Verdicts
<1> QED
  BY <1>3, <1>4, <1>5, <1>6 DEF Marks

LEMMA NextReadIs ==
  ASSUME NEW chain \in Seq(Tuples), NEW Lost, NEW isFunc \in BOOLEAN, NEW st,
         NEW i \in Nat \ {0}, st.next = i
  PROVE  LET out == NextRead(st, chain, Lost, isFunc)
         IN  IF i <= Len(chain) /\ i \notin Lost
             THEN Takes(out, st, chain[i], isFunc, i) ELSE Fails(out, st)
<1> DEFINE past == [code |-> "end", short |-> FALSE]
           beyond == TRUE
           lost == i \in Lost
           t == chain[i]
           out == NextRead(st, chain, Lost, isFunc)
<1>1. past \in Tuples /\ beyond \in BOOLEAN /\ lost \in BOOLEAN /\ beyond
  BY DEF Tuples, Codes, Marks
<1>2. Len(chain) \in Nat /\ (~(i > Len(chain)) <=> i <= Len(chain)) /\ i # 0
  OBVIOUS
<1>3. out = IF i > Len(chain) THEN TupleRead(st, past, beyond, isFunc, i)
            ELSE TupleRead(st, t, lost, isFunc, i)
  BY <1>2, Zenon DEF NextRead
<1>4. i <= Len(chain) => t \in Tuples
  BY <1>2
<1>5. lost <=> i \in Lost
  OBVIOUS
<1> HIDE DEF out, past, beyond, lost, t
<1>6. CASE i > Len(chain)
  <2>1. out = TupleRead(st, past, beyond, isFunc, i)
    BY <1>3, <1>6
  <2>2. Fails(out, st)
    BY <1>1, <2>1, TupleReadIs, Zenon
  <2> QED
    BY <1>2, <1>6, <2>2 DEF out
<1>7. CASE ~(i > Len(chain))
  <2>1. out = TupleRead(st, t, lost, isFunc, i) /\ t \in Tuples
    BY <1>2, <1>3, <1>4, <1>7
  <2>2. (lost => Fails(out, st)) /\ (~lost => Takes(out, st, t, isFunc, i))
    BY <1>1, <2>1, TupleReadIs, Zenon
  <2> QED
    BY <1>2, <1>5, <1>7, <2>2 DEF out, t
<1> QED
  BY <1>6, <1>7

(* Reading stops at some tuple, if only at the one past the chain.         *)
LEMMA StopAtIs ==
  ASSUME NEW chain \in Seq(Tuples), NEW Lost, NEW isFunc
  PROVE  LET stop == StopAt(chain, Lost, isFunc)
         IN  /\ stop \in 1 .. Len(chain) + 1
             /\ stop <= Len(chain) => stop \in Lost \/ Stops(chain[stop], isFunc)
             /\ \A j \in 1 .. stop - 1 : j \notin Lost /\ ~Stops(chain[j], isFunc)
<1> DEFINE S == {i \in 1 .. Len(chain) + 1 :
                   i <= Len(chain) => i \in Lost \/ Stops(chain[i], isFunc)}
<1>1. Len(chain) \in Nat
  OBVIOUS
<1>2. Len(chain) + 1 \in S /\ S \subseteq Nat
  BY <1>1
<1>3. PICK i \in S : \A j \in S : <<j, i>> \notin OpToRel(<, Nat)
  <2> HIDE DEF S
  <2> QED
    BY <1>2, NatLessThanWellFounded, WFMin
<1>4. ASSUME NEW j \in 1 .. i - 1 PROVE j \notin Lost /\ ~Stops(chain[j], isFunc)
  <2>1. j \in 1 .. Len(chain) + 1 /\ j < i /\ j \in Nat /\ i \in Nat /\ j <= Len(chain)
    BY <1>1
  <2>2. j \notin S
    BY <1>3, <2>1 DEF OpToRel
  <2> QED
    BY <2>1, <2>2
<1>5. /\ i \in 1 .. Len(chain) + 1
      /\ i <= Len(chain) => i \in Lost \/ Stops(chain[i], isFunc)
  OBVIOUS
<1> HIDE DEF S
<1> QED
  BY <1>4, <1>5 DEF StopAt

(* The elements of a set, in order.                                        *)
IsList(q, S) ==
  /\ q \in Seq(Nat)
  /\ {q[k] : k \in 1 .. Len(q)} = S
  /\ \A k \in 1 .. Len(q) - 1 : q[k] < q[k + 1]

LEMMA ListGrows ==
  ASSUME NEW q, NEW S, IsList(q, S), NEW i \in Nat, \A j \in S : j < i
  PROVE  IsList(Append(q, i), S \cup {i})
<1> DEFINE r == Append(q, i)
<1>1. q \in Seq(Nat) /\ Len(q) \in Nat
  BY DEF IsList
<1>2. r \in Seq(Nat) /\ Len(r) = Len(q) + 1
  BY <1>1
<1>3. r[Len(q) + 1] = i /\ \A k \in 1 .. Len(q) : r[k] = q[k]
  BY <1>1
<1> HIDE DEF r
<1>4. {r[k] : k \in 1 .. Len(r)} = S \cup {i}
  <2>1. S = {q[k] : k \in 1 .. Len(q)}
    BY DEF IsList
  <2>2. 1 .. Len(r) = (1 .. Len(q)) \cup {Len(q) + 1}
    BY <1>1, <1>2
  <2> QED
    BY <1>3, <2>1, <2>2
<1>5. ASSUME NEW k \in 1 .. Len(r) - 1 PROVE r[k] < r[k + 1]
  <2>1. k \in 1 .. Len(q)
    BY <1>1, <1>2
  <2>2. CASE k = Len(q)
    <3>1. q[k] \in S
      BY <2>1 DEF IsList
    <3> QED
      BY <1>3, <2>1, <2>2, <3>1
  <2>3. CASE k # Len(q)
    <3>1. k \in 1 .. Len(q) - 1 /\ k + 1 \in 1 .. Len(q)
      BY <1>1, <2>1, <2>3
    <3> QED
      BY <1>3, <2>1, <3>1 DEF IsList
  <2> QED
    BY <2>2, <2>3
<1> QED
  BY <1>2, <1>4, <1>5 DEF IsList, r

Readings == [ret : {"ok", "failed", "invalid"}, queued : Seq(Nat), sized : BOOLEAN,
             next : Nat]

(* What the first n tuples of a chain come to, read to the end.            *)
Heard(chain, n) == {i \in 1 .. n : chain[i].code # "null"}
Kept(chain, isFunc, n) ==
  {i \in Heard(chain, n) : cis_tpl_parse(chain[i], isFunc) = "queue"}
Sized(chain, n) == \E i \in Heard(chain, n) : chain[i].code = "funce_func"

HasRead(st, chain, isFunc, n) ==
  IsList(st.queued, Kept(chain, isFunc, n)) /\ st.sized = Sized(chain, n)

(* A tuple that does not stop the reading adds what it says.               *)
LEMMA GoesOn ==
  ASSUME NEW chain \in Seq(Tuples), NEW Lost, NEW isFunc \in BOOLEAN,
         NEW st \in Readings, NEW n \in Nat,
         n < Len(chain), st.next = n + 1, st.ret = "ok",
         HasRead(st, chain, isFunc, n),
         n + 1 \notin Lost, ~Stops(chain[n + 1], isFunc)
  PROVE  LET out == NextRead(st, chain, Lost, isFunc)
         IN  /\ out \in Readings /\ out.next = n + 2 /\ out.ret = "ok"
             /\ HasRead(out, chain, isFunc, n + 1)
<1> DEFINE i == n + 1
           t == chain[i]
           verdict == cis_tpl_parse(t, isFunc)
           out == NextRead(st, chain, Lost, isFunc)
<1>1. i \in 1 .. Len(chain) /\ t \in Tuples /\ i # 0 /\ ~(i > Len(chain)) /\ i \in Nat
  OBVIOUS
<1>2. 1 .. i = 1 .. n \cup {i}
  OBVIOUS
<1>3. i + 1 = n + 2 /\ n + 2 \in Nat
  OBVIOUS
<1>4. t.code \notin {"end", "stop"} /\ (t.code # "null" => verdict # "invalid")
  BY DEF Stops
<1> HIDE DEF i, t, verdict
<1>5. Takes(out, st, t, isFunc, i) /\ i + 1 = n + 2
  <2> HIDE DEF out
  <2>1. IF i <= Len(chain) /\ i \notin Lost THEN Takes(out, st, chain[i], isFunc, i)
        ELSE Fails(out, st)
    BY <1>1, NextReadIs DEF i, out
  <2> QED
    BY <1>1, <1>3, <2>1 DEF i, t
<1> HIDE DEF out
<1>6. CASE t.code = "null"
  <2>1. out = [st EXCEPT !.next = n + 2]
    BY <1>5, <1>6 DEF Takes
  <2>2. Heard(chain, i) = Heard(chain, n)
    BY <1>2, <1>6 DEF Heard, t
  <2>3. HasRead(out, chain, isFunc, i)
    BY <2>1, <2>2 DEF HasRead, Kept, Sized, Readings
  <2> QED
    BY <1>3, <2>1, <2>3 DEF Readings, i, out
<1>7. CASE t.code # "null"
  <2>1. t.code \notin Marks /\ verdict \in {"queue", "ok"}
    BY <1>1, <1>4, <1>7, ParseType DEF Marks, Verdicts, verdict
  <2>2. Heard(chain, i) = Heard(chain, n) \cup {i}
    BY <1>2, <1>7 DEF Heard, t
  <2>3. CASE verdict = "queue"
    <3>1. out = [st EXCEPT !.queued = Append(@, i), !.next = n + 2]
      BY <1>5, <2>1, <2>3 DEF Takes, verdict
    <3>2. Kept(chain, isFunc, i) = Kept(chain, isFunc, n) \cup {i}
      BY <2>2, <2>3 DEF Kept, verdict, t
    <3>3. \A j \in Kept(chain, isFunc, n) : j < i
      BY DEF Kept, Heard, i
    <3>4. IsList(Append(st.queued, i), Kept(chain, isFunc, n) \cup {i})
      BY <1>1, <3>3, ListGrows DEF HasRead
    <3>5. t.code # "funce_func"
      <4>1. t.code = "funce_func" => verdict # "queue"
        BY <1>1 DEF verdict, cis_tpl_parse, Tuples, Unparsed
      <4> QED
        BY <2>3, <4>1
    <3>6. Sized(chain, i) = Sized(chain, n)
      BY <2>2, <3>5 DEF Sized, t
    <3>7. out.queued = Append(st.queued, i) /\ out.sized = st.sized
          /\ out.next = n + 2 /\ out.ret = "ok" /\ out \in Readings
      <4>1. Append(st.queued, i) \in Seq(Nat)
        BY <1>1 DEF Readings
      <4> QED
        BY <1>3, <3>1, <4>1 DEF Readings
    <3> QED
      BY <3>2, <3>4, <3>6, <3>7 DEF HasRead, i, out
  <2>4. CASE verdict = "ok"
    <3>1. out = [st EXCEPT !.sized = @ \/ t.code = "funce_func", !.next = n + 2]
      BY <1>5, <2>1, <2>4 DEF Takes, verdict
    <3>2. Kept(chain, isFunc, i) = Kept(chain, isFunc, n)
      BY <2>2, <2>4 DEF Kept, verdict, t
    <3>3. Sized(chain, i) = (Sized(chain, n) \/ t.code = "funce_func")
      BY <2>2 DEF Sized, t
    <3>4. out.queued = st.queued /\ out.sized = (st.sized \/ t.code = "funce_func")
          /\ out.next = n + 2 /\ out.ret = "ok" /\ out \in Readings
      BY <1>3, <3>1 DEF Readings
    <3> QED
      BY <3>2, <3>3, <3>4 DEF HasRead, i, out
  <2> QED
    BY <2>1, <2>3, <2>4
<1> QED
  BY <1>6, <1>7

(* The tuple that stops the reading adds nothing; the error says whether   *)
(* it was the end of the chain.                                            *)
EndsWell(chain, Lost, stop) ==
  stop <= Len(chain) /\ stop \notin Lost /\ chain[stop].code \in {"end", "stop"}

IsStop(chain, Lost, isFunc, stop) ==
  /\ stop \in 1 .. Len(chain) + 1
  /\ stop <= Len(chain) => stop \in Lost \/ Stops(chain[stop], isFunc)

LEMMA StopsThere ==
  ASSUME NEW chain \in Seq(Tuples), NEW Lost, NEW isFunc \in BOOLEAN,
         NEW st \in Readings, NEW stop, IsStop(chain, Lost, isFunc, stop),
         st.next = stop, st.ret = "ok", HasRead(st, chain, isFunc, stop - 1)
  PROVE  LET out == NextRead(st, chain, Lost, isFunc)
         IN  /\ out \in Readings /\ out.next = 0
             /\ out.ret = "ok" <=> EndsWell(chain, Lost, stop)
             /\ HasRead(out, chain, isFunc, stop - 1)
<1> DEFINE out == NextRead(st, chain, Lost, isFunc)
<1>1. SUFFICES \E r \in {"ok", "failed", "invalid"} :
                 /\ out = [st EXCEPT !.ret = r, !.next = 0]
                 /\ r = "ok" <=> EndsWell(chain, Lost, stop)
  <2>1. ASSUME NEW r \in {"ok", "failed", "invalid"},
               out = [st EXCEPT !.ret = r, !.next = 0]
        PROVE  /\ out \in Readings /\ out.next = 0 /\ out.ret = r
               /\ out.queued = st.queued /\ out.sized = st.sized
    <3> HIDE DEF out
    <3> QED
      BY <2>1 DEF Readings
  <2> HIDE DEF out
  <2> QED
    BY <2>1 DEF HasRead, out
<1>2. /\ Len(chain) \in Nat /\ stop \in Nat /\ stop # 0
      /\ stop <= Len(chain) => stop \in Lost \/ Stops(chain[stop], isFunc)
  BY DEF IsStop
<1>3. IF stop <= Len(chain) /\ stop \notin Lost
      THEN Takes(out, st, chain[stop], isFunc, stop) ELSE Fails(out, st)
  BY <1>2, NextReadIs
<1> HIDE DEF out
<1>4. CASE ~(stop <= Len(chain) /\ stop \notin Lost)
  <2>1. out = [st EXCEPT !.ret = "failed", !.next = 0]
    BY <1>3, <1>4 DEF Fails
  <2>2. ~EndsWell(chain, Lost, stop)
    BY <1>4 DEF EndsWell
  <2> QED
    BY <2>1, <2>2
<1>5. CASE stop <= Len(chain) /\ stop \notin Lost
  <2> DEFINE t == chain[stop]
  <2>1. Stops(t, isFunc) /\ Takes(out, st, t, isFunc, stop)
    BY <1>2, <1>3, <1>5
  <2>2. EndsWell(chain, Lost, stop) <=> t.code \in {"end", "stop"}
    BY <1>5 DEF EndsWell
  <2> HIDE DEF t
  <2>3. CASE t.code \in {"end", "stop"}
    <3>1. out = [st EXCEPT !.next = 0]
      BY <2>1, <2>3 DEF Takes
    <3>2. [st EXCEPT !.next = 0] = [st EXCEPT !.ret = "ok", !.next = 0]
      BY DEF Readings
    <3> QED
      BY <2>2, <2>3, <3>1, <3>2
  <2>4. CASE t.code \notin {"end", "stop"}
    <3>1. t.code \notin Marks /\ cis_tpl_parse(t, isFunc) = "invalid"
      BY <2>1, <2>4 DEF Stops, Marks
    <3>2. out = [st EXCEPT !.ret = "invalid", !.next = 0]
      BY <2>1, <3>1 DEF Takes
    <3> QED
      BY <2>2, <2>4, <3>2
  <2> QED
    BY <2>3, <2>4
<1> QED
  BY <1>4, <1>5

(* sdio_read_cis queues, for any chain, what is unknown or left to the     *)
(* driver up to the first tuple that ends the chain, cannot be read or is  *)
(* invalid, in order; it reports success just if that tuple is an end, and *)
(* finds a block size just if a function's tuple before it has one.        *)
THEOREM CisReadRight ==
  ASSUME NEW chain \in Seq(Tuples), NEW Lost, NEW isFunc \in BOOLEAN
  PROVE  ReadRight(chain, Lost, isFunc)
<1> DEFINE Last == Len(chain) + 1
           stop == StopAt(chain, Lost, isFunc)
<1>1. Len(chain) \in Nat /\ Last \in Nat
  OBVIOUS
<1>2. /\ stop \in 1 .. Len(chain) + 1
      /\ stop <= Len(chain) => stop \in Lost \/ Stops(chain[stop], isFunc)
      /\ \A j \in 1 .. stop - 1 : j \notin Lost /\ ~Stops(chain[j], isFunc)
  BY StopAtIs
<1>3. PICK read : /\ sdio_read_cis(chain, Lost, isFunc) = read[Last]
                  /\ read[0] = CisStart
                  /\ \A n \in 1 .. Last :
                       read[n] = NextRead(read[n - 1], chain, Lost, isFunc)
  BY <1>1, ReadIs
<1> HIDE DEF stop
<1> DEFINE Before(n) == /\ read[n] \in Readings /\ read[n].next = n + 1
                        /\ read[n].ret = "ok" /\ HasRead(read[n], chain, isFunc, n)
           After(n) == /\ read[n] \in Readings /\ read[n].next = 0
                       /\ read[n].ret = "ok" <=> EndsWell(chain, Lost, stop)
                       /\ HasRead(read[n], chain, isFunc, stop - 1)
           S == {n \in Nat : n <= Last => IF n < stop THEN Before(n) ELSE After(n)}
<1>4. 0 \in S
  <2>1. CisStart \in Readings /\ CisStart.next = 0 + 1 /\ CisStart.ret = "ok"
        /\ CisStart.queued = <<>> /\ CisStart.sized = FALSE
    BY DEF CisStart, Readings
  <2>2. Heard(chain, 0) = {} /\ Kept(chain, isFunc, 0) = {} /\ Sized(chain, 0) = FALSE
    BY DEF Heard, Kept, Sized
  <2>3. IsList(<<>>, {})
    BY DEF IsList
  <2>4. HasRead(CisStart, chain, isFunc, 0)
    BY <2>1, <2>2, <2>3 DEF HasRead
  <2> QED
    BY <1>2, <1>3, <2>1, <2>4
<1>5. ASSUME NEW n \in Nat, n \in S PROVE n + 1 \in S
  <2>1. SUFFICES ASSUME n + 1 <= Last
                 PROVE  IF n + 1 < stop THEN Before(n + 1) ELSE After(n + 1)
    OBVIOUS
  <2>2. read[n + 1] = NextRead(read[n], chain, Lost, isFunc)
    BY <1>1, <1>3, <2>1
  <2>3. stop \in Nat /\ stop <= Last
    BY <1>1, <1>2
  <2>4. IF n < stop THEN Before(n) ELSE After(n)
    <3>1. n <= Last
      BY <1>1, <2>1
    <3> HIDE DEF Before, After
    <3> QED
      BY <1>5, <3>1
  <2>5. CASE n + 1 < stop
    <3>1. n < Len(chain) /\ n + 1 \in 1 .. stop - 1 /\ n < stop
      BY <1>1, <2>3, <2>5
    <3>2. n + 1 \notin Lost /\ ~Stops(chain[n + 1], isFunc)
      BY <1>2, <3>1
    <3>3. /\ read[n] \in Readings /\ read[n].next = n + 1
          /\ read[n].ret = "ok" /\ HasRead(read[n], chain, isFunc, n)
      BY <2>4, <3>1
    <3>4. LET out == NextRead(read[n], chain, Lost, isFunc)
          IN  /\ out \in Readings /\ out.next = n + 2 /\ out.ret = "ok"
              /\ HasRead(out, chain, isFunc, n + 1)
      BY <3>1, <3>2, <3>3, GoesOn
    <3>5. (n + 1) + 1 = n + 2
      OBVIOUS
    <3>6. Before(n + 1)
      BY <2>2, <3>4, <3>5
    <3> HIDE DEF Before, After
    <3> QED
      BY <2>5, <3>6
  <2>6. CASE n + 1 = stop
    <3>1. stop - 1 = n /\ n < stop
      BY <2>3, <2>6
    <3>2. /\ read[n] \in Readings /\ read[n].next = stop
          /\ read[n].ret = "ok" /\ HasRead(read[n], chain, isFunc, stop - 1)
      BY <2>4, <2>6, <3>1
    <3> DEFINE out == NextRead(read[n], chain, Lost, isFunc)
    <3>3. /\ out \in Readings /\ out.next = 0
          /\ out.ret = "ok" <=> EndsWell(chain, Lost, stop)
          /\ HasRead(out, chain, isFunc, stop - 1)
      <4> HIDE DEF S, Before, After, out
      <4>1. IsStop(chain, Lost, isFunc, stop)
        BY <1>2 DEF IsStop
      <4> QED
        BY <3>2, <4>1, StopsThere DEF out
    <3>4. After(n + 1)
      BY <2>2, <3>3
    <3> HIDE DEF Before, After
    <3> QED
      BY <2>3, <2>6, <3>4
  <2>7. CASE n + 1 > stop
    <3>1. ~(n < stop)
      BY <2>3, <2>7
    <3>2. After(n)
      <4> HIDE DEF Before, After
      <4> QED
        BY <2>4, <3>1
    <3>3. NextRead(read[n], chain, Lost, isFunc) = read[n]
      BY <3>2 DEF NextRead
    <3>4. After(n + 1)
      BY <2>2, <3>2, <3>3
    <3> HIDE DEF Before, After
    <3> QED
      BY <2>3, <2>7, <3>4
  <2> QED
    BY <2>3, <2>5, <2>6, <2>7
<1>6. After(Last)
  <2>1. Last \in S
    <3> HIDE DEF S, Last
    <3> QED
      BY <1>1, <1>4, <1>5, Induction
  <2> QED
    BY <1>1, <1>2, <2>1
<1>7. /\ HasRead(read[Last], chain, isFunc, stop - 1)
      /\ read[Last].ret = "ok" <=> EndsWell(chain, Lost, stop)
  BY <1>6
<1> HIDE DEF Last
<1> QED
  BY <1>3, <1>7
     DEF ReadRight, HasRead, IsList, Heard, Kept, Sized, EndsWell, stop

=============================================================================
