--------------------------------- MODULE SdioIo ---------------------------------
(***************************************************************************)
(* The arithmetic of core/sdio_io.c: how much a command moves, how a       *)
(* transfer is split into commands, how a size is padded.  Functions are   *)
(* operators on a record                                                   *)
(*                                                                         *)
(*   hostBlk, hostCount, hostReq                                           *)
(*                       host->max_blk_size, max_blk_count, max_req_size   *)
(*   multi               cccr.multi_block                                  *)
(*   quirkBlk, quirk512  mmc_blksz_for_byte_mode, mmc_card_broken_byte_... *)
(*   max, cur            func->max_blksize and cur_blksize                 *)
(*                                                                         *)
(* and the limits of the command are constants, so that small instances    *)
(* can be checked: 512 bytes or 511 blocks in SD_IO_RW_EXTENDED, sizes     *)
(* padded to 4 bytes.                                                      *)
(***************************************************************************)
EXTENDS Naturals

CONSTANTS ByteLimit, BlockLimit, Word

ASSUME LimitsAssumption ==
  /\ ByteLimit \in Nat /\ ByteLimit > 1
  /\ BlockLimit \in Nat /\ BlockLimit > 0
  /\ Word \in Nat /\ Word > 0

HostLimits == [hostBlk : Nat \ {0}, hostCount : Nat \ {0}, hostReq : Nat \ {0},
               multi : BOOLEAN, quirkBlk : BOOLEAN, quirk512 : BOOLEAN]

Geometries == [hostBlk : Nat \ {0}, hostCount : Nat \ {0}, hostReq : Nat \ {0},
               multi : BOOLEAN, quirkBlk : BOOLEAN, quirk512 : BOOLEAN,
               max : Nat, cur : Nat]

Least(a, b) == IF a <= b THEN a ELSE b

sdio_max_byte_size(g) ==
  LET mval == Least(g.hostBlk, IF g.quirkBlk THEN g.cur ELSE g.max)
  IN Least(mval, IF g.quirk512 THEN ByteLimit - 1 ELSE ByteLimit)

(* sdio_set_block_size(func, 0).                                           *)
DefaultBlockSize(g) == Least(Least(g.max, g.hostBlk), ByteLimit)

mmc_align_data_size(sz) == ((sz + (Word - 1)) \div Word) * Word

-----------------------------------------------------------------------------
(* sdio_io_rw_ext_helper: whether it starts in block mode, and its next    *)
(* command with so much left, blocks = 0 being byte mode.                  *)

InBlocks(g, size) == g.multi /\ size > sdio_max_byte_size(g)

max_blocks_of_host(g) == g.hostCount

max_blocks(g) == Least(g.hostCount, BlockLimit)

BlockCommand(g, left) ==
  [blocks |-> Least(left \div g.cur, max_blocks(g)), blksz |-> g.cur]

ByteCommand(g, left) == [blocks |-> 0, blksz |-> Least(left, sdio_max_byte_size(g))]

NextCommand(g, inBlocks, left) ==
  IF inBlocks /\ left >= g.cur THEN BlockCommand(g, left) ELSE ByteCommand(g, left)

Bytes(c) == IF c.blocks = 0 THEN c.blksz ELSE c.blocks * c.blksz

(* Without sizes the helper does not get on: the number of blocks is a     *)
(* division by zero, or a command in byte mode has no bytes and the loop   *)
(* repeats it.                                                             *)
Stalls(g, inBlocks, left) ==
  IF inBlocks /\ left >= g.cur THEN g.cur = 0 ELSE sdio_max_byte_size(g) = 0

(* mmc_mrq_prep accepts the data of a command, where byte mode is a block. *)
mmc_mrq_prep(g, c) ==
  c.blksz <= g.hostBlk /\ c.blocks <= g.hostCount /\ Bytes(c) <= g.hostReq

(* The number of commands that a transfer takes.                           *)
Commands(g, size) ==
  LET taken[left \in 0 .. size] ==
        IF left = 0 THEN 0
        ELSE 1 + taken[left - Bytes(NextCommand(g, InBlocks(g, size), left))]
  IN taken[size]

-----------------------------------------------------------------------------
(* The chunks when there is no block mode.                                 *)
Chunked(sz, chunk) ==
  LET rest == sz % chunk
  IN (sz \div chunk) * chunk + (IF rest = 0 THEN 0 ELSE mmc_align_data_size(rest))

sdio_align_size(g, orig_sz) ==
  LET sz      == mmc_align_data_size(orig_sz)
      blk_sz  == mmc_align_data_size(((sz + (g.cur - 1)) \div g.cur) * g.cur)
      byte_sz == mmc_align_data_size(sz % g.cur)
      most    == sdio_max_byte_size(g)
  IN IF sz <= most THEN sz
     ELSE IF g.multi /\ sz % g.cur = 0 THEN sz
     ELSE IF g.multi /\ blk_sz % g.cur = 0 THEN blk_sz
     ELSE IF g.multi /\ byte_sz <= most THEN (sz \div g.cur) * g.cur + byte_sz
     ELSE IF ~g.multi /\ mmc_align_data_size(most) = most THEN Chunked(orig_sz, most)
     ELSE orig_sz
=============================================================================
