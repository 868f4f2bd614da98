------------------------------- MODULE MCMmcCard -------------------------------
(* An instance of MmcCard for TLC: one thread of the driver, one rescan, and *)
(* four cards on their boards, which between them take every branch.         *)
EXTENDS MmcCard

CONSTANTS q, w

Board(lines, wired, drives, fullCycle, aggressive) ==
  [lines |-> lines, wired |-> wired, drives |-> drives, avoid33 |-> FALSE,
   fullCycle |-> fullCycle, aggressive |-> aggressive, cqe |-> TRUE]

Plain == [modes |-> {}, ext |-> TRUE, sleeps |-> TRUE, notifies |-> FALSE,
          cache |-> FALSE, cmdq |-> FALSE, bkops |-> FALSE, hpi |-> FALSE]

(* HS400 by way of HS200, told only at a shutdown; HS400ES on a board that *)
(* can cut all power, BKOPS without HPI; HS or DDR52, eight lines of which *)
(* four are wired, with a cache and a command queue; an old card, and no   *)
(* runtime suspend.                                                        *)
FourSetups ==
  {<<Board(8, 8, {18, 33}, FALSE, TRUE),
     [Plain EXCEPT !.modes = {"hs", "hs200", "hs400"}, !.notifies = TRUE,
                   !.bkops = TRUE, !.hpi = TRUE]>>,
   <<Board(8, 8, {18}, TRUE, TRUE),
     [Plain EXCEPT !.modes = {"hs400es"}, !.notifies = TRUE, !.bkops = TRUE]>>,
   <<Board(8, 4, {18, 33}, FALSE, TRUE),
     [Plain EXCEPT !.modes = {"hs", "ddr52"}, !.cache = TRUE, !.cmdq = TRUE]>>,
   <<Board(1, 1, {33}, FALSE, FALSE), [Plain EXCEPT !.ext = FALSE, !.sleeps = FALSE]>>}
=============================================================================
