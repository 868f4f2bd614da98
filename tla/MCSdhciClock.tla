----------------------------- MODULE MCSdhciClock ------------------------------
(* Controllers of both versions, with and without programmable mode, whose *)
(* product of clock and multiplier is on either side of Word; and the      *)
(* clocks that lie close to what they can make.                            *)
EXTENDS SdhciClock

MCHosts == [spec300 : BOOLEAN, max_clk : {13, 20}, mul : {0, 2, 3, 5},
            zeroBroken : BOOLEAN]
MCClocks == 0 .. 8 \cup {10, 12, 13, 14, 19, 20, 21, 26, 30, 39, 40, 45}
=============================================================================
