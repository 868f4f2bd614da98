------------------------------- MODULE MCSdioFunc -------------------------------
(* An instance of SdioFunc for TLC, with the limits scaled down: commands of *)
(* at most 3 bytes or 2 blocks, on a host of at most 3 blocks of 4 bytes and *)
(* of 6 bytes in all; and checks of SdioIo and SdioCis over all small        *)
(* inputs.                                                                   *)
EXTENDS SdioFunc

T(code) == [code |-> code, short |-> FALSE]

(* Read well, with and without a block size; ended by a link, a tuple of   *)
(* the card's kind, a short one, the end of the address space.             *)
SomeChains ==
  {<<T("null"), T("funce_func"), T("end")>>, <<T("unknown"), T("stop")>>,
   <<T("std"), T("funce_common")>>, <<[T("manfid") EXCEPT !.short = TRUE]>>,
   <<T("null"), T("null")>>}

OneGeometry == [hostBlk |-> 4, hostCount |-> 3, hostReq |-> 6, multi |-> TRUE,
                quirkBlk |-> FALSE, quirk512 |-> FALSE]

(* sdio_read_cis against its definition without a loop.                    *)
ASSUME CisRight ==
  \A n \in 0 .. 3 :
    \A c \in [1 .. n -> Tuples \ [code : {"stop", "vers_1", "funcid", "funce_lan"},
                                  short : BOOLEAN]] :
      \A L \in {{}, {1}, {2}}, isFunc \in BOOLEAN : ReadRight(c, L, isFunc)

(* A padded size holds the data and costs less than a block's worth of     *)
(* words.  Where blocks are of whole words or not used, it is also found   *)
(* good as it is, and never takes one more command as long as one can take *)
(* all its blocks ("a more optimal value").  Other blocks spoil both: in   *)
(* sdio_align_size the end of a whole number of them is padded once more.  *)
SomeGeometries ==
  {g \in [hostBlk : {3, 8}, hostCount : {100}, hostReq : {800}, multi : BOOLEAN,
          quirkBlk : BOOLEAN, quirk512 : BOOLEAN, max : 1 .. 7, cur : 1 .. 8] :
     g.cur <= g.hostBlk}

ASSUME AlignRight ==
  \A g \in SomeGeometries, s \in 1 .. 24 :
    LET padded == sdio_align_size(g, s) IN
    sdio_max_byte_size(g) > 0 =>
      /\ padded >= s /\ padded < s + g.cur * Word
      /\ (g.multi => g.cur % Word = 0) =>
           /\ sdio_align_size(g, padded) = padded
           /\ padded <= g.cur * BlockLimit => Commands(g, padded) <= Commands(g, s)
=============================================================================
