-------------------------------- MODULE SdioCis --------------------------------
(***************************************************************************)
(* sdio_read_cis of core/sdio_cis.c: how the chain of tuples of a card or  *)
(* of one of its functions is read.  A chain is a sequence of tuples, each *)
(* a record [code, short]: short tells that its data are fewer than the    *)
(* entry for its code asks for.  What vers_1 and manfid say is not kept.   *)
(***************************************************************************)
EXTENDS Naturals, Sequences

(* 0xff ends the chain; a null tuple has neither link nor data; a link of  *)
(* 0xff, here "stop", ends it too.                                         *)
Marks    == {"end", "null", "stop"}
Parsed   == {"vers_1", "manfid", "funce_common", "funce_func"}
Unparsed == {"funcid", "std", "funce_lan"}
Codes    == Marks \cup Parsed \cup Unparsed \cup {"unknown"}
Tuples   == [code : Codes, short : BOOLEAN]

(* cis_tpl_parse, with cistpl_funce_common and cistpl_funce_func, which    *)
(* take no tuple of the other kind.  "queue" is -EILSEQ and -ENOENT.       *)
cis_tpl_parse(t, isFunc) ==
  CASE t.code = "unknown"                     -> "queue"
    [] t.code # "unknown" /\ t.short          -> "invalid"
    [] t.code \in Unparsed /\ ~t.short        -> "queue"
    [] t.code = "funce_common" /\ ~t.short    -> IF isFunc THEN "invalid" ELSE "ok"
    [] t.code = "funce_func" /\ ~t.short      -> IF isFunc THEN "ok" ELSE "invalid"
    [] t.code \in {"vers_1", "manfid"} /\ ~t.short -> "ok"

(* What has been read when the loop stands before tuple i: the error, the  *)
(* tuples queued so far, in order, whether the function's maximum block    *)
(* size has been found; next is 0 once the loop has ended.  The read of a  *)
(* tuple in Lost fails, and so does one past the end of the chain: the     *)
(* address space of the card ends there (mmc_io_rw_direct_host).           *)
TupleRead(st, t, lost, isFunc, i) ==
  LET verdict == cis_tpl_parse(t, isFunc)
  IN CASE lost                                   -> [st EXCEPT !.ret = "failed", !.next = 0]
       [] ~lost /\ t.code \in {"end", "stop"}    -> [st EXCEPT !.next = 0]
       [] ~lost /\ t.code = "null"               -> [st EXCEPT !.next = i + 1]
       [] ~lost /\ t.code \notin Marks /\ verdict = "invalid" ->
            [st EXCEPT !.ret = "invalid", !.next = 0]
       [] ~lost /\ t.code \notin Marks /\ verdict = "queue" ->
            [st EXCEPT !.queued = Append(@, i), !.next = i + 1]
       [] ~lost /\ t.code \notin Marks /\ verdict = "ok" ->
            [st EXCEPT !.sized = @ \/ t.code = "funce_func", !.next = i + 1]

(* One pass of the do loop.                                                *)
NextRead(st, chain, Lost, isFunc) ==
  LET i    == st.next
      past == [code |-> "end", short |-> FALSE]
  IN IF i = 0 THEN st
     ELSE IF i > Len(chain) THEN TupleRead(st, past, TRUE, isFunc, i)
     ELSE TupleRead(st, chain[i], i \in Lost, isFunc, i)

(* The do loop, as a function of the number of tuples it has looked at.    *)
sdio_read_cis(chain, Lost, isFunc) ==
  LET read[n \in 0 .. Len(chain) + 1] ==
        IF n = 0 THEN [ret |-> "ok", queued |-> <<>>, sized |-> FALSE, next |-> 1]
        ELSE NextRead(read[n - 1], chain, Lost, isFunc)
  IN read[Len(chain) + 1]

-----------------------------------------------------------------------------
(* The same without a loop: reading stops at the first tuple that ends the *)
(* chain, cannot be read or is invalid; what was queued before it stays.   *)

Stops(t, isFunc) ==
  t.code \in {"end", "stop"} \/ (t.code # "null" /\ cis_tpl_parse(t, isFunc) = "invalid")

StopAt(chain, Lost, isFunc) ==
  CHOOSE i \in 1 .. Len(chain) + 1 :
    /\ i <= Len(chain) => i \in Lost \/ Stops(chain[i], isFunc)
    /\ \A j \in 1 .. i - 1 : j \notin Lost /\ ~Stops(chain[j], isFunc)

ReadRight(chain, Lost, isFunc) ==
  LET out   == sdio_read_cis(chain, Lost, isFunc)
      stop  == StopAt(chain, Lost, isFunc)
      heard == {i \in 1 .. stop - 1 : chain[i].code # "null"}
      kept  == {i \in heard : cis_tpl_parse(chain[i], isFunc) = "queue"}
  IN /\ {out.queued[k] : k \in 1 .. Len(out.queued)} = kept
     /\ \A k \in 1 .. Len(out.queued) - 1 : out.queued[k] < out.queued[k + 1]
     /\ out.sized <=> \E i \in heard : chain[i].code = "funce_func"
     /\ (out.ret = "ok") <=> /\ stop <= Len(chain) /\ stop \notin Lost
                             /\ chain[stop].code \in {"end", "stop"}
=============================================================================
