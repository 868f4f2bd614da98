------------------------------ MODULE MCCardInit -------------------------------
(* CardInit for TLC: every board and every card, and bounds on what repeats. *)
EXTENDS CardInit
=============================================================================
