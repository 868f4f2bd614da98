------------------------------- MODULE HostLock -------------------------------
(***************************************************************************)
(* What mmc_claim_host / mmc_release_host promise their callers: a lock    *)
(* with one owner at a time, which its owner may take again.               *)
(***************************************************************************)
EXTENDS Naturals

CONSTANTS Groups,   \* who can own the host: a task, or a claiming context
          Nobody    \* the owner of a free host, not one of Groups

VARIABLES owner, depth

lockVars == <<owner, depth>>

Init == owner = Nobody /\ depth = 0

(* "exclusively claim a host": free, or already claimed by the same owner. *)
Acquire(g) ==
  /\ owner \in {Nobody, g}
  /\ owner' = g
  /\ depth' = depth + 1

(* Only the last release of a nested claim lets others in.                 *)
Release ==
  /\ owner # Nobody
  /\ depth' = depth - 1
  /\ owner' = IF depth' = 0 THEN Nobody ELSE owner

Next == Release \/ \E g \in Groups : Acquire(g)

Spec == Init /\ [][Next]_lockVars
=============================================================================
