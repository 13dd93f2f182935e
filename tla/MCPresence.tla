----------------------------- MODULE MCPresence -----------------------------
(***************************************************************************)
(* Presence on small instances.                                            *)
(***************************************************************************)
EXTENDS Presence, TLC

Symmetry == Permutations(Handler) \cup Permutations(Mac)

\* A device nobody has seen yet, one that answered a ping, and the same after a
\* legacy backfill that missed when it was up, or when it was last seen.
MCStored == {[ip |-> NoIP, icmp |-> FALSE, up |-> 0, seen |-> 0],
             [ip |-> NoIP, icmp |-> TRUE, up |-> 1, seen |-> 1],
             [ip |-> NoIP, icmp |-> TRUE, up |-> 0, seen |-> 1],
             [ip |-> NoIP, icmp |-> TRUE, up |-> 1, seen |-> 0]}
=============================================================================
