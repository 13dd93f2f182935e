------------------------------ MODULE MCRoster ------------------------------
(***************************************************************************)
(* Roster on small instances.                                              *)
(***************************************************************************)
EXTENDS Roster, TLC

Symmetry == Permutations(Client) \cup Permutations(Resolution)
=============================================================================
