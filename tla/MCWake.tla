------------------------------- MODULE MCWake -------------------------------
(***************************************************************************)
(* Wake on small instances.                                                *)
(***************************************************************************)
EXTENDS Wake

=============================================================================
