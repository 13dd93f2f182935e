----------------------------- MODULE MCObserved -----------------------------
(***************************************************************************)
(* Observed on small instances.                                            *)
(***************************************************************************)
EXTENDS Observed, TLC

=============================================================================
