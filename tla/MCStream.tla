------------------------------ MODULE MCStream ------------------------------
(***************************************************************************)
(* Stream with the frames render sends, cut to what an instance can hold.  *)
(***************************************************************************)
EXTENDS Stream

OneTopic == <<"devices">>
=============================================================================
