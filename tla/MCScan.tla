------------------------------- MODULE MCScan -------------------------------
(***************************************************************************)
(* Scan on a LAN of eight addresses at the end of the address space.       *)
(***************************************************************************)
EXTENDS Scan

LastHalf == Block(8, 1)
=============================================================================
