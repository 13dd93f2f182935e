----------------------------- MODULE MCBackfill -----------------------------
(***************************************************************************)
(* Backfill on a small instance: a device that answered a ping, later only *)
(* on a port, and was then seen by ARP alone.                              *)
(***************************************************************************)
EXTENDS Backfill, TLC

Seen(signal, t) == [mac : Dev, signal : {signal}, ts : {t}]

MCLogs == {Seen("icmp", 1) \cup Seen("tcp", 2) \cup Seen("arp", 3)}
=============================================================================
