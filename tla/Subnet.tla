------------------------------- MODULE Subnet -------------------------------
(***************************************************************************)
(* The subnet arithmetic of internal/netconf/netconf.go and                *)
(* internal/scan/scan.go on addresses of Width bits: what a CIDR block     *)
(* contains, how its hosts are enumerated, which targets are accepted.     *)
(***************************************************************************)
EXTENDS Integers, Sequences

CONSTANTS
    Width,    \* bits of an address (32 in the code)
    MaxHosts  \* largest block a scan accepts

ASSUME WidthAssumption == Width \in Nat \ {0} /\ MaxHosts \in 1 .. 2^Width - 1

Address == 0 .. 2^Width - 1
Length == 0 .. Width

SubnetSize(len) == 2^(Width - len)

\* Arithmetic: a subnet's size divides the number of addresses.
ASSUME SubnetSizeAssumption ==
    /\ 2^Width \in Nat
    /\ \A len \in Length : /\ SubnetSize(len) \in 1 .. 2^Width
                          /\ 2^Width % SubnetSize(len) = 0

\* An address within a mask: the low bits cleared, the low bits set.
Masked(a, len) == a - (a % SubnetSize(len))
Broadcast(a, len) == Masked(a, len) + SubnetSize(len) - 1

\* What net.ParseCIDR makes of addr/len.
Block(a, len) == [net |-> Masked(a, len), len |-> len]
Blocks == {Block(a, len) : a \in Address, len \in Length}

InBlock(b, a) == Masked(a, b.len) = b.net

\* The increment carries through every octet and wraps at the last address.
inc(a) == (a + 1) % 2^Width

\* Mutant: only the network address is left out.
enumerateWithBroadcast(b) ==
    LET from[a \in Address] ==
          IF ~InBlock(b, a) THEN <<>>
          ELSE (IF a = b.net THEN <<>> ELSE <<a>>) \o from[inc(a)]
    IN  from[b.net]

\* The loop leaves the block by walking out of it, so it ends for every block
\* but the one that holds all addresses, which Validate refuses for its size.
enumerate(b) ==
    LET from[a \in Address] ==
          IF ~InBlock(b, a) THEN <<>>
          ELSE (IF a \in {b.net, Broadcast(a, b.len)} THEN <<>> ELSE <<a>>)
                 \o from[inc(a)]
    IN  from[b.net]

\* The target's network address decides whether it is local.
Validate(b, local) == InBlock(local, b.net) /\ SubnetSize(b.len) <= MaxHosts

-----------------------------------------------------------------------------
\* What enumerate and Validate are for, said without a loop.
Members(b) == {a \in Address : InBlock(b, a)}
Hosts(b) == {a \in Members(b) : a # b.net /\ a # b.net + SubnetSize(b.len) - 1}
=============================================================================
