------------------------------- MODULE Activity -------------------------------
(***************************************************************************)
(* Who puts traffic on the LAN, and when: the probe loop and the names     *)
(* loop (internal/server/server.go) behind the activity gate, and the      *)
(* lookups of a scan, which the user asked for.                            *)
(***************************************************************************)
EXTENDS Gate, Names

CONSTANTS
    ProbeEvery,  \* probeInterval
    NamesEvery,  \* namesInterval
    ProbeTime    \* the longest a probe cycle takes

ASSUME LoopsAssumption ==
    ProbeEvery \in Nat \ {0} /\ NamesEvery \in Nat \ {0} /\ ProbeTime \in Nat

\* The time after the last proof of life at which the hub may still have the
\* gate open, and the time a round of lookups takes at most.
Heard == Grace - 1 + Latency
RoundTime == ((Cardinality(Host) + Cap - 1) \div Cap) * LookupTime
Larger(a, b) == IF a > b THEN a ELSE b

\* The bound on unwatched does not hide a violation of what follows.
ASSUME RoomAssumption ==
    /\ MaxIdle > Heard + Larger(ProbeTime, ProbeEvery)
    /\ MaxIdle > Heard + RoundTime

VARIABLES
    tick,     \* the loops whose ticker channel holds a tick
    next,     \* time until each ticker fires
    probing,  \* a probe cycle is in flight
    spent,    \* the time it has taken
    probed,   \* probeLoop's local of that name
    shown     \* the devices may show a verdict

probeVars == <<probing, spent, probed, shown>>
loopVars == <<tick, next, probeVars>>
vars == <<gateVars, namesVars, loopVars>>

Loop == {"probe", "names"}
Every == [l \in Loop |-> IF l = "probe" THEN ProbeEvery ELSE NamesEvery]

Init ==
    /\ GateInit /\ NamesInit
    /\ tick = {}
    /\ next = Every
    /\ probing = FALSE /\ spent = 0 /\ probed = FALSE /\ shown = FALSE

-----------------------------------------------------------------------------
\* probeLoop

ProbeDue == "probe" \in tick /\ ~probing

ProbeStart ==
    /\ ProbeDue /\ Active
    /\ tick' = tick \ {"probe"}
    /\ probing' = TRUE /\ spent' = 0 /\ probed' = TRUE
    /\ UNCHANGED <<gateVars, namesVars, next, shown>>

\* applyProbes
ProbeEnd ==
    /\ probing
    /\ probing' = FALSE /\ spent' = 0 /\ shown' = TRUE
    /\ UNCHANGED <<gateVars, namesVars, tick, next, probed>>

\* clearLive, if there is something to clear
ProbeGateClosed ==
    /\ ProbeDue /\ ~Active
    /\ tick' = tick \ {"probe"}
    /\ shown' = (shown /\ ~probed)
    /\ probed' = FALSE
    /\ UNCHANGED <<gateVars, namesVars, next, probing, spent>>

\* namesLoop, with the neighbours of the moment

NamesDue == "names" \in tick /\ ~Busy("loop")

\* Mutant: the round starts with the gate closed.
NamesStartUngated ==
    /\ NamesDue
    /\ tick' = tick \ {"names"}
    /\ \E ips \in SUBSET Host : resolveNames("loop", ips)
    /\ UNCHANGED <<gateVars, next, probeVars>>

NamesStart ==
    /\ NamesDue /\ Active
    /\ tick' = tick \ {"names"}
    /\ \E ips \in SUBSET Host : resolveNames("loop", ips)
    /\ UNCHANGED <<gateVars, next, probeVars>>

NamesGateClosed ==
    /\ NamesDue /\ ~Active
    /\ tick' = tick \ {"names"}
    /\ UNCHANGED <<gateVars, namesVars, next, probeVars>>

\* runScan, once the sweep is over
ScanResolve ==
    /\ \E ips \in SUBSET Host : resolveNames("scan", ips)
    /\ UNCHANGED <<gateVars, loopVars>>

\* Mutant: a cycle whose pings and dials have no deadline.
NoDeadline == TRUE

\* Every ping and every dial of a cycle has a deadline.
Deadline == probing => spent < ProbeTime

\* Each ticker holds at most one tick.  A loop that is not inside an iteration
\* takes its tick before the clock moves on, and a cycle ends within ProbeTime.
Tick ==
    /\ GateTick /\ NamesTick
    /\ ~ProbeDue /\ ~NamesDue
    /\ Deadline
    /\ next' = [l \in Loop |-> IF next[l] = 1 THEN Every[l] ELSE next[l] - 1]
    /\ tick' = tick \cup {l \in Loop : next[l] = 1}
    /\ spent' = IF probing THEN spent + 1 ELSE 0
    /\ UNCHANGED <<probing, probed, shown>>

Probing == ProbeStart \/ ProbeEnd \/ ProbeGateClosed
Naming == NamesStart \/ NamesGateClosed \/ ScanResolve
Next ==
    \/ GateMoves /\ UNCHANGED <<namesVars, loopVars>>
    \/ NamesMoves /\ UNCHANGED <<gateVars, loopVars>>
    \/ Probing \/ Naming
    \/ Tick

Spec == Init /\ [][Next]_vars

Deliver == \E f \in flight : handlePulse(f) /\ UNCHANGED <<namesVars, loopVars>>
Beat == \E p \in Page : Pulse(p) /\ UNCHANGED <<namesVars, loopVars>>
Fairness ==
    /\ SF_vars(Tick)
    /\ WF_vars(Beat)
    /\ SF_vars(Deliver)
    /\ WF_vars(Probing)
    /\ WF_vars(NamesStart \/ NamesGateClosed)
    /\ \A c \in Caller : WF_vars(Resolving(c) /\ UNCHANGED <<gateVars, loopVars>>)

FairSpec == Spec /\ Fairness

-----------------------------------------------------------------------------
\* The types of the variables; a cycle that runs has not outlived ProbeTime.
TypeOK ==
    /\ page \in [Page -> {"none", "visible", "hidden", "suspended"}]
    /\ timer \in [Page -> BOOLEAN]
    /\ due \in [Page -> 0 .. Interval]
    /\ flight \subseteq Page \X (0 .. Latency)
    /\ age \in 0 .. Grace
    /\ missed \in [Page -> 0 .. 2]
    /\ unwatched \in 0 .. MaxIdle
    /\ cache \in [Host -> 0 .. TTL]
    /\ todo \in [Caller -> SUBSET Host]
    /\ held \in [Caller -> Host \cup {NoHost}]
    /\ asking \in [Caller -> SUBSET (Host \X (0 .. LookupTime))]
    /\ asked \in [Caller -> [Host -> 0 .. TTL]]
    /\ tick \subseteq Loop
    /\ next \in [Loop -> Nat]
    /\ \A l \in Loop : next[l] \in 1 .. Every[l]
    /\ probing \in BOOLEAN
    /\ spent \in 0 .. ProbeTime
    /\ probed \in BOOLEAN
    /\ shown \in BOOLEAN

\* One dropped pulse does not close the gate on a page that pulses (the
\* comment on pulseInterval in sse.go), as long as the grace leaves room for
\* two intervals and a late pulse: the gate stays open until a second pulse in
\* a row is lost.
OneLostPulseIsHarmless ==
    Grace > 2 * Interval + Latency =>
        \A p \in Page : Pulses(p) /\ missed[p] <= 1 => Active

\* The puck does not probe the LAN, and the dashboard shows no verdict, for
\* longer than the grace and one cycle after the last moment a page pulsed or
\* a client connected, whatever sockets stay open (the comments on Hub and in
\* handleEvents in sse.go, and the one in probeLoop).
VerdictsExpire ==
    probing \/ shown => unwatched <= Heard + Larger(ProbeTime, ProbeEvery)

\* The names loop puts no query on the LAN once the grace has passed since the
\* last moment a page pulsed or a client connected, and the round that had
\* begun is over.
LookupsGoQuiet == asking["loop"] # {} => unwatched <= Heard + RoundTime

\* A caller asks for an address again only when its last query is older than
\* the TTL, found or not (the comment on resolveNames).
NoHammering == [][\A c \in Caller : Ask(c) => asked[c][held[c]] = TTL]_vars

\* A dashboard that keeps pulsing gets verdicts: one of its pulses arrives,
\* opens a closed gate, and the probe loop starts again.
WatchedDashboardIsProbed ==
    \A p \in Page : Pulses(p) ~> (shown \/ ~Pulses(p))
=============================================================================
