--------------------------------- MODULE Gate ---------------------------------
(***************************************************************************)
(* The activity gate: dashboards that pulse while somebody looks at them   *)
(* (web/assets/app.js) and the hub that opens the gate for a grace after   *)
(* the last proof of life it had: a pulse, or a client that connects to    *)
(* the stream (internal/server/sse.go, handlePulse and handleEvents).      *)
(*                                                                         *)
(* Time is counted in ticks of one clock.  A pulse is a request: it takes  *)
(* up to Latency, or is lost.                                              *)
(***************************************************************************)
EXTENDS Integers

CONSTANTS
    Page,      \* the browser tabs that load the dashboard
    Interval,  \* PULSE_MS, the time between two pulses of a page
    Grace,     \* cfg.Grace
    Latency,   \* the longest a pulse that is not lost takes to arrive
    MaxIdle    \* bound on the time counted without a proof of life

ASSUME IntervalAssumption == Interval \in Nat \ {0}
ASSUME GraceAssumption == Grace \in Nat \ {0}
ASSUME LatencyAssumption == Latency \in Nat /\ Latency < Interval
ASSUME MaxIdleAssumption == MaxIdle \in Nat

VARIABLES
    page,      \* document.visibilityState of each tab, or none, or suspended
    timer,     \* pulseTimer and es are set: the page watches
    due,       \* time until a page's next pulse
    flight,    \* pulses on their way, with the time they have taken
    age,       \* time since Hub.Pulse ran last; Grace once it has run out
    missed,    \* history: pulses lost since one of the page was heard, 2 if
               \* more, or if none was heard since the page began to pulse
    unwatched  \* history: time since some page was pulsing or a client connected

pageVars == <<page, timer, due>>
gateVars == <<page, timer, due, flight, age, missed, unwatched>>

-----------------------------------------------------------------------------
\* A suspended page keeps its stream and its timer, which does not fire.
Pulses(p) == timer[p] /\ page[p] # "suspended"

\* Mutant: an open stream is taken for somebody watching.
Streaming == \E p \in Page : timer[p]

\* Mutant: the pulse is read at second granularity, up to a second too old.
Rounded == age + 1 < Grace

\* Hub.Active
Active == age < Grace

GateInit ==
    /\ page = [p \in Page |-> "none"]
    /\ timer = [p \in Page |-> FALSE]
    /\ due = [p \in Page |-> 0]
    /\ flight = {}
    /\ age = Grace
    /\ missed = [p \in Page |-> 2]
    /\ unwatched = MaxIdle

\* openStream, whose request is a handleEvents below whenever it arrives; and a
\* pulse at once, then one every Interval, unless the timer runs already.
startWatching(p) ==
    /\ timer' = [timer EXCEPT ![p] = TRUE]
    /\ due' = IF timer[p] THEN due ELSE [due EXCEPT ![p] = Interval]
    /\ flight' = IF timer[p] THEN flight ELSE flight \cup {<<p, 0>>}
    /\ unwatched' = 0
    /\ UNCHANGED <<age, missed>>

stopWatching(p) ==
    /\ timer' = [timer EXCEPT ![p] = FALSE]
    /\ missed' = [missed EXCEPT ![p] = 2]
    /\ UNCHANGED <<due, flight, age, unwatched>>

\* The page loads and starts to watch, in a background tab too.
Open(p) ==
    /\ page[p] = "none"
    /\ \E v \in {"visible", "hidden"} : page' = [page EXCEPT ![p] = v]
    /\ startWatching(p)

Show(p) ==
    /\ page[p] = "hidden"
    /\ page' = [page EXCEPT ![p] = "visible"]
    /\ startWatching(p)

Hide(p) ==
    /\ page[p] = "visible"
    /\ page' = [page EXCEPT ![p] = "hidden"]
    /\ stopWatching(p)

Leave(p) ==
    /\ page[p] # "none"
    /\ page' = [page EXCEPT ![p] = "none"]
    /\ stopWatching(p)

\* The device sleeps without an event to the page, and wakes.
Suspend(p) ==
    /\ page[p] = "visible"
    /\ page' = [page EXCEPT ![p] = "suspended"]
    /\ missed' = [missed EXCEPT ![p] = 2]
    /\ UNCHANGED <<timer, due, flight, age, unwatched>>

Resume(p) ==
    /\ page[p] = "suspended"
    /\ page' = [page EXCEPT ![p] = "visible"]
    /\ unwatched' = 0
    /\ UNCHANGED <<timer, due, flight, age, missed>>

\* setInterval(pulse, PULSE_MS)
Pulse(p) ==
    /\ Pulses(p) /\ due[p] = 0
    /\ due' = [due EXCEPT ![p] = Interval]
    /\ flight' = flight \cup {<<p, 0>>}
    /\ UNCHANGED <<page, timer, age, missed, unwatched>>

\* Mutant: a pulse extends an open gate and never opens a closed one.
handlePulseIfActive(f) ==
    /\ f \in flight
    /\ flight' = flight \ {f}
    /\ age' = IF Active THEN 0 ELSE age
    /\ missed' = [missed EXCEPT ![f[1]] = IF Pulses(f[1]) THEN 0 ELSE 2]
    /\ UNCHANGED <<pageVars, unwatched>>

\* POST /api/pulse
handlePulse(f) ==
    /\ f \in flight
    /\ flight' = flight \ {f}
    /\ age' = 0
    /\ missed' = [missed EXCEPT ![f[1]] = IF Pulses(f[1]) THEN 0 ELSE 2]
    /\ UNCHANGED <<pageVars, unwatched>>

\* GET /events.  It comes from a page that opens its stream, from the browser
\* that reconnects a stream the page has not closed, or from any other client
\* at any time, and counts as a pulse: no page need be pulsing.
handleEvents ==
    /\ age' = 0
    /\ unwatched' = 0
    /\ UNCHANGED <<pageVars, flight, missed>>

LosePulse(f) ==
    /\ f \in flight
    /\ flight' = flight \ {f}
    /\ missed' = [missed EXCEPT ![f[1]] = IF @ = 2 THEN 2 ELSE @ + 1]
    /\ UNCHANGED <<pageVars, age, unwatched>>

GateMoves ==
    \/ \E p \in Page : \/ Open(p) \/ Show(p) \/ Hide(p) \/ Leave(p)
                       \/ Suspend(p) \/ Resume(p) \/ Pulse(p)
    \/ \E f \in flight : handlePulse(f) \/ LosePulse(f)
    \/ handleEvents

Counted(n, max) == IF n < max THEN n + 1 ELSE n

\* A tick passes once every timer that is due has fired and no pulse is later
\* than Latency.
GateTick ==
    /\ \A p \in Page : Pulses(p) => due[p] > 0
    /\ \A f \in flight : f[2] < Latency
    /\ due' = [p \in Page |-> IF Pulses(p) THEN due[p] - 1 ELSE due[p]]
    /\ flight' = {<<f[1], f[2] + 1>> : f \in flight}
    /\ age' = Counted(age, Grace)
    /\ unwatched' = IF \E p \in Page : Pulses(p) THEN 0
                    ELSE Counted(unwatched, MaxIdle)
    /\ UNCHANGED <<page, timer, missed>>

=============================================================================
