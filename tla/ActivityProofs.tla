--------------------------- MODULE ActivityProofs ---------------------------
(***************************************************************************)
(* Theorems about Activity for every interval, grace and latency, any      *)
(* number of pages, addresses and slots.                                   *)
(***************************************************************************)
EXTENDS Activity, FiniteSetTheorems, TLAPS

USE IntervalAssumption, GraceAssumption, LatencyAssumption, MaxIdleAssumption,
    LoopsAssumption

\* TypeOK in the three parts whose variables change together.
PageState == {"none", "visible", "hidden", "suspended"}
GateType ==
    /\ page \in [Page -> PageState]
    /\ timer \in [Page -> BOOLEAN]
    /\ due \in [Page -> 0 .. Interval]
    /\ flight \subseteq Page \X (0 .. Latency)
    /\ age \in 0 .. Grace
    /\ missed \in [Page -> 0 .. 2]
    /\ unwatched \in 0 .. MaxIdle
NamesType ==
    /\ cache \in [Host -> 0 .. TTL]
    /\ todo \in [Caller -> SUBSET Host]
    /\ held \in [Caller -> Host \cup {NoHost}]
    /\ asking \in [Caller -> SUBSET (Host \X (0 .. LookupTime))]
    /\ asked \in [Caller -> [Host -> 0 .. TTL]]
LoopsType ==
    /\ tick \subseteq Loop
    /\ next \in [Loop -> Nat]
    /\ \A l \in Loop : next[l] \in 1 .. Every[l]
    /\ probing \in BOOLEAN
    /\ spent \in 0 .. ProbeTime
    /\ probed \in BOOLEAN
    /\ shown \in BOOLEAN

-----------------------------------------------------------------------------
(* The gate.                                                               *)

\* Time since page p sent its last pulse, and whether that one is on its way.
Since(p) == Interval - due[p]
OnItsWay(p) == <<p, Since(p)>> \in flight
OneMore(b) == IF b THEN Interval ELSE 0

\* The last pulse that was heard is as old as the pulses lost since then, the
\* one on its way and the time since it was sent allow.
PulseInv ==
    /\ \A p \in Page : ~Pulses(p) => missed[p] = 2
    /\ \A p \in Page : Pulses(p) /\ missed[p] <= 1 =>
            age <= OneMore(missed[p] = 1) + OneMore(OnItsWay(p)) + Since(p)

\* The gate and the pulses on their way are as old as the time since a page
\* pulsed or a client connected.
WatchInv ==
    /\ \A p \in Page : Pulses(p) => unwatched = 0
    /\ \A f \in flight : unwatched <= f[2]
    /\ Active => unwatched <= age + Latency

GateInv == GateType /\ PulseInv /\ WatchInv

LEMMA GateTypeInit == GateInit => GateType
BY DEF GateInit, GateType, PageState

LEMMA GateMovesType == GateType /\ GateMoves => GateType'
<1> SUFFICES ASSUME GateType, GateMoves PROVE GateType'
  OBVIOUS
<1>1. ASSUME NEW p \in Page, Open(p) \/ Show(p) PROVE GateType'
  <2>1. page' \in [Page -> PageState]
    BY <1>1 DEF GateType, PageState, Open, Show
  <2>2. startWatching(p)
    BY <1>1 DEF Open, Show
  <2>3. flight' \subseteq Page \X (0 .. Latency)
    BY <2>2 DEF GateType, startWatching
  <2>4. QED
    BY <2>1, <2>2, <2>3 DEF GateType, startWatching
<1>2. ASSUME NEW p \in Page, Hide(p) \/ Leave(p) PROVE GateType'
  <2>1. page' \in [Page -> PageState]
    BY <1>2 DEF GateType, PageState, Hide, Leave
  <2>2. stopWatching(p)
    BY <1>2 DEF Hide, Leave
  <2>3. QED
    BY <2>1, <2>2 DEF GateType, stopWatching
<1>3. ASSUME NEW p \in Page, Suspend(p) \/ Resume(p) PROVE GateType'
  BY <1>3 DEF GateType, PageState, Suspend, Resume
<1>4. ASSUME NEW p \in Page, Pulse(p) PROVE GateType'
  <2>1. flight' \subseteq Page \X (0 .. Latency)
    BY <1>4 DEF GateType, Pulse
  <2>2. QED
    BY <1>4, <2>1 DEF GateType, Pulse
<1>5. ASSUME NEW f \in flight, handlePulse(f) PROVE GateType'
  BY <1>5 DEF GateType, handlePulse, pageVars
<1>6. ASSUME NEW f \in flight, LosePulse(f) PROVE GateType'
  <2>1. missed' \in [Page -> 0 .. 2]
    BY <1>6 DEF GateType, LosePulse
  <2>2. QED
    BY <1>6, <2>1 DEF GateType, LosePulse, pageVars
<1>7. ASSUME handleEvents PROVE GateType'
  BY <1>7 DEF GateType, handleEvents, pageVars
<1>8. QED
  BY <1>1, <1>2, <1>3, <1>4, <1>5, <1>6, <1>7 DEF GateMoves

LEMMA GateTickType == GateType /\ GateTick => GateType'
<1> SUFFICES ASSUME GateType, GateTick PROVE GateType'
  OBVIOUS
<1>1. due' \in [Page -> 0 .. Interval]
  BY DEF GateType, GateTick
<1>2. flight' \subseteq Page \X (0 .. Latency)
  BY DEF GateType, GateTick
<1>3. age' \in 0 .. Grace /\ unwatched' \in 0 .. MaxIdle
  BY DEF GateType, GateTick, Counted
<1>4. QED
  BY <1>1, <1>2, <1>3 DEF GateType, GateTick

\* A page that pulses after startWatching has pulsed before, or starts from
\* missed = 2.
LEMMA PulseInvMoves == GateType /\ PulseInv /\ GateMoves => PulseInv'
<1> SUFFICES ASSUME GateType, PulseInv, GateMoves PROVE PulseInv'
  OBVIOUS
<1> DEFINE Late(p) ==
      Pulses(p) /\ missed[p] <= 1 =>
          age <= OneMore(missed[p] = 1) + OneMore(OnItsWay(p)) + Since(p)
<1> DEFINE Silent(p) == ~Pulses(p) => missed[p] = 2
<1> SUFFICES ASSUME NEW r \in Page PROVE Silent(r)' /\ Late(r)'
  BY DEF PulseInv
<1>0. Silent(r) /\ Late(r)
  BY DEF PulseInv
<1>1. ASSUME NEW p \in Page, Open(p) \/ Show(p) PROVE Silent(r)' /\ Late(r)'
  <2>1. startWatching(p)
    BY <1>1 DEF Open, Show
  <2>2. CASE r # p
    <3>1. page'[r] = page[r]
      BY <1>1, <2>2 DEF Open, Show, GateType
    <3>2. timer'[r] = timer[r] /\ due'[r] = due[r] /\ missed' = missed /\ age' = age
      BY <2>1, <2>2 DEF startWatching, GateType
    <3>3. OnItsWay(r)' <=> OnItsWay(r)
      BY <2>1, <2>2, <3>2 DEF startWatching, OnItsWay, Since
    <3>4. QED
      BY <1>0, <3>1, <3>2, <3>3 DEF Pulses, Since, OneMore
  <2>3. CASE r = p /\ timer[p]
    <3>1. page[p] # "suspended" /\ page'[p] # "suspended"
      BY <1>1 DEF Open, Show, GateType
    <3>2. timer'[p] /\ due' = due /\ missed' = missed /\ age' = age /\ flight' = flight
      BY <2>1, <2>3 DEF startWatching, GateType
    <3>3. QED
      BY <1>0, <2>3, <3>1, <3>2 DEF Pulses, Since, OnItsWay
  <2>4. CASE r = p /\ ~timer[p]
    <3>1. missed[p] = 2 /\ missed' = missed
      BY <1>0, <2>1, <2>4 DEF Pulses, startWatching
    <3>2. QED
      BY <2>4, <3>1
  <2>5. QED
    BY <2>2, <2>3, <2>4
<1>2. ASSUME NEW p \in Page, Hide(p) \/ Leave(p) \/ Suspend(p)
      PROVE  Silent(r)' /\ Late(r)'
  <2>1. /\ missed' = [missed EXCEPT ![p] = 2]
        /\ due' = due /\ flight' = flight /\ age' = age
    BY <1>2 DEF Hide, Leave, Suspend, stopWatching
  <2>2. CASE r = p
    <3>1. missed'[r] = 2
      BY <2>1, <2>2 DEF GateType
    <3>2. QED
      BY <3>1
  <2>3. CASE r # p
    <3>1. missed'[r] = missed[r]
      BY <2>1, <2>3 DEF GateType
    <3>2. page'[r] = page[r] /\ timer'[r] = timer[r]
      BY <1>2, <2>3 DEF Hide, Leave, Suspend, stopWatching, GateType
    <3>3. QED
      BY <1>0, <2>1, <3>1, <3>2 DEF Pulses, Since, OnItsWay
  <2>4. QED
    BY <2>2, <2>3
<1>3. ASSUME NEW p \in Page, Resume(p) PROVE Silent(r)' /\ Late(r)'
  <2>1. UNCHANGED <<timer, due, flight, age, missed>>
    BY <1>3 DEF Resume
  <2>2. CASE r = p
    <3>1. missed'[r] = 2
      BY <1>0, <1>3, <2>1, <2>2 DEF Resume, Pulses
    <3>2. QED
      BY <3>1
  <2>3. CASE r # p
    <3>1. page'[r] = page[r]
      BY <1>3, <2>3 DEF Resume, GateType
    <3>2. QED
      BY <1>0, <2>1, <3>1 DEF Pulses, Since, OnItsWay
  <2>4. QED
    BY <2>2, <2>3
<1>4. ASSUME NEW p \in Page, Pulse(p) PROVE Silent(r)' /\ Late(r)'
  <2>1. UNCHANGED <<page, timer, age, missed>>
    BY <1>4 DEF Pulse
  <2>2. CASE r = p
    <3>1. Since(p) = Interval /\ ~OnItsWay(p)
      BY <1>4 DEF Pulse, Since, OnItsWay, GateType
    <3>2. Since(p)' = 0 /\ OnItsWay(p)'
      BY <1>4 DEF Pulse, Since, OnItsWay, GateType
    <3>3. QED
      BY <1>0, <2>1, <2>2, <3>1, <3>2 DEF Pulses, OneMore, GateType
  <2>3. CASE r # p
    <3>1. Since(r)' = Since(r)
      BY <1>4, <2>3 DEF Pulse, Since, GateType
    <3>2. OnItsWay(r)' <=> OnItsWay(r)
      BY <1>4, <2>3, <3>1 DEF Pulse, OnItsWay
    <3>3. QED
      BY <1>0, <2>1, <3>1, <3>2 DEF Pulses, OneMore
  <2>4. QED
    BY <2>2, <2>3
<1>5. ASSUME NEW f \in flight, handlePulse(f) PROVE Silent(r)' /\ Late(r)'
  <2>1. UNCHANGED <<page, timer, due>> /\ age' = 0
    BY <1>5 DEF handlePulse, pageVars
  <2>2. missed'[r] = missed[r] \/ missed'[r] = IF Pulses(r) THEN 0 ELSE 2
    BY <1>5 DEF handlePulse, GateType
  <2>3. Silent(r)'
    BY <1>0, <2>1, <2>2 DEF Pulses
  <2>4. Late(r)'
    BY <2>1 DEF OneMore, Since, GateType
  <2>5. QED
    BY <2>3, <2>4
<1>6. ASSUME NEW f \in flight, LosePulse(f) PROVE Silent(r)' /\ Late(r)'
  <2>1. UNCHANGED <<page, timer, due, age>>
    BY <1>6 DEF LosePulse, pageVars
  <2>2. CASE r = f[1]
    <3>1. missed'[r] = IF missed[r] = 2 THEN 2 ELSE missed[r] + 1
      BY <1>6, <2>2 DEF LosePulse, GateType
    <3>2. missed[r] \in 0 .. 2 /\ Since(r) \in 0 .. Interval /\ age \in 0 .. Grace
      BY DEF GateType, Since
    <3>3. Silent(r)'
      BY <1>0, <2>1, <3>1 DEF Pulses
    <3>4. Late(r)'
      BY <1>0, <2>1, <3>1, <3>2 DEF Pulses, OneMore, Since
    <3>5. QED
      BY <3>3, <3>4
  <2>3. CASE r # f[1]
    <3>1. missed'[r] = missed[r]
      BY <1>6, <2>3 DEF LosePulse, GateType
    <3>2. OnItsWay(r)' <=> OnItsWay(r)
      BY <1>6, <2>1, <2>3 DEF LosePulse, OnItsWay, Since
    <3>3. QED
      BY <1>0, <2>1, <3>1, <3>2 DEF Pulses, Since, OneMore
  <2>4. QED
    BY <2>2, <2>3
<1>7. ASSUME handleEvents PROVE Silent(r)' /\ Late(r)'
  <2>1. UNCHANGED <<page, timer, due, flight, missed>> /\ age' = 0
    BY <1>7 DEF handleEvents, pageVars
  <2>2. Silent(r)'
    BY <1>0, <2>1 DEF Pulses
  <2>3. Late(r)'
    BY <2>1 DEF OneMore, Since, GateType
  <2>4. QED
    BY <2>2, <2>3
<1>8. QED
  BY <1>1, <1>2, <1>3, <1>4, <1>5, <1>6, <1>7 DEF GateMoves

LEMMA PulseInvTick == GateType /\ PulseInv /\ GateTick => PulseInv'
<1> SUFFICES ASSUME GateType, PulseInv, GateTick, NEW r \in Page
    PROVE  /\ (~Pulses(r) => missed[r] = 2)'
           /\ (Pulses(r) /\ missed[r] <= 1 =>
                  age <= OneMore(missed[r] = 1) + OneMore(OnItsWay(r)) + Since(r))'
  BY DEF PulseInv
<1>1. UNCHANGED <<page, timer, missed>>
  BY DEF GateTick
<1>2. CASE ~Pulses(r)
  BY <1>1, <1>2 DEF PulseInv, Pulses
<1>3. CASE Pulses(r)
  <2>1. due'[r] = due[r] - 1 /\ Since(r)' = Since(r) + 1
    BY <1>3 DEF GateTick, GateType, Since
  <2>2. OnItsWay(r)' <=> OnItsWay(r)
    <3>1. ASSUME OnItsWay(r) PROVE OnItsWay(r)'
      <4>1. <<r, Since(r) + 1>> \in flight'
        BY <3>1 DEF GateTick, OnItsWay
      <4>2. QED
        BY <2>1, <4>1 DEF OnItsWay
    <3>2. ASSUME OnItsWay(r)' PROVE OnItsWay(r)
      <4>1. PICK f \in flight : <<r, Since(r) + 1>> = <<f[1], f[2] + 1>>
        BY <2>1, <3>2 DEF GateTick, OnItsWay
      <4>2. f = <<f[1], f[2]>> /\ f[2] \in Int /\ Since(r) \in Int
        BY DEF GateType, Since
      <4>3. f[1] = r /\ f[2] = Since(r)
        BY <4>1, <4>2
      <4>4. QED
        BY <4>2, <4>3 DEF OnItsWay
    <3>3. QED
      BY <3>1, <3>2
  <2>3. age' <= age + 1
    BY DEF GateTick, GateType, Counted
  <2>4. Since(r) \in Int /\ age \in Int /\ age' \in Int
    BY DEF GateTick, GateType, Counted, Since
  <2>5. ASSUME missed[r] <= 1
        PROVE  age <= OneMore(missed[r] = 1) + OneMore(OnItsWay(r)) + Since(r)
    BY <1>3, <2>5 DEF PulseInv
  <2>6. QED
    BY <1>1, <1>3, <2>1, <2>2, <2>3, <2>4, <2>5 DEF Pulses, OneMore
<1>4. QED
  BY <1>2, <1>3

\* Only the clock makes the time since the last proof of life longer.
LEMMA UnwatchedMoves ==
    ASSUME GateType, GateMoves PROVE unwatched' = unwatched \/ unwatched' = 0
BY DEF GateMoves, Open, Show, Hide, Leave, Suspend, Resume, Pulse, handlePulse,
       handleEvents, LosePulse, startWatching, stopWatching

LEMMA WatchInvMoves == GateType /\ WatchInv /\ GateMoves => WatchInv'
<1> SUFFICES ASSUME GateType, WatchInv, GateMoves PROVE WatchInv'
  OBVIOUS
<1>1. ASSUME NEW p \in Page, Open(p) \/ Show(p) PROVE WatchInv'
  <2>1. startWatching(p)
    BY <1>1 DEF Open, Show
  <2>2. unwatched' = 0 /\ age' = age /\ flight' \subseteq flight \cup {<<p, 0>>}
    BY <2>1 DEF startWatching
  <2>3. QED
    BY <2>2 DEF WatchInv, GateType, Active
<1>2. ASSUME NEW p \in Page, Hide(p) \/ Leave(p) \/ Suspend(p) PROVE WatchInv'
  <2>1. UNCHANGED <<flight, age, unwatched>>
    BY <1>2 DEF Hide, Leave, Suspend, stopWatching
  <2>2. \A r \in Page : Pulses(r)' => Pulses(r)
    BY <1>2 DEF Hide, Leave, Suspend, stopWatching, Pulses, GateType
  <2>3. QED
    BY <2>1, <2>2 DEF WatchInv, Active
<1>3. ASSUME NEW p \in Page, Resume(p) PROVE WatchInv'
  BY <1>3 DEF Resume, WatchInv, GateType, Active
<1>4. ASSUME NEW p \in Page, Pulse(p) PROVE WatchInv'
  <2>1. unwatched = 0 /\ UNCHANGED <<page, timer, age, unwatched>>
    BY <1>4 DEF Pulse, WatchInv
  <2>2. flight' = flight \cup {<<p, 0>>}
    BY <1>4 DEF Pulse
  <2>3. QED
    BY <2>1, <2>2 DEF WatchInv, GateType, Active, Pulses
<1>5. ASSUME NEW f \in flight, handlePulse(f) PROVE WatchInv'
  <2>1. /\ UNCHANGED <<page, timer, unwatched>> /\ age' = 0
        /\ flight' \subseteq flight
    BY <1>5 DEF handlePulse, pageVars
  <2>2. unwatched <= f[2] /\ f[2] \in 0 .. Latency
    BY <1>5 DEF WatchInv, GateType
  <2>3. QED
    BY <2>1, <2>2 DEF WatchInv, GateType, Active, Pulses
<1>6. ASSUME NEW f \in flight, LosePulse(f) PROVE WatchInv'
  <2>1. UNCHANGED <<page, timer, unwatched, age>> /\ flight' \subseteq flight
    BY <1>6 DEF LosePulse, pageVars
  <2>2. QED
    BY <2>1 DEF WatchInv, Active, Pulses
<1>7. ASSUME handleEvents PROVE WatchInv'
  <2>1. unwatched' = 0 /\ age' = 0 /\ flight' = flight
    BY <1>7 DEF handleEvents
  <2>2. QED
    BY <2>1 DEF WatchInv, GateType
<1>8. QED
  BY <1>1, <1>2, <1>3, <1>4, <1>5, <1>6, <1>7 DEF GateMoves

LEMMA WatchInvTick == GateType /\ WatchInv /\ GateTick => WatchInv'
<1> SUFFICES ASSUME GateType, WatchInv, GateTick PROVE WatchInv'
  OBVIOUS
<1>1. unwatched' <= unwatched + 1
  BY DEF GateTick, GateType, Counted
<1>2. unwatched' \in Nat /\ age' \in Nat
  BY DEF GateTick, GateType, Counted
<1>3. (\A p \in Page : Pulses(p) => unwatched = 0)'
  BY DEF GateTick, Pulses
<1>4. (\A f \in flight : unwatched <= f[2])'
  <2> SUFFICES ASSUME NEW g \in flight' PROVE unwatched' <= g[2]
    OBVIOUS
  <2>1. PICK f \in flight : g = <<f[1], f[2] + 1>>
    BY DEF GateTick
  <2>2. unwatched <= f[2] /\ f[2] \in Int /\ g[2] = f[2] + 1
    BY <2>1 DEF WatchInv, GateType
  <2>3. QED
    BY <1>1, <1>2, <2>2 DEF GateType
<1>5. (Active => unwatched <= age + Latency)'
  BY <1>1, <1>2 DEF GateTick, GateType, WatchInv, Active, Counted
<1>6. QED
  BY <1>3, <1>4, <1>5 DEF WatchInv

LEMMA GateInvInit == GateInit => GateInv
BY GateTypeInit DEF GateInit, GateInv, PulseInv, WatchInv, Pulses, Active

LEMMA GateInvMoves == GateInv /\ GateMoves => GateInv'
BY GateMovesType, PulseInvMoves, WatchInvMoves DEF GateInv

LEMMA GateInvTick == GateInv /\ GateTick => GateInv'
BY GateTickType, PulseInvTick, WatchInvTick DEF GateInv

LEMMA GateInvKept == GateInv /\ UNCHANGED gateVars => GateInv'
BY DEF GateInv, GateType, PulseInv, WatchInv, gateVars, Pulses, Active, OnItsWay,
       Since, OneMore

-----------------------------------------------------------------------------
(* The names.                                                              *)

AskingFor(c, h) == \E q \in asking[c] : q[1] = h

\* A caller that asked for an address within the TTL is still asking, or the
\* answer is in the cache and at most as old; what a round has yet to consider
\* it does not ask for.
AskInv ==
    /\ \A c \in Caller, h \in Host :
          asked[c][h] < TTL => AskingFor(c, h) \/ cache[h] <= asked[c][h]
    /\ \A c \in Caller : \A h \in todo[c] : ~AskingFor(c, h)
    /\ \A c \in Caller : held[c] # NoHost =>
          /\ asked[c][held[c]] = TTL
          /\ ~AskingFor(c, held[c])
          /\ held[c] \notin todo[c]

NamesInv == NamesType /\ AskInv

LEMMA NamesInvInit == NamesInit => NamesInv
BY NamesAssumption, NoHostAssumption
   DEF NamesInit, NamesInv, NamesType, AskInv, AskingFor

LEMMA ResolveNamesStep ==
    ASSUME NamesInv, NEW c \in Caller, NEW ips \in SUBSET Host, resolveNames(c, ips)
    PROVE  NamesInv'
<1>1. asking[c] = {} /\ held[c] = NoHost
  BY DEF resolveNames, Busy
<1>2. NamesType'
  BY DEF NamesInv, NamesType, resolveNames
<1>3. UNCHANGED <<cache, held, asking, asked>>
  BY DEF resolveNames
<1>4. \A d \in Caller : \A h \in todo'[d] : ~AskingFor(d, h)'
  <2> SUFFICES ASSUME NEW d \in Caller, NEW h \in todo'[d] PROVE ~AskingFor(d, h)'
    OBVIOUS
  <2>1. CASE d = c
    BY <1>1, <1>3, <2>1 DEF AskingFor
  <2>2. CASE d # c
    BY <1>3, <2>2 DEF AskingFor, NamesInv, NamesType, AskInv, resolveNames
  <2>3. QED
    BY <2>1, <2>2
<1>5. \A d \in Caller : held'[d] # NoHost => held'[d] \notin todo'[d]
  BY <1>1, <1>3 DEF resolveNames, NamesInv, NamesType, AskInv
<1>6. QED
  BY <1>2, <1>3, <1>4, <1>5 DEF NamesInv, AskInv, AskingFor

LEMMA ConsiderStep ==
    ASSUME NamesInv, NEW c \in Caller, NEW h \in todo[c], Consider(c, h)
    PROVE  NamesInv'
<1>1. /\ h \in Host /\ cache[h] \in 0 .. TTL /\ asked[c][h] \in 0 .. TTL
      /\ ~AskingFor(c, h)
  BY DEF NamesInv, NamesType, AskInv
<1>2. needsName(h) => asked[c][h] = TTL
  BY <1>1, NamesAssumption DEF needsName, NamesInv, AskInv
<1>3. NamesType'
  BY <1>1 DEF NamesInv, NamesType, Consider
<1>4. UNCHANGED <<cache, asking, asked>>
  BY DEF Consider
<1>5. \A d \in Caller : todo'[d] \subseteq todo[d]
  BY DEF Consider, NamesInv, NamesType
<1>6. ASSUME NEW d \in Caller, held'[d] # NoHost
      PROVE  /\ asked[d][held'[d]] = TTL
             /\ ~AskingFor(d, held'[d])
             /\ held'[d] \notin todo'[d]
  <2>1. CASE d = c
    <3>1. needsName(h) /\ held'[d] = h
      BY <1>6, <2>1 DEF Consider, NamesInv, NamesType
    <3>2. h \notin todo'[c]
      BY DEF Consider, NamesInv, NamesType
    <3>3. QED
      BY <1>1, <1>2, <2>1, <3>1, <3>2
  <2>2. CASE d # c
    <3>1. held'[d] = held[d] /\ todo'[d] = todo[d]
      BY <2>2 DEF Consider, NamesInv, NamesType
    <3>2. QED
      BY <1>6, <3>1 DEF NamesInv, AskInv
  <2>3. QED
    BY <2>1, <2>2
<1>7. QED
  BY <1>3, <1>4, <1>5, <1>6 DEF NamesInv, AskInv, AskingFor

LEMMA AskStep ==
    ASSUME NamesInv, NEW c \in Caller, Ask(c)
    PROVE  NamesInv'
<1> DEFINE k == held[c]
<1>1. k \in Host /\ k # NoHost /\ k \notin todo[c]
  BY DEF Ask, SlotFree, NamesInv, NamesType, AskInv
<1>2. asking' = [asking EXCEPT ![c] = @ \cup {<<k, 0>>}]
  BY DEF Ask
<1>3. asked' = [asked EXCEPT ![c][k] = 0] /\ held' = [held EXCEPT ![c] = NoHost]
  BY DEF Ask
<1>4. UNCHANGED <<cache, todo>>
  BY DEF Ask
<1> HIDE DEF k
<1>5. NamesType'
  <2>1. asking' \in [Caller -> SUBSET (Host \X (0 .. LookupTime))]
    BY <1>1, <1>2, NamesAssumption DEF NamesInv, NamesType
  <2>2. asked' \in [Caller -> [Host -> 0 .. TTL]]
    BY <1>1, <1>3, NamesAssumption DEF NamesInv, NamesType
  <2>3. QED
    BY <1>3, <1>4, <2>1, <2>2 DEF NamesInv, NamesType
<1>6. \A d \in Caller, h \in Host :
         AskingFor(d, h)' <=> AskingFor(d, h) \/ (d = c /\ h = k)
  <2> SUFFICES ASSUME NEW d \in Caller, NEW h \in Host
      PROVE  AskingFor(d, h)' <=> AskingFor(d, h) \/ (d = c /\ h = k)
    OBVIOUS
  <2>1. CASE d = c
    <3>1. asking'[d] = asking[d] \cup {<<k, 0>>}
      BY <1>2, <2>1 DEF NamesInv, NamesType
    <3>2. <<k, 0>>[1] = k
      OBVIOUS
    <3>3. ASSUME AskingFor(d, h)' PROVE AskingFor(d, h) \/ h = k
      BY <3>1, <3>2, <3>3 DEF AskingFor
    <3>4. ASSUME AskingFor(d, h) \/ h = k PROVE AskingFor(d, h)'
      BY <3>1, <3>2, <3>4 DEF AskingFor
    <3>5. QED
      BY <2>1, <3>3, <3>4
  <2>2. CASE d # c
    BY <1>2, <2>2 DEF AskingFor, NamesInv, NamesType
  <2>3. QED
    BY <2>1, <2>2
<1>7. ASSUME NEW d \in Caller, NEW h \in Host, asked'[d][h] < TTL
      PROVE  AskingFor(d, h)' \/ cache'[h] <= asked'[d][h]
  <2>1. CASE d = c /\ h = k
    BY <1>6, <2>1
  <2>2. CASE ~(d = c /\ h = k)
    <3>1. asked'[d][h] = asked[d][h]
      BY <1>3, <2>2 DEF NamesInv, NamesType
    <3>2. QED
      BY <1>4, <1>6, <1>7, <3>1 DEF NamesInv, AskInv
  <2>3. QED
    BY <2>1, <2>2
<1>8. ASSUME NEW d \in Caller, NEW h \in todo'[d] PROVE ~AskingFor(d, h)'
  <2>1. h \in Host /\ h \in todo[d] /\ ~AskingFor(d, h)
    BY <1>4, <1>8 DEF NamesInv, NamesType, AskInv
  <2>2. QED
    BY <1>1, <1>6, <2>1
<1>9. ASSUME NEW d \in Caller, held'[d] # NoHost
      PROVE  /\ asked'[d][held'[d]] = TTL
             /\ ~AskingFor(d, held[d])'
             /\ held'[d] \notin todo'[d]
  <2>1. d # c /\ held'[d] = held[d] /\ held[d] \in Host
    BY <1>3, <1>9 DEF NamesInv, NamesType
  <2>2. asked'[d] = asked[d]
    BY <1>3, <2>1 DEF NamesInv, NamesType
  <2>3. AskingFor(d, held[d])' <=> AskingFor(d, held[d])
    BY <1>2, <2>1 DEF AskingFor, NamesInv, NamesType
  <2>4. /\ asked[d][held[d]] = TTL /\ ~AskingFor(d, held[d])
        /\ held[d] \notin todo[d]
    BY <1>9, <2>1 DEF NamesInv, AskInv
  <2>5. ~AskingFor(d, held[d])'
    BY <2>1, <2>3, <2>4 DEF AskingFor
  <2>6. QED
    BY <1>4, <2>1, <2>2, <2>4, <2>5
<1>10. QED
  BY <1>5, <1>7, <1>8, <1>9 DEF NamesInv, AskInv, AskingFor

LEMMA AnsweredStep ==
    ASSUME NamesInv, NEW c \in Caller, NEW q \in asking[c], Answered(c, q)
    PROVE  NamesInv'
<1>1. q[1] \in Host
  BY DEF NamesInv, NamesType
<1>2. cache' = [cache EXCEPT ![q[1]] = 0]
  BY DEF Answered, Store
<1>3. asking' = [asking EXCEPT ![c] = @ \ {q}] /\ UNCHANGED <<todo, held, asked>>
  BY DEF Answered
<1>4. NamesType'
  <2>1. cache' \in [Host -> 0 .. TTL]
    BY <1>1, <1>2, NamesAssumption DEF NamesInv, NamesType
  <2>2. QED
    BY <1>3, <2>1 DEF NamesInv, NamesType
<1>5. \A d \in Caller : asking'[d] \subseteq asking[d]
  BY <1>3 DEF NamesInv, NamesType
<1>6. ASSUME NEW d \in Caller, NEW h \in Host, asked'[d][h] < TTL
      PROVE  AskingFor(d, h)' \/ cache'[h] <= asked'[d][h]
  <2>1. asked'[d][h] = asked[d][h] /\ asked[d][h] \in 0 .. TTL
    BY <1>3 DEF NamesInv, NamesType
  <2>2. CASE h = q[1]
    BY <1>1, <1>2, <2>1, <2>2 DEF NamesInv, NamesType
  <2>3. CASE h # q[1]
    <3>1. cache'[h] = cache[h]
      BY <1>2, <2>3 DEF NamesInv, NamesType
    <3>2. AskingFor(d, h) => AskingFor(d, h)'
      BY <1>3, <2>3 DEF AskingFor, NamesInv, NamesType
    <3>3. QED
      BY <1>6, <2>1, <3>1, <3>2 DEF NamesInv, AskInv
  <2>4. QED
    BY <2>2, <2>3
<1>7. \A d \in Caller, h \in Host : AskingFor(d, h)' => AskingFor(d, h)
  BY <1>5 DEF AskingFor
<1>8. \A d \in Caller : \A h \in todo'[d] : ~AskingFor(d, h)'
  BY <1>3, <1>7 DEF NamesInv, NamesType, AskInv
<1>9. ASSUME NEW d \in Caller, held'[d] # NoHost
      PROVE  ~AskingFor(d, held[d])'
  BY <1>3, <1>5, <1>9 DEF AskingFor, NamesInv, AskInv
<1>10. QED
  BY <1>3, <1>4, <1>6, <1>8, <1>9 DEF NamesInv, AskInv, AskingFor

LEMMA NamesTickStep == NamesInv /\ NamesTick => NamesInv'
<1> SUFFICES ASSUME NamesInv, NamesTick PROVE NamesInv'
  OBVIOUS
<1>1. \A h \in Host : cache'[h] = Older(cache[h]) /\ cache[h] \in 0 .. TTL
  BY DEF NamesTick, NamesInv, NamesType
<1>2. \A c \in Caller, h \in Host :
          asked'[c][h] = Older(asked[c][h]) /\ asked[c][h] \in 0 .. TTL
  BY DEF NamesTick, NamesInv, NamesType
<1>3. \A c \in Caller : asking'[c] = {<<q[1], q[2] + 1>> : q \in asking[c]}
  BY DEF NamesTick
<1>4. UNCHANGED <<todo, held>>
  BY DEF NamesTick
<1>5. NamesType'
  <2>1. cache' \in [Host -> 0 .. TTL]
    BY <1>1, NamesAssumption DEF NamesTick, Older
  <2>2. asked' \in [Caller -> [Host -> 0 .. TTL]]
    BY <1>2, NamesAssumption DEF NamesTick, Older
  <2>3. asking' \in [Caller -> SUBSET (Host \X (0 .. LookupTime))]
    <3> SUFFICES ASSUME NEW c \in Caller, NEW q \in asking[c]
        PROVE  <<q[1], q[2] + 1>> \in Host \X (0 .. LookupTime)
      BY <1>3 DEF NamesTick
    <3>1. q \in Host \X (0 .. LookupTime) /\ q[2] < LookupTime
      BY DEF NamesTick, NamesInv, NamesType
    <3>2. QED
      BY <3>1, NamesAssumption
  <2>4. QED
    BY <1>4, <2>1, <2>2, <2>3 DEF NamesInv, NamesType
<1>6. ASSUME NEW c \in Caller, NEW h PROVE AskingFor(c, h)' <=> AskingFor(c, h)
  <2>1. ASSUME NEW q \in asking[c], q[1] = h PROVE AskingFor(c, h)'
    <3>1. <<q[1], q[2] + 1>> \in asking'[c] /\ <<q[1], q[2] + 1>>[1] = h
      BY <1>3, <2>1
    <3>2. QED
      BY <3>1 DEF AskingFor
  <2>2. ASSUME NEW r \in asking'[c], r[1] = h PROVE AskingFor(c, h)
    <3>1. PICK q \in asking[c] : r = <<q[1], q[2] + 1>>
      BY <1>3, <2>2
    <3>2. QED
      BY <2>2, <3>1 DEF AskingFor
  <2>3. QED
    BY <2>1, <2>2 DEF AskingFor
<1>7. ASSUME NEW c \in Caller, NEW h \in Host, asked'[c][h] < TTL
      PROVE  AskingFor(c, h)' \/ cache'[h] <= asked'[c][h]
  BY <1>1, <1>2, <1>6, <1>7, NamesAssumption DEF NamesInv, AskInv, Older
<1>8. ASSUME NEW c \in Caller, held'[c] # NoHost
      PROVE  asked'[c][held'[c]] = TTL /\ ~AskingFor(c, held[c])'
  <2>1. held'[c] = held[c] /\ held[c] \in Host
    BY <1>4, <1>8 DEF NamesInv, NamesType
  <2>2. asked[c][held[c]] = TTL /\ ~AskingFor(c, held[c])
    BY <1>8, <2>1 DEF NamesInv, AskInv
  <2>3. ~\E q \in asking'[c] : q[1] = held[c]
    BY <1>6, <2>2 DEF AskingFor
  <2>4. QED
    BY <1>2, <2>1, <2>2, <2>3 DEF Older, AskingFor
<1>9. QED
  BY <1>4, <1>5, <1>6, <1>7, <1>8 DEF NamesInv, NamesType, AskInv

LEMMA NamesInvMoves == NamesInv /\ NamesMoves => NamesInv'
BY ConsiderStep, AskStep, AnsweredStep DEF NamesMoves, Resolving

LEMMA NamesInvKept == NamesInv /\ UNCHANGED namesVars => NamesInv'
BY DEF NamesInv, NamesType, AskInv, AskingFor, namesVars

-----------------------------------------------------------------------------
(* The loops.                                                              *)

ExpiryBound == Heard + Larger(ProbeTime, ProbeEvery)

\* A verdict is shown by a loop that has probed.  It is as old as the cycle
\* under way, or as the time since the ticker last fired, or the loop is about
\* to find the gate closed.
VerdictInv ==
    /\ probing \/ shown => probed
    /\ probing => unwatched <= Heard + spent
    /\ (probing \/ shown) /\ "probe" \notin tick =>
            unwatched <= Heard + (ProbeEvery - next["probe"])
    /\ shown /\ ~probing => unwatched <= ExpiryBound

LoopsInv == LoopsType /\ VerdictInv

LEMMA Bounds ==
    /\ Heard \in Nat /\ ExpiryBound \in Nat
    /\ Heard + ProbeTime <= ExpiryBound /\ Heard + ProbeEvery <= ExpiryBound
BY DEF Heard, ExpiryBound, Larger

LEMMA EveryIs == Every["probe"] = ProbeEvery /\ \A l \in Loop : Every[l] \in Nat \ {0}
BY DEF Every, Loop

LEMMA LoopsInvInit == Init => LoopsInv
<1> SUFFICES ASSUME Init PROVE LoopsInv
  OBVIOUS
<1>1. next = Every /\ tick = {} /\ ~probing /\ ~shown /\ spent = 0
  BY DEF Init
<1>2. probing \in BOOLEAN /\ probed \in BOOLEAN /\ shown \in BOOLEAN
  BY DEF Init
<1>3. Every \in [Loop -> Nat] /\ \A l \in Loop : Every[l] \in 1 .. Every[l]
  BY DEF Every
<1>4. LoopsType
  BY <1>1, <1>2, <1>3 DEF LoopsType
<1>5. QED
  BY <1>1, <1>4, EveryIs, Bounds DEF LoopsInv, VerdictInv, Init, GateInit

LEMMA GateMovesLoops ==
    GateInv /\ LoopsInv /\ GateMoves /\ UNCHANGED loopVars => LoopsInv'
<1> SUFFICES ASSUME GateInv, LoopsInv, GateMoves, UNCHANGED loopVars PROVE LoopsInv'
  OBVIOUS
<1>1. unwatched' = unwatched \/ unwatched' = 0
  BY UnwatchedMoves DEF GateInv
<1>2. LoopsType'
  BY DEF LoopsInv, LoopsType, loopVars, probeVars
<1>3. ProbeEvery - next["probe"] \in Nat /\ spent \in Nat
  BY EveryIs DEF LoopsInv, LoopsType, Loop
<1>4. VerdictInv'
  BY <1>1, <1>3, Bounds DEF LoopsInv, VerdictInv, loopVars, probeVars
<1>5. QED
  BY <1>2, <1>4 DEF LoopsInv

LEMMA LoopsInvKept == LoopsInv /\ UNCHANGED <<loopVars, unwatched>> => LoopsInv'
BY DEF LoopsInv, LoopsType, VerdictInv, loopVars, probeVars

LEMMA ProbeStartLoops == GateInv /\ LoopsInv /\ ProbeStart => LoopsInv'
<1> SUFFICES ASSUME GateInv, LoopsInv, ProbeStart PROVE LoopsInv'
  OBVIOUS
<1>1. unwatched' = unwatched /\ unwatched \in Nat
  BY DEF ProbeStart, gateVars, GateInv, GateType
<1>2. unwatched <= Heard
  BY DEF ProbeStart, GateInv, GateType, WatchInv, Active, Heard
<1>3. LoopsType'
  BY DEF LoopsInv, LoopsType, ProbeStart
<1>4. ProbeEvery - next["probe"] \in Nat /\ next' = next
  BY EveryIs DEF LoopsInv, LoopsType, Loop, ProbeStart
<1>5. VerdictInv'
  BY <1>1, <1>2, <1>4, Bounds DEF ProbeStart, VerdictInv, ProbeDue
<1>6. QED
  BY <1>3, <1>5 DEF LoopsInv

LEMMA ProbeEndLoops == GateInv /\ LoopsInv /\ ProbeEnd => LoopsInv'
<1> SUFFICES ASSUME GateInv, LoopsInv, ProbeEnd PROVE LoopsInv'
  OBVIOUS
<1>1. unwatched' = unwatched /\ unwatched \in Nat
  BY DEF ProbeEnd, gateVars, GateInv, GateType
<1>2. LoopsType'
  <2>1. spent' = 0 /\ ~probing' /\ shown' /\ probing' \in BOOLEAN /\ shown' \in BOOLEAN
    BY Zenon DEF ProbeEnd
  <2>2. UNCHANGED <<tick, next, probed>>
    BY DEF ProbeEnd
  <2>3. QED
    BY <2>1, <2>2 DEF LoopsInv, LoopsType
<1>3. unwatched <= Heard + spent /\ spent \in 0 .. ProbeTime
  BY DEF LoopsInv, LoopsType, VerdictInv, ProbeEnd
<1>4. VerdictInv'
  BY <1>1, <1>3, Bounds DEF ProbeEnd, LoopsInv, VerdictInv
<1>5. QED
  BY <1>2, <1>4 DEF LoopsInv

LEMMA ProbeGateClosedLoops == LoopsInv /\ ProbeGateClosed => LoopsInv'
<1> SUFFICES ASSUME LoopsInv, ProbeGateClosed PROVE LoopsInv'
  OBVIOUS
<1>1. ~probing' /\ ~shown'
  BY DEF LoopsInv, VerdictInv, ProbeGateClosed, ProbeDue
<1>2. LoopsType'
  BY DEF LoopsInv, LoopsType, ProbeGateClosed
<1>3. QED
  BY <1>1, <1>2 DEF LoopsInv, VerdictInv

LEMMA NamingLoops == LoopsInv /\ Naming => LoopsInv'
<1> SUFFICES ASSUME LoopsInv, Naming PROVE LoopsInv'
  OBVIOUS
<1>1. UNCHANGED <<next, probing, spent, probed, shown, unwatched>>
  BY DEF Naming, NamesStart, NamesGateClosed, ScanResolve, gateVars, loopVars,
         probeVars
<1>2. tick' \subseteq tick /\ ("probe" \in tick' <=> "probe" \in tick)
  BY DEF Naming, NamesStart, NamesGateClosed, ScanResolve, loopVars
<1>3. QED
  BY <1>1, <1>2 DEF LoopsInv, LoopsType, VerdictInv

LEMMA TickLoops == GateInv /\ LoopsInv /\ Tick => LoopsInv'
<1> SUFFICES ASSUME GateInv, LoopsInv, Tick PROVE LoopsInv'
  OBVIOUS
<1>1. unwatched' <= unwatched + 1 /\ unwatched \in Nat /\ unwatched' \in Nat
  BY DEF Tick, GateTick, GateInv, GateType, Counted
<1>2. UNCHANGED <<probing, probed, shown>>
  BY DEF Tick
<1>3. \A l \in Loop : next[l] \in 1 .. Every[l] /\ next[l] \in Nat
  BY DEF LoopsInv, LoopsType
<1>4. \A l \in Loop : next'[l] = IF next[l] = 1 THEN Every[l] ELSE next[l] - 1
  BY DEF Tick
<1>5. LoopsType'
  <2>1. tick' \subseteq Loop
    BY DEF Tick, LoopsInv, LoopsType
  <2>2. \A l \in Loop : next'[l] \in 1 .. Every[l] /\ next'[l] \in Nat
    BY <1>3, <1>4, EveryIs
  <2>3. next' \in [Loop -> Nat]
    BY <2>2 DEF Tick
  <2>4. spent' \in 0 .. ProbeTime
    BY DEF Tick, Deadline, LoopsInv, LoopsType
  <2>5. QED
    BY <1>2, <2>1, <2>2, <2>3, <2>4 DEF LoopsInv, LoopsType
<1>6. probing => unwatched' <= Heard + spent'
  BY <1>1, Bounds DEF Tick, LoopsInv, LoopsType, VerdictInv
<1>7. ASSUME probing \/ shown, "probe" \notin tick'
      PROVE  unwatched' <= Heard + (ProbeEvery - next'["probe"])
  <2>1. "probe" \in Loop /\ "probe" \notin tick /\ next["probe"] # 1
    BY <1>7 DEF Tick, Loop
  <2>2. unwatched <= Heard + (ProbeEvery - next["probe"])
    BY <1>7, <2>1 DEF LoopsInv, VerdictInv
  <2>3. next'["probe"] = next["probe"] - 1 /\ next["probe"] \in Nat
    BY <1>3, <1>4, <2>1
  <2>4. QED
    BY <1>1, <2>2, <2>3, Bounds
<1>8. ASSUME shown, ~probing PROVE unwatched' <= ExpiryBound
  <2>1. "probe" \notin tick
    BY <1>8 DEF Tick, ProbeDue
  <2>2. unwatched <= Heard + (ProbeEvery - next["probe"])
    BY <1>8, <2>1 DEF LoopsInv, VerdictInv
  <2>3. next["probe"] \in Nat \ {0}
    BY <1>3 DEF Loop
  <2>4. QED
    BY <1>1, <2>2, <2>3, Bounds
<1>9. VerdictInv'
  BY <1>2, <1>6, <1>7, <1>8 DEF LoopsInv, VerdictInv, ExpiryBound, Heard, Larger
<1>10. QED
  BY <1>5, <1>9 DEF LoopsInv

-----------------------------------------------------------------------------
ActivityInv == GateInv /\ NamesInv /\ LoopsInv

LEMMA InitActivity == Init => ActivityInv
BY GateInvInit, NamesInvInit, LoopsInvInit DEF Init, ActivityInv

LEMMA NextActivity == ActivityInv /\ [Next]_vars => ActivityInv'
<1> SUFFICES ASSUME ActivityInv, [Next]_vars PROVE ActivityInv'
  OBVIOUS
<1>0. GateInv /\ NamesInv /\ LoopsInv
  BY DEF ActivityInv
<1>1. CASE GateMoves /\ UNCHANGED <<namesVars, loopVars>>
  BY <1>0, <1>1, GateInvMoves, NamesInvKept, GateMovesLoops DEF ActivityInv
<1>2. CASE NamesMoves /\ UNCHANGED <<gateVars, loopVars>>
  BY <1>0, <1>2, GateInvKept, NamesInvMoves, LoopsInvKept DEF ActivityInv, gateVars
<1>3. CASE ProbeStart
  <2>1. UNCHANGED <<gateVars, namesVars>>
    BY <1>3 DEF ProbeStart
  <2>2. QED
    BY <1>0, <1>3, <2>1, GateInvKept, NamesInvKept, ProbeStartLoops DEF ActivityInv
<1>4. CASE ProbeEnd
  <2>1. UNCHANGED <<gateVars, namesVars>>
    BY <1>4 DEF ProbeEnd
  <2>2. QED
    BY <1>0, <1>4, <2>1, GateInvKept, NamesInvKept, ProbeEndLoops DEF ActivityInv
<1>5. CASE ProbeGateClosed
  <2>1. UNCHANGED <<gateVars, namesVars>>
    BY <1>5 DEF ProbeGateClosed
  <2>2. QED
    BY <1>0, <1>5, <2>1, GateInvKept, NamesInvKept, ProbeGateClosedLoops
       DEF ActivityInv
<1>6. CASE Naming
  <2>1. UNCHANGED gateVars
    BY <1>6 DEF Naming, NamesStart, NamesGateClosed, ScanResolve
  <2>2. NamesInv'
    BY <1>0, <1>6, NamesInvKept, ResolveNamesStep
       DEF Naming, NamesStart, NamesGateClosed, ScanResolve, Caller
  <2>3. QED
    BY <1>0, <1>6, <2>1, <2>2, GateInvKept, NamingLoops DEF ActivityInv
<1>7. CASE Tick
  <2>1. GateTick /\ NamesTick
    BY <1>7 DEF Tick
  <2>2. QED
    BY <1>0, <1>7, <2>1, GateInvTick, NamesTickStep, TickLoops DEF ActivityInv
<1>8. CASE UNCHANGED vars
  <2>1. UNCHANGED gateVars /\ UNCHANGED namesVars /\ UNCHANGED <<loopVars, unwatched>>
    BY <1>8 DEF vars, gateVars
  <2>2. QED
    BY <1>0, <2>1, GateInvKept, NamesInvKept, LoopsInvKept DEF ActivityInv
<1>9. QED
  BY <1>1, <1>2, <1>3, <1>4, <1>5, <1>6, <1>7, <1>8 DEF Next, Probing

THEOREM ActivityInvariant == Spec => []ActivityInv
<1>1. QED
  BY InitActivity, NextActivity, PTL DEF Spec

\* The variables of the gate, the names and the loops have their types, and a
\* cycle ends in its time.
THEOREM ActivityTypeCorrect == Spec => []TypeOK
<1>1. ActivityInv => TypeOK
  BY DEF ActivityInv, GateInv, NamesInv, LoopsInv, GateType, NamesType, LoopsType,
         PageState, TypeOK
<1>2. QED
  BY <1>1, ActivityInvariant, PTL

\* The gate stays open on a page that pulses until two pulses in a row are lost,
\* whatever the interval, the grace and the other pages.
THEOREM OnePulseMayBeLost == Spec => []OneLostPulseIsHarmless
<1>1. ActivityInv => OneLostPulseIsHarmless
  <2> SUFFICES ASSUME ActivityInv, Grace > 2 * Interval + Latency,
                      NEW p \in Page, Pulses(p), missed[p] <= 1
      PROVE  age < Grace
    BY DEF OneLostPulseIsHarmless, Active
  <2>1. age <= OneMore(missed[p] = 1) + OneMore(OnItsWay(p)) + Since(p)
    BY DEF ActivityInv, GateInv, PulseInv
  <2>2. Since(p) \in 0 .. Interval /\ age \in Nat
    BY DEF ActivityInv, GateInv, GateType, Since
  <2>3. OnItsWay(p) => Since(p) <= Latency
    BY DEF ActivityInv, GateInv, GateType, OnItsWay
  <2>4. QED
    BY <2>1, <2>2, <2>3 DEF OneMore
<1>2. QED
  BY <1>1, ActivityInvariant, PTL

\* Once no page pulses and no client connects to the stream, no probe and no verdict
\* outlives the grace by more than a cycle, whatever sockets stay open.
THEOREM VerdictsAlwaysExpire == Spec => []VerdictsExpire
<1>1. ActivityInv => VerdictsExpire
  <2> SUFFICES ASSUME ActivityInv, probing \/ shown PROVE unwatched <= ExpiryBound
    BY DEF VerdictsExpire, ExpiryBound
  <2>1. CASE probing
    <3>1. unwatched <= Heard + spent /\ spent \in 0 .. ProbeTime /\ unwatched \in Nat
      BY <2>1 DEF ActivityInv, GateInv, GateType, LoopsInv, LoopsType, VerdictInv
    <3>2. QED
      BY <3>1, Bounds
  <2>2. CASE ~probing
    BY <2>2 DEF ActivityInv, LoopsInv, VerdictInv
  <2>3. QED
    BY <2>1, <2>2
<1>2. QED
  BY <1>1, ActivityInvariant, PTL

\* No caller of resolveNames asks for an address twice within the TTL.
THEOREM NobodyHammers == Spec => NoHammering
<1>1. ActivityInv /\ [Next]_vars =>
          [\A c \in Caller : Ask(c) => asked[c][held[c]] = TTL]_vars
  <2> SUFFICES ASSUME ActivityInv, NEW c \in Caller, Ask(c)
      PROVE  asked[c][held[c]] = TTL
    OBVIOUS
  <2>1. held[c] # NoHost
    BY DEF Ask, SlotFree
  <2>2. QED
    BY <2>1 DEF ActivityInv, NamesInv, AskInv
<1>2. QED
  BY <1>1, ActivityInvariant, PTL DEF Spec, NoHammering

-----------------------------------------------------------------------------
(* The rounds of lookups after the gate has closed.                        *)

\* A round of lookups asks Cap addresses at a time, so it asks in that many turns.
Turns == (Cardinality(Host) + Cap - 1) \div Cap

Lookups == Host \X (0 .. LookupTime)
Young(A, t) == {q \in A : q[2] < t}

\* The time at which the gate has been closed for j turns.
Turn(j) == Heard + j * LookupTime

\* What a round can still ask when nobody has watched for u: with A in flight and
\* n addresses to come, all of them fit into the turns that are left, and by the
\* j-th turn all that was in flight when it began has been answered.
RoundFits(A, n, u) ==
    /\ Cardinality(A) + n <= Cardinality(Host)
    /\ \A j \in 0 .. Turns - 1 : u > Turn(j) =>
          Cardinality(Young(A, u - Turn(j))) + n <= Cap * (Turns - 1 - j)

ToCome(T, h) == Cardinality(T) + (IF h = NoHost THEN 0 ELSE 1)

RoundInv ==
    RoundFits(asking["loop"], ToCome(todo["loop"], held["loop"]), unwatched)

LEMMA TurnsFit ==
    /\ Turns \in Nat /\ Cardinality(Host) \in Nat /\ Cardinality(Host) <= Cap * Turns
    /\ RoundTime = Turns * LookupTime /\ Cap \in Nat \ {0} /\ LookupTime \in Nat
<1>1. Cap \in Nat \ {0} /\ LookupTime \in Nat /\ IsFiniteSet(Host)
  BY NamesAssumption
<1>2. PICK h \in Nat : h = Cardinality(Host)
  BY <1>1, FS_CardinalityType
<1>3. PICK k : k = (h + Cap - 1) \div Cap
  OBVIOUS
<1>4. PICK r : r = (h + Cap - 1) % Cap
  OBVIOUS
<1>5. k \in Int /\ r \in 0 .. Cap - 1 /\ h + Cap - 1 = Cap * k + r
  <2>1. PICK e \in Nat : e = h + Cap - 1
    BY <1>1, <1>2
  <2>2. k = e \div Cap /\ r = e % Cap
    BY <1>3, <1>4, <2>1
  <2>3. k \in Int /\ r \in 0 .. Cap - 1 /\ e = Cap * k + r
    BY <1>1, <2>2
  <2>4. QED
    BY <2>1, <2>3
<1>6. h <= Cap * k
  BY <1>1, <1>2, <1>5
<1>7. k >= 0
  BY <1>1, <1>2, <1>5, <1>6
<1>8. QED
  BY <1>1, <1>2, <1>3, <1>5, <1>6, <1>7 DEF Turns, RoundTime

LEMMA TurnTimes ==
    /\ Heard \in Nat
    /\ \A j \in Nat : Turn(j) \in Nat /\ Turn(j) >= Heard
    /\ \A j \in Nat \ {0} : Turn(j) = Turn(j - 1) + LookupTime
    /\ Turn(0) = Heard
    /\ Turns > 0 => Heard + RoundTime = Turn(Turns - 1) + LookupTime
<1>1. Heard \in Nat
  BY DEF Heard
<1>2. LookupTime \in Nat /\ Turns \in Nat /\ RoundTime = Turns * LookupTime
  BY TurnsFit
<1>3. ASSUME NEW j \in Nat PROVE j * LookupTime \in Nat
  BY <1>2
<1>4. ASSUME NEW j \in Nat PROVE (j + 1) * LookupTime = j * LookupTime + LookupTime
  BY <1>2
<1>5. ASSUME NEW j \in Nat \ {0} PROVE Turn(j) = Turn(j - 1) + LookupTime
  <2>1. PICK i \in Nat : j = i + 1
    OBVIOUS
  <2>2. j - 1 = i
    BY <2>1
  <2>3. QED
    BY <1>1, <1>2, <1>3, <1>4, <2>1, <2>2 DEF Turn
<1>6. Turns > 0 => Heard + RoundTime = Turn(Turns - 1) + LookupTime
  <2>1. Turns > 0 => Turn(Turns) = Turn(Turns - 1) + LookupTime
    BY <1>2, <1>5
  <2>2. QED
    BY <1>2, <2>1 DEF Turn
<1>7. Turn(0) = Heard
  BY <1>1, <1>2 DEF Turn
<1>8. \A j \in Nat : Turn(j) \in Nat /\ Turn(j) >= Heard
  BY <1>1, <1>3 DEF Turn
<1>9. QED
  BY <1>1, <1>5, <1>6, <1>7, <1>8

LEMMA CapTimes ==
    ASSUME NEW j \in 0 .. Turns - 1
    PROVE  /\ Cap * (Turns - 1 - j) \in Nat
           /\ Cap * (Turns - 1 - j) + Cap = Cap * (Turns - j)
<1>1. Cap \in Nat \ {0} /\ Turns \in Nat
  BY TurnsFit
<1>2. PICK k \in Nat : k = Turns - 1 - j
  BY <1>1
<1>3. Turns - j = k + 1
  BY <1>1, <1>2
<1>4. Cap * k \in Nat /\ Cap * (k + 1) = Cap * k + Cap
  BY <1>1
<1>5. QED
  BY <1>2, <1>3, <1>4

LEMMA LookupsFinite ==
    ASSUME NEW A, A \subseteq Lookups
    PROVE  /\ IsFiniteSet(A) /\ Cardinality(A) \in Nat
           /\ \A t : /\ IsFiniteSet(Young(A, t)) /\ Young(A, t) \subseteq A
                     /\ Cardinality(Young(A, t)) \in Nat
<1>1. IsFiniteSet(Host) /\ LookupTime \in Nat
  BY NamesAssumption
<1>2. PICK T : T = 0 .. LookupTime
  OBVIOUS
<1>3. IsFiniteSet(T)
  BY <1>1, <1>2, FS_Interval
<1>4. IsFiniteSet(Host \X T)
  BY <1>1, <1>3, FS_Product
<1>5. IsFiniteSet(A)
  BY <1>2, <1>4, FS_Subset DEF Lookups
<1>6. \A t : Young(A, t) \subseteq A
  BY DEF Young
<1>7. \A t : IsFiniteSet(Young(A, t))
  BY <1>5, <1>6, FS_Subset
<1>8. QED
  BY <1>5, <1>6, <1>7, FS_CardinalityType

\* Answers come, and addresses are found fresh.
LEMMA RoundShrinks ==
    ASSUME NEW A, A \subseteq Lookups, NEW B, B \subseteq A, NEW u \in Nat,
           NEW n \in Nat, NEW k \in Nat, k <= n, RoundFits(A, n, u)
    PROVE  RoundFits(B, k, u)
<1>1. B \subseteq Lookups
  OBVIOUS
<1>2. IsFiniteSet(A) /\ Cardinality(A) \in Nat /\ Cardinality(B) \in Nat
  BY <1>1, LookupsFinite
<1>3. Cardinality(B) <= Cardinality(A)
  BY <1>2, FS_Subset
<1>4. Cardinality(B) + k <= Cardinality(Host)
  BY <1>2, <1>3, TurnsFit DEF RoundFits
<1>5. ASSUME NEW j \in 0 .. Turns - 1, u > Turn(j)
      PROVE  Cardinality(Young(B, u - Turn(j))) + k <= Cap * (Turns - 1 - j)
  <2>1. PICK t : t = u - Turn(j)
    OBVIOUS
  <2>2. Cardinality(Young(A, t)) + n <= Cap * (Turns - 1 - j)
    BY <1>5, <2>1 DEF RoundFits
  <2>3. Young(B, t) \subseteq Young(A, t)
    BY DEF Young
  <2>4. /\ IsFiniteSet(Young(A, t)) /\ Cardinality(Young(A, t)) \in Nat
        /\ Cardinality(Young(B, t)) \in Nat
    BY <1>1, LookupsFinite
  <2>5. Cardinality(Young(B, t)) <= Cardinality(Young(A, t))
    BY <2>3, <2>4, FS_Subset
  <2>6. Cap * (Turns - 1 - j) \in Nat
    BY CapTimes
  <2>7. QED
    BY <2>1, <2>2, <2>4, <2>5, <2>6
<1>6. QED
  BY <1>4, <1>5 DEF RoundFits

\* An address that takes its slot was one to come.
LEMMA RoundAsks ==
    ASSUME NEW A, A \subseteq Lookups, NEW q \in Lookups, NEW u \in Nat,
           NEW n \in Nat, RoundFits(A, n + 1, u)
    PROVE  RoundFits(A \cup {q}, n, u)
<1>1. ASSUME NEW S, IsFiniteSet(S), Cardinality(S) \in Nat
      PROVE  IsFiniteSet(S \cup {q}) /\ Cardinality(S \cup {q}) <= Cardinality(S) + 1
  <2>1. PICK k \in Nat : k = Cardinality(S)
    BY <1>1
  <2>2. PICK T : T = S \cup {q}
    OBVIOUS
  <2>3. IsFiniteSet(T) /\ Cardinality(T) = IF q \in S THEN k ELSE k + 1
    BY <1>1, <2>1, <2>2, FS_AddElement
  <2>4. Cardinality(T) <= k + 1
    BY <2>3
  <2>5. QED
    BY <2>1, <2>2, <2>3, <2>4
<1>2. A \cup {q} \subseteq Lookups
  OBVIOUS
<1>3. /\ IsFiniteSet(A) /\ Cardinality(A) \in Nat /\ Cardinality(A \cup {q}) \in Nat
      /\ Cardinality(Host) \in Nat
  BY <1>2, LookupsFinite, TurnsFit
<1>4. Cardinality(A \cup {q}) <= Cardinality(A) + 1
  BY <1>1, <1>3
<1>5. Cardinality(A \cup {q}) + n <= Cardinality(Host)
  BY <1>3, <1>4 DEF RoundFits
<1>6. ASSUME NEW j \in 0 .. Turns - 1, u > Turn(j)
      PROVE  Cardinality(Young(A \cup {q}, u - Turn(j))) + n <= Cap * (Turns - 1 - j)
  <2>1. PICK t : t = u - Turn(j)
    OBVIOUS
  <2>2. Cardinality(Young(A, t)) + (n + 1) <= Cap * (Turns - 1 - j)
    BY <1>6, <2>1 DEF RoundFits
  <2>3. PICK S : S = Young(A, t)
    OBVIOUS
  <2>4. IsFiniteSet(S) /\ Cardinality(S) \in Nat
    BY <2>3, LookupsFinite
  <2>5. IsFiniteSet(S \cup {q}) /\ Cardinality(S \cup {q}) <= Cardinality(S) + 1
    BY <1>1, <2>4
  <2>6. Young(A \cup {q}, t) \subseteq S \cup {q}
    BY <2>3 DEF Young
  <2>7. /\ Cardinality(Young(A \cup {q}, t)) <= Cardinality(S \cup {q})
        /\ Cardinality(Young(A \cup {q}, t)) \in Nat /\ Cardinality(S \cup {q}) \in Nat
    BY <1>2, <2>5, <2>6, FS_Subset, FS_CardinalityType, LookupsFinite
  <2>8. Cap * (Turns - 1 - j) \in Nat
    BY CapTimes
  <2>9. QED
    BY <2>1, <2>2, <2>3, <2>4, <2>5, <2>7, <2>8
<1>7. QED
  BY <1>5, <1>6 DEF RoundFits

\* While somebody may be watching a round need only be one.
LEMMA RoundWatched ==
    ASSUME NEW A, NEW n, Cardinality(A) + n <= Cardinality(Host),
           NEW u \in Nat, u <= Heard
    PROVE  RoundFits(A, n, u)
<1>1. \A j \in 0 .. Turns - 1 : ~ (u > Turn(j))
  BY TurnTimes, TurnsFit
<1>2. QED
  BY <1>1 DEF RoundFits

\* What is younger than t after the clock has moved was younger than t - 1.
LEMMA Aged ==
    ASSUME NEW A, A \subseteq Lookups, NEW B, B = {<<q[1], q[2] + 1>> : q \in A},
           B \subseteq Lookups
    PROVE  /\ Cardinality(B) <= Cardinality(A)
           /\ \A t \in Int : Cardinality(Young(B, t)) <= Cardinality(Young(A, t - 1))
<1>1. ASSUME NEW S, NEW T, IsFiniteSet(S), T \subseteq {<<q[1], q[2] + 1>> : q \in S}
      PROVE  Cardinality(T) <= Cardinality(S)
  <2>1. PICK f : f = [q \in S |-> <<q[1], q[2] + 1>>]
    OBVIOUS
  <2>2. PICK U : U = {f[q] : q \in S}
    OBVIOUS
  <2>3. ASSUME NEW r \in T PROVE r \in U
    <3>1. PICK q \in S : r = <<q[1], q[2] + 1>>
      BY <1>1
    <3>2. r = f[q]
      BY <2>1, <3>1
    <3>3. QED
      BY <2>2, <3>2
  <2>4. f \in Surjection(S, U)
    BY <2>1, <2>2 DEF Surjection
  <2>5. IsFiniteSet(U) /\ Cardinality(U) <= Cardinality(S)
    BY <1>1, <2>4, FS_Surjection
  <2>6. IsFiniteSet(T) /\ Cardinality(T) <= Cardinality(U)
    BY <2>3, <2>5, FS_Subset
  <2>7. {Cardinality(S), Cardinality(T), Cardinality(U)} \subseteq Nat
    BY <1>1, <2>5, <2>6, FS_CardinalityType
  <2>8. QED
    BY <2>5, <2>6, <2>7
<1>2. IsFiniteSet(A)
  BY LookupsFinite
<1>3. Cardinality(B) <= Cardinality(A)
  BY <1>1, <1>2
<1>4. ASSUME NEW t \in Int
      PROVE  Cardinality(Young(B, t)) <= Cardinality(Young(A, t - 1))
  <2>1. IsFiniteSet(Young(A, t - 1))
    BY LookupsFinite
  <2>2. ASSUME NEW r \in Young(B, t)
        PROVE  \E q \in Young(A, t - 1) : r = <<q[1], q[2] + 1>>
    <3>1. PICK q \in A : r = <<q[1], q[2] + 1>>
      BY <2>2 DEF Young
    <3>2. q[2] \in Int /\ q[2] + 1 < t
      BY <2>2, <3>1, NamesAssumption DEF Young, Lookups
    <3>3. QED
      BY <3>1, <3>2 DEF Young
  <2>3. Young(B, t) \subseteq {<<q[1], q[2] + 1>> : q \in Young(A, t - 1)}
    BY <2>2
  <2>4. QED
    BY <1>1, <2>1, <2>3
<1>5. QED
  BY <1>3, <1>4

\* The clock moves: as long as addresses are to come every slot is taken, so that
\* each turn answers Cap of them.
LEMMA RoundTicks ==
    ASSUME NEW A, A \subseteq Lookups, \A q \in A : q[2] < LookupTime,
           NEW B, B = {<<q[1], q[2] + 1>> : q \in A}, B \subseteq Lookups,
           NEW n \in Nat, n > 0 => Cardinality(A) >= Cap,
           NEW u \in Nat, NEW v \in {u, u + 1}, RoundFits(A, n, u)
    PROVE  RoundFits(B, n, v)
<1>1. /\ Cap \in Nat \ {0} /\ LookupTime \in Nat /\ Turns \in Nat
      /\ Cardinality(Host) \in Nat /\ Cardinality(Host) <= Cap * Turns
  BY TurnsFit
<1>2. /\ IsFiniteSet(A) /\ Cardinality(A) \in Nat /\ Cardinality(B) \in Nat
      /\ \A t : /\ Cardinality(Young(A, t)) \in Nat /\ Cardinality(Young(B, t)) \in Nat
                /\ IsFiniteSet(Young(A, t))
  BY LookupsFinite
<1>3. Cardinality(B) + n <= Cardinality(Host)
  BY <1>1, <1>2, Aged DEF RoundFits
<1>4. ASSUME NEW j \in 0 .. Turns - 1, v > Turn(j)
      PROVE  Cardinality(Young(B, v - Turn(j))) + n <= Cap * (Turns - 1 - j)
  <2>1. PICK g \in Nat : g = Turn(j)
    BY <1>1, TurnTimes
  <2>2. PICK room \in Nat : room = Cap * (Turns - 1 - j)
    BY CapTimes
  <2>3. PICK y \in Nat : y = Cardinality(Young(B, v - g))
    BY <1>2
  <2>4. y <= Cardinality(Young(A, v - g - 1))
    <3>1. PICK t \in Int : t = v - g
      BY <2>1
    <3>2. Cardinality(Young(B, t)) <= Cardinality(Young(A, t - 1))
      BY Aged
    <3>3. QED
      BY <2>3, <3>1, <3>2
  <2>5. CASE u > g
    <3>1. Cardinality(Young(A, u - g)) + n <= room
      BY <2>1, <2>2, <2>5 DEF RoundFits
    <3>2. Young(A, v - g - 1) \subseteq Young(A, u - g)
      BY <2>1, NamesAssumption DEF Young, Lookups
    <3>3. Cardinality(Young(A, v - g - 1)) <= Cardinality(Young(A, u - g))
      BY <1>2, <3>2, FS_Subset
    <3>4. Cardinality(Young(A, v - g - 1)) \in Nat /\ Cardinality(Young(A, u - g)) \in Nat
      BY <1>2
    <3>5. y + n <= room
      BY <2>4, <3>1, <3>3, <3>4
    <3>6. QED
      BY <2>1, <2>2, <2>3, <3>5
  <2>6. CASE ~ (u > g)
    <3>1. u = g /\ v = u + 1
      BY <1>4, <2>1, <2>6
    <3>2. Young(A, v - g - 1) = {}
      BY <3>1, NamesAssumption DEF Young, Lookups
    <3>3. y = 0
      BY <2>4, <3>2, FS_EmptySet
    <3>4. n <= room
      <4>1. CASE n = 0
        BY <4>1
      <4>2. CASE n > 0
        <5>1. A # {}
          BY <1>1, <4>2, FS_EmptySet
        <5>2. LookupTime > 0
          BY <5>1, NamesAssumption DEF Lookups
        <5>3. PICK all \in Nat : all = Cap * (Turns - j)
          BY <1>1, CapTimes
        <5>4. room + Cap = all
          BY <2>2, <5>3, CapTimes
        <5>5. Cardinality(A) + n <= all
          <6>1. CASE j = 0
            BY <1>1, <1>2, <5>3, <6>1 DEF RoundFits
          <6>2. CASE j # 0
            <7>1. PICK i \in 0 .. Turns - 1 : i = j - 1
              BY <1>1, <6>2
            <7>2. g = Turn(i) + LookupTime /\ Turn(i) \in Nat
              BY <2>1, <6>2, <7>1, TurnTimes
            <7>3. u > Turn(i) /\ u - Turn(i) = LookupTime
              BY <1>1, <3>1, <5>2, <7>2
            <7>4. Young(A, LookupTime) = A
              BY DEF Young
            <7>5. Turns - 1 - i = Turns - j
              BY <1>1, <7>1
            <7>6. QED
              BY <5>3, <7>3, <7>4, <7>5 DEF RoundFits
          <6>3. QED
            BY <6>1, <6>2
        <5>6. QED
          BY <1>1, <1>2, <4>2, <5>4, <5>5
      <4>3. QED
        BY <4>1, <4>2
    <3>5. QED
      BY <2>1, <2>2, <2>3, <3>3, <3>4
  <2>7. QED
    BY <2>5, <2>6
<1>5. QED
  BY <1>3, <1>4 DEF RoundFits

\* After the last turn nothing is in flight.
LEMMA RoundOver ==
    ASSUME NEW A, A \subseteq Lookups, NEW n \in Nat, NEW u \in Nat,
           RoundFits(A, n, u), u > Heard + RoundTime
    PROVE  A = {}
<1>1. /\ Turns \in Nat /\ LookupTime \in Nat /\ Cap \in Nat
      /\ Cardinality(Host) \in Nat /\ Cardinality(Host) <= Cap * Turns
  BY TurnsFit
<1>2. /\ IsFiniteSet(A) /\ Cardinality(A) \in Nat
      /\ \A t : Cardinality(Young(A, t)) \in Nat /\ IsFiniteSet(Young(A, t))
  BY LookupsFinite
<1>3. CASE Turns = 0
  <2>1. Cardinality(Host) = 0
    BY <1>1, <1>3
  <2>2. Cardinality(A) = 0
    BY <1>2, <2>1 DEF RoundFits
  <2>3. QED
    BY <1>2, <2>2, FS_EmptySet
<1>4. CASE Turns > 0
  <2>1. PICK j \in 0 .. Turns - 1 : j = Turns - 1
    BY <1>1, <1>4
  <2>2. Turn(j) \in Nat /\ u > Turn(j) + LookupTime
    BY <1>1, <1>4, <2>1, TurnTimes
  <2>3. Cap * (Turns - 1 - j) = 0
    BY <1>1, <2>1
  <2>4. Cardinality(Young(A, u - Turn(j))) + n <= 0
    BY <1>1, <2>2, <2>3 DEF RoundFits
  <2>5. Cardinality(Young(A, u - Turn(j))) = 0
    BY <1>2, <2>4
  <2>6. Young(A, u - Turn(j)) = {}
    BY <1>2, <2>5, FS_EmptySet
  <2>7. \A q \in A : q[2] < u - Turn(j)
    BY <1>1, <2>2 DEF Lookups
  <2>8. QED
    BY <2>6, <2>7 DEF Young
<1>5. QED
  BY <1>1, <1>3, <1>4

LEMMA ToComeType ==
    ASSUME NEW T, T \subseteq Host, NEW h
    PROVE  /\ IsFiniteSet(T) /\ Cardinality(T) \in Nat /\ ToCome(T, h) \in Nat
           /\ Cardinality(T) <= Cardinality(Host)
           /\ h = NoHost => ToCome(T, h) = Cardinality(T)
           /\ h # NoHost => ToCome(T, h) = Cardinality(T) + 1
           /\ ToCome(T, h) = 0 => T = {} /\ h = NoHost
<1>1. IsFiniteSet(Host)
  BY NamesAssumption
<1>2. IsFiniteSet(T) /\ Cardinality(T) <= Cardinality(Host)
  BY <1>1, FS_Subset
<1>3. PICK k \in Nat : k = Cardinality(T)
  BY <1>2, FS_CardinalityType
<1>4. k = 0 => T = {}
  BY <1>2, <1>3, FS_EmptySet
<1>5. QED
  BY <1>2, <1>3, <1>4 DEF ToCome

LEMMA LoopRound ==
    ASSUME NamesInv
    PROVE  /\ asking["loop"] \subseteq Lookups /\ todo["loop"] \subseteq Host
           /\ held["loop"] \in Host \cup {NoHost} /\ "loop" \in Caller
BY DEF NamesInv, NamesType, Lookups, Caller

LEMMA InitRound == Init => RoundInv
<1> SUFFICES ASSUME Init PROVE RoundInv
  OBVIOUS
<1>1. asking["loop"] = {} /\ todo["loop"] = {} /\ held["loop"] = NoHost
  BY DEF Init, NamesInit, Caller
<1>2. Cardinality({}) = 0 /\ ToCome({}, NoHost) = 0
  BY FS_EmptySet DEF ToCome
<1>3. RoundFits({}, 0, unwatched)
  <2>1. \A t : Young({}, t) = {}
    BY DEF Young
  <2>2. \A j \in 0 .. Turns - 1 : Cap * (Turns - 1 - j) \in Nat
    BY CapTimes
  <2>3. Cardinality({}) + 0 <= Cardinality(Host)
    BY <1>2, TurnsFit
  <2>4. ASSUME NEW j \in 0 .. Turns - 1
        PROVE  Cardinality(Young({}, unwatched - Turn(j))) + 0 <= Cap * (Turns - 1 - j)
    <3>1. PICK k \in Nat : k = Cap * (Turns - 1 - j)
      BY <2>2
    <3>2. Cardinality(Young({}, unwatched - Turn(j))) = 0
      BY <1>2, <2>1
    <3>3. QED
      BY <3>1, <3>2
  <2>5. QED
    BY <2>3, <2>4 DEF RoundFits
<1>4. QED
  BY <1>1, <1>2, <1>3 DEF RoundInv

\* The gate's moves leave the round and the time, or begin to watch.
LEMMA GateMovesRound ==
    ASSUME GateType, NamesInv, RoundInv, GateMoves, UNCHANGED namesVars
    PROVE  RoundInv'
<1>1. UNCHANGED <<asking, todo, held>>
  BY DEF namesVars
<1>2. CASE unwatched' = unwatched
  BY <1>1, <1>2 DEF RoundInv
<1>3. CASE unwatched' = 0
  <2>1. unwatched' \in Nat /\ unwatched' <= Heard
    BY <1>3, TurnTimes
  <2>2. Cardinality(asking["loop"]) + ToCome(todo["loop"], held["loop"]) <= Cardinality(Host)
    BY DEF RoundInv, RoundFits
  <2>3. QED
    BY <1>1, <2>1, <2>2, RoundWatched DEF RoundInv
<1>4. QED
  BY <1>2, <1>3, UnwatchedMoves

LEMMA NamesMovesRound ==
    ASSUME GateType, NamesInv, RoundInv, NamesMoves, UNCHANGED unwatched
    PROVE  RoundInv'
<1>1. PICK c \in Caller : Resolving(c)
  BY DEF NamesMoves
<1>2. CASE UNCHANGED <<asking["loop"], todo["loop"], held["loop"]>>
  BY <1>2 DEF RoundInv
<1>3. CASE c # "loop"
  <2>1. UNCHANGED <<asking["loop"], todo["loop"], held["loop"]>>
    BY <1>1, <1>3 DEF Resolving, Consider, Ask, Answered, NamesInv, NamesType, Caller
  <2>2. QED
    BY <1>2, <2>1
<1>4. CASE c = "loop"
  <2>1. PICK A \in SUBSET Lookups : A = asking["loop"]
    BY LoopRound
  <2>2. PICK T \in SUBSET Host : T = todo["loop"]
    BY LoopRound
  <2>3. PICK h \in Host \cup {NoHost} : h = held["loop"]
    BY LoopRound
  <2>4. RoundFits(A, ToCome(T, h), unwatched) /\ unwatched \in Nat
    BY <2>1, <2>2, <2>3 DEF RoundInv, GateType
  <2>5. ASSUME NEW g \in T, Consider("loop", g) PROVE RoundInv'
    <3>1. /\ h = NoHost /\ asking'["loop"] = A /\ todo'["loop"] = T \ {g}
          /\ held'["loop"] \in {h, g}
      BY <2>1, <2>2, <2>3, <2>5 DEF Consider, NamesInv, NamesType, Caller
    <3>2. PICK S \in SUBSET Host : S = T \ {g}
      OBVIOUS
    <3>3. Cardinality(S) = Cardinality(T) - 1
      BY <3>2, ToComeType, FS_RemoveElement
    <3>4. /\ ToCome(S, held'["loop"]) <= ToCome(T, h)
          /\ ToCome(S, held'["loop"]) \in Nat /\ ToCome(T, h) \in Nat
      <4>1. PICK f : f = held'["loop"]
        OBVIOUS
      <4>2. ToCome(T, h) = Cardinality(T)
        BY <3>1, ToComeType
      <4>3. ToCome(S, f) = Cardinality(S) \/ ToCome(S, f) = Cardinality(S) + 1
        BY ToComeType
      <4>4. Cardinality(S) \in Nat /\ Cardinality(T) \in Nat
        BY ToComeType
      <4>5. QED
        BY <3>3, <4>1, <4>2, <4>3, <4>4
    <3>5. RoundFits(A, ToCome(S, held'["loop"]), unwatched)
      BY <2>4, <3>4, RoundShrinks
    <3>6. QED
      BY <3>1, <3>2, <3>5 DEF RoundInv
  <2>6. CASE Ask("loop")
    <3>1. /\ h \in Host /\ h # NoHost /\ todo'["loop"] = T /\ held'["loop"] = NoHost
          /\ asking'["loop"] = A \cup {<<h, 0>>}
      BY <2>1, <2>2, <2>3, <2>6 DEF Ask, SlotFree, NamesInv, NamesType, Caller
    <3>2. PICK n \in Nat : n = ToCome(T, NoHost)
      BY ToComeType
    <3>3. ToCome(T, h) = n + 1
      BY <3>1, <3>2, ToComeType
    <3>4. PICK q \in Lookups : q = <<h, 0>>
      <4>1. 0 \in 0 .. LookupTime
        BY NamesAssumption
      <4>2. PICK S : S = 0 .. LookupTime
        OBVIOUS
      <4>3. <<h, 0>> \in Host \X S
        BY <3>1, <4>1, <4>2
      <4>4. QED
        BY <4>2, <4>3 DEF Lookups
    <3>5. RoundFits(A \cup {q}, n, unwatched)
      BY <2>4, <3>3, RoundAsks
    <3>6. QED
      BY <3>1, <3>2, <3>4, <3>5 DEF RoundInv
  <2>7. ASSUME NEW q \in A, Answered("loop", q) PROVE RoundInv'
    <3>1. todo'["loop"] = T /\ held'["loop"] = h /\ asking'["loop"] = A \ {q}
      BY <2>1, <2>2, <2>3, <2>7 DEF Answered, NamesInv, NamesType, Caller
    <3>2. PICK n \in Nat : n = ToCome(T, h)
      BY ToComeType
    <3>3. RoundFits(A \ {q}, n, unwatched)
      BY <2>4, <3>2, RoundShrinks
    <3>4. QED
      BY <3>1, <3>2, <3>3 DEF RoundInv
  <2>8. QED
    BY <1>1, <1>4, <2>1, <2>2, <2>5, <2>6, <2>7 DEF Resolving
<1>5. QED
  BY <1>3, <1>4

\* A round begins behind an open gate, so while somebody may be watching.
LEMMA NamingRound ==
    ASSUME GateInv, NamesInv, RoundInv, Naming
    PROVE  RoundInv'
<1>1. unwatched' = unwatched /\ unwatched \in Nat
  BY DEF Naming, NamesStart, NamesGateClosed, ScanResolve, gateVars, GateInv, GateType
<1>2. CASE NamesStart
  <2>1. PICK ips \in SUBSET Host : resolveNames("loop", ips)
    BY <1>2 DEF NamesStart
  <2>2. asking'["loop"] = {} /\ held'["loop"] = NoHost /\ todo'["loop"] = ips
    BY <2>1 DEF resolveNames, Busy, NamesInv, NamesType, Caller
  <2>3. unwatched <= Heard
    BY <1>2 DEF NamesStart, Active, GateInv, GateType, WatchInv, Heard
  <2>4. Cardinality({}) = 0
    BY FS_EmptySet
  <2>5. PICK n \in Nat : n = ToCome(ips, NoHost)
    BY ToComeType
  <2>6. Cardinality({}) + n <= Cardinality(Host)
    BY <2>4, <2>5, ToComeType
  <2>7. RoundFits({}, n, unwatched)
    BY <1>1, <2>3, <2>6, RoundWatched
  <2>8. QED
    BY <1>1, <2>2, <2>5, <2>7 DEF RoundInv
<1>3. CASE NamesGateClosed
  BY <1>1, <1>3 DEF NamesGateClosed, namesVars, RoundInv
<1>4. CASE ScanResolve
  <2>1. UNCHANGED <<asking["loop"], todo["loop"], held["loop"]>>
    BY <1>4 DEF ScanResolve, resolveNames, NamesInv, NamesType, Caller
  <2>2. QED
    BY <1>1, <2>1 DEF RoundInv
<1>5. QED
  BY <1>2, <1>3, <1>4 DEF Naming

LEMMA TickRound ==
    ASSUME GateInv, NamesInv, RoundInv, Tick, NamesInv'
    PROVE  RoundInv'
<1>1. GateTick /\ NamesTick
  BY DEF Tick
<1>2. PICK A \in SUBSET Lookups : A = asking["loop"]
  BY LoopRound
<1>3. PICK T \in SUBSET Host : T = todo["loop"]
  BY LoopRound
<1>4. PICK h \in Host \cup {NoHost} : h = held["loop"]
  BY LoopRound
<1>5. PICK n \in Nat : n = ToCome(T, h)
  BY ToComeType
<1>6. "loop" \in Caller
  BY DEF Caller
<1>7. PICK B : B = asking'["loop"]
  OBVIOUS
<1>8. B = {<<q[1], q[2] + 1>> : q \in A} /\ \A q \in A : q[2] < LookupTime
  BY <1>1, <1>2, <1>6, <1>7 DEF NamesTick
<1>9. B \subseteq Lookups
  BY <1>6, <1>7 DEF NamesInv, NamesType, Lookups
<1>10. n > 0 => Cardinality(A) >= Cap
  <2>1. ~ (h # NoHost /\ Cardinality(A) < Cap) /\ (T = {} \/ h # NoHost)
    BY <1>1, <1>2, <1>3, <1>4, <1>6 DEF NamesTick, SlotFree
  <2>2. h = NoHost /\ T = {} => n = 0
    <3>1. h = NoHost => n = Cardinality(T)
      BY <1>5, ToComeType
    <3>2. QED
      BY <3>1, FS_EmptySet
  <2>3. Cardinality(A) \in Nat /\ Cap \in Nat
    BY LookupsFinite, NamesAssumption
  <2>4. QED
    BY <2>1, <2>2, <2>3
<1>11. PICK u \in Nat : u = unwatched
  BY DEF GateInv, GateType
<1>12. PICK v : v = unwatched'
  OBVIOUS
<1>13. v \in {u, u + 1, 0}
  BY <1>1, <1>11, <1>12 DEF GateTick, Counted
<1>14. RoundFits(A, n, u)
  BY <1>2, <1>3, <1>4, <1>5, <1>11 DEF RoundInv
<1>15. RoundFits(B, n, v)
  <2>1. CASE v \in {u, u + 1}
    BY <1>8, <1>9, <1>10, <1>14, <2>1, RoundTicks
  <2>2. CASE v = 0
    <3>1. RoundFits(B, n, u)
      BY <1>8, <1>9, <1>10, <1>14, RoundTicks
    <3>2. Cardinality(B) + n <= Cardinality(Host)
      BY <3>1 DEF RoundFits
    <3>3. v \in Nat /\ v <= Heard
      BY <2>2, TurnTimes
    <3>4. QED
      BY <3>2, <3>3, RoundWatched
  <2>3. QED
    BY <1>13, <2>1, <2>2
<1>16. todo'["loop"] = T /\ held'["loop"] = h
  BY <1>1, <1>3, <1>4 DEF NamesTick
<1>17. QED
  BY <1>5, <1>7, <1>12, <1>15, <1>16 DEF RoundInv

LEMMA NextRound == ActivityInv /\ RoundInv /\ [Next]_vars => RoundInv'
<1> SUFFICES ASSUME ActivityInv, RoundInv, [Next]_vars PROVE RoundInv'
  OBVIOUS
<1>1. GateInv /\ GateType /\ NamesInv
  BY DEF ActivityInv, GateInv
<1>2. CASE GateMoves /\ UNCHANGED <<namesVars, loopVars>>
  BY <1>1, <1>2, GateMovesRound
<1>3. CASE NamesMoves /\ UNCHANGED <<gateVars, loopVars>>
  BY <1>1, <1>3, NamesMovesRound DEF gateVars
<1>4. CASE Naming
  BY <1>1, <1>4, NamingRound
<1>5. CASE Tick
  BY <1>1, <1>5, NextActivity, TickRound DEF ActivityInv
<1>6. CASE Probing \/ UNCHANGED vars
  <2>1. UNCHANGED <<asking, todo, held, unwatched>>
    BY <1>6 DEF Probing, ProbeStart, ProbeEnd, ProbeGateClosed, vars, gateVars, namesVars
  <2>2. QED
    BY <2>1 DEF RoundInv
<1>7. QED
  BY <1>2, <1>3, <1>4, <1>5, <1>6 DEF Next

\* The names loop puts no query on the LAN once the grace has passed since the last
\* pulse of a page or connect of a client and the round that had begun is over, however
\* many addresses it has and slots they share.
THEOREM LookupsAlwaysGoQuiet == Spec => []LookupsGoQuiet
<1>1. Spec => []RoundInv
  BY InitRound, NextRound, ActivityInvariant, PTL DEF Spec
<1>2. ActivityInv /\ RoundInv => LookupsGoQuiet
  <2> SUFFICES ASSUME ActivityInv, RoundInv, ~ (unwatched <= Heard + RoundTime)
      PROVE  asking["loop"] = {}
    BY DEF LookupsGoQuiet
  <2>1. unwatched \in Nat /\ NamesInv
    BY DEF ActivityInv, GateInv, GateType
  <2>2. Heard + RoundTime \in Int
    BY TurnsFit, TurnTimes
  <2>3. PICK A : A = asking["loop"] /\ A \subseteq Lookups
    BY <2>1, LoopRound
  <2>4. PICK n \in Nat : n = ToCome(todo["loop"], held["loop"])
    BY <2>1, LoopRound, ToComeType
  <2>5. RoundFits(A, n, unwatched)
    BY <2>3, <2>4 DEF RoundInv
  <2>6. unwatched > Heard + RoundTime
    BY <2>1, <2>2
  <2>7. QED
    BY <2>1, <2>3, <2>5, <2>6, RoundOver
<1>3. QED
  BY <1>1, <1>2, ActivityInvariant, PTL
=============================================================================
