--------------------------- MODULE PresenceProofs ---------------------------
(***************************************************************************)
(* Theorems about Presence for every set of devices, addresses and         *)
(* requests and every bound: every record is well formed, no stored last-up *)
(* is ahead of the clock, the last-up in memory only moves forward, and     *)
(* scalars that agree with each other go on agreeing.                       *)
(*                                                                         *)
(* Then what the journal may not lose: every scalar ahead of its row is on *)
(* its way there, a clean stop leaves nothing behind, Presence implements  *)
(* WriteBehind, and the history of a device is in time order.  And what    *)
(* memory may not keep: a verdict nobody has checked since the gate        *)
(* closed.                                                                 *)
(***************************************************************************)
EXTENDS Presence, SequenceTheorems, FiniteSetTheorems, TLAPS

-----------------------------------------------------------------------------
(* Operators.                                                              *)

\* The larger of two times is a time.
LEMMA MaxIsTime ==
    ASSUME NEW a \in Time, NEW b \in Time
    PROVE  /\ max64(a, b) \in Time
           /\ a <= max64(a, b) /\ b <= max64(a, b)
           /\ max64(a, b) \in {a, b}
BY DEF max64, Time

\* A reload keeps a device's record well formed.
LEMMA ReloadedIsDev ==
    ASSUME NEW d \in Dev, NEW r \in Row
    PROVE  Reloaded(d, r) \in Dev
BY MaxIsTime DEF Reloaded, Dev, Row

LEMMA SeededIsDev ==
    ASSUME NEW r \in Row
    PROVE  Seeded(r) \in Dev
BY DEF Seeded, Dev, Row, Status

LEMMA FlushedIsRow ==
    ASSUME NEW r \in Row, NEW s \in Scalars
    PROVE  Flushed(r, s) \in Row
BY MaxIsTime DEF Flushed, Row, Scalars

LEMMA SightedIsDev ==
    ASSUME NEW d \in Dev, NEW ip \in IP, NEW t \in Time
    PROVE  Sighted(d, ip, t) \in Dev
BY DEF Sighted, Dev

LEMMA ProbedIsDev ==
    ASSUME NEW d \in Dev, NEW a \in Answer, NEW t \in Time
    PROVE  Probed(d, a, t) \in Dev
BY DEF Probed, Dev, Answer, Status

\* Marking a device dirty or clean, and clearing its verdict.
LEMMA MarkedIsDev ==
    ASSUME NEW d \in Dev
    PROVE  /\ \A b \in BOOLEAN : [d EXCEPT !.dirty = b] \in Dev
           /\ [d EXCEPT !.status = "unknown"] \in Dev
BY DEF Dev, Status

\* What survives a prune of a device's rows is a sequence of events.
LEMMA PrunedIsSeq ==
    ASSUME NEW s \in Seq(Event), NEW n \in Nat
    PROVE  SubSeq(s, n + 1, Len(s)) \in Seq(Event)
<1>1. \A i \in (n + 1) .. Len(s) : s[i] \in Event
  BY LenProperties, ElementOfSeq
<1>2. n + 1 \in Int /\ Len(s) \in Int
  BY LenProperties
<1>3. QED
  BY <1>1, <1>2, SubSeqProperties

LEMMA ExpiredIsFinite ==
    ASSUME NEW m, NEW c, journal[m] \in Seq(Event)
    PROVE  Cardinality(Expired(m, c)) \in Nat
<1>1. Len(journal[m]) \in Nat
  BY LenProperties
<1>2. IsFiniteSet(1 .. Len(journal[m]))
  BY <1>1, FS_Interval
<1>3. Expired(m, c) \subseteq 1 .. Len(journal[m])
  BY DEF Expired
<1>4. QED
  BY <1>2, <1>3, FS_Subset, FS_CardinalityType

LEMMA EmptyMapsTyped ==
    /\ \A V : Partial(NoEntries, V)
    /\ NoEvents \in [Mac -> Seq(Event)]
BY EmptySeq DEF Partial, NoEntries, NoEvents

-----------------------------------------------------------------------------
(* Type correctness.                                                       *)

LEMMA InitTyped == Init => TypeOK
<1> SUFFICES ASSUME Init PROVE TypeOK
  OBVIOUS
<1>1. Partial(db, Row)
  BY StoredAssumption DEF Init, Partial, StoredRow
<1>2. /\ batch = [seen |-> batch.seen, moves |-> batch.moves, events |-> batch.events]
      /\ batch.seen = NoEntries /\ batch.moves = NoEntries /\ batch.events = NoEvents
  BY DEF Init, NoBatch
<1>3. now \in Time \ {0} /\ faults \in 0 .. MaxFaults /\ 0 \in Time
  BY BoundAssumption DEF Init, Time
<1>4. \A p \in Proc : listed[p] = NoEntries
  BY DEF Init
<1>5. QED
  BY <1>1, <1>2, <1>3, <1>4, EmptyMapsTyped DEF Init, TypeOK

\* A map all of whose keys are devices and all of whose values are in V.
LEMMA PartialIntro ==
    ASSUME NEW D \in SUBSET Mac, NEW V, NEW f, f \in [D -> V]
    PROVE  Partial(f, V)
BY DEF Partial

\* Events appended per device.
LEMMA ConcatEvents ==
    ASSUME NEW e \in [Mac -> Seq(Event)], NEW g \in [Mac -> Seq(Event)]
    PROVE  [m \in Mac |-> e[m] \o g[m]] \in [Mac -> Seq(Event)]
BY ConcatProperties

LEMMA RequestTyped ==
    ASSUME TypeOK, NEW p \in Handler, Request(p)
    PROVE  TypeOK'
<1>1. ASSUME NEW m \in Mac, NEW ip \in IP, Track(p, m, ip) PROVE TypeOK'
  <2>1. Partial(db', Row)
    <3>1. DOMAIN db \cup {m} \subseteq Mac
      BY DEF TypeOK, Partial
    <3>2. NewRow(ip) \in Row
      BY BoundAssumption DEF NewRow, Row, Time
    <3>3. m \in DOMAIN db => [db[m] EXCEPT !.ip = ip] \in Row
      <4>1. \A r \in Row : [r EXCEPT !.ip = ip] \in Row
        BY DEF Row
      <4>2. m \in DOMAIN db => db[m] \in Row
        BY DEF TypeOK, Partial
      <4>3. QED
        BY <4>1, <4>2
    <3>4. db' \in [DOMAIN db \cup {m} -> Row]
      BY <1>1, <3>2, <3>3 DEF Track, Add, Put, TypeOK, Partial
    <3>5. QED
      BY <3>1, <3>4, PartialIntro
  <2>2. QED
    BY <1>1, <2>1
    DEF Track, Begin, TypeOK, Partial, memVars, flushVars, probeVars
<1>2. ASSUME NEW m \in Mac, NEW ip \in IP, PatchIP(p, m, ip) PROVE TypeOK'
  <2>1. Partial(db', Row)
    <3>1. \A r \in Row : [r EXCEPT !.ip = ip] \in Row
      BY DEF Row
    <3>2. db \in [DOMAIN db -> Row] /\ DOMAIN db \subseteq Mac
      BY DEF TypeOK, Partial
    <3>3. db' = [n \in DOMAIN db |->
                   IF n = m THEN [db[m] EXCEPT !.ip = ip] ELSE db[n]]
      BY <1>2, <3>2 DEF PatchIP
    <3>4. db' \in [DOMAIN db -> Row]
      BY <1>2, <3>1, <3>2, <3>3 DEF PatchIP
    <3>5. QED
      BY <3>2, <3>4, PartialIntro
  <2>2. QED
    BY <1>2, <2>1
    DEF PatchIP, Begin, TypeOK, Partial, memVars, flushVars, probeVars
<1>3. ASSUME NEW m \in Mac, Untrack(p, m) PROVE TypeOK'
  <2>1. Partial(db', Row)
    BY <1>3 DEF Untrack, Drop, TypeOK, Partial
  <2>2. journal' \in [Mac -> Seq(Event)]
    BY <1>3, EmptySeq DEF Untrack, TypeOK
  <2>3. QED
    BY <1>3, <2>1, <2>2
    DEF Untrack, Begin, TypeOK, Partial, memVars, flushVars, probeVars
<1>4. ASSUME NEW m \in Mac, UntrackFails(p, m) PROVE TypeOK'
  <2>1. journal' \in [Mac -> Seq(Event)]
    BY <1>4, EmptySeq DEF UntrackFails, TypeOK
  <2>2. faults' \in 0 .. MaxFaults
    BY <1>4, BoundAssumption DEF UntrackFails, Fault, FaultAllowed, TypeOK
  <2>3. QED
    BY <1>4, <2>1, <2>2
    DEF UntrackFails, TypeOK, Partial, memVars, flushVars, reqVars, probeVars
<1>5. ASSUME EditConfig(p) PROVE TypeOK'
  BY <1>5
  DEF EditConfig, Begin, TypeOK, Partial, dbVars, memVars, flushVars, probeVars
<1>6. QED
  BY <1>1, <1>2, <1>3, <1>4, <1>5 DEF Request

LEMMA ReloadTyped ==
    ASSUME TypeOK, NEW p \in Proc, Reload(p)
    PROVE  TypeOK'
<1>1. ASSUME List(p) PROVE TypeOK'
  <2>1. \A q \in Proc : Partial(listed'[q], Row)
    BY <1>1 DEF List, TypeOK
  <2>2. QED
    BY <1>1, <2>1
    DEF List, TypeOK, Partial, dbVars, memVars, flushVars, probeVars
<1>2. ASSUME ListFails(p) PROVE TypeOK'
  <2>1. faults' \in 0 .. MaxFaults
    BY <1>2, BoundAssumption DEF ListFails, Fault, FaultAllowed, TypeOK
  <2>2. QED
    BY <1>2, <2>1
    DEF ListFails, Booted, TypeOK, Partial, dbVars, memVars, flushVars, probeVars
<1>3. ASSUME Load(p) PROVE TypeOK'
  <2>1. Partial(devs', Dev)
    <3>1. Partial(listed[p], Row) /\ Partial(devs, Dev)
      BY DEF TypeOK
    <3>2. \A m \in DOMAIN listed[p] : listed[p][m] \in Row
      BY <3>1 DEF Partial
    <3>3. \A m \in DOMAIN devs : devs[m] \in Dev
      BY <3>1 DEF Partial
    <3>4. \A m \in DOMAIN listed[p] :
             /\ Seeded(listed[p][m]) \in Dev
             /\ m \in DOMAIN devs => Reloaded(devs[m], listed[p][m]) \in Dev
      BY <3>2, <3>3, SeededIsDev, ReloadedIsDev
    <3>5. devs' \in [DOMAIN listed[p] -> Dev]
      BY <1>3, <3>4 DEF Load
    <3>6. QED
      BY <3>1, <3>5, PartialIntro DEF Partial
  <2>2. \A q \in Proc : Partial(listed'[q], Row)
    BY <1>3, EmptyMapsTyped DEF Load, TypeOK
  <2>3. DOMAIN listed' = Proc
    BY <1>3 DEF Load, TypeOK
  <2>4. QED
    BY <1>3, <2>1, <2>2, <2>3
    DEF Load, Booted, TypeOK, Partial, dbVars, flushVars, probeVars
<1>4. QED
  BY <1>1, <1>2, <1>3 DEF Reload

\* A drain leaves well-formed memory and a well-formed batch.
LEMMA DrainTyped ==
    ASSUME TypeOK, drain
    PROVE  /\ Partial(devs', Dev)
           /\ Partial(ipMoves', Addr)
           /\ events' \in [Mac -> Seq(Event)]
           /\ batch' = [seen |-> batch'.seen, moves |-> batch'.moves,
                        events |-> batch'.events]
           /\ Partial(batch'.seen, Scalars)
           /\ Partial(batch'.moves, Addr)
           /\ batch'.events \in [Mac -> Seq(Event)]
           /\ flushing' \in BOOLEAN
<1>1. /\ batch'.seen = [m \in {n \in DOMAIN devs : devs[n].dirty}
                          |-> ScalarsOf(devs[m])]
      /\ batch'.moves = ipMoves
      /\ batch'.events = events
      /\ batch' = [seen |-> batch'.seen, moves |-> batch'.moves,
                   events |-> batch'.events]
  BY DEF drain, Drained
<1>2. Partial(batch'.seen, Scalars)
  <2>1. \A m \in DOMAIN devs : ScalarsOf(devs[m]) \in Scalars
    BY DEF ScalarsOf, Scalars, Dev, TypeOK, Partial
  <2>2. {n \in DOMAIN devs : devs[n].dirty} \subseteq Mac
    BY DEF TypeOK, Partial
  <2>3. batch'.seen \in [{n \in DOMAIN devs : devs[n].dirty} -> Scalars]
    BY <1>1, <2>1
  <2>4. QED
    BY <2>2, <2>3, PartialIntro
<1>3. Partial(devs', Dev)
  <2>1. \A m \in DOMAIN devs : devs[m] \in Dev
    BY DEF TypeOK, Partial
  <2>2. devs' \in [DOMAIN devs -> Dev]
    BY <2>1, MarkedIsDev DEF drain
  <2>3. QED
    BY <2>2, PartialIntro DEF TypeOK, Partial
<1>4. QED
  BY <1>1, <1>2, <1>3, EmptyMapsTyped DEF drain, TypeOK

\* The end of a flush, committed or handed back.
LEMMA FlushTyped ==
    ASSUME TypeOK, FlushCommit \/ FlushFails
    PROVE  TypeOK'
<1>1. /\ batch' = [seen |-> batch'.seen, moves |-> batch'.moves,
                   events |-> batch'.events]
      /\ Partial(batch'.seen, Scalars)
      /\ Partial(batch'.moves, Addr)
      /\ batch'.events \in [Mac -> Seq(Event)]
      /\ flushing' \in BOOLEAN
  <2>1. batch' = NoBatch /\ flushing' = FALSE
    BY DEF FlushCommit, FlushFails
  <2>2. QED
    BY <2>1, EmptyMapsTyped DEF NoBatch
<1>2. CASE FlushCommit
  <2>1. Partial(db', Row)
    <3>1. \A m \in DOMAIN db : db[m] \in Row
      BY DEF TypeOK, Partial
    <3>2. \A m \in DOMAIN batch.seen : batch.seen[m] \in Scalars
      BY DEF TypeOK, Partial
    <3>3. \A m \in DOMAIN batch.moves : batch.moves[m] \in IP
      BY DEF TypeOK, Partial, IP
    <3>4. \A m \in DOMAIN db \cap DOMAIN batch.seen :
            Flushed(db[m], batch.seen[m]) \in Row
      BY <3>1, <3>2, FlushedIsRow
    <3>5. \A r \in Row, ip \in IP : [r EXCEPT !.ip = ip] \in Row
      BY DEF Row
    <3>6. db' \in [DOMAIN db -> Row]
      BY <1>2, <3>1, <3>3, <3>4, <3>5 DEF FlushCommit, CommitBatch
    <3>7. QED
      BY <3>6, PartialIntro DEF TypeOK, Partial
  <2>2. journal' \in [Mac -> Seq(Event)]
    BY <1>2, ConcatEvents DEF FlushCommit, CommitBatch, TypeOK
  <2>3. QED
    BY <1>1, <1>2, <2>1, <2>2
    DEF FlushCommit, TypeOK, Partial, memVars, reqVars, probeVars
<1>3. CASE FlushFails
  <2>1. Partial(devs', Dev)
    <3>1. \A m \in DOMAIN devs : devs[m] \in Dev
      BY DEF TypeOK, Partial
    <3>2. devs' \in [DOMAIN devs -> Dev]
      BY <1>3, <3>1, MarkedIsDev DEF FlushFails, restore
    <3>3. QED
      BY <3>2, PartialIntro DEF TypeOK, Partial
  <2>2. Partial(ipMoves', Addr)
    <3>1. DOMAIN ipMoves \cup DOMAIN batch.moves \subseteq Mac
      BY DEF TypeOK, Partial
    <3>2. ipMoves' \in [DOMAIN ipMoves \cup DOMAIN batch.moves -> Addr]
      BY <1>3 DEF FlushFails, restore, TypeOK, Partial
    <3>3. QED
      BY <3>1, <3>2, PartialIntro
  <2>3. events' \in [Mac -> Seq(Event)]
    BY <1>3, ConcatEvents DEF FlushFails, restore, TypeOK
  <2>4. faults' \in 0 .. MaxFaults
    BY <1>3, BoundAssumption DEF FlushFails, Fault, FaultAllowed, TypeOK
  <2>5. QED
    BY <1>1, <1>3, <2>1, <2>2, <2>3, <2>4
    DEF FlushFails, TypeOK, Partial, dbVars, reqVars, probeVars
<1>4. QED
  BY <1>2, <1>3

LEMMA LoopsTyped ==
    ASSUME TypeOK, Loops
    PROVE  TypeOK'
<1>1. CASE RenderSample
  BY <1>1
  DEF RenderSample, TypeOK, Partial, dbVars, memVars, flushVars, reqVars, probeVars
<1>2. CASE ApplyNeigh
  <2> PICK present \in SUBSET DOMAIN devs :
         \E neigh \in [present -> IP] : applyNeigh(neigh, render.at)
    BY <1>2 DEF ApplyNeigh
  <2>1. PICK neigh \in [present -> IP] : applyNeigh(neigh, render.at)
    OBVIOUS
  <2> DEFINE moved == {m \in present : neigh[m] \notin {NoIP, devs[m].ip}}
  <2>2. Partial(devs', Dev)
    <3>1. \A m \in DOMAIN devs : devs[m] \in Dev
      BY DEF TypeOK, Partial
    <3>2. render.at \in Time
      BY DEF TypeOK
    <3>3. \A m \in present : Sighted(devs[m], neigh[m], render.at) \in Dev
      BY <3>1, <3>2, SightedIsDev
    <3>4. devs' \in [DOMAIN devs -> Dev]
      BY <2>1, <3>1, <3>3 DEF applyNeigh
    <3>5. DOMAIN devs \subseteq Mac
      BY DEF TypeOK, Partial
    <3>6. QED
      BY <3>4, <3>5, PartialIntro
  <2>3. Partial(ipMoves', Addr)
    <3>1. \A m \in moved : neigh[m] \in Addr
      BY DEF IP
    <3>2. \A m \in DOMAIN ipMoves : ipMoves[m] \in Addr
      BY DEF TypeOK, Partial
    <3>3. DOMAIN ipMoves \cup moved \subseteq Mac
      BY DEF TypeOK, Partial
    <3>4. ipMoves' \in [DOMAIN ipMoves \cup moved -> Addr]
      BY <2>1, <3>1, <3>2 DEF applyNeigh
    <3>5. QED
      BY <3>3, <3>4, PartialIntro
  <2>4. render' \in [pc : {"idle", "sampled"}, at : Time]
    BY <1>2, BoundAssumption DEF ApplyNeigh, Time
  <2>5. QED
    BY <1>2, <2>2, <2>3, <2>4
    DEF ApplyNeigh, TypeOK, Partial, dbVars, flushVars, reqVars, probeVars
<1>3. CASE ProbeStart
  <2>1. probe' \in [pc : {"idle", "probing", "answered"}, at : Time,
                    targets : SUBSET Mac]
    BY <1>3, BoundAssumption DEF ProbeStart, Time, TypeOK, Partial
  <2>2. QED
    BY <1>3, <2>1
    DEF ProbeStart, TypeOK, Partial, dbVars, memVars, flushVars, reqVars
<1>4. CASE ProbeAnswered
  BY <1>4
  DEF ProbeAnswered, TypeOK, Partial, dbVars, memVars, flushVars, reqVars
<1>5. CASE ApplyProbes
  <2>1. PICK answer \in [probe.targets \cap DOMAIN devs -> Answer] :
          applyProbes(answer, probe.at)
    BY <1>5 DEF ApplyProbes
  <2>2. probe.at \in Time
    BY DEF TypeOK
  <2>3. Partial(devs', Dev)
    <3>1. \A m \in DOMAIN devs : devs[m] \in Dev
      BY DEF TypeOK, Partial
    <3>2. \A m \in DOMAIN answer : Probed(devs[m], answer[m], probe.at) \in Dev
      BY <2>2, <3>1, ProbedIsDev
    <3>3. devs' \in [DOMAIN devs -> Dev]
      BY <2>1, <3>1, <3>2 DEF applyProbes
    <3>4. DOMAIN devs \subseteq Mac
      BY DEF TypeOK, Partial
    <3>5. QED
      BY <3>3, <3>4, PartialIntro
  <2>4. events' \in [Mac -> Seq(Event)]
    <3>1. \A m \in DOMAIN answer :
            [ts |-> probe.at, state |-> Verdict(answer[m])] \in Event
      BY <2>2 DEF Event, Verdict
    <3>2. \A m \in DOMAIN answer : m \in Mac =>
            Append(events[m], [ts |-> probe.at, state |-> Verdict(answer[m])])
              \in Seq(Event)
      BY <3>1, AppendProperties DEF TypeOK
    <3>3. QED
      BY <2>1, <3>2 DEF applyProbes, TypeOK
  <2>5. probe' \in [pc : {"idle", "probing", "answered"}, at : Time,
                    targets : SUBSET Mac]
    BY <1>5, BoundAssumption DEF ApplyProbes, Time
  <2>6. QED
    BY <1>5, <2>3, <2>4, <2>5
    DEF ApplyProbes, TypeOK, Partial, dbVars, flushVars, reqVars
<1>6. CASE ProbeGateClosed
  <2>1. Partial(devs', Dev)
    <3>1. \A m \in DOMAIN devs : devs[m] \in Dev
      BY DEF TypeOK, Partial
    <3>2. devs' \in [DOMAIN devs -> Dev]
      BY <1>6, <3>1, MarkedIsDev DEF ProbeGateClosed, clearLive
    <3>3. QED
      BY <3>2, PartialIntro DEF TypeOK, Partial
  <2>2. QED
    BY <1>6, <2>1
    DEF ProbeGateClosed, TypeOK, Partial, dbVars, flushVars, reqVars
<1>7. CASE FlushDrain
  BY <1>7, DrainTyped
  DEF FlushDrain, TypeOK, Partial, dbVars, reqVars, probeVars
<1>8. CASE FlushCommit
  BY <1>8, FlushTyped
<1>9. CASE FlushFails
  BY <1>9, FlushTyped
<1>10. CASE PruneEvents
  <2>1. journal' \in [Mac -> Seq(Event)]
    <3>1. PICK cutoff \in 1 .. now :
            journal' = [m \in Mac |-> SubSeq(journal[m],
                                             Cardinality(Expired(m, cutoff)) + 1,
                                             Len(journal[m]))]
      BY <1>10 DEF PruneEvents
    <3>2. \A m \in Mac : journal[m] \in Seq(Event)
      BY DEF TypeOK
    <3>3. \A m \in Mac : Cardinality(Expired(m, cutoff)) \in Nat
      BY <3>2, ExpiredIsFinite
    <3>4. QED
      BY <3>1, <3>2, <3>3, PrunedIsSeq
  <2>2. QED
    BY <1>10, <2>1
    DEF PruneEvents, TypeOK, Partial, memVars, flushVars, reqVars, probeVars
<1>11. QED
  BY <1>1, <1>2, <1>3, <1>4, <1>5, <1>6, <1>7, <1>8, <1>9, <1>10 DEF Loops

LEMMA NewProcessTyped ==
    ASSUME TypeOK, NewProcess, UNCHANGED <<dbVars, now>>, faults' \in 0 .. MaxFaults
    PROVE  TypeOK'
<1>1. 0 \in Time
  BY BoundAssumption DEF Time
<1>2. /\ batch' = [seen |-> batch'.seen, moves |-> batch'.moves,
                   events |-> batch'.events]
      /\ Partial(batch'.seen, Scalars)
      /\ Partial(batch'.moves, Addr)
      /\ batch'.events \in [Mac -> Seq(Event)]
  BY EmptyMapsTyped DEF NewProcess, NoBatch
<1>3. DOMAIN listed' = Proc /\ \A p \in Proc : Partial(listed'[p], Row)
  BY EmptyMapsTyped DEF NewProcess
<1>4. Partial(devs', Dev) /\ Partial(ipMoves', Addr) /\ events' \in [Mac -> Seq(Event)]
  BY EmptyMapsTyped DEF NewProcess
<1>5. QED
  BY <1>1, <1>2, <1>3, <1>4 DEF NewProcess, TypeOK, Partial, dbVars

LEMMA ShutdownTyped ==
    ASSUME TypeOK, Shutdown \/ Crash \/ Tick
    PROVE  TypeOK'
<1>1. CASE FinalDrain
  BY <1>1, DrainTyped
  DEF FinalDrain, TypeOK, Partial, dbVars, reqVars, probeVars
<1>2. CASE FinalNothing
  BY <1>2
  DEF FinalNothing, TypeOK, Partial, dbVars, memVars, flushVars, reqVars, probeVars
<1>3. CASE Restart
  BY <1>3, NewProcessTyped DEF Restart, TypeOK
<1>4. CASE Crash
  <2>1. faults' \in 0 .. MaxFaults
    BY <1>4, BoundAssumption DEF Crash, Fault, FaultAllowed, TypeOK
  <2>2. QED
    BY <1>4, <2>1, NewProcessTyped DEF Crash
<1>5. CASE Tick
  <2>1. now' \in Time \ {0}
    BY <1>5, BoundAssumption DEF Tick, TypeOK, Time
  <2>2. QED
    BY <1>5, <2>1
    DEF Tick, TypeOK, Partial, dbVars, memVars, flushVars, reqVars, probeVars
<1>6. QED
  BY <1>1, <1>2, <1>3, <1>4, <1>5 DEF Shutdown

LEMMA NextTyped == TypeOK /\ [Next]_vars => TypeOK'
<1> SUFFICES ASSUME TypeOK, [Next]_vars PROVE TypeOK'
  OBVIOUS
<1>1. CASE UNCHANGED vars
  BY <1>1 DEF vars, TypeOK, Partial
<1>2. CASE Next
  BY <1>2, RequestTyped, ReloadTyped, LoopsTyped, ShutdownTyped DEF Next
<1>3. QED
  BY <1>1, <1>2

\* Every table, map and value carried between critical sections is well formed
\* in every reachable state (the model of state.go and store.go).
THEOREM TypeCorrect == Spec => []TypeOK
<1>1. QED
  BY InitTyped, NextTyped, PTL DEF Spec

-----------------------------------------------------------------------------
(* Every operator that builds a record keeps its last-up within a bound.    *)

LEMMA SoundLater ==
    ASSUME NEW r, NEW a \in Int, NEW b \in Int, a <= b, r.up \in Int, Sound(r, a)
    PROVE  Sound(r, b)
BY DEF Sound

LEMMA SoundNewRow ==
    ASSUME NEW ip, NEW b \in Nat
    PROVE  Sound(NewRow(ip), b)
BY DEF Sound, NewRow

LEMMA SoundSeeded ==
    ASSUME NEW r \in Row, NEW b, Sound(r, b)
    PROVE  Sound(Seeded(r), b)
BY DEF Sound, Seeded

LEMMA SoundReloaded ==
    ASSUME NEW d \in Dev, NEW r \in Row, NEW b \in Int, Sound(d, b), Sound(r, b)
    PROVE  Sound(Reloaded(d, r), b)
BY DEF Sound, Reloaded, max64, Dev, Row, Time

LEMMA SoundFlushed ==
    ASSUME NEW r \in Row, NEW s \in Scalars, NEW b \in Int, Sound(r, b), Sound(s, b)
    PROVE  Sound(Flushed(r, s), b)
BY DEF Sound, Flushed, max64, Scalars, Row, Time

LEMMA SoundSighted ==
    ASSUME NEW d \in Dev, NEW ip, NEW t \in Time, NEW b \in Int, Sound(d, b)
    PROVE  Sound(Sighted(d, ip, t), b)
BY DEF Sound, Sighted, Dev, Time

LEMMA SoundProbed ==
    ASSUME NEW d \in Dev, NEW a \in Answer, NEW t \in Time, Sound(d, t)
    PROVE  Sound(Probed(d, a, t), t)
BY DEF Sound, Probed, Dev, Time

LEMMA SoundMarked ==
    ASSUME NEW d \in Dev, NEW b, Sound(d, b)
    PROVE  /\ \A v : Sound([d EXCEPT !.dirty = v], b)
           /\ \A v : Sound([d EXCEPT !.status = v], b)
           /\ Sound(ScalarsOf(d), b)
BY DEF Sound, Dev, ScalarsOf

LEMMA SoundMoved ==
    ASSUME NEW r \in Row, NEW ip, NEW b, Sound(r, b)
    PROVE  Sound([r EXCEPT !.ip = ip], b)
BY DEF Sound, Row

LEMMA SoundMapLater ==
    ASSUME NEW f, NEW a \in Int, NEW b \in Int, a <= b,
           \A m \in DOMAIN f : f[m].up \in Int, SoundMap(f, a)
    PROVE  SoundMap(f, b)
BY SoundLater DEF SoundMap

LEMMA SoundEmpty == \A b : SoundMap(NoEntries, b)
BY DEF SoundMap, NoEntries

\* What TypeOK says of the records, in the form the steps below use.
LEMMA RecordsTyped ==
    ASSUME TypeOK
    PROVE  /\ \A m \in DOMAIN db : db[m] \in Row
           /\ \A m \in DOMAIN devs : devs[m] \in Dev
           /\ \A m \in DOMAIN batch.seen : batch.seen[m] \in Scalars
           /\ \A p \in Proc : \A m \in DOMAIN listed[p] : listed[p][m] \in Row
           /\ now \in Time /\ now > 0 /\ probe.at \in Time /\ render.at \in Time
           /\ UpBound \in Time
BY DEF TypeOK, Partial, UpBound, Time

\* The bound only grows.
LEMMA RecordsLater ==
    ASSUME TypeOK, ScalarInv, NEW b \in Int, UpBound <= b
    PROVE  /\ SoundMap(db, b) /\ SoundMap(devs, b) /\ SoundMap(batch.seen, b)
           /\ \A p \in Proc : SoundMap(listed[p], b)
<1>1. UpBound \in Int
  BY RecordsTyped DEF Time
<1>2. /\ \A m \in DOMAIN db : db[m].up \in Int
      /\ \A m \in DOMAIN devs : devs[m].up \in Int
      /\ \A m \in DOMAIN batch.seen : batch.seen[m].up \in Int
      /\ \A p \in Proc : \A m \in DOMAIN listed[p] : listed[p][m].up \in Int
  BY RecordsTyped DEF Row, Dev, Scalars, Time
<1>3. QED
  BY <1>1, <1>2, SoundMapLater DEF ScalarInv

-----------------------------------------------------------------------------
(* ScalarInv is inductive.                                                 *)

LEMMA InitScalar == Init => ScalarInv
<1> SUFFICES ASSUME Init PROVE ScalarInv
  OBVIOUS
<1>1. UpBound = 1
  BY DEF Init, UpBound
<1>2. SoundMap(db, 1)
  <2>1. PICK D \in SUBSET Mac : db \in [D -> Stored]
    BY DEF Init
  <2>2. \A r \in Stored : Sound(r, 1)
    BY StoredAssumption DEF StoredRow, Sound, Row, Time
  <2>3. QED
    BY <2>1, <2>2 DEF SoundMap
<1>3. SoundMap(devs, 1) /\ SoundMap(batch.seen, 1)
  BY SoundEmpty DEF Init, NoBatch
<1>4. \A p \in Proc : SoundMap(listed[p], 1)
  BY SoundEmpty DEF Init
<1>5. QED
  BY <1>1, <1>2, <1>3, <1>4 DEF ScalarInv, Init

LEMMA RequestScalar ==
    ASSUME TypeOK, ScalarInv, NEW p \in Handler, Request(p)
    PROVE  ScalarInv'
<1>1. UpBound \in Nat /\ UNCHANGED <<probe, now, devs, batch, listed>>
  BY RecordsTyped
  DEF Request, Track, PatchIP, Untrack, UntrackFails, EditConfig, memVars,
      flushVars, probeVars, reqVars, Time
<1>2. UpBound' = UpBound
  BY <1>1 DEF UpBound
<1>3. SoundMap(db', UpBound)
  <2>1. CASE \E m \in Mac, ip \in IP : Track(p, m, ip)
    <3>1. PICK m \in Mac, ip \in IP : Track(p, m, ip)
      BY <2>1
    <3>2. Sound(NewRow(ip), UpBound)
      BY <1>1, SoundNewRow
    <3>3. m \in DOMAIN db => Sound([db[m] EXCEPT !.ip = ip], UpBound)
      BY RecordsTyped, SoundMoved DEF ScalarInv, SoundMap
    <3>4. QED
      BY <3>1, <3>2, <3>3 DEF Track, Add, Put, ScalarInv, SoundMap
  <2>2. CASE \E m \in Mac, ip \in IP : PatchIP(p, m, ip)
    <3>1. PICK m \in Mac, ip \in IP : PatchIP(p, m, ip)
      BY <2>2
    <3>2. db' = [n \in DOMAIN db |->
                   IF n = m THEN [db[m] EXCEPT !.ip = ip] ELSE db[n]]
      BY <3>1 DEF PatchIP, TypeOK, Partial
    <3>3. m \in DOMAIN db => Sound([db[m] EXCEPT !.ip = ip], UpBound)
      BY RecordsTyped, SoundMoved DEF ScalarInv, SoundMap
    <3>4. QED
      BY <3>2, <3>3 DEF ScalarInv, SoundMap
  <2>3. CASE \E m \in Mac : Untrack(p, m)
    BY <2>3 DEF Untrack, Drop, ScalarInv, SoundMap
  <2>4. CASE UNCHANGED db
    BY <2>4 DEF ScalarInv
  <2>5. QED
    BY <2>1, <2>2, <2>3, <2>4
    DEF Request, UntrackFails, EditConfig, dbVars
<1>4. QED
  BY <1>1, <1>2, <1>3 DEF ScalarInv

LEMMA ReloadScalar ==
    ASSUME TypeOK, ScalarInv, NEW p \in Proc, Reload(p)
    PROVE  ScalarInv'
<1>1. UpBound \in Int /\ UNCHANGED <<probe, now, db, batch>>
  BY RecordsTyped
  DEF Reload, List, ListFails, Load, dbVars, flushVars, probeVars, Time
<1>2. UpBound' = UpBound
  BY <1>1 DEF UpBound
<1>3. SoundMap(devs', UpBound)
  <2>1. CASE Load(p)
    <3>1. ASSUME NEW m \in DOMAIN listed[p]
          PROVE  /\ Sound(Seeded(listed[p][m]), UpBound)
                 /\ m \in DOMAIN devs =>
                      Sound(Reloaded(devs[m], listed[p][m]), UpBound)
      BY <1>1, RecordsTyped, SoundSeeded, SoundReloaded DEF ScalarInv, SoundMap
    <3>2. QED
      BY <2>1, <3>1 DEF Load, SoundMap
  <2>2. CASE UNCHANGED devs
    BY <2>2 DEF ScalarInv
  <2>3. QED
    BY <2>1, <2>2 DEF Reload, List, ListFails, memVars
<1>4. \A q \in Proc : SoundMap(listed'[q], UpBound)
  <2>1. \A q \in Proc : listed'[q] \in {listed[q], db, NoEntries}
    BY DEF Reload, List, ListFails, Load, TypeOK
  <2>2. QED
    BY <2>1, SoundEmpty DEF ScalarInv
<1>5. QED
  BY <1>1, <1>2, <1>3, <1>4 DEF ScalarInv

LEMMA RenderScalar ==
    ASSUME TypeOK, ScalarInv, RenderSample \/ ApplyNeigh
    PROVE  ScalarInv'
<1>1. UpBound \in Int /\ UNCHANGED <<probe, now, db, batch, listed>>
  BY RecordsTyped
  DEF RenderSample, ApplyNeigh, dbVars, flushVars, probeVars, reqVars, Time
<1>2. UpBound' = UpBound
  BY <1>1 DEF UpBound
<1>3. SoundMap(devs', UpBound)
  <2>1. CASE ApplyNeigh
    <3> PICK present \in SUBSET DOMAIN devs :
           \E neigh \in [present -> IP] : applyNeigh(neigh, render.at)
      BY <2>1 DEF ApplyNeigh
    <3>1. PICK neigh \in [present -> IP] : applyNeigh(neigh, render.at)
      OBVIOUS
    <3>2. \A m \in present : Sound(Sighted(devs[m], neigh[m], render.at), UpBound)
      BY <1>1, RecordsTyped, SoundSighted DEF ScalarInv, SoundMap
    <3>3. QED
      BY <3>1, <3>2 DEF applyNeigh, ScalarInv, SoundMap
  <2>2. CASE RenderSample
    BY <2>2 DEF RenderSample, memVars, ScalarInv
  <2>3. QED
    BY <2>1, <2>2
<1>4. QED
  BY <1>1, <1>2, <1>3 DEF ScalarInv

LEMMA ProbeScalar ==
    ASSUME TypeOK, ScalarInv,
           ProbeStart \/ ProbeAnswered \/ ApplyProbes \/ ProbeGateClosed
    PROVE  ScalarInv'
<1>1. UNCHANGED <<now, db, batch, listed>>
  BY DEF ProbeStart, ProbeAnswered, ApplyProbes, ProbeGateClosed, dbVars,
         flushVars, reqVars
<1>2. /\ now \in Time /\ now > 0 /\ probe.at \in Time
      /\ UpBound \in Time /\ UpBound <= now
      /\ probe.pc = "answered" => (UpBound = probe.at /\ probe.at > 0)
  BY RecordsTyped DEF ScalarInv, UpBound, Time
<1>3. /\ UpBound' \in Int /\ UpBound <= UpBound'
      /\ probe'.pc = "answered" => probe'.at \in 1 .. now'
  <2>1. now \in Int /\ now > 0 /\ UpBound \in Int
    BY <1>2 DEF Time
  <2>2. CASE ProbeAnswered
    <3>1. probe'.pc = "answered" /\ probe'.at = now
      BY <2>2 DEF ProbeAnswered, TypeOK
    <3>2. QED
      BY <1>1, <1>2, <2>1, <3>1 DEF UpBound
  <2>3. CASE ProbeStart \/ ApplyProbes \/ ProbeGateClosed
    <3>1. probe'.pc # "answered"
      BY <2>3 DEF ProbeStart, ApplyProbes, ProbeGateClosed
    <3>2. QED
      BY <1>1, <1>2, <2>1, <3>1 DEF UpBound
  <2>4. QED
    BY <2>2, <2>3
<1>4. /\ SoundMap(db, UpBound') /\ SoundMap(devs, UpBound')
      /\ SoundMap(batch.seen, UpBound')
      /\ \A p \in Proc : SoundMap(listed[p], UpBound')
  BY <1>3, RecordsLater
<1>5. SoundMap(devs', UpBound')
  <2>1. CASE ApplyProbes
    <3>1. PICK answer \in [probe.targets \cap DOMAIN devs -> Answer] :
            applyProbes(answer, probe.at)
      BY <2>1 DEF ApplyProbes
    <3>2. \A m \in DOMAIN answer : Sound(devs[m], probe.at)
      BY <1>2, <2>1 DEF ApplyProbes, ScalarInv, SoundMap
    <3>3. \A m \in DOMAIN answer :
            Sound(Probed(devs[m], answer[m], probe.at), probe.at)
      BY <1>2, <2>1, <3>2, RecordsTyped, SoundProbed DEF ApplyProbes
    <3>4. \A m \in DOMAIN answer :
            Sound(Probed(devs[m], answer[m], probe.at), UpBound')
      <4>1. probe.at <= UpBound' /\ probe.at \in Int
        BY <1>2, <1>3, <2>1 DEF ApplyProbes, Time
      <4>2. \A m \in DOMAIN answer :
              Probed(devs[m], answer[m], probe.at).up \in Int
        <5>1. \A m \in DOMAIN answer :
                Probed(devs[m], answer[m], probe.at) \in Dev
          BY <1>2, RecordsTyped, ProbedIsDev
        <5>2. QED
          BY <5>1 DEF Dev, Time
      <4>3. QED
        BY <1>3, <3>3, <4>1, <4>2, SoundLater
    <3>5. QED
      BY <1>4, <3>1, <3>4 DEF applyProbes, SoundMap
  <2>2. CASE ProbeGateClosed
    BY <1>4, <2>2, RecordsTyped, SoundMarked
    DEF ProbeGateClosed, clearLive, SoundMap
  <2>3. CASE ProbeStart \/ ProbeAnswered
    BY <1>4, <2>3 DEF ProbeStart, ProbeAnswered, memVars
  <2>4. QED
    BY <2>1, <2>2, <2>3
<1>6. QED
  BY <1>1, <1>3, <1>4, <1>5 DEF ScalarInv

LEMMA DrainScalar ==
    ASSUME TypeOK, ScalarInv, drain, UNCHANGED <<db, listed, probe, now>>
    PROVE  ScalarInv'
<1>1. UpBound' = UpBound
  BY DEF UpBound
<1>2. \A m \in DOMAIN devs : /\ Sound([devs[m] EXCEPT !.dirty = FALSE], UpBound)
                             /\ Sound(ScalarsOf(devs[m]), UpBound)
  BY RecordsTyped, SoundMarked DEF ScalarInv, SoundMap
<1>3. SoundMap(devs', UpBound) /\ SoundMap(batch'.seen, UpBound)
  BY <1>2 DEF drain, Drained, SoundMap
<1>4. QED
  BY <1>1, <1>3 DEF ScalarInv

LEMMA FlushScalar ==
    ASSUME TypeOK, ScalarInv, FlushCommit \/ FlushFails \/ PruneEvents
    PROVE  ScalarInv'
<1>1. UpBound \in Int /\ UNCHANGED <<probe, now, listed>>
  BY RecordsTyped
  DEF FlushCommit, FlushFails, PruneEvents, probeVars, reqVars, Time
<1>2. UpBound' = UpBound
  BY <1>1 DEF UpBound
<1>3. SoundMap(batch'.seen, UpBound)
  BY SoundEmpty
  DEF FlushCommit, FlushFails, PruneEvents, NoBatch, flushVars, ScalarInv
<1>4. SoundMap(db', UpBound)
  <2>1. CASE FlushCommit
    <3>1. \A m \in DOMAIN db \cap DOMAIN batch.seen :
            /\ Flushed(db[m], batch.seen[m]) \in Row
            /\ Sound(Flushed(db[m], batch.seen[m]), UpBound)
      BY <1>1, RecordsTyped, FlushedIsRow, SoundFlushed DEF ScalarInv, SoundMap
    <3>2. \A m \in DOMAIN db : db[m] \in Row /\ Sound(db[m], UpBound)
      BY RecordsTyped DEF ScalarInv, SoundMap
    <3> DEFINE merged(m) == IF m \in DOMAIN batch.seen
                              THEN Flushed(db[m], batch.seen[m]) ELSE db[m]
    <3>3. \A m \in DOMAIN db : merged(m) \in Row /\ Sound(merged(m), UpBound)
      BY <3>1, <3>2
    <3>4. \A m \in DOMAIN db : \A ip : Sound([merged(m) EXCEPT !.ip = ip], UpBound)
      BY <3>3, SoundMoved
    <3>5. QED
      BY <2>1, <3>3, <3>4 DEF FlushCommit, CommitBatch, SoundMap
  <2>2. CASE UNCHANGED db
    BY <2>2 DEF ScalarInv
  <2>3. QED
    BY <2>1, <2>2 DEF FlushFails, PruneEvents, dbVars
<1>5. SoundMap(devs', UpBound)
  <2>1. CASE FlushFails
    BY <2>1, RecordsTyped, SoundMarked DEF FlushFails, restore, ScalarInv, SoundMap
  <2>2. CASE UNCHANGED devs
    BY <2>2 DEF ScalarInv
  <2>3. QED
    BY <2>1, <2>2 DEF FlushCommit, PruneEvents, memVars
<1>6. QED
  BY <1>1, <1>2, <1>3, <1>4, <1>5 DEF ScalarInv

LEMMA NewProcessScalar ==
    ASSUME TypeOK, ScalarInv, NewProcess, UNCHANGED <<dbVars, now>>
    PROVE  ScalarInv'
<1>1. UpBound' = now
  BY DEF NewProcess, UpBound, dbVars
<1>2. now \in Int /\ UpBound <= now
  BY RecordsTyped DEF ScalarInv, UpBound, Time
<1>3. SoundMap(db', now)
  BY <1>2, RecordsLater DEF dbVars
<1>4. \A p \in Proc : listed'[p] = NoEntries
  BY DEF NewProcess
<1>5. QED
  BY <1>1, <1>3, <1>4, SoundEmpty DEF NewProcess, NoBatch, ScalarInv

LEMMA ShutdownScalar ==
    ASSUME TypeOK, ScalarInv, Shutdown \/ Crash \/ Tick
    PROVE  ScalarInv'
<1>1. CASE FinalDrain
  BY <1>1, DrainScalar DEF FinalDrain, dbVars, reqVars, probeVars
<1>2. CASE FinalNothing
  BY <1>2
  DEF FinalNothing, ScalarInv, UpBound, dbVars, memVars, flushVars, reqVars, probeVars
<1>3. CASE Restart \/ Crash
  BY <1>3, NewProcessScalar DEF Restart, Crash
<1>4. CASE Tick
  <2>1. now \in Time /\ probe.at \in Time
    BY RecordsTyped
  <2>2. UpBound' \in Int /\ UpBound <= UpBound'
    BY <1>4, <2>1 DEF Tick, UpBound, Time, probeVars
  <2>3. probe.pc = "answered" => probe.at \in 1 .. now'
    BY <1>4, <2>1 DEF Tick, ScalarInv, Time
  <2>4. QED
    BY <1>4, <2>2, <2>3, RecordsLater
    DEF Tick, ScalarInv, dbVars, memVars, flushVars, reqVars, probeVars
<1>5. QED
  BY <1>1, <1>2, <1>3, <1>4 DEF Shutdown

LEMMA NextScalar == TypeOK /\ ScalarInv /\ [Next]_vars => ScalarInv'
<1> SUFFICES ASSUME TypeOK, ScalarInv, [Next]_vars PROVE ScalarInv'
  OBVIOUS
<1>1. CASE UNCHANGED vars
  BY <1>1 DEF vars, ScalarInv, UpBound
<1>2. CASE Loops
  <2>1. CASE FlushDrain
    BY <2>1, DrainScalar DEF FlushDrain, dbVars, reqVars, probeVars
  <2>2. QED
    BY <1>2, <2>1, RenderScalar, ProbeScalar, FlushScalar DEF Loops
<1>3. CASE Next
  BY <1>2, <1>3, RequestScalar, ReloadScalar, ShutdownScalar DEF Next
<1>4. QED
  BY <1>1, <1>3

LEMMA ScalarInvariant == Spec => []ScalarInv
<1>1. QED
  BY InitScalar, NextScalar, TypeCorrect, PTL DEF Spec

-----------------------------------------------------------------------------
(* What the scalars promise.                                               *)

LEMMA FlushedAtLeast ==
    ASSUME NEW r \in Row, NEW s \in Scalars
    PROVE  AtLeast(Flushed(r, s), r) /\ AtLeast(Flushed(r, s), s)
BY DEF AtLeast, Flushed, max64, Row, Scalars, Time

LEMMA AtLeastReflexive ==
    ASSUME NEW r, r.up \in Int, r.seen \in Int
    PROVE  AtLeast(r, r)
BY DEF AtLeast

LEMMA MonotoneStep ==
    ASSUME TypeOK, [Next]_vars, NEW m \in DOMAIN db, m \in DOMAIN db'
    PROVE  AtLeast(db[m]', db[m])
<1>1. db[m] \in Row /\ AtLeast(db[m], db[m])
  BY RecordsTyped, AtLeastReflexive DEF Row, Time
<1>2. \A ip : AtLeast([db[m] EXCEPT !.ip = ip], db[m])
  BY <1>1 DEF AtLeast, Row
<1>3. CASE FlushCommit
  <2> DEFINE merged == IF m \in DOMAIN batch.seen
                         THEN Flushed(db[m], batch.seen[m]) ELSE db[m]
  <2>1. merged \in Row /\ AtLeast(merged, db[m])
    BY <1>1, RecordsTyped, FlushedIsRow, FlushedAtLeast
  <2>2. \A ip : AtLeast([merged EXCEPT !.ip = ip], db[m])
    BY <2>1 DEF AtLeast, Row
  <2>3. QED
    BY <1>3, <2>1, <2>2 DEF FlushCommit, CommitBatch
<1>4. CASE \E p \in Handler : Request(p)
  <2> PICK p \in Handler : Request(p)
    BY <1>4
  <2>1. ASSUME NEW k \in Mac, NEW ip \in IP, Track(p, k, ip)
        PROVE  AtLeast(db[m]', db[m])
    BY <1>1, <1>2, <2>1 DEF Track, Add, Put
  <2>2. ASSUME NEW k \in Mac, NEW ip \in IP, PatchIP(p, k, ip)
        PROVE  AtLeast(db[m]', db[m])
    <3>1. db' = [n \in DOMAIN db |->
                   IF n = k THEN [db[k] EXCEPT !.ip = ip] ELSE db[n]]
      BY <2>2 DEF PatchIP, TypeOK, Partial
    <3>2. QED
      BY <1>1, <1>2, <3>1
  <2>3. ASSUME NEW k \in Mac, Untrack(p, k) PROVE AtLeast(db[m]', db[m])
    BY <1>1, <2>3 DEF Untrack, Drop
  <2>4. CASE UNCHANGED db
    BY <1>1, <2>4
  <2>5. QED
    BY <2>1, <2>2, <2>3, <2>4 DEF Request, UntrackFails, EditConfig, dbVars
<1>5. CASE UNCHANGED db
  BY <1>1, <1>5
<1>6. QED
  BY <1>3, <1>4, <1>5
  DEF Next, Reload, Loops, Shutdown, vars, dbVars, List, ListFails, Load,
      RenderSample, ApplyNeigh, ProbeStart, ProbeAnswered, ApplyProbes,
      ProbeGateClosed, FlushDrain, FlushFails, PruneEvents, FinalDrain,
      FinalNothing, Restart, Crash, Tick

\* What a sighting and a verdict do to "last up".
LEMMA UpAfter ==
    ASSUME NEW d \in Dev, NEW ip, NEW a, NEW t
    PROVE  Sighted(d, ip, t).up = d.up /\ Probed(d, a, t).up \in {d.up, t}
BY DEF Sighted, Probed, Dev

LEMMA UpStep ==
    ASSUME TypeOK, ScalarInv, [Next]_vars, NEW m \in DOMAIN devs, m \in DOMAIN devs'
    PROVE  devs[m].up <= devs[m]'.up
<1>1. devs[m] \in Dev /\ devs[m].up \in Int
  BY RecordsTyped DEF Dev, Time
<1>2. CASE \E p \in Proc : Load(p)
  <2> PICK p \in Proc : Load(p)
    BY <1>2
  <2>1. devs[m]' = Reloaded(devs[m], listed[p][m]) /\ listed[p][m] \in Row
    BY RecordsTyped DEF Load
  <2>2. QED
    BY <1>1, <2>1 DEF Reloaded, max64, Row, Dev, Time
<1>3. CASE ApplyNeigh
  <2> PICK present \in SUBSET DOMAIN devs :
         \E neigh \in [present -> IP] : applyNeigh(neigh, render.at)
    BY <1>3 DEF ApplyNeigh
  <2>1. PICK neigh \in [present -> IP] : applyNeigh(neigh, render.at)
    OBVIOUS
  <2>2. devs[m]' = devs[m] \/ devs[m]' = Sighted(devs[m], neigh[m], render.at)
    BY <2>1 DEF applyNeigh
  <2>3. QED
    BY <1>1, <2>2, UpAfter
<1>4. CASE ApplyProbes
  <2>1. PICK answer \in [probe.targets \cap DOMAIN devs -> Answer] :
          applyProbes(answer, probe.at)
    BY <1>4 DEF ApplyProbes
  <2>2. devs[m].up <= probe.at /\ probe.at \in Int
    BY <1>4, RecordsTyped DEF ApplyProbes, ScalarInv, SoundMap, Sound, UpBound, Time
  <2>3. devs[m]' = devs[m] \/ devs[m]' = Probed(devs[m], answer[m], probe.at)
    BY <2>1 DEF applyProbes
  <2>4. QED
    BY <1>1, <2>2, <2>3, UpAfter
<1>5. CASE ProbeGateClosed
  BY <1>1, <1>5 DEF ProbeGateClosed, clearLive, Dev
<1>6. CASE drain
  BY <1>1, <1>6 DEF drain, Dev
<1>7. CASE FlushFails
  BY <1>1, <1>7 DEF FlushFails, restore, Dev
<1>8. CASE NewProcess
  BY <1>8 DEF NewProcess, NoEntries
<1>9. CASE UNCHANGED devs
  BY <1>1, <1>9
<1>10. QED
  BY <1>2, <1>3, <1>4, <1>5, <1>6, <1>7, <1>8, <1>9
  DEF Next, Request, Reload, Loops, Shutdown, vars, memVars, Track, PatchIP,
      Untrack, UntrackFails, EditConfig, List, ListFails, RenderSample,
      ProbeStart, ProbeAnswered, FlushDrain, FlushCommit, PruneEvents,
      FinalDrain, FinalNothing, Restart, Crash, Tick

\* The last confirmed up of a device in memory never moves back, although
\* applyProbes assigns it without a guard and with a time taken before the lock.
THEOREM LastSeenUpOnlyMovesForward == Spec => LastSeenUpMovesForward
<1>1. TypeOK /\ ScalarInv /\ [Next]_vars
        => [\A m \in DOMAIN devs : m \in DOMAIN devs' =>
              devs[m].up <= devs[m]'.up]_devs
  BY UpStep
<1>2. QED
  BY <1>1, TypeCorrect, ScalarInvariant, PTL DEF Spec, LastSeenUpMovesForward

-----------------------------------------------------------------------------
(* Scalars that cohere.                                                    *)

\* Every operator that builds a record keeps it coherent.
LEMMA CoherentNewRow == \A ip : Coherent(NewRow(ip))
BY DEF Coherent, NewRow

LEMMA CoherentCopies ==
    ASSUME NEW r, Coherent(r)
    PROVE  Coherent(Seeded(r)) /\ Coherent(ScalarsOf(r))
BY DEF Coherent, Seeded, ScalarsOf

LEMMA CoherentMoved ==
    ASSUME NEW r \in Row, NEW ip, Coherent(r)
    PROVE  Coherent([r EXCEPT !.ip = ip])
BY DEF Coherent, Row

LEMMA CoherentMarked ==
    ASSUME NEW d \in Dev, NEW v, Coherent(d)
    PROVE  Coherent([d EXCEPT !.dirty = v]) /\ Coherent([d EXCEPT !.status = v])
BY DEF Coherent, Dev

LEMMA CoherentFlushed ==
    ASSUME NEW r \in Row, NEW s \in Scalars, Coherent(r), Coherent(s)
    PROVE  Coherent(Flushed(r, s))
BY DEF Coherent, Flushed, max64, Scalars, Row, Time

LEMMA CoherentReloaded ==
    ASSUME NEW d \in Dev, NEW r \in Row, Coherent(d), Coherent(r)
    PROVE  Coherent(Reloaded(d, r))
BY DEF Coherent, Reloaded, max64, Dev, Row, Time

LEMMA CoherentSighted ==
    ASSUME NEW d \in Dev, NEW ip, NEW t \in Time, Coherent(d)
    PROVE  Coherent(Sighted(d, ip, t))
BY DEF Coherent, Sighted, Dev, Time

LEMMA CoherentProbed ==
    ASSUME NEW d \in Dev, NEW a \in Answer, NEW t \in Time, t > 0, Coherent(d)
    PROVE  Coherent(Probed(d, a, t))
BY DEF Coherent, Probed, Dev, Time

LEMMA RowCoheres ==
    ASSUME TypeOK, [Next]_vars, NEW m \in Mac, Coheres(m), m \in DOMAIN db'
    PROVE  Coherent(db'[m])
<1>1. m \in DOMAIN db => db[m] \in Row /\ Coherent(db[m])
  BY RecordsTyped DEF Coheres
<1>2. CASE FlushCommit
  <2> DEFINE merged == IF m \in DOMAIN batch.seen
                         THEN Flushed(db[m], batch.seen[m]) ELSE db[m]
  <2>1. m \in DOMAIN db
    BY <1>2 DEF FlushCommit, CommitBatch
  <2>2. merged \in Row /\ Coherent(merged)
    BY <1>1, <2>1, RecordsTyped, FlushedIsRow, CoherentFlushed DEF Coheres
  <2>3. \A ip : Coherent([merged EXCEPT !.ip = ip])
    BY <2>2, CoherentMoved
  <2>4. QED
    BY <1>2, <2>1, <2>2, <2>3 DEF FlushCommit, CommitBatch
<1>3. CASE \E p \in Handler : Request(p)
  <2> PICK p \in Handler : Request(p)
    BY <1>3
  <2>1. m \in DOMAIN db => \A ip : Coherent([db[m] EXCEPT !.ip = ip])
    BY <1>1, CoherentMoved
  <2>2. ASSUME NEW k \in Mac, NEW ip \in IP, Track(p, k, ip)
        PROVE  Coherent(db'[m])
    BY <1>1, <2>1, <2>2, CoherentNewRow DEF Track, Add, Put
  <2>3. ASSUME NEW k \in Mac, NEW ip \in IP, PatchIP(p, k, ip)
        PROVE  Coherent(db'[m])
    <3>1. db' = [n \in DOMAIN db |->
                   IF n = k THEN [db[k] EXCEPT !.ip = ip] ELSE db[n]]
      BY <2>3 DEF PatchIP, TypeOK, Partial
    <3>2. QED
      BY <1>1, <2>1, <3>1
  <2>4. ASSUME NEW k \in Mac, Untrack(p, k) PROVE Coherent(db'[m])
    BY <1>1, <2>4 DEF Untrack, Drop
  <2>5. CASE UNCHANGED db
    BY <1>1, <2>5
  <2>6. QED
    BY <2>2, <2>3, <2>4, <2>5 DEF Request, UntrackFails, EditConfig, dbVars
<1>4. CASE UNCHANGED db
  BY <1>1, <1>4
<1>5. QED
  BY <1>2, <1>3, <1>4
  DEF Next, Reload, List, ListFails, Load, Loops, RenderSample, ApplyNeigh, ProbeStart,
      ProbeAnswered, ApplyProbes, ProbeGateClosed, FlushDrain, FlushFails, PruneEvents,
      Shutdown, FinalDrain, FinalNothing, Restart, Crash, Tick, vars, dbVars

LEMMA MemoryCoheres ==
    ASSUME TypeOK, ScalarInv, [Next]_vars, NEW m \in Mac, Coheres(m), m \in DOMAIN devs'
    PROVE  Coherent(devs'[m])
<1>1. m \in DOMAIN devs => devs[m] \in Dev /\ Coherent(devs[m])
  BY RecordsTyped DEF Coheres
<1>2. CASE \E p \in Proc : Load(p)
  <2> PICK p \in Proc : Load(p)
    BY <1>2
  <2>1. m \in DOMAIN listed[p] /\ listed[p][m] \in Row /\ Coherent(listed[p][m])
    BY RecordsTyped DEF Load, Coheres
  <2>2. QED
    BY <1>1, <2>1, CoherentCopies, CoherentReloaded DEF Load
<1>3. CASE ApplyNeigh
  <2> PICK present \in SUBSET DOMAIN devs :
         \E neigh \in [present -> IP] : applyNeigh(neigh, render.at)
    BY <1>3 DEF ApplyNeigh
  <2>1. PICK neigh \in [present -> IP] : applyNeigh(neigh, render.at)
    OBVIOUS
  <2>2. /\ m \in DOMAIN devs
        /\ devs'[m] = devs[m] \/ devs'[m] = Sighted(devs[m], neigh[m], render.at)
    BY <2>1 DEF applyNeigh
  <2>3. QED
    BY <1>1, <2>2, RecordsTyped, CoherentSighted
<1>4. CASE ApplyProbes
  <2>1. PICK answer \in [probe.targets \cap DOMAIN devs -> Answer] :
          applyProbes(answer, probe.at)
    BY <1>4 DEF ApplyProbes
  <2>2. probe.at \in Time /\ probe.at > 0
    BY <1>4, RecordsTyped DEF ApplyProbes, ScalarInv, Time
  <2>3. /\ m \in DOMAIN devs
        /\ \/ devs'[m] = devs[m]
           \/ m \in DOMAIN answer /\ devs'[m] = Probed(devs[m], answer[m], probe.at)
    BY <2>1 DEF applyProbes
  <2>4. QED
    BY <1>1, <2>2, <2>3, CoherentProbed
<1>5. CASE ProbeGateClosed
  BY <1>1, <1>5, CoherentMarked DEF ProbeGateClosed, clearLive
<1>6. CASE drain
  BY <1>1, <1>6, CoherentMarked DEF drain
<1>7. CASE FlushFails
  BY <1>1, <1>7, CoherentMarked DEF FlushFails, restore
<1>8. CASE NewProcess
  BY <1>8 DEF NewProcess, NoEntries
<1>9. CASE UNCHANGED devs
  BY <1>1, <1>9
<1>10. QED
  BY <1>2, <1>3, <1>4, <1>5, <1>6, <1>7, <1>8, <1>9
  DEF Next, Request, Reload, Loops, Shutdown, vars, memVars, Track, PatchIP,
      Untrack, UntrackFails, EditConfig, List, ListFails, RenderSample,
      ProbeStart, ProbeAnswered, FlushDrain, FlushCommit, PruneEvents,
      FinalDrain, FinalNothing, Restart, Crash, Tick

LEMMA BatchCoheres ==
    ASSUME TypeOK, [Next]_vars, NEW m \in Mac, Coheres(m), m \in DOMAIN batch'.seen
    PROVE  Coherent(batch'.seen[m])
<1>1. CASE drain
  <2>1. m \in DOMAIN devs /\ batch'.seen[m] = ScalarsOf(devs[m])
    BY <1>1 DEF drain, Drained
  <2>2. QED
    BY <2>1, CoherentCopies DEF Coheres
<1>2. CASE batch' = NoBatch
  BY <1>2 DEF NoBatch, NoEntries
<1>3. CASE UNCHANGED batch
  BY <1>3 DEF Coheres
<1>4. QED
  BY <1>1, <1>2, <1>3
  DEF Next, Request, Reload, Loops, Shutdown, vars, flushVars, Track, PatchIP,
      Untrack, UntrackFails, EditConfig, List, ListFails, Load, RenderSample, ApplyNeigh,
      ProbeStart, ProbeAnswered, ApplyProbes, ProbeGateClosed, FlushDrain, FlushCommit,
      FlushFails, PruneEvents, FinalDrain, FinalNothing, Restart, Crash, NewProcess, Tick

LEMMA ListsCohere ==
    ASSUME TypeOK, [Next]_vars, NEW m \in Mac, Coheres(m),
           NEW p \in Proc, m \in DOMAIN listed'[p]
    PROVE  Coherent(listed'[p][m])
<1>1. listed'[p] \in {listed[p], db, NoEntries}
  <2>1. CASE \E q \in Proc : Reload(q)
    BY <2>1 DEF Reload, List, ListFails, Load, TypeOK
  <2>2. CASE NewProcess
    BY <2>2 DEF NewProcess
  <2>3. CASE UNCHANGED listed
    BY <2>3
  <2>4. QED
    BY <2>1, <2>2, <2>3
    DEF Next, Request, Loops, Shutdown, vars, reqVars, Track, PatchIP, Untrack,
        UntrackFails, EditConfig, RenderSample, ApplyNeigh, ProbeStart, ProbeAnswered,
        ApplyProbes, ProbeGateClosed, FlushDrain, FlushCommit, FlushFails, PruneEvents,
        FinalDrain, FinalNothing, Restart, Crash, Tick
<1>2. QED
  BY <1>1 DEF Coheres, NoEntries

\* Where every copy of a device's scalars is coherent, no step makes one that is not:
\* neither the merges column by column of Flush and Load, nor the times that
\* applyProbes and applyNeigh took before the lock, nor a drain, a crash or a reload.
THEOREM CoherenceIsAlwaysKept == Spec => CoherenceIsKept
<1>1. TypeOK /\ ScalarInv /\ [Next]_vars
        => [\A m \in Mac : Coheres(m) => Coheres(m)']_vars
  <2> SUFFICES ASSUME TypeOK, ScalarInv, [Next]_vars, NEW m \in Mac, Coheres(m)
               PROVE  Coheres(m)'
    OBVIOUS
  <2>1. QED
    BY RowCoheres, MemoryCoheres, BatchCoheres, ListsCohere DEF Coheres
<1>2. QED
  BY <1>1, TypeCorrect, ScalarInvariant, PTL DEF Spec, CoherenceIsKept

-----------------------------------------------------------------------------
(* Records compared by their scalars.                                      *)

\* A record of any kind, as AtLeast reads it.
Scalar(r) == r.icmp \in BOOLEAN /\ r.up \in Int /\ r.seen \in Int

\* Two records that differ in no scalar.
SameScalars(a, b) == a.icmp = b.icmp /\ a.up = b.up /\ a.seen = b.seen

LEMMA ScalarRecords ==
    /\ \A r \in Row : Scalar(r)
    /\ \A d \in Dev : Scalar(d) /\ ScalarsOf(d) \in Scalars /\ SameScalars(ScalarsOf(d), d)
    /\ \A s \in Scalars : Scalar(s)
BY DEF Row, Dev, Scalars, Scalar, ScalarsOf, SameScalars, Time

LEMMA AtLeastTransitive ==
    ASSUME NEW a, NEW b, NEW c, Scalar(a), Scalar(b), Scalar(c),
           AtLeast(a, b), AtLeast(b, c)
    PROVE  AtLeast(a, c)
<1>1. c.icmp => a.icmp
  BY DEF AtLeast
<1>2. c.up <= a.up /\ c.seen <= a.seen
  BY DEF AtLeast, Scalar
<1>3. QED
  BY <1>1, <1>2 DEF AtLeast

LEMMA AtLeastSame ==
    ASSUME NEW a, NEW b, NEW c, AtLeast(a, b)
    PROVE  /\ SameScalars(c, b) => AtLeast(a, c)
           /\ SameScalars(c, a) => AtLeast(c, b)
BY DEF AtLeast, SameScalars

\* A row that covers both sides of a reload covers its result.
LEMMA ReloadedCovered ==
    ASSUME NEW o \in Row, NEW d \in Dev, NEW r \in Row, AtLeast(o, d), AtLeast(o, r)
    PROVE  AtLeast(o, Reloaded(d, r)) /\ Reloaded(d, r).dirty = d.dirty
           /\ Reloaded(d, r).status = d.status
<1>1. /\ Reloaded(d, r).icmp = (d.icmp \/ r.icmp)
      /\ Reloaded(d, r).up = max64(d.up, r.up)
      /\ Reloaded(d, r).seen = max64(d.seen, r.seen)
      /\ Reloaded(d, r).dirty = d.dirty
      /\ Reloaded(d, r).status = d.status
  BY DEF Reloaded, Dev
<1>2. max64(d.up, r.up) <= o.up /\ max64(d.seen, r.seen) <= o.seen
  BY DEF AtLeast, max64
<1>3. (d.icmp \/ r.icmp) => o.icmp
  BY DEF AtLeast
<1>4. QED
  BY <1>1, <1>2, <1>3 DEF AtLeast

LEMMA SeededCovered ==
    ASSUME NEW o, NEW r, AtLeast(o, r)
    PROVE  AtLeast(o, Seeded(r))
BY DEF AtLeast, Seeded

\* A neighbour that moves a scalar marks the record dirty.
LEMMA SightedCovered ==
    ASSUME NEW d \in Dev, NEW ip, NEW t
    PROVE  /\ d.dirty => Sighted(d, ip, t).dirty
           /\ Sighted(d, ip, t).dirty \/ SameScalars(Sighted(d, ip, t), d)
           /\ Sighted(d, ip, t).status = d.status
BY DEF Sighted, Dev, SameScalars

\* So does a probe; a negative one moves none.
LEMMA ProbedCovered ==
    ASSUME NEW d \in Dev, NEW a, NEW t
    PROVE  /\ d.dirty => Probed(d, a, t).dirty
           /\ Probed(d, a, t).dirty \/ SameScalars(Probed(d, a, t), d)
BY DEF Probed, Dev, SameScalars

LEMMA MarkedCovered ==
    ASSUME NEW d \in Dev
    PROVE  /\ \A v \in BOOLEAN : /\ SameScalars([d EXCEPT !.dirty = v], d)
                               /\ [d EXCEPT !.dirty = v].dirty = v
                               /\ [d EXCEPT !.dirty = v].status = d.status
           /\ SameScalars([d EXCEPT !.status = "unknown"], d)
           /\ [d EXCEPT !.status = "unknown"].dirty = d.dirty
           /\ [d EXCEPT !.status = "unknown"].status = "unknown"
BY DEF Dev, SameScalars

-----------------------------------------------------------------------------
(* SaveInv is inductive.                                                   *)

\* Its parts.
BatchInFlight == ~flushing => batch = NoBatch
RowOrPurged == DOMAIN devs \subseteq DOMAIN db \cup purged
ListsBehind ==
    \A p \in Proc :
        /\ DOMAIN listed[p] \subseteq DOMAIN db \cup purged
        /\ \A m \in (DOMAIN listed[p] \cap DOMAIN db) \ purged :
             AtLeast(db[m], listed[p][m])
CleanIsCovered ==
    \A m \in (DOMAIN devs \cap DOMAIN db) \ purged :
        ~devs[m].dirty => AtLeast(OnDisk(m), devs[m])

LEMMA SaveParts == SaveInv <=> BatchInFlight /\ RowOrPurged /\ ListsBehind /\ CleanIsCovered
BY DEF SaveInv, BatchInFlight, RowOrPurged, ListsBehind, CleanIsCovered

\* What a row will hold once the batch is in covers what it holds now.
LEMMA OnDiskCovers ==
    ASSUME TypeOK, NEW m \in DOMAIN db
    PROVE  OnDisk(m) \in Row /\ AtLeast(OnDisk(m), db[m])
<1>1. db[m] \in Row
  BY RecordsTyped
<1>2. CASE m \in DOMAIN batch.seen
  BY <1>1, <1>2, RecordsTyped, FlushedIsRow, FlushedAtLeast DEF OnDisk
<1>3. CASE m \notin DOMAIN batch.seen
  BY <1>1, <1>3, AtLeastReflexive, ScalarRecords DEF OnDisk, Scalar
<1>4. QED
  BY <1>2, <1>3

\* A step of a request leaves rows that still count at least where they were.
LEMMA RequestRows ==
    ASSUME TypeOK, NEW p \in Handler, Request(p)
    PROVE  /\ DOMAIN db \subseteq DOMAIN db' \cup purged' /\ purged \subseteq purged'
           /\ \A m \in (DOMAIN db \cap DOMAIN db') \ purged' : SameScalars(db'[m], db[m])
           /\ UNCHANGED <<devs, batch, flushing, listed>>
<1>1. \A m \in DOMAIN db : \A ip : SameScalars([db[m] EXCEPT !.ip = ip], db[m])
                                   /\ SameScalars(db[m], db[m])
  BY RecordsTyped DEF Row, SameScalars
<1>2. ASSUME NEW k \in Mac, NEW ip \in IP, Track(p, k, ip)
      PROVE  /\ DOMAIN db \subseteq DOMAIN db' /\ purged' = purged
             /\ \A m \in DOMAIN db : SameScalars(db'[m], db[m])
  BY <1>1, <1>2 DEF Track, Add, Put
<1>3. ASSUME NEW k \in Mac, NEW ip \in IP, PatchIP(p, k, ip)
      PROVE  /\ DOMAIN db \subseteq DOMAIN db' /\ purged' = purged
             /\ \A m \in DOMAIN db : SameScalars(db'[m], db[m])
  <2>1. db' = [n \in DOMAIN db |->
                 IF n = k THEN [db[k] EXCEPT !.ip = ip] ELSE db[n]]
    BY <1>3 DEF PatchIP, TypeOK, Partial
  <2>2. DOMAIN db' = DOMAIN db /\ purged' = purged
    BY <1>3, <2>1 DEF PatchIP
  <2>3. ASSUME NEW m \in DOMAIN db PROVE SameScalars(db'[m], db[m])
    <3>1. db'[m] = db[m] \/ db'[m] = [db[m] EXCEPT !.ip = ip]
      BY <2>1
    <3>2. QED
      BY <1>1, <3>1
  <2>4. QED
    BY <2>2, <2>3
<1>4. ASSUME NEW k \in Mac, Untrack(p, k)
      PROVE  /\ DOMAIN db \subseteq DOMAIN db' \cup purged' /\ purged \subseteq purged'
             /\ \A m \in DOMAIN db \cap DOMAIN db' : SameScalars(db'[m], db[m])
  BY <1>1, <1>4 DEF Untrack, Drop
<1>5. ASSUME NEW k \in Mac, UntrackFails(p, k) PROVE db' = db /\ purged' = purged
  BY <1>5 DEF UntrackFails
<1>6. CASE EditConfig(p)
  BY <1>1, <1>6 DEF EditConfig, dbVars, memVars, flushVars
<1>7. UNCHANGED <<devs, batch, flushing, listed>>
  BY DEF Request, Track, PatchIP, Untrack, UntrackFails, EditConfig, memVars, flushVars,
     reqVars
<1>8. QED
  BY <1>1, <1>2, <1>3, <1>4, <1>5, <1>6, <1>7 DEF Request

LEMMA RequestSave ==
    ASSUME TypeOK, TypeOK', SaveInv, NEW p \in Handler, Request(p)
    PROVE  SaveInv'
<1>1. BatchInFlight' /\ RowOrPurged'
  BY RequestRows, SaveParts DEF BatchInFlight, RowOrPurged
<1>2. ListsBehind'
  <2>1. SUFFICES ASSUME NEW q \in Proc
                 PROVE  /\ DOMAIN listed[q] \subseteq DOMAIN db' \cup purged'
                        /\ \A m \in (DOMAIN listed[q] \cap DOMAIN db') \ purged' :
                             AtLeast(db'[m], listed[q][m])
    BY RequestRows DEF ListsBehind
  <2>2. DOMAIN listed[q] \subseteq DOMAIN db \cup purged
    BY SaveParts DEF ListsBehind
  <2>3. ASSUME NEW m \in (DOMAIN listed[q] \cap DOMAIN db') \ purged'
        PROVE  AtLeast(db'[m], listed[q][m])
    <3>1. m \in DOMAIN db /\ m \notin purged
      BY <2>2, RequestRows
    <3>2. AtLeast(db[m], listed[q][m])
      BY <3>1, SaveParts DEF ListsBehind
    <3>3. QED
      BY <3>1, <3>2, RequestRows, AtLeastSame
  <2>4. QED
    BY <2>2, <2>3, RequestRows
<1>3. CleanIsCovered'
  <2>1. SUFFICES ASSUME NEW m \in (DOMAIN devs \cap DOMAIN db') \ purged', ~devs[m].dirty
                 PROVE  AtLeast(OnDisk(m)', devs[m])
    BY RequestRows DEF CleanIsCovered
  <2>2. m \in DOMAIN db /\ m \notin purged
    BY <2>1, RequestRows, SaveParts DEF RowOrPurged
  <2>3. AtLeast(OnDisk(m), devs[m]) /\ SameScalars(db'[m], db[m])
    BY <2>1, <2>2, SaveParts, RequestRows DEF CleanIsCovered
  <2>4. SameScalars(OnDisk(m)', OnDisk(m))
    <3>1. db[m] \in Row /\ db'[m] \in Row
      BY <2>1, <2>2 DEF TypeOK, Partial
    <3>2. \A s : SameScalars(Flushed(db'[m], s), Flushed(db[m], s))
      BY <2>3, <3>1 DEF SameScalars, Flushed, Row
    <3>3. QED
      BY <2>3, <3>2, RequestRows DEF OnDisk
  <2>5. QED
    BY <2>3, <2>4, AtLeastSame
<1>4. QED
  BY <1>1, <1>2, <1>3 DEF SaveInv, BatchInFlight, RowOrPurged, ListsBehind, CleanIsCovered

LEMMA ReloadSave ==
    ASSUME TypeOK, SaveInv, NEW p \in Proc, Reload(p)
    PROVE  SaveInv'
<1>1. UNCHANGED <<db, batch, flushing, purged>>
  BY DEF Reload, List, ListFails, Load, dbVars, flushVars
<1>2. ListsBehind'
  <2>1. \A q \in Proc : listed'[q] \in {listed[q], db, NoEntries}
    BY DEF Reload, List, ListFails, Load, TypeOK
  <2>2. \A m \in DOMAIN db : AtLeast(db[m], db[m])
    BY RecordsTyped, AtLeastReflexive, ScalarRecords DEF Scalar
  <2>3. DOMAIN NoEntries = {}
    BY DEF NoEntries
  <2>4. QED
    BY <1>1, <2>1, <2>2, <2>3, SaveParts DEF ListsBehind
<1>3. RowOrPurged' /\ CleanIsCovered'
  <2>1. CASE UNCHANGED devs
    BY <1>1, <2>1, SaveParts DEF RowOrPurged, CleanIsCovered, OnDisk
  <2>2. CASE Load(p)
    <3>1. DOMAIN devs' = DOMAIN listed[p]
      BY <2>2 DEF Load
    <3>2. RowOrPurged'
      BY <1>1, <3>1, SaveParts DEF RowOrPurged, ListsBehind
    <3>3. ASSUME NEW m \in (DOMAIN devs' \cap DOMAIN db) \ purged, ~devs'[m].dirty
          PROVE  AtLeast(OnDisk(m), devs'[m])
      <4>1. /\ listed[p][m] \in Row /\ db[m] \in Row /\ OnDisk(m) \in Row
            /\ AtLeast(OnDisk(m), db[m]) /\ AtLeast(db[m], listed[p][m])
        BY <3>1, RecordsTyped, OnDiskCovers, SaveParts DEF ListsBehind
      <4>2. AtLeast(OnDisk(m), listed[p][m])
        BY <4>1, AtLeastTransitive, ScalarRecords
      <4>3. CASE m \in DOMAIN devs
        <5>1. devs'[m] = Reloaded(devs[m], listed[p][m]) /\ devs[m] \in Dev
          BY <2>2, <3>1, <4>3, RecordsTyped DEF Load
        <5>2. Reloaded(devs[m], listed[p][m]).dirty = devs[m].dirty
          BY <5>1 DEF Reloaded, Dev
        <5>3. AtLeast(OnDisk(m), devs[m])
          BY <3>3, <4>3, <5>1, <5>2, SaveParts DEF CleanIsCovered
        <5>4. QED
          BY <4>1, <4>2, <5>1, <5>3, ReloadedCovered
      <4>4. CASE m \notin DOMAIN devs
        BY <2>2, <3>1, <4>2, <4>4, SeededCovered DEF Load
      <4>5. QED
        BY <4>3, <4>4
    <3>4. CleanIsCovered'
      BY <1>1, <3>3 DEF CleanIsCovered, OnDisk
    <3>5. QED
      BY <3>2, <3>4
  <2>3. QED
    BY <2>1, <2>2 DEF Reload, List, ListFails, memVars
<1>4. BatchInFlight'
  BY <1>1, SaveParts DEF BatchInFlight
<1>5. QED
  BY <1>2, <1>3, <1>4 DEF SaveInv, BatchInFlight, RowOrPurged, ListsBehind, CleanIsCovered

\* A loop that changes records in memory marks what it moves.
LEMMA MemorySave ==
    ASSUME TypeOK, SaveInv, UNCHANGED <<db, batch, flushing, purged, listed>>,
           DOMAIN devs' = DOMAIN devs,
           \A m \in DOMAIN devs : devs[m].dirty => devs'[m].dirty,
           \A m \in DOMAIN devs : devs'[m].dirty \/ SameScalars(devs'[m], devs[m])
    PROVE  SaveInv'
<1>1. CleanIsCovered'
  BY SaveParts, AtLeastSame DEF CleanIsCovered, OnDisk
<1>2. QED
  BY <1>1, SaveParts
  DEF SaveInv, BatchInFlight, RowOrPurged, ListsBehind, CleanIsCovered

LEMMA LoopSave ==
    ASSUME TypeOK, SaveInv, ApplyNeigh \/ ApplyProbes \/ ProbeGateClosed
    PROVE  SaveInv'
<1>1. UNCHANGED <<db, batch, flushing, purged, listed>>
  BY DEF ApplyNeigh, ApplyProbes, ProbeGateClosed, dbVars, flushVars, reqVars
<1>2. \A m \in DOMAIN devs : devs[m] \in Dev /\ SameScalars(devs[m], devs[m])
  BY RecordsTyped DEF SameScalars
<1>3. /\ DOMAIN devs' = DOMAIN devs
      /\ \A m \in DOMAIN devs : devs[m].dirty => devs'[m].dirty
      /\ \A m \in DOMAIN devs : devs'[m].dirty \/ SameScalars(devs'[m], devs[m])
  <2>1. CASE ApplyNeigh
    <3>1. PICK present \in SUBSET DOMAIN devs :
            \E neigh \in [present -> IP] : applyNeigh(neigh, render.at)
      BY <2>1 DEF ApplyNeigh
    <3>2. PICK neigh \in [present -> IP] : applyNeigh(neigh, render.at)
      BY <3>1
    <3>3. devs' = [m \in DOMAIN devs |->
                     IF m \in DOMAIN neigh THEN Sighted(devs[m], neigh[m], render.at)
                                           ELSE devs[m]]
      BY <3>2 DEF applyNeigh
    <3>4. QED
      BY <1>2, <3>3, SightedCovered
  <2>2. CASE ApplyProbes
    <3>1. PICK answer \in [probe.targets \cap DOMAIN devs -> Answer] :
            applyProbes(answer, probe.at)
      BY <2>2 DEF ApplyProbes
    <3>2. devs' = [m \in DOMAIN devs |->
                     IF m \in DOMAIN answer THEN Probed(devs[m], answer[m], probe.at)
                                            ELSE devs[m]]
      BY <3>1 DEF applyProbes
    <3>3. QED
      BY <1>2, <3>2, ProbedCovered
  <2>3. CASE ProbeGateClosed
    <3>1. devs' = [m \in DOMAIN devs |-> [devs[m] EXCEPT !.status = "unknown"]]
      BY <2>3 DEF ProbeGateClosed, clearLive
    <3>2. DOMAIN devs' = DOMAIN devs
      BY <3>1
    <3>3. ASSUME NEW m \in DOMAIN devs
          PROVE  /\ devs[m].dirty => devs'[m].dirty
                 /\ SameScalars(devs'[m], devs[m])
      <4>1. devs'[m] = [devs[m] EXCEPT !.status = "unknown"]
        BY <3>1
      <4>2. devs[m] \in Dev /\ devs'[m].dirty = devs[m].dirty
        BY <1>2, <4>1 DEF Dev
      <4>3. QED
        BY <4>1, <4>2, MarkedCovered
    <3>4. QED
      BY <3>2, <3>3
  <2>4. QED
    BY <2>1, <2>2, <2>3
<1>4. QED
  BY <1>1, <1>3, MemorySave

LEMMA DrainSave ==
    ASSUME TypeOK, SaveInv, drain, UNCHANGED <<db, purged, listed>>
    PROVE  SaveInv'
<1>1. batch = NoBatch /\ DOMAIN devs' = DOMAIN devs /\ flushing'
  BY SaveParts DEF BatchInFlight, drain
<1>2. \A m \in DOMAIN db : OnDisk(m) = db[m]
  BY <1>1 DEF OnDisk, NoBatch, NoEntries
<1>3. ASSUME NEW m \in (DOMAIN devs \cap DOMAIN db) \ purged
      PROVE  AtLeast(OnDisk(m)', devs'[m])
  <2>1. devs[m] \in Dev /\ db[m] \in Row
    BY RecordsTyped
  <2>2. devs'[m] = [devs[m] EXCEPT !.dirty = FALSE]
    BY DEF drain
  <2>3. SameScalars(devs'[m], devs[m])
    BY <2>1, <2>2 DEF Dev, SameScalars
  <2>4. CASE devs[m].dirty
    <3>1. m \in DOMAIN batch'.seen /\ batch'.seen[m] = ScalarsOf(devs[m])
      BY <2>4 DEF drain, Drained
    <3>2. OnDisk(m)' = Flushed(db[m], ScalarsOf(devs[m]))
      BY <3>1 DEF OnDisk
    <3>3. AtLeast(OnDisk(m)', ScalarsOf(devs[m]))
      BY <2>1, <3>2, FlushedAtLeast, ScalarRecords
    <3>4. SameScalars(devs[m], ScalarsOf(devs[m]))
      BY DEF SameScalars, ScalarsOf
    <3>5. AtLeast(OnDisk(m)', devs[m])
      BY <3>3, <3>4, AtLeastSame
    <3>6. QED
      BY <2>3, <3>5, AtLeastSame
  <2>5. CASE ~devs[m].dirty
    <3>1. m \notin DOMAIN batch'.seen
      BY <2>5 DEF drain, Drained
    <3>2. OnDisk(m)' = OnDisk(m)
      BY <1>2, <3>1 DEF OnDisk
    <3>3. AtLeast(OnDisk(m), devs[m])
      BY <2>5, SaveParts DEF CleanIsCovered
    <3>4. QED
      BY <2>3, <3>2, <3>3, AtLeastSame
  <2>6. QED
    BY <2>4, <2>5
<1>4. QED
  BY <1>1, <1>3, SaveParts
  DEF SaveInv, BatchInFlight, RowOrPurged, ListsBehind, CleanIsCovered

LEMMA CommitSave ==
    ASSUME TypeOK, SaveInv, FlushCommit
    PROVE  SaveInv'
<1>1. /\ UNCHANGED <<devs, listed, purged>> /\ batch' = NoBatch /\ ~flushing'
      /\ DOMAIN db' = DOMAIN db
  BY DEF FlushCommit, CommitBatch, memVars, reqVars
<1>2. ASSUME NEW m \in DOMAIN db
      PROVE  SameScalars(db'[m], OnDisk(m)) /\ OnDisk(m)' = db'[m]
  <2>1. OnDisk(m) \in Row
    BY OnDiskCovers
  <2>2. \/ db'[m] = OnDisk(m)
        \/ db'[m] = [OnDisk(m) EXCEPT !.ip = batch.moves[m]]
    BY DEF FlushCommit, CommitBatch, OnDisk
  <2>3. QED
    BY <1>1, <2>1, <2>2 DEF SameScalars, Row, OnDisk, NoBatch, NoEntries
<1>3. ListsBehind'
  <2>1. ASSUME NEW q \in Proc, NEW m \in (DOMAIN listed[q] \cap DOMAIN db) \ purged
        PROVE  AtLeast(db'[m], listed[q][m])
    <3>1. /\ OnDisk(m) \in Row /\ db[m] \in Row /\ listed[q][m] \in Row
          /\ AtLeast(OnDisk(m), db[m]) /\ AtLeast(db[m], listed[q][m])
      BY RecordsTyped, OnDiskCovers, SaveParts DEF ListsBehind
    <3>2. AtLeast(OnDisk(m), listed[q][m])
      BY <3>1, AtLeastTransitive, ScalarRecords
    <3>3. QED
      BY <1>2, <3>2, AtLeastSame
  <2>2. QED
    BY <1>1, <2>1, SaveParts DEF ListsBehind
<1>4. CleanIsCovered'
  BY <1>1, <1>2, SaveParts, AtLeastSame DEF CleanIsCovered
<1>5. QED
  BY <1>1, <1>3, <1>4, SaveParts
  DEF SaveInv, BatchInFlight, RowOrPurged, ListsBehind, CleanIsCovered

LEMMA FailSave ==
    ASSUME TypeOK, SaveInv, FlushFails
    PROVE  SaveInv'
<1>1. /\ UNCHANGED <<db, listed, purged>> /\ batch' = NoBatch /\ ~flushing'
      /\ DOMAIN devs' = DOMAIN devs
  BY DEF FlushFails, restore, dbVars, reqVars
<1>2. ASSUME NEW m \in (DOMAIN devs \cap DOMAIN db) \ purged, ~devs'[m].dirty
      PROVE  AtLeast(OnDisk(m)', devs'[m])
  <2>1. devs[m] \in Dev
    BY RecordsTyped
  <2>2. m \notin DOMAIN batch.seen /\ devs'[m] = devs[m]
    BY <1>2, <2>1, MarkedCovered DEF FlushFails, restore
  <2>3. OnDisk(m) = db[m] /\ OnDisk(m)' = db[m]
    BY <1>1, <2>2 DEF OnDisk, NoBatch, NoEntries
  <2>4. QED
    BY <1>2, <2>2, <2>3, SaveParts DEF CleanIsCovered
<1>3. QED
  BY <1>1, <1>2, SaveParts
  DEF SaveInv, BatchInFlight, RowOrPurged, ListsBehind, CleanIsCovered

LEMMA NewProcessSave ==
    ASSUME NewProcess PROVE SaveInv'
<1>1. /\ DOMAIN devs' = {} /\ batch' = NoBatch
      /\ \A p \in Proc : DOMAIN listed'[p] = {}
  BY DEF NewProcess, NoEntries
<1>2. QED
  BY <1>1 DEF SaveInv

\* Steps that touch no record.
LEMMA QuietSave ==
    ASSUME SaveInv, UNCHANGED <<db, devs, batch, flushing, listed, purged>>
    PROVE  SaveInv'
BY DEF SaveInv, OnDisk

LEMMA NextSave == TypeOK /\ TypeOK' /\ SaveInv /\ [Next]_vars => SaveInv'
<1> SUFFICES ASSUME TypeOK, TypeOK', SaveInv, [Next]_vars PROVE SaveInv'
  OBVIOUS
<1>1. CASE \E p \in Handler : Request(p)
  BY <1>1, RequestSave
<1>2. CASE \E p \in Proc : Reload(p)
  BY <1>2, ReloadSave
<1>3. CASE Loops
  <2>1. CASE RenderSample \/ ProbeStart \/ ProbeAnswered \/ PruneEvents
    BY <2>1, QuietSave
    DEF RenderSample, ProbeStart, ProbeAnswered, PruneEvents, dbVars, memVars, flushVars,
        reqVars
  <2>2. CASE FlushDrain
    BY <2>2, DrainSave DEF FlushDrain, dbVars, reqVars
  <2>3. QED
    BY <1>3, <2>1, <2>2, LoopSave, CommitSave, FailSave DEF Loops
<1>4. CASE Shutdown
  <2>1. CASE FinalDrain
    BY <2>1, DrainSave DEF FinalDrain, dbVars, reqVars
  <2>2. CASE FinalNothing
    BY <2>2, QuietSave DEF FinalNothing, dbVars, memVars, flushVars, reqVars
  <2>3. QED
    BY <1>4, <2>1, <2>2, NewProcessSave DEF Shutdown, Restart
<1>5. CASE Crash
  BY <1>5, NewProcessSave DEF Crash
<1>6. CASE Tick \/ UNCHANGED vars
  BY <1>6, QuietSave DEF Tick, vars, dbVars, memVars, flushVars, reqVars
<1>7. QED
  BY <1>1, <1>2, <1>3, <1>4, <1>5, <1>6 DEF Next

LEMMA InitSave == Init => SaveInv
<1> SUFFICES ASSUME Init PROVE SaveInv
  OBVIOUS
<1>1. DOMAIN devs = {} /\ batch = NoBatch /\ \A p \in Proc : DOMAIN listed[p] = {}
  BY DEF Init, NoEntries
<1>2. QED
  BY <1>1 DEF SaveInv

LEMMA SaveInvariant == Spec => []SaveInv
BY InitSave, NextSave, TypeCorrect, PTL DEF Spec

\* A scalar ahead of its row is marked dirty or rides in the batch in flight:
\* the write-behind loses nothing it was told (drain, Flush, restore, Load).
THEOREM UnsavedAlwaysQueued == Spec => []UnsavedIsQueued
<1>1. SaveInv => UnsavedIsQueued
  BY DEF SaveInv, OnDisk, UnsavedIsQueued
<1>2. QED
  BY <1>1, SaveInvariant, PTL

-----------------------------------------------------------------------------
(* StopInv is inductive: from the last drain on nothing moves in memory.    *)

LEMMA RequestStop ==
    ASSUME TypeOK, StopInv, NEW p \in Handler, Request(p)
    PROVE  StopInv'
<1>1. UNCHANGED <<devs, ipMoves, events, flushing, render, probe, phase>>
  BY DEF Request, Track, PatchIP, Untrack, UntrackFails, EditConfig, memVars, flushVars,
     probeVars
<1>2. pc'[Boot] = pc[Boot]
  BY HandlerAssumption
  DEF Request, Track, PatchIP, Untrack, UntrackFails, EditConfig, Begin, reqVars, TypeOK, Proc
<1>3. QED
  BY <1>1, <1>2 DEF StopInv

LEMMA ReloadStop ==
    ASSUME TypeOK, StopInv, NEW p \in Proc, Reload(p)
    PROVE  StopInv'
<1>1. UNCHANGED <<ipMoves, events, flushing, render, probe>>
  BY DEF Reload, List, ListFails, Load, memVars, flushVars, probeVars
<1>2. pc[p] # "idle"
  BY DEF Reload, List, ListFails, Load
<1>3. CASE p = Boot
  <2>1. phase = "boot"
    BY <1>2, <1>3 DEF StopInv
  <2>2. CASE List(p)
    BY <1>1, <1>3, <2>1, <2>2 DEF List, StopInv, TypeOK
  <2>3. CASE ListFails(p) \/ Load(p)
    BY <1>1, <1>3, <2>1, <2>3 DEF ListFails, Load, Booted, StopInv, TypeOK
  <2>4. QED
    BY <2>2, <2>3 DEF Reload
<1>4. CASE p # Boot
  <2>1. phase' = phase /\ pc'[Boot] = pc[Boot]
    <3>1. Boot \in DOMAIN pc
      BY DEF TypeOK, Proc
    <3>2. CASE List(p)
      BY <1>4, <3>1, <3>2 DEF List
    <3>3. CASE ListFails(p)
      BY <1>4, <3>1, <3>3 DEF ListFails, Booted
    <3>4. CASE Load(p)
      BY <1>4, <3>1, <3>4 DEF Load, Booted
    <3>5. QED
      BY <3>2, <3>3, <3>4 DEF Reload
  <2>2. ASSUME NEW m \in DOMAIN devs', \A n \in DOMAIN devs : ~devs[n].dirty
        PROVE  ~devs'[m].dirty
    <3>1. CASE UNCHANGED devs
      BY <2>2, <3>1
    <3>2. CASE Load(p)
      <4>1. m \in DOMAIN devs => Reloaded(devs[m], listed[p][m]).dirty = devs[m].dirty
        BY RecordsTyped DEF Reloaded, Dev
      <4>2. ~Seeded(listed[p][m]).dirty
        BY DEF Seeded
      <4>3. QED
        BY <2>2, <3>2, <4>1, <4>2 DEF Load
    <3>3. QED
      BY <3>1, <3>2 DEF Reload, List, ListFails, memVars
  <2>3. QED
    BY <1>1, <2>1, <2>2 DEF StopInv
<1>5. QED
  BY <1>3, <1>4

\* An iteration of a loop, which the final phases exclude.
LEMMA LoopStop ==
    ASSUME StopInv, phase \notin {"final", "off"}, UNCHANGED <<pc, phase>>
    PROVE  StopInv'
BY DEF StopInv

LEMMA LoopsStop ==
    ASSUME TypeOK, StopInv, Loops
    PROVE  StopInv'
<1>1. pc' = pc
  BY DEF Loops, RenderSample, ApplyNeigh, ProbeStart, ProbeAnswered, ApplyProbes,
     ProbeGateClosed, FlushDrain, FlushCommit, FlushFails, PruneEvents, reqVars
<1>2. CASE FlushCommit
  <2>1. UNCHANGED <<devs, ipMoves, events, render, probe>> /\ ~flushing'
        /\ phase' = (IF phase = "final" THEN "off" ELSE phase)
    BY <1>2 DEF FlushCommit, memVars, probeVars
  <2>2. QED
    BY <1>1, <2>1 DEF StopInv
<1>3. CASE FlushFails
  <2>1. phase # "off" /\ phase' = (IF phase = "final" THEN "lost" ELSE phase)
    BY <1>3 DEF FlushFails, StopInv
  <2>2. QED
    BY <1>1, <2>1 DEF StopInv
<1>4. CASE ~FlushCommit /\ ~FlushFails
  <2>1. phase' = phase
    BY <1>4 DEF Loops, RenderSample, ApplyNeigh, ProbeStart, ProbeAnswered, ApplyProbes,
       ProbeGateClosed, FlushDrain, PruneEvents
  <2>2. phase \notin {"final", "off"}
    BY <1>4 DEF Loops, RenderSample, ApplyNeigh, ProbeStart, ProbeAnswered, ApplyProbes,
       ProbeGateClosed, FlushDrain, PruneEvents, StopInv
  <2>3. QED
    BY <1>1, <2>1, <2>2, LoopStop
<1>5. QED
  BY <1>2, <1>3, <1>4

LEMMA NewProcessStop ==
    ASSUME NewProcess PROVE StopInv'
<1>1. pc'[Boot] = "list" /\ phase' = "boot"
  BY DEF NewProcess, Proc
<1>2. QED
  BY <1>1 DEF StopInv

LEMMA FinalStop ==
    ASSUME TypeOK, StopInv, FinalDrain \/ FinalNothing
    PROVE  StopInv'
<1>1. /\ UNCHANGED <<pc, render, probe>> /\ phase = "run" /\ phase' \in {"final", "off"}
      /\ render.pc = "idle" /\ probe.pc = "idle"
  BY DEF FinalDrain, FinalNothing, LoopsStopped, reqVars, probeVars
<1>2. CASE FinalDrain
  <2>1. \A m \in DOMAIN devs : ~[devs[m] EXCEPT !.dirty = FALSE].dirty
    BY RecordsTyped DEF Dev
  <2>2. /\ ipMoves' = NoEntries /\ events' = NoEvents /\ phase' = "final"
        /\ \A m \in DOMAIN devs' : ~devs'[m].dirty
    BY <1>2, <2>1 DEF FinalDrain, drain
  <2>3. QED
    BY <1>1, <2>2 DEF StopInv
<1>3. CASE FinalNothing
  <2>1. Drained = NoBatch /\ UNCHANGED <<devs, ipMoves, events, flushing>> /\ ~flushing
    BY <1>3 DEF FinalNothing, LoopsStopped, memVars, flushVars
  <2>2. /\ Drained.moves = ipMoves /\ Drained.events = events
        /\ DOMAIN Drained.seen = {n \in DOMAIN devs : devs[n].dirty}
    BY DEF Drained
  <2>3. ipMoves = NoEntries /\ events = NoEvents /\ DOMAIN Drained.seen = {}
    BY <2>1, <2>2 DEF NoBatch, NoEntries
  <2>4. QED
    BY <1>1, <2>1, <2>2, <2>3 DEF StopInv
<1>4. QED
  BY <1>2, <1>3

LEMMA NextStop == TypeOK /\ StopInv /\ [Next]_vars => StopInv'
<1> SUFFICES ASSUME TypeOK, StopInv, [Next]_vars PROVE StopInv'
  OBVIOUS
<1>1. CASE \E p \in Handler : Request(p)
  BY <1>1, RequestStop
<1>2. CASE \E p \in Proc : Reload(p)
  BY <1>2, ReloadStop
<1>3. CASE Shutdown \/ Crash
  BY <1>3, FinalStop, NewProcessStop DEF Shutdown, Restart, Crash
<1>4. CASE Tick \/ UNCHANGED vars
  BY <1>4 DEF Tick, vars, StopInv, memVars, flushVars, reqVars, probeVars
<1>5. QED
  BY <1>1, <1>2, <1>3, <1>4, LoopsStop DEF Next

LEMMA InitStop == Init => StopInv
BY DEF Init, StopInv, Proc

LEMMA StopInvariant == Spec => []StopInv
BY InitStop, NextStop, TypeCorrect, PTL DEF Spec

\* After a stop whose last flush did not fail, memory holds nothing the tables
\* do not (Run, flush).
THEOREM CleanShutdownAlwaysPersists == Spec => []CleanShutdownPersists
<1>1. SaveInv /\ StopInv => CleanShutdownPersists
  BY DEF SaveInv, StopInv, CleanShutdownPersists, OnDisk, NoBatch, NoEntries
<1>2. QED
  BY <1>1, SaveInvariant, StopInvariant, PTL

-----------------------------------------------------------------------------
(* LiveInv is inductive.                                                   *)

LEMMA NextLive == TypeOK /\ LiveInv /\ [Next]_vars => LiveInv'
<1> SUFFICES ASSUME TypeOK, LiveInv, [Next]_vars PROVE LiveInv'
  OBVIOUS
<1> USE DEF LiveInv, NoStaleLiveness
<1>1. ASSUME UNCHANGED <<probe, probed>>, NEW m \in DOMAIN devs',
             m \in DOMAIN devs, devs'[m].status = devs[m].status
      PROVE  ~probed' => devs'[m].status = "unknown"
  BY <1>1
<1>2. CASE UNCHANGED <<probe, probed, devs>>
  BY <1>2
<1>3. ASSUME NEW p \in Proc, Load(p) PROVE LiveInv'
  <2>1. UNCHANGED <<probe, probed>>
    BY <1>3 DEF Load, probeVars
  <2>2. ASSUME NEW m \in DOMAIN devs', ~probed PROVE devs'[m].status = "unknown"
    <3>1. m \in DOMAIN devs => Reloaded(devs[m], listed[p][m]).status = devs[m].status
      BY RecordsTyped DEF Reloaded, Dev
    <3>2. Seeded(listed[p][m]).status = "unknown"
      BY DEF Seeded
    <3>3. QED
      BY <1>3, <2>2, <3>1, <3>2 DEF Load
  <2>3. QED
    BY <2>1, <2>2
<1>4. CASE ApplyNeigh
  <2>1. PICK present \in SUBSET DOMAIN devs :
          \E neigh \in [present -> IP] : applyNeigh(neigh, render.at)
    BY <1>4 DEF ApplyNeigh
  <2>2. PICK neigh \in [present -> IP] : applyNeigh(neigh, render.at)
    BY <2>1
  <2>3. devs' = [m \in DOMAIN devs |->
                   IF m \in DOMAIN neigh THEN Sighted(devs[m], neigh[m], render.at)
                                         ELSE devs[m]]
    BY <2>2 DEF applyNeigh
  <2>4. UNCHANGED <<probe, probed>>
    BY <1>4 DEF ApplyNeigh, probeVars
  <2>5. \A m \in DOMAIN devs : devs'[m].status = devs[m].status
    BY <2>3, RecordsTyped, SightedCovered
  <2>6. QED
    BY <2>3, <2>4, <2>5
<1>5. CASE ProbeStart \/ ProbeAnswered \/ ApplyProbes
  BY <1>5 DEF ProbeStart, ProbeAnswered, ApplyProbes, TypeOK
<1>6. CASE ProbeGateClosed
  <2>1. /\ devs' = [m \in DOMAIN devs |-> [devs[m] EXCEPT !.status = "unknown"]]
        /\ probe' = probe /\ probe.pc = "idle"
    BY <1>6 DEF ProbeGateClosed, clearLive
  <2>2. \A m \in DOMAIN devs : [devs[m] EXCEPT !.status = "unknown"].status = "unknown"
    BY RecordsTyped DEF Dev
  <2>3. QED
    BY <2>1, <2>2
<1>7. ASSUME drain, UNCHANGED <<probe, probed>> PROVE LiveInv'
  <2>1. devs' = [m \in DOMAIN devs |-> [devs[m] EXCEPT !.dirty = FALSE]]
    BY <1>7 DEF drain
  <2>2. \A m \in DOMAIN devs : [devs[m] EXCEPT !.dirty = FALSE].status = devs[m].status
    BY RecordsTyped DEF Dev
  <2>3. QED
    BY <1>7, <2>1, <2>2
<1>8. CASE FlushFails
  <2>1. /\ devs' = [m \in DOMAIN devs |->
                      IF m \in DOMAIN batch.seen THEN [devs[m] EXCEPT !.dirty = TRUE]
                                                 ELSE devs[m]]
        /\ UNCHANGED <<probe, probed>>
    BY <1>8 DEF FlushFails, restore, probeVars
  <2>2. \A m \in DOMAIN devs : [devs[m] EXCEPT !.dirty = TRUE].status = devs[m].status
    BY RecordsTyped DEF Dev
  <2>3. QED
    BY <2>1, <2>2
<1>9. CASE NewProcess
  BY <1>9 DEF NewProcess, NoEntries
<1>10. CASE \E p \in Handler : Request(p)
  BY <1>2, <1>10 DEF Request, Track, PatchIP, Untrack, UntrackFails, EditConfig, memVars,
     probeVars
<1>11. CASE \E p \in Proc : List(p) \/ ListFails(p)
  BY <1>2, <1>11 DEF List, ListFails, memVars, probeVars
<1>12. CASE Loops
  BY <1>2, <1>4, <1>5, <1>6, <1>7, <1>8, <1>12
  DEF Loops, RenderSample, FlushDrain, FlushCommit, PruneEvents, memVars, probeVars
<1>13. CASE Shutdown \/ Crash
  BY <1>2, <1>7, <1>9, <1>13
  DEF Shutdown, FinalDrain, FinalNothing, Restart, Crash, memVars, probeVars
<1>14. CASE Tick \/ UNCHANGED vars
  BY <1>2, <1>14 DEF Tick, vars, memVars, probeVars
<1>15. QED
  BY <1>3, <1>10, <1>11, <1>12, <1>13, <1>14 DEF Next, Reload

\* Once the gate has closed no device shows a verdict, whatever reload or late
\* cycle comes in between (probeLoop, clearLive, Load).
THEOREM LivenessNeverStale == Spec => []NoStaleLiveness
<1>1. Init => LiveInv
  BY DEF Init, LiveInv, NoStaleLiveness, NoEntries
<1>2. LiveInv => NoStaleLiveness
  BY DEF LiveInv
<1>3. QED
  BY <1>1, <1>2, NextLive, TypeCorrect, PTL DEF Spec

-----------------------------------------------------------------------------
(* The history of a device grows at its end.                               *)

LEMMA PrefixOfConcat ==
    ASSUME NEW s \in Seq(Event), NEW t \in Seq(Event)
    PROVE  IsPrefix(s, s \o t)
<1>1. Len(s) \in Nat /\ Len(t) \in Nat /\ Len(s \o t) = Len(s) + Len(t)
  BY ConcatProperties, LenProperties
<1>2. CASE s = <<>>
  <2>1. Len(s) = 0 /\ s \o t = t
    BY <1>2, EmptySeq, ConcatEmptySeq
  <2>2. SubSeq(s, 1, 0) = <<>> /\ SubSeq(t, 1, 0) = <<>>
    BY SubSeqProperties
  <2>3. QED
    BY <1>1, <2>1, <2>2 DEF IsPrefix
<1>3. CASE s # <<>>
  <2>1. 1 \in 1 .. Len(s) /\ Len(s) \in 1 .. Len(s)
    BY <1>1, <1>3, EmptySeq
  <2>2. SubSeq(s \o t, 1, Len(s)) = SubSeq(s, 1, Len(s))
    BY <2>1, SubSeqOfConcat1
  <2>3. QED
    BY <1>1, <2>2 DEF IsPrefix
<1>4. QED
  BY <1>2, <1>3

LEMMA Regrouped ==
    ASSUME NEW s \in Seq(Event), NEW t \in Seq(Event), NEW u \in Seq(Event)
    PROVE  (s \o t) \o u = s \o (t \o u)
OBVIOUS

LEMMA PrefixReflexive ==
    ASSUME NEW s \in Seq(Event)
    PROVE  IsPrefix(s, s)
BY LenProperties DEF IsPrefix

\* What a device's history is made of.
LEMMA HistoryTyped ==
    ASSUME TypeOK, NEW m \in Mac
    PROVE  /\ journal[m] \in Seq(Event) /\ batch.events[m] \in Seq(Event)
           /\ events[m] \in Seq(Event)
           /\ History(m) \in Seq(Event)
<1>1. journal[m] \in Seq(Event) /\ batch.events[m] \in Seq(Event) /\ events[m] \in Seq(Event)
  BY DEF TypeOK
<1>2. QED
  BY <1>1, ConcatProperties DEF History

\* Steps that leave the transitions where they are, or only regroup them.
LEMMA UnsavedSame ==
    /\ UNCHANGED <<batch, events>> => Unsaved' = Unsaved
    /\ NewProcess => Unsaved' = Abstract!None
<1>1. UNCHANGED <<batch, events>> => Unsaved' = Unsaved
  BY DEF Unsaved
<1>2. ASSUME NewProcess PROVE Unsaved' = Abstract!None
  <2>1. \A m \in Mac : batch'.events[m] = <<>> /\ events'[m] = <<>>
    BY <1>2 DEF NewProcess, NoBatch, NoEvents
  <2>2. <<>> \o <<>> = <<>>
    OBVIOUS
  <2>3. QED
    BY <2>1, <2>2 DEF Unsaved, Abstract!None
<1>3. QED
  BY <1>1, <1>2

LEMMA DrainKeepsUnsaved ==
    ASSUME TypeOK, SaveInv, drain
    PROVE  Unsaved' = Unsaved
<1>1. ASSUME NEW m \in Mac PROVE Unsaved'[m] = Unsaved[m]
  <2>1. batch.events[m] = <<>> /\ batch'.events[m] = events[m] /\ events'[m] = <<>>
    BY DEF drain, Drained, SaveInv, NoBatch, NoEvents
  <2>2. events[m] \in Seq(Event)
    BY HistoryTyped
  <2>3. <<>> \o events[m] = events[m] /\ events[m] \o <<>> = events[m]
    BY <2>2, ConcatEmptySeq
  <2>4. QED
    BY <2>1, <2>3 DEF Unsaved
<1>2. QED
  BY <1>1 DEF Unsaved

LEMMA FailKeepsUnsaved ==
    ASSUME TypeOK, FlushFails
    PROVE  Unsaved' = Unsaved
<1>1. ASSUME NEW m \in Mac PROVE Unsaved'[m] = Unsaved[m]
  <2>1. batch'.events[m] = <<>> /\ events'[m] = batch.events[m] \o events[m]
    BY DEF FlushFails, restore, NoBatch, NoEvents
  <2>2. batch.events[m] \o events[m] \in Seq(Event)
    BY HistoryTyped, ConcatProperties
  <2>3. <<>> \o (batch.events[m] \o events[m]) = batch.events[m] \o events[m]
    BY <2>2, ConcatEmptySeq
  <2>4. QED
    BY <2>1, <2>3 DEF Unsaved
<1>2. QED
  BY <1>1 DEF Unsaved

LEMMA SamePrefix == \A s, t : Abstract!IsPrefix(s, t) <=> IsPrefix(s, t)
BY DEF Abstract!IsPrefix, IsPrefix

LEMMA ApplyProbesRecords ==
    ASSUME TypeOK, StopInv, ApplyProbes
    PROVE  Abstract!Record
<1>1. PICK answer \in [probe.targets \cap DOMAIN devs -> Answer] :
        applyProbes(answer, probe.at)
  BY DEF ApplyProbes
<1>2. ASSUME NEW m \in Mac PROVE IsPrefix(Unsaved[m], Unsaved'[m])
  <2> DEFINE x == [ts |-> probe.at, state |-> Verdict(answer[m])]
             b == batch.events[m]
             e == events[m]
  <2>1. b \in Seq(Event) /\ e \in Seq(Event) /\ b \o e \in Seq(Event)
    BY HistoryTyped, ConcatProperties
  <2>2. Unsaved[m] = b \o e /\ Unsaved'[m] = b \o events'[m]
    BY DEF Unsaved, ApplyProbes, flushVars
  <2>3. CASE events'[m] = e
    BY <2>1, <2>2, <2>3, PrefixReflexive
  <2>4. CASE events'[m] # e
    <3>1. events'[m] = Append(e, x)
      BY <1>1, <2>4 DEF applyProbes
    <3>2. x \in Event
      BY RecordsTyped DEF Event, Verdict
    <3>3. events'[m] = e \o <<x>> /\ <<x>> \in Seq(Event)
      BY <2>1, <3>1, <3>2, AppendIsConcat
    <3> HIDE DEF x, b, e
    <3>4. b \o (e \o <<x>>) = (b \o e) \o <<x>>
      BY <2>1, <3>3, Regrouped
    <3>5. QED
      BY <2>1, <2>2, <3>3, <3>4, PrefixOfConcat
  <2>5. QED
    BY <2>3, <2>4
<1>3. UNCHANGED <<db, journal, phase>> /\ phase \notin {"final", "off"}
  BY DEF ApplyProbes, dbVars, StopInv
<1>4. QED
  BY <1>2, <1>3, SamePrefix DEF Abstract!Record

\* A stored scalar never moves back (MonotoneStep), in the terms of WriteBehind.
LEMMA RowsForward ==
    ASSUME TypeOK, [Next]_vars
    PROVE  Abstract!Forward(db')
BY MonotoneStep DEF Abstract!Forward, Abstract!NotBehind, AtLeast

LEMMA CommitSaves ==
    ASSUME TypeOK, StopInv, FlushCommit
    PROVE  Abstract!Save
<1>1. Abstract!Forward(db')
  BY RowsForward DEF Next, Loops
<1>2. DOMAIN db' = DOMAIN db
  BY DEF FlushCommit, CommitBatch
<1>3. ASSUME NEW m \in Mac
      PROVE  /\ IsPrefix(journal[m], journal'[m])
             /\ journal'[m] \o Unsaved'[m] = journal[m] \o Unsaved[m]
  <2> DEFINE j == journal[m]
             b == batch.events[m]
             e == events[m]
  <2>1. j \in Seq(Event) /\ b \in Seq(Event) /\ e \in Seq(Event)
    BY HistoryTyped
  <2>2. /\ journal'[m] = j \o b
        /\ Unsaved[m] = b \o e
        /\ Unsaved'[m] = <<>> \o e
    BY DEF FlushCommit, CommitBatch, memVars, NoBatch, NoEvents, Unsaved
  <2> HIDE DEF j, b, e
  <2>3. <<>> \o e = e /\ (j \o b) \o e = j \o (b \o e)
    BY <2>1, ConcatEmptySeq, Regrouped
  <2>4. IsPrefix(j, j \o b)
    BY <2>1, PrefixOfConcat
  <2>5. QED
    BY <2>2, <2>3, <2>4 DEF j
<1>4. CASE phase = "final"
  <2>1. \A m \in Mac : events'[m] = <<>> /\ batch'.events[m] = <<>>
    BY <1>4 DEF StopInv, FlushCommit, memVars, NoBatch, NoEvents
  <2>2. <<>> \o <<>> = <<>>
    OBVIOUS
  <2>3. Unsaved' = Abstract!None
    BY <2>1, <2>2 DEF Unsaved, Abstract!None
  <2>4. phase' = "off"
    BY <1>4 DEF FlushCommit
  <2>5. QED
    BY <1>1, <1>2, <1>3, <1>4, <2>3, <2>4, SamePrefix DEF Abstract!Save
<1>5. CASE phase # "final"
  <2>1. phase' = phase /\ phase # "off"
    BY <1>5 DEF FlushCommit, StopInv
  <2>2. QED
    BY <1>1, <1>2, <1>3, <1>5, <2>1, SamePrefix DEF Abstract!Save
<1>6. QED
  BY <1>4, <1>5

LEMMA PruneIsAbstract ==
    ASSUME TypeOK, PruneEvents
    PROVE  Abstract!Prune
<1>1. PICK cutoff \in 1 .. now :
        journal' = [m \in Mac |-> SubSeq(journal[m],
                                         Cardinality(Expired(m, cutoff)) + 1,
                                         Len(journal[m]))]
  BY DEF PruneEvents
<1>2. ASSUME NEW m \in Mac
      PROVE  Cardinality(Expired(m, cutoff)) \in 0 .. Len(journal[m])
  <2> DEFINE n == Len(journal[m])
             E == Expired(m, cutoff)
  <2>1. n \in Nat
    BY HistoryTyped, LenProperties
  <2>2. E \subseteq 1 .. n
    BY DEF Expired
  <2> HIDE DEF n, E
  <2>3. IsFiniteSet(1 .. n) /\ Cardinality(1 .. n) = IF 1 > n THEN 0 ELSE n - 1 + 1
    BY <2>1, FS_Interval, 1 \in Int, n \in Int
  <2>4. IsFiniteSet(E) /\ Cardinality(E) <= Cardinality(1 .. n)
    BY <2>2, <2>3, FS_Subset
  <2>5. Cardinality(E) \in Nat
    BY <2>4, FS_CardinalityType
  <2>6. Cardinality(E) \in 0 .. n
    BY <2>1, <2>3, <2>4, <2>5
  <2>7. QED
    BY <2>6 DEF n, E
<1>3. UNCHANGED <<db, phase>> /\ Unsaved' = Unsaved /\ phase = "run"
  BY UnsavedSame DEF PruneEvents, memVars, flushVars
<1>4. QED
  BY <1>1, <1>2, <1>3 DEF Abstract!Prune

LEMMA RequestIsAbstract ==
    ASSUME TypeOK, NEW p \in Handler, Request(p)
    PROVE  Abstract!Configure \/ \E m \in Mac : Abstract!Forget(m)
<1>1. Unsaved' = Unsaved /\ phase' = phase
  BY UnsavedSame DEF Request, Track, PatchIP, Untrack, UntrackFails, EditConfig, memVars,
     flushVars
<1>2. Abstract!Forward(db')
  BY RowsForward DEF Next
<1>3. CASE \E m \in Mac, ip \in IP : Track(p, m, ip) \/ PatchIP(p, m, ip)
  <2>1. DOMAIN db \subseteq DOMAIN db' /\ journal' = journal
    BY <1>3 DEF Track, PatchIP, Add, Put
  <2>2. QED
    BY <1>1, <1>2, <2>1 DEF Abstract!Configure
<1>4. CASE EditConfig(p)
  <2>1. db' = db /\ journal' = journal
    BY <1>4 DEF EditConfig, dbVars
  <2>2. QED
    BY <1>1, <1>2, <2>1 DEF Abstract!Configure
<1>5. ASSUME NEW m \in Mac, Untrack(p, m) \/ UntrackFails(p, m)
      PROVE  Abstract!Forget(m)
  <2>1. /\ db' = db \/ db' = [k \in DOMAIN db \ {m} |-> db[k]]
        /\ journal' = [journal EXCEPT ![m] = <<>>]
    BY <1>5 DEF Untrack, UntrackFails, Drop
  <2>2. QED
    BY <1>1, <2>1 DEF Abstract!Forget
<1>6. QED
  BY <1>3, <1>4, <1>5 DEF Request

\* The steps of WriteBehind that record nothing.
Keeping ==
    \/ Abstract!Start \/ Abstract!Configure \/ Abstract!Save \/ Abstract!Prune
    \/ \E m \in Mac : Abstract!Forget(m)
    \/ Abstract!Stop \/ Abstract!LastSaveFails \/ Abstract!Restart
    \/ UNCHANGED Abstract!vars

\* Every step of the presence model is a step of WriteBehind or leaves all it
\* sees alone; only a probe cycle records.
LEMMA KeepingStep ==
    ASSUME TypeOK, SaveInv, StopInv, [Next]_vars
    PROVE  Keeping \/ (ApplyProbes /\ Abstract!Record)
<1> DEFINE Quiet == UNCHANGED <<db, journal, phase>> /\ Unsaved' = Unsaved
<1>1. ASSUME Quiet PROVE Keeping
  BY <1>1 DEF Abstract!vars, Keeping
<1>2. CASE \E p \in Handler : Request(p)
  BY <1>2, RequestIsAbstract DEF Keeping
<1>3. ASSUME NEW p \in Proc, Reload(p) PROVE Quiet \/ Abstract!Start
  <2>1. UNCHANGED <<db, journal>> /\ Unsaved' = Unsaved
    BY <1>3, UnsavedSame DEF Reload, List, ListFails, Load, dbVars, memVars, flushVars
  <2>2. phase' = phase \/ (p = Boot /\ pc[p] # "idle" /\ phase' = "run")
    BY <1>3 DEF Reload, List, ListFails, Load, Booted
  <2>3. QED
    BY <2>1, <2>2 DEF StopInv, Abstract!Start
<1>4. CASE FlushDrain \/ FinalDrain \/ FinalNothing
  <2>1. UNCHANGED <<db, journal>> /\ Unsaved' = Unsaved /\ phase = "run"
    <3>1. drain \/ UNCHANGED <<batch, events>>
      BY <1>4 DEF FlushDrain, FinalDrain, FinalNothing, memVars, flushVars
    <3>2. UNCHANGED <<db, journal>> /\ phase = "run"
      BY <1>4 DEF FlushDrain, FinalDrain, FinalNothing, dbVars
    <3>3. Unsaved' = Unsaved
      <4>1. CASE drain
        BY <4>1, DrainKeepsUnsaved
      <4>2. CASE UNCHANGED <<batch, events>>
        BY <4>2, UnsavedSame
      <4>3. QED
        BY <3>1, <4>1, <4>2
    <3>4. QED
      BY <3>2, <3>3
  <2>2. CASE FlushDrain \/ FinalDrain
    <3>1. phase' \in {phase, "final"}
      BY <2>2 DEF FlushDrain, FinalDrain
    <3>2. QED
      BY <1>1, <2>1, <3>1 DEF Abstract!Stop, Keeping
  <2>3. CASE FinalNothing
    <3>1. events = NoEvents /\ batch = NoBatch
      BY <2>3 DEF FinalNothing, Drained, NoBatch, SaveInv, LoopsStopped
    <3>2. \A m \in Mac : events[m] = <<>> /\ batch.events[m] = <<>>
      BY <3>1 DEF NoEvents, NoBatch
    <3>3. <<>> \o <<>> = <<>>
      OBVIOUS
    <3>4. Unsaved = Abstract!None
      BY <3>2, <3>3 DEF Unsaved, Abstract!None
    <3>5. phase' = "off"
      BY <2>3 DEF FinalNothing
    <3>6. QED
      BY <2>1, <3>4, <3>5 DEF Abstract!Stop, Keeping
  <2>4. QED
    BY <1>4, <2>2, <2>3
<1>5. CASE FlushFails
  <2>1. UNCHANGED <<db, journal>> /\ Unsaved' = Unsaved
    BY <1>5, FailKeepsUnsaved DEF FlushFails, dbVars
  <2>2. phase' = phase \/ (phase = "final" /\ phase' = "lost")
    BY <1>5 DEF FlushFails
  <2>3. QED
    BY <1>1, <2>1, <2>2 DEF Abstract!LastSaveFails, Keeping
<1>6. CASE FlushCommit \/ ApplyProbes \/ PruneEvents
  BY <1>6, CommitSaves, ApplyProbesRecords, PruneIsAbstract DEF Keeping
<1>7. CASE Restart \/ Crash
  <2>1. UNCHANGED <<db, journal>> /\ Unsaved' = Abstract!None /\ phase' = "boot"
    BY <1>7, UnsavedSame DEF Restart, Crash, NewProcess, dbVars
  <2>2. QED
    BY <2>1 DEF Abstract!Restart, Keeping
<1>8. CASE RenderSample \/ ApplyNeigh \/ ProbeStart \/ ProbeAnswered \/ ProbeGateClosed \/ Tick
           \/ UNCHANGED vars
  BY <1>1, <1>8, UnsavedSame
  DEF RenderSample, ApplyNeigh, ProbeStart, ProbeAnswered, ProbeGateClosed, Tick, vars,
      dbVars, memVars, flushVars
<1>9. QED
  BY <1>1, <1>2, <1>3, <1>4, <1>5, <1>6, <1>7, <1>8 DEF Next, Loops, Shutdown, Keeping

LEMMA AbstractStep ==
    ASSUME TypeOK, SaveInv, StopInv, [Next]_vars
    PROVE  [Abstract!Next]_(Abstract!vars)
BY KeepingStep DEF Keeping, Abstract!Next

LEMMA InitAbstract == Init => Abstract!Init
<1> SUFFICES ASSUME Init PROVE Abstract!Init
  OBVIOUS
<1>1. DOMAIN db \subseteq Mac
  BY DEF Init
<1>2. \A m \in Mac : events[m] = <<>> /\ batch.events[m] = <<>> /\ journal[m] = <<>>
  BY DEF Init, NoBatch, NoEvents
<1>3. <<>> \o <<>> = <<>> /\ <<>> \in Seq(Event)
  OBVIOUS
<1>4. Unsaved = Abstract!None
  BY <1>2, <1>3 DEF Unsaved, Abstract!None
<1>5. journal \in [Mac -> Seq(Event)]
  BY <1>3 DEF Init, NoEvents
<1>6. QED
  BY <1>1, <1>4, <1>5 DEF Init, Abstract!Init

\* The presence model implements WriteBehind: every transition reaches its table
\* once and in order, rows move forward, and nothing is lost but with the
\* process (drain, Flush, restore, applyProbes, Load, Run's last flush).
THEOREM PresenceIsDurable == Spec => DurablePresence
<1>1. Init => Abstract!Init
  BY InitAbstract
<1>2. TypeOK /\ SaveInv /\ StopInv /\ [Next]_vars => [Abstract!Next]_(Abstract!vars)
  BY AbstractStep
<1>3. QED
  BY <1>1, <1>2, TypeCorrect, SaveInvariant, StopInvariant, PTL
  DEF Spec, DurablePresence, Abstract!Spec

-----------------------------------------------------------------------------
(* A device's transitions are in time order.                               *)

\* Strengthened by a bound: none is later than the clock, nor, while a cycle's
\* results wait to be applied, than the time they carry.
Ordered(s, t) ==
    /\ \A i \in 1 .. Len(s) : s[i].ts <= t
    /\ \A i, j \in 1 .. Len(s) : i < j => s[i].ts <= s[j].ts
OrderInv == \A m \in Mac : Ordered(History(m), UpBound)

\* u is a stretch of s.
Window(u, s) ==
    \E n \in Nat : \A i \in 1 .. Len(u) : i + n \in 1 .. Len(s) /\ u[i] = s[i + n]

LEMMA EventTimed ==
    ASSUME NEW s \in Seq(Event)
    PROVE  \A i \in 1 .. Len(s) : s[i].ts \in Int
<1> SUFFICES ASSUME NEW i \in 1 .. Len(s) PROVE s[i].ts \in Int
  OBVIOUS
<1>1. s[i] \in Event
  BY ElementOfSeq
<1>2. QED
  BY <1>1 DEF Event, Time

LEMMA WindowOrdered ==
    ASSUME NEW s \in Seq(Event), NEW u \in Seq(Event), NEW t \in Int, NEW b \in Int,
           t <= b, Ordered(s, t), Window(u, s)
    PROVE  Ordered(u, b)
<1>1. PICK n \in Nat : \A i \in 1 .. Len(u) : i + n \in 1 .. Len(s) /\ u[i] = s[i + n]
  BY DEF Window
<1>2. \A i \in 1 .. Len(s) : s[i].ts \in Int
  BY EventTimed
<1>3. Len(u) \in Nat /\ Len(s) \in Nat
  BY LenProperties
<1>4. ASSUME NEW i \in 1 .. Len(u) PROVE u[i].ts <= b
  <2>1. i + n \in 1 .. Len(s) /\ u[i] = s[i + n]
    BY <1>1
  <2>2. s[i + n].ts <= t /\ s[i + n].ts \in Int
    BY <1>2, <2>1 DEF Ordered
  <2>3. QED
    BY <2>1, <2>2
<1>5. ASSUME NEW i \in 1 .. Len(u), NEW j \in 1 .. Len(u), i < j PROVE u[i].ts <= u[j].ts
  <2>1. i + n \in 1 .. Len(s) /\ j + n \in 1 .. Len(s) /\ i + n < j + n
    BY <1>1, <1>5
  <2>2. QED
    BY <1>1, <2>1 DEF Ordered
<1>6. QED
  BY <1>4, <1>5 DEF Ordered

LEMMA AppendOrdered ==
    ASSUME NEW s \in Seq(Event), NEW x \in Event, NEW b \in Int,
           Ordered(s, x.ts), x.ts <= b
    PROVE  Ordered(s \o <<x>>, b)
<1>1. /\ <<x>> \in Seq(Event) /\ Len(<<x>>) = 1 /\ Len(s) \in Nat
      /\ Len(s \o <<x>>) = Len(s) + 1
      /\ \A i \in 1 .. Len(s) : (s \o <<x>>)[i] = s[i]
      /\ (s \o <<x>>)[Len(s) + 1] = x
  <2> DEFINE y == <<x>>
  <2>1. y \in Seq(Event) /\ Len(y) = 1 /\ y[1] = x /\ Len(s) \in Nat
    BY LenProperties
  <2> HIDE DEF y
  <2>2. /\ Len(s \o y) = Len(s) + Len(y)
        /\ \A i \in 1 .. Len(s) + Len(y) :
             (s \o y)[i] = IF i <= Len(s) THEN s[i] ELSE y[i - Len(s)]
    BY <2>1, ConcatProperties
  <2>3. /\ Len(s \o y) = Len(s) + 1
        /\ \A i \in 1 .. Len(s) : (s \o y)[i] = s[i]
    BY <2>1, <2>2
  <2>4. (s \o y)[Len(s) + 1] = x
    <3>1. Len(s) + 1 \in 1 .. Len(s) + Len(y) /\ ~(Len(s) + 1 <= Len(s))
          /\ Len(s) + 1 - Len(s) = 1
      BY <2>1
    <3>2. QED
      BY <2>1, <2>2, <3>1
  <2>5. QED
    BY <2>1, <2>3, <2>4 DEF y
<1>2. x.ts \in Int /\ \A i \in 1 .. Len(s) : s[i].ts \in Int
  <2>1. x.ts \in Int
    BY DEF Event, Time
  <2>2. QED
    BY <2>1, EventTimed
<1> DEFINE h == s \o <<x>>
<1> HIDE DEF h
<1>3. \A i \in 1 .. Len(s) : h[i] = s[i] /\ h[i].ts <= x.ts
  BY <1>1 DEF h, Ordered
<1>4. h[Len(s) + 1] = x /\ Len(h) = Len(s) + 1
  BY <1>1 DEF h
<1>5. ASSUME NEW i \in 1 .. Len(h) PROVE h[i].ts <= b
  BY <1>1, <1>2, <1>3, <1>4
<1>6. ASSUME NEW i \in 1 .. Len(h), NEW j \in 1 .. Len(h), i < j PROVE h[i].ts <= h[j].ts
  <2>1. i \in 1 .. Len(s)
    BY <1>1, <1>4, <1>6
  <2>2. CASE j \in 1 .. Len(s)
    BY <1>3, <1>6, <2>1, <2>2 DEF Ordered
  <2>3. CASE j = Len(s) + 1
    BY <1>3, <1>4, <2>1, <2>3
  <2>4. QED
    BY <1>1, <1>4, <2>2, <2>3
<1>7. QED
  BY <1>5, <1>6 DEF Ordered, h

\* The history without the oldest n of its log.
LEMMA SuffixWindow ==
    ASSUME NEW j \in Seq(Event), NEW u \in Seq(Event), NEW n \in 0 .. Len(j)
    PROVE  Window(SubSeq(j, n + 1, Len(j)) \o u, j \o u)
<1> DEFINE k == SubSeq(j, n + 1, Len(j))
<1>1. Len(j) \in Nat /\ Len(u) \in Nat /\ n \in Nat /\ n <= Len(j)
  BY LenProperties
<1>2. \A i \in n + 1 .. Len(j) : j[i] \in Event
  BY <1>1, ElementOfSeq
<1>3. /\ k \in Seq(Event) /\ Len(k) = Len(j) - n
      /\ \A i \in 1 .. Len(j) - n : k[i] = j[i + n]
  <2>1. /\ k \in Seq(Event)
        /\ Len(k) = IF n + 1 <= Len(j) THEN Len(j) - (n + 1) + 1 ELSE 0
        /\ \A i \in 1 .. Len(j) - (n + 1) + 1 : k[i] = j[n + 1 + i - 1]
    BY <1>1, <1>2, SubSeqProperties
  <2>2. QED
    BY <1>1, <2>1
<1> HIDE DEF k
<1>4. /\ Len(k \o u) = Len(j) - n + Len(u)
      /\ \A i \in 1 .. Len(j) - n + Len(u) :
           (k \o u)[i] = IF i <= Len(j) - n THEN k[i] ELSE u[i - (Len(j) - n)]
  <2>1. /\ Len(k \o u) = Len(k) + Len(u)
        /\ \A i \in 1 .. Len(k) + Len(u) :
             (k \o u)[i] = IF i <= Len(k) THEN k[i] ELSE u[i - Len(k)]
    BY <1>3, ConcatProperties
  <2>2. QED
    BY <1>3, <2>1
<1>5. /\ Len(j \o u) = Len(j) + Len(u)
      /\ \A i \in 1 .. Len(j) + Len(u) :
           (j \o u)[i] = IF i <= Len(j) THEN j[i] ELSE u[i - Len(j)]
  BY ConcatProperties
<1>6. ASSUME NEW i \in 1 .. Len(k \o u)
      PROVE  i + n \in 1 .. Len(j \o u) /\ (k \o u)[i] = (j \o u)[i + n]
  <2>1. i + n \in 1 .. Len(j) + Len(u) /\ i \in 1 .. Len(j) - n + Len(u)
    BY <1>1, <1>4, <1>6
  <2>2. CASE i <= Len(j) - n
    BY <1>1, <1>3, <1>4, <1>5, <2>1, <2>2
  <2>3. CASE ~(i <= Len(j) - n)
    <3>1. ~(i + n <= Len(j)) /\ i - (Len(j) - n) = i + n - Len(j)
      BY <1>1, <2>1, <2>3
    <3>2. QED
      BY <1>4, <1>5, <2>1, <2>3, <3>1
  <2>4. QED
    BY <2>2, <2>3
<1>7. QED
  BY <1>1, <1>6 DEF Window, k

LEMMA OtherWindows ==
    ASSUME NEW j \in Seq(Event), NEW u \in Seq(Event)
    PROVE  Window(j, j \o u) /\ Window(u, j \o u)
<1>1. /\ Len(j) \in Nat /\ Len(u) \in Nat
      /\ Len(j \o u) = Len(j) + Len(u)
      /\ \A i \in 1 .. Len(j) + Len(u) :
           (j \o u)[i] = IF i <= Len(j) THEN j[i] ELSE u[i - Len(j)]
  BY ConcatProperties, LenProperties
<1>2. \A i \in 1 .. Len(j) : i + 0 \in 1 .. Len(j \o u) /\ j[i] = (j \o u)[i + 0]
  BY <1>1
<1>3. \A i \in 1 .. Len(u) : i + Len(j) \in 1 .. Len(j \o u) /\ u[i] = (j \o u)[i + Len(j)]
  BY <1>1
<1>4. 0 \in Nat
  OBVIOUS
<1>5. QED
  BY <1>1, <1>2, <1>3, <1>4 DEF Window

\* Saved, then unsaved.
LEMMA HistoryIs ==
    ASSUME NEW m \in Mac
    PROVE  /\ TypeOK => /\ Unsaved[m] \in Seq(Event)
                        /\ History(m) = journal[m] \o Unsaved[m]
           /\ TypeOK' => /\ Unsaved'[m] \in Seq(Event) /\ journal'[m] \in Seq(Event)
                         /\ History(m)' = journal'[m] \o Unsaved'[m]
<1>1. ASSUME TypeOK
      PROVE  Unsaved[m] \in Seq(Event) /\ History(m) = journal[m] \o Unsaved[m]
  <2>1. /\ journal[m] \in Seq(Event) /\ batch.events[m] \in Seq(Event)
        /\ events[m] \in Seq(Event)
    BY <1>1, HistoryTyped
  <2>2. batch.events[m] \o events[m] \in Seq(Event)
    BY <2>1, ConcatProperties
  <2>3. Unsaved[m] = batch.events[m] \o events[m]
    BY DEF Unsaved
  <2>4. History(m) = (journal[m] \o batch.events[m]) \o events[m]
    BY DEF History
  <2>5. (journal[m] \o batch.events[m]) \o events[m]
          = journal[m] \o (batch.events[m] \o events[m])
    BY <2>1, Regrouped
  <2>6. QED
    BY <2>1, <2>2, <2>3, <2>4, <2>5
<1>2. ASSUME TypeOK'
      PROVE  /\ Unsaved'[m] \in Seq(Event) /\ journal'[m] \in Seq(Event)
             /\ History(m)' = journal'[m] \o Unsaved'[m]
  <2>1. journal'[m] \in Seq(Event) /\ batch'.events[m] \in Seq(Event) /\ events'[m] \in Seq(Event)
    BY <1>2 DEF TypeOK
  <2>2. batch'.events[m] \o events'[m] \in Seq(Event)
    BY <2>1, ConcatProperties
  <2>3. Unsaved'[m] = batch'.events[m] \o events'[m]
    BY DEF Unsaved
  <2>4. History(m)' = (journal'[m] \o batch'.events[m]) \o events'[m]
    BY DEF History
  <2>5. (journal'[m] \o batch'.events[m]) \o events'[m]
          = journal'[m] \o (batch'.events[m] \o events'[m])
    BY <2>1, Regrouped
  <2>6. QED
    BY <2>1, <2>2, <2>3, <2>4, <2>5
<1>3. QED
  BY <1>1, <1>2

LEMMA WindowReflexive ==
    ASSUME NEW s \in Seq(Event) PROVE Window(s, s)
<1>1. \A i \in 1 .. Len(s) : i + 0 \in 1 .. Len(s) /\ s[i] = s[i + 0]
  BY LenProperties
<1>2. 0 \in Nat
  OBVIOUS
<1>3. QED
  BY <1>1, <1>2 DEF Window

\* But for the transitions a probe cycle appends, a step keeps a stretch.
LEMMA HistoryWindow ==
    ASSUME TypeOK, TypeOK', SaveInv, StopInv, [Next]_vars, NEW m \in Mac, ~ApplyProbes
    PROVE  Window(History(m)', History(m))
<1> DEFINE j == journal[m]
           u == Unsaved[m]
<1>1. /\ j \in Seq(Event) /\ u \in Seq(Event) /\ History(m) = j \o u
      /\ Unsaved'[m] \in Seq(Event) /\ journal'[m] \in Seq(Event)
      /\ History(m)' = journal'[m] \o Unsaved'[m]
  BY HistoryIs, HistoryTyped
<1>2. ASSUME History(m)' = History(m) PROVE Window(History(m)', History(m))
  <2>1. History(m) \in Seq(Event)
    BY HistoryTyped
  <2>2. QED
    BY <1>2, <2>1, WindowReflexive
<1>3. CASE Abstract!Prune
  <2>1. PICK n \in 0 .. Len(j) : journal'[m] = SubSeq(j, n + 1, Len(j))
    BY <1>3 DEF Abstract!Prune
  <2>2. Unsaved' = Unsaved
    BY <1>3 DEF Abstract!Prune
  <2> HIDE DEF j
  <2>3. QED
    BY <1>1, <2>1, <2>2, SuffixWindow
<1>4. ASSUME NEW k \in Mac, Abstract!Forget(k) PROVE Window(History(m)', History(m))
  <2>1. Unsaved' = Unsaved /\ journal'[m] = IF m = k THEN <<>> ELSE j
    BY <1>4 DEF Abstract!Forget, TypeOK
  <2>2. <<>> \o u = u
    BY <1>1, ConcatEmptySeq
  <2> HIDE DEF j, u
  <2>3. QED
    BY <1>1, <1>2, <2>1, <2>2, OtherWindows DEF u
<1>5. CASE Abstract!Restart
  <2>1. journal'[m] = j /\ Unsaved'[m] = <<>>
    BY <1>5 DEF Abstract!Restart, Abstract!None
  <2>2. j \o <<>> = j
    BY <1>1, ConcatEmptySeq
  <2> HIDE DEF j, u
  <2>3. QED
    BY <1>1, <2>1, <2>2, OtherWindows
<1>6. CASE Abstract!Save
  BY <1>1, <1>2, <1>6 DEF Abstract!Save
<1>7. CASE Abstract!Start \/ Abstract!Configure \/ Abstract!Stop \/ Abstract!LastSaveFails
           \/ UNCHANGED Abstract!vars
  BY <1>1, <1>2, <1>7
  DEF Abstract!Start, Abstract!Configure, Abstract!Stop, Abstract!LastSaveFails, Abstract!vars
<1>8. QED
  BY <1>3, <1>4, <1>5, <1>6, <1>7, KeepingStep DEF Keeping

LEMMA BoundNeverBack ==
    ASSUME TypeOK, ScalarInv, [Next]_vars
    PROVE  UpBound \in Int /\ UpBound' \in Int /\ UpBound <= UpBound'
<1>1. /\ now \in Int /\ UpBound \in Int
      /\ UpBound <= now
      /\ probe.pc = "answered" => UpBound = probe.at
  BY RecordsTyped DEF ScalarInv, UpBound, Time
<1>2. CASE UNCHANGED <<probe, now>>
  BY <1>1, <1>2 DEF UpBound
<1>3. CASE ProbeAnswered
  <2>1. now' = now /\ probe'.pc = "answered" /\ probe'.at = now
    BY <1>3 DEF ProbeAnswered, TypeOK
  <2>2. QED
    BY <1>1, <2>1 DEF UpBound
<1>4. CASE (ProbeStart \/ ApplyProbes \/ NewProcess) /\ now' = now
  <2>1. now' = now /\ probe'.pc # "answered"
    BY <1>4 DEF ProbeStart, ApplyProbes, NewProcess
  <2>2. QED
    BY <1>1, <2>1 DEF UpBound
<1>5. CASE Tick
  <2>1. now' = now + 1 /\ probe' = probe
    BY <1>5 DEF Tick, probeVars
  <2>2. QED
    BY <1>1, <2>1 DEF UpBound
<1>6. CASE \E p \in Handler : Request(p)
  BY <1>2, <1>6
  DEF Request, Track, PatchIP, Untrack, UntrackFails, EditConfig, probeVars
<1>7. CASE \E p \in Proc : Reload(p)
  BY <1>2, <1>7 DEF Reload, List, ListFails, Load, probeVars
<1>8. CASE Loops
  <2>1. CASE ProbeStart \/ ApplyProbes
    BY <1>4, <2>1 DEF ProbeStart, ApplyProbes
  <2>2. CASE RenderSample \/ ApplyNeigh \/ ProbeGateClosed
    BY <1>2, <2>2 DEF RenderSample, ApplyNeigh, ProbeGateClosed, probeVars
  <2>3. CASE FlushDrain \/ FlushCommit \/ FlushFails \/ PruneEvents
    BY <1>2, <2>3 DEF FlushDrain, FlushCommit, FlushFails, PruneEvents, probeVars
  <2>4. QED
    BY <1>3, <1>8, <2>1, <2>2, <2>3 DEF Loops
<1>9. CASE Shutdown \/ Crash
  BY <1>2, <1>4, <1>9 DEF Shutdown, FinalDrain, FinalNothing, Restart, Crash, probeVars
<1>10. CASE UNCHANGED vars
  BY <1>2, <1>10 DEF vars
<1>11. QED
  BY <1>5, <1>6, <1>7, <1>8, <1>9, <1>10 DEF Next

LEMMA ApplyProbesOrder ==
    ASSUME TypeOK, ScalarInv, OrderInv, ApplyProbes, NEW m \in Mac
    PROVE  Ordered(History(m)', UpBound')
<1>1. PICK answer \in [probe.targets \cap DOMAIN devs -> Answer] :
        applyProbes(answer, probe.at)
  BY DEF ApplyProbes
<1>2. UpBound = probe.at /\ UpBound \in Int /\ UpBound' \in Int /\ UpBound <= UpBound'
  BY BoundNeverBack DEF ApplyProbes, UpBound, Next, Loops
<1>3. Ordered(History(m), UpBound) /\ History(m) \in Seq(Event)
  BY HistoryTyped DEF OrderInv
<1>4. CASE events'[m] = events[m]
  <2>1. History(m)' = History(m)
    BY <1>4 DEF ApplyProbes, dbVars, flushVars, History
  <2>2. QED
    BY <1>2, <1>3, <2>1, WindowReflexive, WindowOrdered
<1>5. CASE events'[m] # events[m]
  <2> DEFINE x == [ts |-> probe.at, state |-> Verdict(answer[m])]
             a == journal[m] \o batch.events[m]
             e == events[m]
  <2>1. e' = Append(e, x) /\ a' = a
    BY <1>1, <1>5 DEF applyProbes, ApplyProbes, dbVars, flushVars
  <2>2. x \in Event /\ x.ts = probe.at
    BY RecordsTyped DEF Event, Verdict
  <2>3. a \in Seq(Event) /\ e \in Seq(Event)
    BY HistoryTyped, ConcatProperties
  <2>4. History(m) = a \o e /\ History(m)' = a \o Append(e, x)
    BY <2>1 DEF History
  <2> HIDE DEF x, a, e
  <2>5. Append(e, x) = e \o <<x>> /\ <<x>> \in Seq(Event)
    BY <2>2, <2>3, AppendIsConcat
  <2>6. History(m)' = History(m) \o <<x>>
    BY <2>3, <2>4, <2>5, Regrouped
  <2>7. QED
    BY <1>2, <1>3, <2>2, <2>6, AppendOrdered
<1>6. QED
  BY <1>4, <1>5

LEMMA NextOrder ==
    TypeOK /\ TypeOK' /\ ScalarInv /\ SaveInv /\ StopInv /\ OrderInv /\ [Next]_vars
      => OrderInv'
<1> SUFFICES ASSUME TypeOK, TypeOK', ScalarInv, SaveInv, StopInv, OrderInv, [Next]_vars,
                    NEW m \in Mac
             PROVE  Ordered(History(m)', UpBound')
  BY DEF OrderInv
<1>1. CASE ApplyProbes
  BY <1>1, ApplyProbesOrder
<1>2. CASE ~ApplyProbes
  <2>1. Window(History(m)', History(m))
    BY <1>2, HistoryWindow
  <2>2. Ordered(History(m), UpBound) /\ History(m) \in Seq(Event)
    BY HistoryTyped DEF OrderInv
  <2>3. History(m)' \in Seq(Event)
    BY HistoryIs, ConcatProperties
  <2>4. UpBound \in Int /\ UpBound' \in Int /\ UpBound <= UpBound'
    BY BoundNeverBack
  <2>5. QED
    BY <2>1, <2>2, <2>3, <2>4, WindowOrdered
<1>3. QED
  BY <1>1, <1>2

LEMMA InitOrder == Init => OrderInv
<1> SUFFICES ASSUME Init, NEW m \in Mac PROVE Ordered(History(m), UpBound)
  BY DEF OrderInv
<1>1. journal[m] = <<>> /\ batch.events[m] = <<>> /\ events[m] = <<>>
  BY DEF Init, NoBatch, NoEvents
<1>2. (<<>> \o <<>>) \o <<>> = <<>> /\ Len(<<>>) = 0
  OBVIOUS
<1>3. History(m) = <<>>
  BY <1>1, <1>2 DEF History
<1>4. QED
  BY <1>2, <1>3 DEF Ordered

\* A device's transitions are in time order, from the first row to the last one
\* still in memory (applyProbes takes its time before the lock; restore hands a
\* batch back; retention counts on it).
THEOREM HistoryAlwaysInTimeOrder == Spec => []HistoryInTimeOrder
<1>1. OrderInv => HistoryInTimeOrder
  BY DEF OrderInv, Ordered, HistoryInTimeOrder
<1>2. QED
  BY <1>1, InitOrder, NextOrder, TypeCorrect, ScalarInvariant, SaveInvariant, StopInvariant,
     PTL DEF Spec

=============================================================================
