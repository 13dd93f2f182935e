------------------------------ MODULE Presence ------------------------------
(***************************************************************************)
(* The presence model of puckview: the in-memory state that the render and *)
(* probe loops move (internal/server/state.go) over the SQLite journal     *)
(* that the config handlers and the write-behind flush write               *)
(* (internal/store/store.go).                                              *)
(*                                                                         *)
(* One action is one critical section of state.mu or of store.mu, or the   *)
(* capture of a value that a later critical section uses (the clock, the   *)
(* device list, the probe targets).  Maps and tables are functions whose   *)
(* DOMAIN is the set of keys present.                                      *)
(***************************************************************************)
EXTENDS Integers, Sequences, FiniteSets, SequencesExt

CONSTANTS
    Mac,        \* the devices that can be tracked
    Addr,       \* the addresses a device can have
    NoIP,       \* the empty address ("")
    Handler,    \* concurrent HTTP requests that end in reloadState
    Requests,   \* the kinds of request the clients make
    Boot,       \* the reload Run makes before it starts its loops
    Stored,     \* the rows that an earlier process may have left in the table
    MaxTime,    \* bound on the clock, in seconds
    MaxEvents,  \* bound on the transitions ever logged for one device
    MaxFaults   \* bound on crashes and failed store calls

ASSUME MacAssumption == IsFiniteSet(Mac)
ASSUME AddrAssumption == NoIP \notin Addr
ASSUME HandlerAssumption == Boot \notin Handler
ASSUME RequestsAssumption ==
    Requests \subseteq {"track", "patch", "untrack", "edit"}
ASSUME BoundAssumption ==
    MaxTime \in Nat \ {0} /\ MaxEvents \in Nat /\ MaxFaults \in Nat

VARIABLES
    db,       \* table devices: one row per tracked MAC
    journal,  \* table seen_events, per device and in order of insertion
    devs,     \* state.devs
    ipMoves,  \* state.ipMoves: address changes awaiting persistence
    events,   \* state.events: transitions awaiting persistence, per device
    batch,    \* the Batch the flush in flight carries
    flushing, \* a batch has been drained and is not yet committed or restored
    pc,       \* where each request (and Run's boot reload) stands
    listed,   \* what store.List returned to it, before state.Load applies it
    probe,    \* the probe loop: targets snapshot and the time it applies
    probed,   \* probeLoop's local: liveness may be cached since the last clear
    render,   \* the render loop: the time it applies with its snapshot
    phase,    \* where Run stands
    now,      \* nowUnix(); 0 is the stored "never"
    faults,   \* crashes and failed store calls so far
    purged    \* history: devices whose row was deleted since the process began

dbVars == <<db, journal>>
memVars == <<devs, ipMoves, events>>
flushVars == <<batch, flushing>>
reqVars == <<pc, listed>>
probeVars == <<probe, probed>>
vars == <<db, journal, devs, ipMoves, events, batch, flushing, pc, listed,
          probe, probed, render, phase, now, faults, purged>>

-----------------------------------------------------------------------------
Proc == Handler \cup {Boot}
Time == 0 .. MaxTime
IP == Addr \cup {NoIP}

\* Presence scalars as a flush carries them, a table row, a device in memory.
\* The status "unknown" is the source's "": no verdict since start or clearLive;
\* it stands for the cached probe result too, which is set and cleared with it.
Scalars == [icmp : BOOLEAN, up : Time, seen : Time]
Row == [ip : IP, icmp : BOOLEAN, up : Time, seen : Time]
Status == {"unknown", "up", "down"}
Dev == [ip : IP, icmp : BOOLEAN, up : Time, seen : Time,
        status : Status, dirty : BOOLEAN]
Event == [ts : Time, state : {"up", "down"}]
Answer == {"icmp", "tcp", "none"}

NoEntries == [m \in {} |-> NoIP]
NoEvents == [m \in Mac |-> <<>>]
NoBatch == [seen |-> NoEntries, moves |-> NoEntries, events |-> NoEvents]

max64(a, b) == IF a > b THEN a ELSE b

\* Mutant: drain fills the update without lastSeenUp.
ScalarsWithoutUp(d) == [icmp |-> d.icmp, up |-> 0, seen |-> d.seen]

ScalarsOf(d) == [icmp |-> d.icmp, up |-> d.up, seen |-> d.seen]

\* a is nowhere behind b
AtLeast(a, b) == (b.icmp => a.icmp) /\ b.up <= a.up /\ b.seen <= a.seen

Put(f, k, v) == [m \in DOMAIN f \cup {k} |-> IF m = k THEN v ELSE f[m]]
Drop(f, k) == [m \in DOMAIN f \ {k} |-> f[m]]

\* Every transition the process knows of, oldest first.
History(m) == journal[m] \o batch.events[m] \o events[m]

FaultAllowed == faults < MaxFaults
Fault == FaultAllowed /\ faults' = faults + 1

-----------------------------------------------------------------------------
\* store.go: one critical section of store.mu each.

NewRow(ip) == [ip |-> ip, icmp |-> FALSE, up |-> 0, seen |-> 0]

Add(m, ip) ==
    db' = Put(db, m, IF m \in DOMAIN db THEN [db[m] EXCEPT !.ip = ip]
                                        ELSE NewRow(ip))

\* The scalars of a row after a flush: MAX guards on each column.
Flushed(r, s) ==
    [r EXCEPT !.icmp = @ \/ s.icmp,
              !.up = max64(@, s.up),
              !.seen = max64(@, s.seen)]

\* UPDATE ... WHERE mac = ?: a batch touches existing rows only, while its
\* transitions are inserted whether the device still exists or not.
CommitBatch(b) ==
    /\ db' = [m \in DOMAIN db |->
                LET r == IF m \in DOMAIN b.seen THEN Flushed(db[m], b.seen[m])
                                                ELSE db[m]
                IN  IF m \in DOMAIN b.moves THEN [r EXCEPT !.ip = b.moves[m]]
                                            ELSE r]
    /\ journal' = [m \in Mac |-> journal[m] \o b.events[m]]

-----------------------------------------------------------------------------
\* Requests: a mutation of the store, then reloadState (List, then Load).

Begin(p, kind) ==
    /\ p \in Handler
    /\ kind \in Requests
    /\ pc[p] = "idle"
    /\ pc' = [pc EXCEPT ![p] = "list"]

\* POST /api/devices
Track(p, m, ip) ==
    /\ Begin(p, "track")
    /\ Add(m, ip)
    /\ UNCHANGED <<journal, memVars, flushVars, listed, probeVars, render,
                   phase, now, faults, purged>>

\* PATCH /api/devices/{mac} with an ip, which is stored unvalidated.
PatchIP(p, m, ip) ==
    /\ Begin(p, "patch")
    /\ m \in DOMAIN db
    /\ db' = [db EXCEPT ![m].ip = ip]
    /\ UNCHANGED <<journal, memVars, flushVars, listed, probeVars, render,
                   phase, now, faults, purged>>

\* DELETE /api/devices/{mac}
Untrack(p, m) ==
    /\ Begin(p, "untrack")
    /\ db' = Drop(db, m)
    /\ journal' = [journal EXCEPT ![m] = <<>>]
    /\ purged' = purged \cup {m}
    /\ UNCHANGED <<memVars, flushVars, listed, probeVars, render,
                   phase, now, faults>>

\* store.Delete runs three statements and no transaction: an error after the
\* second leaves the row without its history, and the handler does not reload.
UntrackFails(p, m) ==
    /\ p \in Handler /\ "untrack" \in Requests /\ pc[p] = "idle"
    /\ Fault
    /\ journal' = [journal EXCEPT ![m] = <<>>]
    /\ UNCHANGED <<db, memVars, flushVars, reqVars, probeVars, render,
                   phase, now, purged>>

\* Every other mutation that reloads: probes, name, link, notes, resolve.
EditConfig(p) ==
    /\ Begin(p, "edit")
    /\ UNCHANGED <<dbVars, memVars, flushVars, listed, probeVars, render,
                   phase, now, faults, purged>>

\* state.Load: the read under store.mu ...
List(p) ==
    /\ pc[p] = "list"
    /\ pc' = [pc EXCEPT ![p] = "load"]
    /\ listed' = [listed EXCEPT ![p] = db]
    /\ UNCHANGED <<dbVars, memVars, flushVars, probeVars, render,
                   phase, now, faults, purged>>

\* Run starts its loops once its own reload is over, however it ended.
Booted(p) == phase' = IF p = Boot THEN "run" ELSE phase

ListFails(p) ==
    /\ pc[p] = "list"
    /\ Fault
    /\ pc' = [pc EXCEPT ![p] = "idle"]
    /\ Booted(p)
    /\ UNCHANGED <<dbVars, memVars, flushVars, listed, probeVars, render,
                   now, purged>>

Seeded(r) ==
    [ip |-> r.ip, icmp |-> r.icmp, up |-> r.up, seen |-> r.seen,
     status |-> "unknown", dirty |-> FALSE]

\* Mutant: Load takes the stored scalars as they are.
ReloadedFromRow(d, r) ==
    [d EXCEPT !.ip = r.ip, !.icmp = r.icmp, !.up = r.up, !.seen = r.seen]

Reloaded(d, r) ==
    [d EXCEPT !.ip = r.ip,
              !.icmp = @ \/ r.icmp,
              !.up = max64(@, r.up),
              !.seen = max64(@, r.seen)]

\* ... and the merge under state.mu, which makes the list the tracked set.
Load(p) ==
    /\ pc[p] = "load"
    /\ devs' = [m \in DOMAIN listed[p] |->
                  IF m \in DOMAIN devs THEN Reloaded(devs[m], listed[p][m])
                                       ELSE Seeded(listed[p][m])]
    /\ pc' = [pc EXCEPT ![p] = "idle"]
    /\ listed' = [listed EXCEPT ![p] = NoEntries]
    /\ Booted(p)
    /\ UNCHANGED <<dbVars, ipMoves, events, flushVars, probeVars, render,
                   now, faults, purged>>

-----------------------------------------------------------------------------
\* Render loop: nowUnix() is taken before applyNeigh takes state.mu.

RenderSample ==
    /\ phase = "run" /\ render.pc = "idle"
    /\ render' = [pc |-> "sampled", at |-> now]
    /\ UNCHANGED <<dbVars, memVars, flushVars, reqVars, probeVars,
                   phase, now, faults, purged>>

\* A device present in the neighbour cache at address ip, seen at time t.
Sighted(d, ip, t) ==
    LET s == IF t > d.seen THEN [d EXCEPT !.seen = t, !.dirty = TRUE] ELSE d
    IN  IF ip # NoIP THEN [s EXCEPT !.ip = ip] ELSE s

\* state.applyNeigh; neigh maps the tracked devices in the kernel's neighbour
\* cache to their addresses.
applyNeigh(neigh, t) ==
    LET moved == {m \in DOMAIN neigh : neigh[m] \notin {NoIP, devs[m].ip}}
    IN  /\ devs' = [m \in DOMAIN devs |->
                      IF m \in DOMAIN neigh THEN Sighted(devs[m], neigh[m], t)
                                            ELSE devs[m]]
        /\ ipMoves' = [m \in DOMAIN ipMoves \cup moved |->
                         IF m \in moved THEN neigh[m] ELSE ipMoves[m]]

ApplyNeigh ==
    /\ render.pc = "sampled"
    /\ \E present \in SUBSET DOMAIN devs :
       \E neigh \in [present -> IP] : applyNeigh(neigh, render.at)
    /\ render' = [pc |-> "idle", at |-> 0]
    /\ UNCHANGED <<dbVars, events, flushVars, reqVars, probeVars,
                   phase, now, faults, purged>>

-----------------------------------------------------------------------------
\* Probe loop.  The gate (Hub.Active) is open or closed as the pulses have it.

\* Gate open: probeTracked takes its targets.
ProbeStart ==
    /\ phase = "run" /\ probe.pc = "idle"
    /\ probe' = [pc |-> "probing", at |-> 0,
                 targets |-> {m \in DOMAIN devs : devs[m].ip # NoIP}]
    /\ probed' = TRUE
    /\ UNCHANGED <<dbVars, memVars, flushVars, reqVars, render,
                   phase, now, faults, purged>>

\* All probes have answered or timed out; nowUnix() is taken without state.mu.
ProbeAnswered ==
    /\ probe.pc = "probing"
    /\ probe' = [probe EXCEPT !.pc = "answered", !.at = now]
    /\ UNCHANGED <<dbVars, memVars, flushVars, reqVars, probed, render,
                   phase, now, faults, purged>>

Verdict(a) == IF a = "none" THEN "down" ELSE "up"

\* Mutant: the status kept is the signal.
ProbedKeepsSignal(d, a, t) ==
    IF a = "none"
      THEN [d EXCEPT !.status = "down"]
      ELSE [d EXCEPT !.icmp = @ \/ a = "icmp", !.up = t, !.seen = t,
                     !.dirty = TRUE, !.status = a]

Probed(d, a, t) ==
    IF a = "none"
      THEN [d EXCEPT !.status = "down"]
      ELSE [d EXCEPT !.icmp = @ \/ a = "icmp", !.up = t, !.seen = t,
                     !.dirty = TRUE, !.status = "up"]

Transition(d, a) == d.status \notin {"unknown", Verdict(a)}

\* state.applyProbes; a target untracked mid-cycle has no answer to fold in.
applyProbes(answer, t) ==
    LET moved == {m \in DOMAIN answer : Transition(devs[m], answer[m])}
    IN  /\ \A m \in moved : Len(History(m)) < MaxEvents
        /\ devs' = [m \in DOMAIN devs |->
                      IF m \in DOMAIN answer THEN Probed(devs[m], answer[m], t)
                                             ELSE devs[m]]
        /\ events' = [m \in Mac |->
                        IF m \in moved
                          THEN Append(events[m],
                                      [ts |-> t, state |-> Verdict(answer[m])])
                          ELSE events[m]]

ApplyProbes ==
    /\ probe.pc = "answered"
    /\ \E answer \in [probe.targets \cap DOMAIN devs -> Answer] :
         applyProbes(answer, probe.at)
    /\ probe' = [pc |-> "idle", at |-> 0, targets |-> {}]
    /\ UNCHANGED <<dbVars, ipMoves, flushVars, reqVars, probed, render,
                   phase, now, faults, purged>>

\* Mutant: only the devices shown as up are cleared.
clearLiveUp ==
    devs' = [m \in DOMAIN devs |->
               IF devs[m].status = "up" THEN [devs[m] EXCEPT !.status = "unknown"]
                                        ELSE devs[m]]

clearLive == devs' = [m \in DOMAIN devs |-> [devs[m] EXCEPT !.status = "unknown"]]

\* Gate closed at a probe tick.
ProbeGateClosed ==
    /\ phase = "run" /\ probe.pc = "idle"
    /\ probed
    /\ clearLive
    /\ probed' = FALSE
    /\ UNCHANGED <<dbVars, ipMoves, events, flushVars, reqVars, probe, render,
                   phase, now, faults, purged>>

-----------------------------------------------------------------------------
\* Maintenance loop, and Run's last flush.

Drained ==
    [seen |-> [m \in {n \in DOMAIN devs : devs[n].dirty} |-> ScalarsOf(devs[m])],
     moves |-> ipMoves,
     events |-> events]

\* state.drain; an empty batch returns before it reaches the store.
drain ==
    /\ ~flushing
    /\ Drained # NoBatch
    /\ batch' = Drained
    /\ flushing' = TRUE
    /\ devs' = [m \in DOMAIN devs |-> [devs[m] EXCEPT !.dirty = FALSE]]
    /\ ipMoves' = NoEntries
    /\ events' = NoEvents

FlushDrain ==
    /\ phase = "run"
    /\ drain
    /\ UNCHANGED <<dbVars, reqVars, probeVars, render, phase, now, faults, purged>>

\* Mutant: Run waits for the maintenance loop only.
MaintenanceStopped == ~flushing

\* Every loop has returned: none is inside an iteration.
LoopsStopped == ~flushing /\ render.pc = "idle" /\ probe.pc = "idle"

FinalDrain ==
    /\ phase = "run" /\ LoopsStopped
    /\ drain
    /\ phase' = "final"
    /\ UNCHANGED <<dbVars, reqVars, probeVars, render, now, faults, purged>>

FinalNothing ==
    /\ phase = "run" /\ LoopsStopped
    /\ Drained = NoBatch
    /\ phase' = "off"
    /\ UNCHANGED <<dbVars, memVars, flushVars, reqVars, probeVars, render,
                   now, faults, purged>>

\* store.Flush: one transaction under store.mu.
FlushCommit ==
    /\ flushing
    /\ CommitBatch(batch)
    /\ batch' = NoBatch
    /\ flushing' = FALSE
    /\ phase' = IF phase = "final" THEN "off" ELSE phase
    /\ UNCHANGED <<memVars, reqVars, probeVars, render, now, faults, purged>>

\* Mutants: the dirty marks stay cleared; the batch's transitions go behind the
\* newer ones; the batch's transitions are dropped.
restoreClean(b) ==
    /\ devs' = devs
    /\ ipMoves' = [m \in DOMAIN ipMoves \cup DOMAIN b.moves |->
                     IF m \in DOMAIN ipMoves THEN ipMoves[m] ELSE b.moves[m]]
    /\ events' = [m \in Mac |-> b.events[m] \o events[m]]
restoreBehind(b) ==
    /\ devs' = [m \in DOMAIN devs |->
                  IF m \in DOMAIN b.seen THEN [devs[m] EXCEPT !.dirty = TRUE]
                                         ELSE devs[m]]
    /\ ipMoves' = [m \in DOMAIN ipMoves \cup DOMAIN b.moves |->
                     IF m \in DOMAIN ipMoves THEN ipMoves[m] ELSE b.moves[m]]
    /\ events' = [m \in Mac |-> events[m] \o b.events[m]]
restoreScalarsOnly(b) ==
    /\ devs' = [m \in DOMAIN devs |->
                  IF m \in DOMAIN b.seen THEN [devs[m] EXCEPT !.dirty = TRUE]
                                         ELSE devs[m]]
    /\ UNCHANGED <<ipMoves, events>>

\* state.restore: dirty marks back, a pending move wins over the batch's, and
\* the batch's transitions go in front of those logged since.
restore(b) ==
    /\ devs' = [m \in DOMAIN devs |->
                  IF m \in DOMAIN b.seen THEN [devs[m] EXCEPT !.dirty = TRUE]
                                         ELSE devs[m]]
    /\ ipMoves' = [m \in DOMAIN ipMoves \cup DOMAIN b.moves |->
                     IF m \in DOMAIN ipMoves THEN ipMoves[m] ELSE b.moves[m]]
    /\ events' = [m \in Mac |-> b.events[m] \o events[m]]

FlushFails ==
    /\ flushing
    /\ Fault
    /\ restore(batch)
    /\ batch' = NoBatch
    /\ flushing' = FALSE
    /\ phase' = IF phase = "final" THEN "lost" ELSE phase
    /\ UNCHANGED <<dbVars, reqVars, probeVars, render, now, purged>>

\* Retention: DELETE FROM seen_events WHERE ts < cutoff.  The same goroutine
\* flushes, so no batch is in flight.  A device's rows are in time order (see
\* HistoryInTimeOrder), so those that expire are the oldest.
Expired(m, cutoff) == {i \in 1 .. Len(journal[m]) : journal[m][i].ts < cutoff}

PruneEvents ==
    /\ phase = "run" /\ ~flushing
    /\ \E cutoff \in 1 .. now :
         journal' = [m \in Mac |-> SubSeq(journal[m],
                                          Cardinality(Expired(m, cutoff)) + 1,
                                          Len(journal[m]))]
    /\ UNCHANGED <<db, memVars, flushVars, reqVars, probeVars, render,
                   phase, now, faults, purged>>

-----------------------------------------------------------------------------
\* A new process: nothing survives but the two tables.
NewProcess ==
    /\ devs' = NoEntries
    /\ ipMoves' = NoEntries
    /\ events' = NoEvents
    /\ batch' = NoBatch
    /\ flushing' = FALSE
    /\ pc' = [p \in Proc |-> IF p = Boot THEN "list" ELSE "idle"]
    /\ listed' = [p \in Proc |-> NoEntries]
    /\ probe' = [pc |-> "idle", at |-> 0, targets |-> {}]
    /\ probed' = FALSE
    /\ render' = [pc |-> "idle", at |-> 0]
    /\ phase' = "boot"
    /\ purged' = {}

Crash ==
    /\ Fault
    /\ NewProcess
    /\ UNCHANGED <<dbVars, now>>

\* main returns once Run has; the service is started again.
Restart ==
    /\ phase \in {"off", "lost"}
    /\ NewProcess
    /\ UNCHANGED <<dbVars, now, faults>>

Tick ==
    /\ now < MaxTime
    /\ now' = now + 1
    /\ UNCHANGED <<dbVars, memVars, flushVars, reqVars, probeVars, render,
                   phase, faults, purged>>

-----------------------------------------------------------------------------
\* What an earlier process can have left in the table by time 1.  A query that
\* failed during the legacy backfill (module Backfill) leaves its column behind the
\* others: a row may have answered a ping without a time at which it was up, or
\* have been up without having been seen.
StoredRow == {r \in Row : r.up <= 1 /\ r.seen <= 1}

ASSUME StoredAssumption == Stored \subseteq StoredRow

Init ==
    /\ \E D \in SUBSET Mac : db \in [D -> Stored]
    /\ journal = NoEvents
    /\ devs = NoEntries
    /\ ipMoves = NoEntries
    /\ events = NoEvents
    /\ batch = NoBatch
    /\ flushing = FALSE
    /\ pc = [p \in Proc |-> IF p = Boot THEN "list" ELSE "idle"]
    /\ listed = [p \in Proc |-> NoEntries]
    /\ probe = [pc |-> "idle", at |-> 0, targets |-> {}]
    /\ probed = FALSE
    /\ render = [pc |-> "idle", at |-> 0]
    /\ phase = "boot"
    /\ now = 1
    /\ faults = 0
    /\ purged = {}

Request(p) ==
    \/ \E m \in Mac, ip \in IP : Track(p, m, ip) \/ PatchIP(p, m, ip)
    \/ \E m \in Mac : Untrack(p, m) \/ UntrackFails(p, m)
    \/ EditConfig(p)

Reload(p) == List(p) \/ ListFails(p) \/ Load(p)

Loops ==
    \/ RenderSample \/ ApplyNeigh
    \/ ProbeStart \/ ProbeAnswered \/ ApplyProbes \/ ProbeGateClosed
    \/ FlushDrain \/ FlushCommit \/ FlushFails \/ PruneEvents

Shutdown == FinalDrain \/ FinalNothing \/ Restart

Next ==
    \/ \E p \in Handler : Request(p)
    \/ \E p \in Proc : Reload(p)
    \/ Loops
    \/ Shutdown
    \/ Crash
    \/ Tick

Spec == Init /\ [][Next]_vars

-----------------------------------------------------------------------------
(* Correctness.                                                            *)

Partial(f, V) == DOMAIN f \subseteq Mac /\ f \in [DOMAIN f -> V]

\* Type invariant: the tables, the model, the batch in flight and every value a
\* goroutine carries between two critical sections are well formed.
TypeOK ==
    /\ Partial(db, Row)
    /\ journal \in [Mac -> Seq(Event)]
    /\ Partial(devs, Dev)
    /\ Partial(ipMoves, Addr)
    /\ events \in [Mac -> Seq(Event)]
    /\ batch = [seen |-> batch.seen, moves |-> batch.moves, events |-> batch.events]
    /\ Partial(batch.seen, Scalars)
    /\ Partial(batch.moves, Addr)
    /\ batch.events \in [Mac -> Seq(Event)]
    /\ flushing \in BOOLEAN
    /\ pc \in [Proc -> {"idle", "list", "load"}]
    /\ DOMAIN listed = Proc
    /\ \A p \in Proc : Partial(listed[p], Row)
    /\ probe \in [pc : {"idle", "probing", "answered"}, at : Time,
                  targets : SUBSET Mac]
    /\ probed \in BOOLEAN
    /\ render \in [pc : {"idle", "sampled"}, at : Time]
    /\ phase \in {"boot", "run", "final", "off", "lost"}
    /\ now \in Time \ {0}
    /\ faults \in 0 .. MaxFaults
    /\ purged \subseteq Mac

\* Every copy of a device's scalars is coherent: its "last confirmed up" is not
\* later than its "last seen at all", and if it has ever answered a ping there is a
\* time at which it was up.
Coherent(r) == r.up <= r.seen /\ (r.icmp => r.up > 0)
Coheres(m) ==
    /\ m \in DOMAIN db => Coherent(db[m])
    /\ m \in DOMAIN devs => Coherent(devs[m])
    /\ m \in DOMAIN batch.seen => Coherent(batch.seen[m])
    /\ \A p \in Proc : m \in DOMAIN listed[p] => Coherent(listed[p][m])

\* The three scalars of a device travel separately: the flush and the reload merge
\* them one MAX at a time, with a batch, a list and memory each at another point in
\* time.  Where they agree everywhere, no step makes them disagree anywhere (drain,
\* Flush, Load, applyProbes, applyNeigh).  A row that the legacy backfill left
\* incoherent may stay so until the device is sighted again.
CoherenceIsKept == [][\A m \in Mac : Coheres(m) => Coheres(m)']_vars

\* Write-behind loses nothing it was told: a scalar of a tracked device that is
\* ahead of its row is marked dirty, or rides in the batch in flight.  A device
\* untracked and tracked again under the same process is excepted: its reload
\* may find the old record still in memory (see README).
UnsavedIsQueued ==
    \A m \in (DOMAIN devs \cap DOMAIN db) \ purged :
        \/ AtLeast(db[m], devs[m])
        \/ devs[m].dirty
        \/ m \in DOMAIN batch.seen

\* A clean stop leaves nothing behind: once Run has returned from a final flush
\* that did not fail, no transition, address or scalar is in memory only.
CleanShutdownPersists ==
    phase = "off" =>
        /\ batch = NoBatch /\ ipMoves = NoEntries /\ events = NoEvents
        /\ \A m \in (DOMAIN devs \cap DOMAIN db) \ purged : AtLeast(db[m], devs[m])

\* No device shows a verdict nobody has checked since the gate closed, whatever
\* reload or late probe cycle came in between.
NoStaleLiveness ==
    ~probed => \A m \in DOMAIN devs : devs[m].status = "unknown"

\* A device's transitions are in time order from the first row to the last one
\* still in memory, through failed flushes that hand a batch back.
HistoryInTimeOrder ==
    \A m \in Mac : \A i, j \in 1 .. Len(History(m)) :
        i < j => History(m)[i].ts <= History(m)[j].ts

\* The transitions that only the process knows: those of the batch in flight,
\* then those logged since.
Unsaved == [m \in Mac |-> batch.events[m] \o events[m]]

Abstract == INSTANCE WriteBehind
    WITH Key <- Mac, Entry <- Event,
         rows <- db, log <- journal, unsaved <- Unsaved, stage <- phase

\* The write-behind over the two tables is the one WriteBehind promises: each
\* transition reaches its table once and in order, whatever flush fails in
\* between, rows only move forward, nothing is lost but with the process, and a
\* stop whose last flush succeeds loses nothing.
DurablePresence == Abstract!Spec

\* The last confirmed up of a device in memory only moves forward: probe cycles
\* are serial and a reload keeps whichever side is ahead.
LastSeenUpMovesForward ==
    [][\A m \in DOMAIN devs : m \in DOMAIN devs' =>
         devs[m].up <= devs[m]'.up]_devs

\* What state.go promises of a reload: once no request is in flight, memory
\* tracks exactly the devices of the table.
TrackedConverged ==
    (phase = "run" /\ \A p \in Proc : pc[p] = "idle") => DOMAIN devs = DOMAIN db

-----------------------------------------------------------------------------
(* Inductive strengthenings of the invariants above.                       *)

\* No stored "last up" is later than the clock, nor, while a cycle's results
\* wait to be applied, than the time they carry.
UpBound == IF probe.pc = "answered" THEN probe.at ELSE now
Sound(r, t) == r.up <= t
SoundMap(f, t) == \A m \in DOMAIN f : Sound(f[m], t)
ScalarInv ==
    /\ probe.pc = "answered" => probe.at \in 1 .. now
    /\ SoundMap(db, UpBound) /\ SoundMap(devs, UpBound)
    /\ SoundMap(batch.seen, UpBound)
    /\ \A p \in Proc : SoundMap(listed[p], UpBound)

\* What the row of m will hold once the batch in flight is committed.
OnDisk(m) == IF m \in DOMAIN batch.seen THEN Flushed(db[m], batch.seen[m])
                                        ELSE db[m]

\* Rows leave the table only by Untrack, a list still to be applied is never
\* ahead of the table, and a clean record is covered by row and batch.
SaveInv ==
    /\ ~flushing => batch = NoBatch
    /\ DOMAIN devs \subseteq DOMAIN db \cup purged
    /\ \A p \in Proc :
         /\ DOMAIN listed[p] \subseteq DOMAIN db \cup purged
         /\ \A m \in (DOMAIN listed[p] \cap DOMAIN db) \ purged :
              AtLeast(db[m], listed[p][m])
    /\ \A m \in (DOMAIN devs \cap DOMAIN db) \ purged :
         ~devs[m].dirty => AtLeast(OnDisk(m), devs[m])

\* From the last drain on nothing moves presence in memory.
StopInv ==
    /\ pc[Boot] # "idle" <=> phase = "boot"
    /\ phase \in {"final", "off"} =>
         /\ render.pc = "idle" /\ probe.pc = "idle"
         /\ ipMoves = NoEntries /\ events = NoEvents
         /\ \A m \in DOMAIN devs : ~devs[m].dirty
    /\ phase = "off" => ~flushing

\* A cycle in flight was started by an open gate.
LiveInv == NoStaleLiveness /\ (probe.pc # "idle" => probed)

=============================================================================
