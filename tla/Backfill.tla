------------------------------ MODULE Backfill ------------------------------
(***************************************************************************)
(* The move of a v0 database to the v1 layout (internal/store/store.go):   *)
(* migrate adds the derived columns before anything is served, and a       *)
(* goroutine of internal/server/server.go then collapses the seen_history  *)
(* log into them, device by device, while devices are tracked, untracked,  *)
(* probed, flushed and reloaded, and the process may die at any point.     *)
(*                                                                         *)
(* One action is one statement, or one critical section of store.mu or of  *)
(* state.mu.  The rest of presence is in module Presence.                  *)
(***************************************************************************)
EXTENDS Integers, Sequences, FiniteSetsExt

CONSTANTS
    Dev,        \* MACs
    Logs,       \* the seen_history logs a database may come with
    Start,      \* the clock when the new version is first started
    MaxTime,    \* bound on the clock
    MaxFaults   \* bound on crashes and failed statements

Derived == <<"icmp_seen", "last_seen_up", "last_seen">>
Signal == {"icmp", "tcp", "arp"}
Sample == [mac : Dev, signal : Signal, ts : 1 .. Start]

ASSUME LogsAssumption == Logs \subseteq SUBSET Sample
ASSUME BoundsAssumption == {Start, MaxTime} \subseteq Nat /\ Start <= MaxTime /\ MaxFaults \in Nat

VARIABLES
    log,        \* the rows of seen_history, dropped or not
    table,      \* seen_history exists
    columns,    \* the derived columns that table devices has
    version,    \* user_version
    devices,    \* table devices: the scalars of every MAC that has a row
    state,      \* state.devs: the scalars in memory
    dirty,      \* the MACs whose scalars memory has moved since the last drain
    flush,      \* the batch drained and not committed
    loop,       \* per loop that sees devices: the time it took, yet to be applied
    load,       \* the reloads in progress: state.Load's list, yet to be applied
    job,        \* where the backfill goroutine stands
    phase,      \* where the process stands
    now,        \* nowUnix()
    faults,     \* crashes and failed statements so far
    mine,       \* history: the rows of devices that v0 wrote and are still there
    unread,     \* history: MACs whose log a failed query has hidden
    blind       \* history: a reload of this process has failed

dbVars == <<log, table, columns, version, devices>>
memVars == <<state, dirty, flush, loop>>
auxVars == <<mine, unread, blind>>
procVars == <<state, dirty, flush, loop, load, job, phase>>
vars == <<log, table, columns, version, devices, state, dirty, flush, loop, load, job,
          phase, now, faults, mine, unread, blind>>

-----------------------------------------------------------------------------
Scalars == [icmp : BOOLEAN, up : 0 .. MaxTime, seen : 0 .. MaxTime]
Fresh == [icmp |-> FALSE, up |-> 0, seen |-> 0]

Later(a, b) == IF a > b THEN a ELSE b

\* MAX() on every scalar, as Flush, backfillOne and Load take it.
Joined(a, b) == [icmp |-> a.icmp \/ b.icmp,
                 up |-> Later(a.up, b.up), seen |-> Later(a.seen, b.seen)]

AtLeast(a, b) == Joined(a, b) = a

\* ORDER BY ts DESC LIMIT 1, with 0 where no row is found.
Newest(S) == IF S = {} THEN 0 ELSE Max({s.ts : s \in S})

\* What backfillOne's three queries find in the log.
Legacy(m) ==
    LET own == {s \in log : s.mac = m}
    IN  [icmp |-> \E s \in own : s.signal = "icmp",
         up   |-> Newest({s \in own : s.signal \in {"icmp", "tcp"}}),
         seen |-> Newest(own)]

Resting == [pc |-> "idle"]
Fault == faults < MaxFaults /\ faults' = faults + 1

Loader == {"boot", "request", "job"}
Loop == {"probe", "render"}
Serving == phase.pc \in {"load", "run"}

-----------------------------------------------------------------------------
\* Open and migrate, before anything is served.

\* The base schema leaves the tables that are there; then the columns are listed.
Open ==
    /\ phase.pc = "off"
    /\ phase' = [pc |-> "add", have |-> columns, next |-> 1]
    /\ UNCHANGED <<dbVars, memVars, load, job, now, faults, auxVars>>

\* Mutant: every column is added on every start.
SkippedNever(c) == FALSE

Skipped(c) == c \in phase.have

\* ALTER TABLE fails on a column that is there, and Open with it.
AddColumn ==
    /\ phase.pc = "add" /\ phase.next \in DOMAIN Derived
    /\ LET c == Derived[phase.next]
       IN  /\ columns' = IF Skipped(c) THEN columns ELSE columns \cup {c}
           /\ phase' = IF c \in columns /\ ~Skipped(c) THEN [pc |-> "stuck"]
                       ELSE [phase EXCEPT !.next = @ + 1]
    /\ UNCHANGED <<log, table, version, devices, memVars, load, job, now, faults, auxVars>>

Stamp ==
    /\ phase.pc = "add" /\ phase.next \notin DOMAIN Derived
    /\ version' = 1
    /\ phase' = [pc |-> "load"]
    /\ UNCHANGED <<log, table, columns, devices, memVars, load, job, now, faults, auxVars>>

\* Open returns an error and main ends the process; it is started again.
OpenFails ==
    /\ phase.pc = "add" /\ Fault
    /\ phase' = [pc |-> "off"]
    /\ UNCHANGED <<dbVars, memVars, load, job, now, auxVars>>

-----------------------------------------------------------------------------
\* state.Load, by Run, by a request or by the backfill: the list, then the merge.

List(l) == load' = [load EXCEPT ![l] = [pc |-> "apply", rows |-> devices]]

\* Mutant: the marks of devices that are gone stay.
ApplyKeepsMarks(l) ==
    /\ load[l].pc = "apply"
    /\ state' = [m \in DOMAIN load[l].rows |->
                   IF m \in DOMAIN state THEN Joined(state[m], load[l].rows[m])
                   ELSE load[l].rows[m]]
    /\ load' = [load EXCEPT ![l] = Resting]
    /\ phase' = IF l = "boot" THEN [pc |-> "run"] ELSE phase
    /\ job' = IF l = "job" THEN [pc |-> "done"] ELSE job
    /\ UNCHANGED <<dbVars, dirty, flush, loop, now, faults, auxVars>>

Apply(l) ==
    /\ load[l].pc = "apply"
    /\ state' = [m \in DOMAIN load[l].rows |->
                   IF m \in DOMAIN state THEN Joined(state[m], load[l].rows[m])
                   ELSE load[l].rows[m]]
    /\ dirty' = dirty \cap DOMAIN state'
    /\ load' = [load EXCEPT ![l] = Resting]
    /\ phase' = IF l = "boot" THEN [pc |-> "run"] ELSE phase
    /\ job' = IF l = "job" THEN [pc |-> "done"] ELSE job
    /\ UNCHANGED <<dbVars, flush, loop, now, faults, auxVars>>

BootList ==
    /\ phase.pc = "load" /\ load["boot"] = Resting
    /\ List("boot")
    /\ UNCHANGED <<dbVars, memVars, job, phase, now, faults, auxVars>>

\* A list that fails is logged, and the caller goes on without it.
BootListFails ==
    /\ phase.pc = "load" /\ load["boot"] = Resting /\ Fault
    /\ phase' = [pc |-> "run"] /\ blind' = TRUE
    /\ UNCHANGED <<dbVars, memVars, load, job, now, mine, unread>>

-----------------------------------------------------------------------------
\* Requests and the loops, as far as they touch the scalars.

Track(m) ==
    /\ Serving /\ load["request"] = Resting
    /\ m \notin DOMAIN devices
    /\ devices' = [k \in DOMAIN devices \cup {m} |->
                     IF k = m THEN Fresh ELSE devices[k]]
    /\ load' = [load EXCEPT !["request"] = [pc |-> "list"]]
    /\ UNCHANGED <<log, table, columns, version, memVars, job, phase, now, faults, auxVars>>

\* The log keeps the samples of a device that is untracked.
Untrack(m) ==
    /\ Serving /\ load["request"] = Resting
    /\ devices' = [k \in DOMAIN devices \ {m} |-> devices[k]]
    /\ mine' = mine \ {m}
    /\ load' = [load EXCEPT !["request"] = [pc |-> "list"]]
    /\ UNCHANGED <<log, table, columns, version, memVars, job, phase, now, faults, unread, blind>>

RequestList ==
    /\ load["request"].pc = "list"
    /\ List("request")
    /\ UNCHANGED <<dbVars, memVars, job, phase, now, faults, auxVars>>

RequestListFails ==
    /\ load["request"].pc = "list" /\ Fault
    /\ load' = [load EXCEPT !["request"] = Resting] /\ blind' = TRUE
    /\ UNCHANGED <<dbVars, memVars, job, phase, now, mine, unread>>

\* probeTracked takes its targets (a cycle without any changes nothing), ...
ProbeStart ==
    /\ phase.pc = "run" /\ loop["probe"] = Resting /\ state # [m \in {} |-> Fresh]
    /\ loop' = [loop EXCEPT !["probe"] = [pc |-> "wait", targets |-> DOMAIN state]]
    /\ UNCHANGED <<dbVars, state, dirty, flush, load, job, phase, now, faults, auxVars>>

\* ... and nowUnix() once all have answered or timed out, before state.mu ...
ProbeAnswered ==
    /\ loop["probe"].pc = "wait"
    /\ loop' = [loop EXCEPT !["probe"] =
                  [pc |-> "apply", targets |-> @.targets, ts |-> now]]
    /\ UNCHANGED <<dbVars, state, dirty, flush, load, job, phase, now, faults, auxVars>>

\* ... under which that time is assigned, not merged.
applyProbes(up, pinged) ==
    /\ loop["probe"].pc = "apply"
    /\ pinged \subseteq up /\ up \subseteq loop["probe"].targets \cap DOMAIN state
    /\ state' = [m \in DOMAIN state |->
                   IF m \in up THEN [icmp |-> state[m].icmp \/ m \in pinged,
                                    up |-> loop["probe"].ts, seen |-> loop["probe"].ts]
                   ELSE state[m]]
    /\ dirty' = dirty \cup up
    /\ loop' = [loop EXCEPT !["probe"] = Resting]
    /\ UNCHANGED <<dbVars, flush, load, job, phase, now, faults, auxVars>>

\* render takes its time before the lock, too.
RenderSample ==
    /\ phase.pc = "run" /\ loop["render"] = Resting
    /\ loop' = [loop EXCEPT !["render"] = [pc |-> "apply", ts |-> now]]
    /\ UNCHANGED <<dbVars, state, dirty, flush, load, job, phase, now, faults, auxVars>>

\* A neighbour only moves last-seen forward.
applyNeigh(present) ==
    /\ loop["render"].pc = "apply" /\ present \subseteq DOMAIN state
    /\ LET t == loop["render"].ts
       IN  /\ state' = [m \in DOMAIN state |->
                          IF m \in present THEN [state[m] EXCEPT !.seen = Later(t, @)]
                          ELSE state[m]]
           /\ dirty' = dirty \cup {m \in present : t > state[m].seen}
    /\ loop' = [loop EXCEPT !["render"] = Resting]
    /\ UNCHANGED <<dbVars, flush, load, job, phase, now, faults, auxVars>>

Drain ==
    /\ phase.pc = "run" /\ flush = Resting /\ dirty # {}
    /\ flush' = [pc |-> "commit", rows |-> [m \in dirty |-> state[m]]]
    /\ dirty' = {}
    /\ UNCHANGED <<dbVars, state, loop, load, job, phase, now, faults, auxVars>>

Commit ==
    /\ flush.pc = "commit"
    /\ devices' = [m \in DOMAIN devices |->
                     IF m \in DOMAIN flush.rows THEN Joined(devices[m], flush.rows[m])
                     ELSE devices[m]]
    /\ flush' = Resting
    /\ UNCHANGED <<log, table, columns, version, state, dirty, loop, load, job, phase, now,
                   faults, auxVars>>

CommitFails ==
    /\ flush.pc = "commit" /\ Fault
    /\ dirty' = dirty \cup (DOMAIN flush.rows \cap DOMAIN state)
    /\ flush' = Resting
    /\ UNCHANGED <<dbVars, state, loop, load, job, phase, now, auxVars>>

-----------------------------------------------------------------------------
\* The backfill goroutine, started by Run after its own reload.

Go(pc) == job' = [pc |-> pc]

\* Mutant: the stamped version stands for a finished move.
PendingByVersion == version = 0

LegacyBackfillPending == table

Begin ==
    /\ phase.pc = "run" /\ job.pc = "begin"
    /\ IF LegacyBackfillPending THEN Go("list") ELSE Go("done")
    /\ UNCHANGED <<dbVars, memVars, load, phase, now, faults, auxVars>>

\* The query's error is dropped: nothing seems to be pending.
BeginFails ==
    /\ phase.pc = "run" /\ job.pc = "begin" /\ Fault
    /\ Go("skipped")
    /\ UNCHANGED <<dbVars, memVars, load, phase, now, auxVars>>

legacyMACs ==
    /\ job.pc = "list"
    /\ job' = [pc |-> "each", todo |-> DOMAIN devices]
    /\ UNCHANGED <<dbVars, memVars, load, phase, now, faults, auxVars>>

\* Mutant: what the log says is written as it is.
CollapsedUnguarded(m, found) == found

Collapsed(m, found) == Joined(devices[m], found)

Update(m, found) ==
    devices' = IF m \notin DOMAIN devices THEN devices
               ELSE [devices EXCEPT ![m] = Collapsed(m, found)]

backfillOne(m) ==
    /\ job.pc = "each" /\ m \in job.todo
    /\ Update(m, Legacy(m))
    /\ job' = [job EXCEPT !.todo = @ \ {m}]
    /\ UNCHANGED <<log, table, columns, version, memVars, load, phase, now, faults, auxVars>>

\* The error of a query is dropped: the log seems to hold nothing of that kind.
backfillOneMisses(m) ==
    /\ job.pc = "each" /\ m \in job.todo /\ Fault
    /\ \/ Update(m, [Legacy(m) EXCEPT !.icmp = FALSE])
       \/ Update(m, [Legacy(m) EXCEPT !.up = 0])
       \/ Update(m, [Legacy(m) EXCEPT !.seen = 0])
    /\ job' = [job EXCEPT !.todo = @ \ {m}]
    /\ unread' = unread \cup {m}
    /\ UNCHANGED <<log, table, columns, version, memVars, load, phase, now, mine, blind>>

\* Every device is done.
DropLog ==
    /\ job.pc = "each" /\ job.todo = {}
    /\ table' = FALSE
    /\ Go("vacuum")
    /\ UNCHANGED <<log, columns, version, devices, memVars, load, phase, now, faults, auxVars>>

\* Mutant: nothing is reloaded.
VacuumEnds ==
    /\ job.pc = "vacuum"
    /\ Go("done")
    /\ UNCHANGED <<dbVars, memVars, load, phase, now, faults, auxVars>>

\* VACUUM and the checkpoint change no row.
Vacuum ==
    /\ job.pc = "vacuum"
    /\ Go("reload")
    /\ UNCHANGED <<dbVars, memVars, load, phase, now, faults, auxVars>>

\* The list, an UPDATE, the DROP or the VACUUM fails: the goroutine gives up, and
\* nothing is reloaded.
BackfillFails ==
    /\ job.pc \in {"list", "each", "vacuum"} /\ Fault
    /\ Go("failed")
    /\ UNCHANGED <<dbVars, memVars, load, phase, now, auxVars>>

JobList ==
    /\ job.pc = "reload" /\ load["job"] = Resting
    /\ List("job")
    /\ UNCHANGED <<dbVars, memVars, job, phase, now, faults, auxVars>>

JobListFails ==
    /\ job.pc = "reload" /\ load["job"] = Resting /\ Fault
    /\ Go("done") /\ blind' = TRUE
    /\ UNCHANGED <<dbVars, memVars, load, phase, now, mine, unread>>

\* The process ends in any way at any point, and is started again.
Crash ==
    /\ Fault
    /\ state' = [m \in {} |-> Fresh] /\ dirty' = {} /\ flush' = Resting
    /\ loop' = [l \in Loop |-> Resting] /\ load' = [l \in Loader |-> Resting]
    /\ job' = [pc |-> "begin"]
    /\ phase' = [pc |-> "off"]
    /\ blind' = FALSE
    /\ UNCHANGED <<dbVars, now, mine, unread>>

Tick ==
    /\ now < MaxTime
    /\ now' = now + 1
    /\ UNCHANGED <<dbVars, procVars, faults, auxVars>>

-----------------------------------------------------------------------------
\* A v0 database: a log, and no derived columns.
Init ==
    /\ log \in Logs /\ table = TRUE /\ columns = {} /\ version = 0
    /\ \E D \in SUBSET Dev : devices = [m \in D |-> Fresh]
    /\ state = [m \in {} |-> Fresh] /\ dirty = {} /\ flush = Resting
    /\ loop = [l \in Loop |-> Resting] /\ load = [l \in Loader |-> Resting]
    /\ job = [pc |-> "begin"]
    /\ phase = [pc |-> "off"]
    /\ now = Start /\ faults = 0
    /\ mine = DOMAIN devices /\ unread = {} /\ blind = FALSE

Boot == Open \/ AddColumn \/ Stamp \/ BootList \/ Apply("boot")

Backfill ==
    \/ Begin \/ legacyMACs \/ DropLog \/ Vacuum \/ JobList \/ Apply("job")
    \/ \E m \in Dev : backfillOne(m)

Failure ==
    \/ OpenFails \/ BootListFails \/ RequestListFails \/ CommitFails
    \/ BeginFails \/ BackfillFails \/ JobListFails \/ Crash
    \/ \E m \in Dev : backfillOneMisses(m)

Sighting ==
    \/ ProbeStart \/ ProbeAnswered \/ RenderSample
    \/ \E D \in SUBSET Dev : applyNeigh(D) \/ \E P \in SUBSET Dev : applyProbes(D, P)

Next ==
    \/ Boot \/ Backfill \/ Failure \/ Sighting
    \/ RequestList \/ Apply("request") \/ Drain \/ Commit \/ Tick
    \/ \E m \in Dev : Track(m) \/ Untrack(m)

Spec == Init /\ [][Next]_vars

\* A process that has ended is started again, and its goroutine goes on.
FairSpec == Spec /\ WF_vars(Boot) /\ WF_vars(Backfill)

-----------------------------------------------------------------------------
\* Every table, map and goroutine holds what it can hold.
TypeOK ==
    /\ DOMAIN devices \subseteq Dev /\ \A m \in DOMAIN devices : devices[m] \in Scalars
    /\ DOMAIN state \subseteq Dev /\ \A m \in DOMAIN state : state[m] \in Scalars
    /\ dirty \subseteq DOMAIN state
    /\ \A l \in Loop : loop[l].pc = "apply" => loop[l].ts \in Start .. now
    /\ mine \subseteq DOMAIN devices
    /\ job.pc \in {"begin", "list", "each", "vacuum", "reload", "done", "failed", "skipped"}
    /\ now \in Start .. MaxTime /\ faults \in 0 .. MaxFaults

\* The scalars say at least what the log says of the device.
Covers(sc, m) ==
    \A s \in log : s.mac = m =>
        /\ sc.seen >= s.ts
        /\ s.signal # "arp" => sc.up >= s.ts
        /\ s.signal = "icmp" => sc.icmp

RowsHoldHistory == ~table => \A m \in mine \ unread : Covers(devices[m], m)
MemoryCatchesUp ==
    job.pc = "done" /\ ~blind =>
        \A m \in mine \ unread : m \in DOMAIN state /\ Covers(state[m], m)

\* Once the log is gone, every row that v0 wrote holds its history, however often
\* the move was interrupted and whatever was written meanwhile, unless a query
\* whose error is dropped has hidden it (BackfillLegacy).  And once the goroutine
\* has ended well, the dashboard shows it without a restart, unless a reload of
\* this process has failed (backfillLegacy).
NothingIsLost == RowsHoldHistory /\ MemoryCatchesUp

\* A flush, a reload, a probe cycle and the backfill meet on the same scalars in
\* any order.  None moves a stored one backwards (the MAX of Flush and of
\* backfillOne), and in memory none takes back that a device answered a ping or
\* when it was last up, although a probe cycle assigns a time it took earlier
\* (applyProbes, Load).  The remembered last-seen may recede, and is left out.
RecordedNeverRecedes ==
    [][/\ \A m \in DOMAIN devices \cap DOMAIN devices' : AtLeast(devices'[m], devices[m])
       /\ \A m \in DOMAIN state \cap DOMAIN state' :
            /\ state[m].icmp => state'[m].icmp
            /\ state[m].up <= state'[m].up]_vars

\* However often a start was cut short among its ALTERs, the next start does not
\* trip over the columns it left (migrate).
MigrationRepeats == phase.pc # "stuck"

\* With finitely many interruptions the log is collapsed at last, unless the last
\* start met an error of its own (LegacyBackfillPending).
LogIsCollapsed == <>[](~table \/ job.pc \in {"failed", "skipped"})
=============================================================================
