------------------------------ MODULE Observed ------------------------------
(***************************************************************************)
(* The untracked hosts of puckview: remembered in memory by every build of *)
(* the cache view (internal/server/devices.go), written behind at most     *)
(* once per Debounce (state.go), kept in the table observed (store.go) for *)
(* TTL, and forgotten once a host is tracked (api.go).                     *)
(*                                                                         *)
(* One action is one critical section of state.mu or of store.mu.  A host  *)
(* is its MAC; of address and name only whether a name is known is kept.   *)
(***************************************************************************)
EXTENDS Integers, FiniteSets

CONSTANTS
    Host,       \* hosts of the LAN
    Loop,       \* the render loop's build of the view
    Viewer,     \* concurrent GET /api/cache requests
    Client,     \* concurrent requests that track or untrack
    Debounce,   \* least age of a stored sighting before it is written again
    TTL,        \* observedTTL
    Start,      \* the clock when the program is first started
    MaxTime,    \* bound on the clock
    MaxFaults   \* bound on crashes and failed store calls

ASSUME ObservedAssumption ==
    /\ IsFiniteSet(Host)
    /\ Loop \notin Viewer
    /\ {Debounce, TTL, Start, MaxTime, MaxFaults} \subseteq Nat
    /\ 0 < Debounce /\ Debounce <= TTL /\ TTL <= Start /\ Start <= MaxTime

VARIABLES
    table,     \* table observed
    rows,      \* table devices: the MACs tracked
    tracked,   \* state.devs: the MACs tracked, as last loaded
    obs,       \* state.obs
    dirty,     \* state.obsDirty
    flushed,   \* state.obsFlushed
    view,      \* the builds of the view in progress
    req,       \* where each request stands
    maint,     \* where the maintenance goroutine stands, with its batch or cutoff
    boot,      \* Run's LoadObserved
    phase,     \* where Run stands
    now,       \* nowUnix()
    faults,    \* crashes and failed store calls so far
    sighted    \* history: hosts this process has seen and not forgotten

memVars == <<obs, dirty, flushed, sighted>>
procVars == <<view, req, maint, boot, phase>>
vars == <<table, rows, tracked, obs, dirty, flushed, view, req, maint, boot,
          phase, now, faults, sighted>>

-----------------------------------------------------------------------------
Time == Start .. MaxTime
Sighting == [last : Time, named : BOOLEAN]
Builder == Viewer \cup {Loop}

\* Maps are functions whose DOMAIN is the set of keys present.
Partial(S, T) == UNION {[D -> T] : D \in SUBSET S}
Nothing == [h \in {} |-> 0]
Put(f, h, v) == [k \in DOMAIN f \cup {h} |-> IF k = h THEN v ELSE f[k]]
Without(f, S) == [k \in DOMAIN f \ S |-> f[k]]

Resting == [pc |-> "idle"]
Fault == faults < MaxFaults /\ faults' = faults + 1

-----------------------------------------------------------------------------
\* buildCache, by the render loop or by GET /api/cache.

\* The clock and then the tracked set are read; any hosts are in the kernel cache.
BeginView(b) ==
    /\ view[b] = Resting
    /\ b = Loop => phase = "run"
    /\ \E present \in SUBSET Host :
         view' = [view EXCEPT ![b] = [pc |-> "touch", at |-> now,
                                      todo |-> present \ tracked]]
    /\ UNCHANGED <<table, rows, tracked, memVars, req, maint, boot, phase, now, faults>>

\* Mutant: the age of the last sighting is asked for, not that of the last write.
IsDueSinceSeen(h, at) == h \notin DOMAIN obs \/ at - obs[h].last >= Debounce

IsDue(h, at) == h \notin DOMAIN flushed \/ at - flushed[h] >= Debounce

touchObserved(h, named, at) ==
    /\ obs' = Put(obs, h,
                [last |-> at,
                 named |-> named \/ (h \in DOMAIN obs /\ obs[h].named)])
    /\ dirty' = IF IsDue(h, at) THEN dirty \cup {h} ELSE dirty
    /\ sighted' = sighted \cup {h}
    /\ UNCHANGED flushed

\* One host after the other, each with the name the name cache has for it.
Touch(b) ==
    /\ view[b].pc = "touch"
    /\ IF view[b].todo = {}
         THEN view' = [view EXCEPT ![b] = Resting] /\ UNCHANGED memVars
         ELSE \E h \in view[b].todo, named \in BOOLEAN :
                /\ touchObserved(h, named, view[b].at)
                /\ view' = [view EXCEPT ![b].todo = @ \ {h}]
    /\ UNCHANGED <<table, rows, tracked, req, maint, boot, phase, now, faults>>

-----------------------------------------------------------------------------
\* Requests.

\* POST /api/devices: the row, the observed row, the memory, the reload.
Add(c, h) ==
    /\ req[c] = Resting
    /\ rows' = rows \cup {h}
    /\ req' = [req EXCEPT ![c] = [pc |-> "delete", host |-> h]]
    /\ UNCHANGED <<table, tracked, memVars, view, maint, boot, phase, now, faults>>

DeleteObserved(c) ==
    /\ req[c].pc = "delete"
    /\ table' = Without(table, {req[c].host})
    /\ req' = [req EXCEPT ![c].pc = "forget"]
    /\ UNCHANGED <<rows, tracked, memVars, view, maint, boot, phase, now, faults>>

\* Its error is ignored.
DeleteObservedFails(c) ==
    /\ req[c].pc = "delete" /\ Fault
    /\ req' = [req EXCEPT ![c].pc = "forget"]
    /\ UNCHANGED <<table, rows, tracked, memVars, view, maint, boot, phase, now>>

\* Mutant: the debounce mark of a forgotten host stays.
forgetKeepingMark(S) ==
    /\ obs' = Without(obs, S)
    /\ dirty' = dirty \ S
    /\ sighted' = sighted \ S
    /\ UNCHANGED flushed

\* forgetObserved for one host, pruneObserved for all that have expired.
forget(S) ==
    /\ obs' = Without(obs, S)
    /\ dirty' = dirty \ S
    /\ flushed' = Without(flushed, S)
    /\ sighted' = sighted \ S

ForgetObserved(c) ==
    /\ req[c].pc = "forget"
    /\ forget({req[c].host})
    /\ req' = [req EXCEPT ![c].pc = "reload"]
    /\ UNCHANGED <<table, rows, tracked, view, maint, boot, phase, now, faults>>

\* DELETE /api/devices/{mac}
Untrack(c, h) ==
    /\ req[c] = Resting
    /\ rows' = rows \ {h}
    /\ req' = [req EXCEPT ![c] = [pc |-> "reload", host |-> h]]
    /\ UNCHANGED <<table, tracked, memVars, view, maint, boot, phase, now, faults>>

Reload(c) ==
    /\ req[c].pc = "reload"
    /\ tracked' = rows
    /\ req' = [req EXCEPT ![c] = Resting]
    /\ UNCHANGED <<table, rows, memVars, view, maint, boot, phase, now, faults>>

-----------------------------------------------------------------------------
\* The maintenance goroutine, and Run's final flush after the loops.

drain ==
    LET b == [h \in dirty \cap DOMAIN obs |-> obs[h]]
    IN  /\ maint' = [pc |-> "commit", batch |-> b]
        /\ flushed' = [h \in DOMAIN flushed \cup DOMAIN b |->
                         IF h \in DOMAIN b THEN b[h].last ELSE flushed[h]]
        /\ dirty' = {}
        /\ UNCHANGED <<obs, sighted>>

Drain ==
    /\ phase = "run" /\ maint = Resting /\ dirty # {}
    /\ drain
    /\ UNCHANGED <<table, rows, tracked, view, req, boot, phase, now, faults>>

\* Mutant: the upsert takes the batch's sighting as it comes.
UpsertedUnguarded(r, s) == s

\* The row of a host already in the table.
Upserted(r, s) ==
    [last |-> IF s.last > r.last THEN s.last ELSE r.last,
     named |-> s.named \/ r.named]

Commit ==
    /\ maint.pc = "commit"
    /\ table' = [h \in DOMAIN table \cup DOMAIN maint.batch |->
                   IF h \notin DOMAIN maint.batch THEN table[h]
                   ELSE IF h \in DOMAIN table THEN Upserted(table[h], maint.batch[h])
                   ELSE maint.batch[h]]
    /\ maint' = Resting
    /\ phase' = IF phase = "final" THEN "ended" ELSE phase
    /\ UNCHANGED <<rows, tracked, memVars, view, req, boot, now, faults>>

restore(b) ==
    /\ dirty' = dirty \cup (DOMAIN b \cap DOMAIN obs)
    /\ UNCHANGED <<obs, flushed, sighted>>

CommitFails ==
    /\ maint.pc = "commit" /\ Fault
    /\ restore(maint.batch)
    /\ maint' = Resting
    /\ phase' = IF phase = "final" THEN "ended" ELSE phase
    /\ UNCHANGED <<table, rows, tracked, view, req, boot, now>>

PruneMemory ==
    /\ phase = "run" /\ maint = Resting
    /\ forget({h \in DOMAIN obs : obs[h].last < now - TTL})
    /\ maint' = [pc |-> "prune", cutoff |-> now - TTL]
    /\ UNCHANGED <<table, rows, tracked, view, req, boot, phase, now, faults>>

PruneTable ==
    /\ maint.pc = "prune"
    /\ table' = Without(table, {h \in DOMAIN table : table[h].last < maint.cutoff})
    /\ maint' = Resting
    /\ UNCHANGED <<rows, tracked, memVars, view, req, boot, phase, now, faults>>

PruneTableFails ==
    /\ maint.pc = "prune" /\ Fault
    /\ maint' = Resting
    /\ UNCHANGED <<table, rows, tracked, memVars, view, req, boot, phase, now>>

\* Every loop has returned; requests may still be served.
FinalFlush ==
    /\ phase = "run" /\ maint = Resting /\ view[Loop] = Resting
    /\ IF dirty # {}
         THEN drain /\ phase' = "final"
         ELSE phase' = "ended" /\ UNCHANGED <<memVars, maint>>
    /\ UNCHANGED <<table, rows, tracked, view, req, boot, now, faults>>

-----------------------------------------------------------------------------
\* Boot: the tracked set, then LoadObserved, which lists under store.mu and merges
\* under state.mu.  Requests are served from the start.

LoadTracked ==
    /\ phase = "start"
    /\ tracked' = rows
    /\ phase' = "boot"
    /\ UNCHANGED <<table, rows, memVars, view, req, maint, boot, now, faults>>

ListObserved ==
    /\ phase = "boot" /\ boot = Resting
    /\ boot' = [pc |-> "merge",
                rows |-> Without(table, {h \in DOMAIN table : table[h].last < now - TTL})]
    /\ UNCHANGED <<table, rows, tracked, memVars, view, req, maint, phase, now, faults>>

MergeObserved ==
    /\ boot.pc = "merge"
    /\ obs' = [h \in DOMAIN obs \cup DOMAIN boot.rows |->
                 IF \/ h \notin DOMAIN obs
                    \/ h \in DOMAIN boot.rows /\ boot.rows[h].last > obs[h].last
                   THEN boot.rows[h] ELSE obs[h]]
    /\ boot' = Resting
    /\ phase' = "run"
    /\ UNCHANGED <<table, rows, tracked, dirty, flushed, sighted, view, req, maint,
                   now, faults>>

\* The list fails; Run logs it and starts the loops.
ListObservedFails ==
    /\ phase = "boot" /\ boot = Resting /\ Fault
    /\ phase' = "run"
    /\ UNCHANGED <<table, rows, tracked, memVars, view, req, maint, boot, now>>

NewProcess ==
    /\ tracked' = {}
    /\ obs' = Nothing /\ dirty' = {} /\ flushed' = Nothing /\ sighted' = {}
    /\ view' = [b \in Builder |-> Resting]
    /\ req' = [c \in Client |-> Resting]
    /\ maint' = Resting /\ boot' = Resting
    /\ phase' = "start"
    /\ UNCHANGED <<table, rows, now>>

Restart == phase = "ended" /\ NewProcess /\ UNCHANGED faults

Crash == Fault /\ NewProcess

Tick ==
    /\ now < MaxTime
    /\ now' = now + 1
    /\ UNCHANGED <<table, rows, tracked, memVars, procVars, faults>>

-----------------------------------------------------------------------------
Init ==
    /\ table = Nothing /\ rows = {} /\ tracked = {}
    /\ obs = Nothing /\ dirty = {} /\ flushed = Nothing /\ sighted = {}
    /\ view = [b \in Builder |-> Resting]
    /\ req = [c \in Client |-> Resting]
    /\ maint = Resting /\ boot = Resting
    /\ phase = "start"
    /\ now = Start
    /\ faults = 0

Next ==
    \/ \E b \in Builder : BeginView(b) \/ Touch(b)
    \/ \E c \in Client :
         \/ \E h \in Host : Add(c, h) \/ Untrack(c, h)
         \/ DeleteObserved(c) \/ DeleteObservedFails(c) \/ ForgetObserved(c) \/ Reload(c)
    \/ Drain \/ Commit \/ CommitFails \/ PruneMemory \/ PruneTable \/ PruneTableFails
    \/ FinalFlush \/ LoadTracked \/ ListObserved \/ MergeObserved \/ ListObservedFails
    \/ Restart \/ Crash \/ Tick

Spec == Init /\ [][Next]_vars

-----------------------------------------------------------------------------
\* Every map and table is well formed, and what a host's marks say is about a
\* host that is remembered: nothing outlives forgetObserved or pruneObserved
\* that would keep the host from being written when it comes back (state.go).
TypeOK ==
    /\ table \in Partial(Host, Sighting)
    /\ obs \in Partial(Host, Sighting)
    /\ rows \subseteq Host /\ tracked \subseteq Host
    /\ dirty \subseteq DOMAIN obs /\ sighted \subseteq DOMAIN obs
    /\ flushed \in Partial(DOMAIN obs, Time)
    /\ now \in Time /\ faults \in 0 .. MaxFaults
    /\ phase \in {"start", "boot", "run", "final", "ended"}

\* A stored sighting that a restart would take for the remembered one.
Stored(h) == h \in DOMAIN table /\ obs[h].last - table[h].last < Debounce

Carried(h) == maint.pc = "commit" /\ h \in DOMAIN maint.batch

Leaving(h) == \E c \in Client : req[c].pc = "forget" /\ req[c].host = h

\* A host this process has seen is stored up to less than Debounce, or is queued
\* or on its way to the table: a restart shows it for as long as this process
\* would have, less than Debounce short (touchObserved, drain, restore, prune).
RestartForgetsLittle ==
    \A h \in sighted :
        obs[h].last - Debounce >= now - TTL
        => Stored(h) \/ h \in dirty \/ Carried(h) \/ Leaving(h)

\* While its row exists a host is never stored as seen earlier or as nameless
\* again, whatever order builds, flushes and boots come in (Store.Flush).
StoredSightingOnlyGains ==
    [][\A h \in DOMAIN table \cap DOMAIN table' :
          /\ table[h].last <= table'[h].last
          /\ table[h].named => table'[h].named]_vars
=============================================================================
