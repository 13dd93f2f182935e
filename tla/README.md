# A verification project for puckview

puckview is a single Go process on a small LAN server: a dashboard that shows
which devices of the LAN are awake, wakes them, and scans for new ones. It keeps
its presence model in memory, journals it to SQLite, and pushes it to browsers
over server-sent events. This directory models the parts of it where goroutines,
requests, failures and restarts meet: TLA+ modules, the TLC configurations that
check them on small instances, and TLAPS proofs of what must hold for any number
of devices, requests and seconds.

All paths below are under `src/puckview/`.

## 1. The system

| Component | State | Operations | What is hard |
|---|---|---|---|
| Presence state (`internal/server/state.go`) | `devs`, `ipMoves`, `events` under `state.mu` | `Load`, `applyNeigh`, `applyProbes`, `clearLive`, `drain`, `restore` | memory is the authority and the table its journal: reloads bring values that lag, flushes carry values that have moved on |
| Journal (`internal/store/store.go`) | tables `devices`, `probes`, `seen_events`, `observed` under `store.mu` | `List`, `Add`, `Patch`, `Delete`, `Flush`, prunes | one transaction per flush; everything else is one statement after the other; any call can fail; the process can die |
| Loops and shutdown (`server.go`, `liveness.go`, `cmd/puckview/main.go`) | tickers, `probed` | render 1 s, probe 2 s, names 4 s, meta 5 s, flush 30 s, prune 1 h; `Run`'s start and final flush | a probe cycle outlives the tick that started it; a stop arrives at any point |
| Device requests (`api.go`) | none of their own | track, patch, untrack, probe edits; each ends in `reloadState` and `kickRender` | read of the list and its application are two critical sections |
| Observed hosts (`devices.go`, `state.go`) | `obs`, `obsDirty`, `obsFlushed`, table `observed` | `buildCache`, `touchObserved`, `forgetObserved`, `pruneObserved`, `LoadObserved` | the view is built by the render loop and by any GET; writes are debounced; a tracked host must go away in two stores |
| SSE hub and frames (`sse.go`, `frames.go`) | `clients`, one channel of 16 each, the published frame set, `kick` | attach, greet, relay, leave, publish, send | changed-only frames, bounded queues, an attach in the middle of a publish |
| Activity gate (`sse.go`, `app.js`) | `lastPulse`; per page the pulse timer | `startWatching`, `stopWatching`, `handlePulse`, `handleEvents` (both call `Hub.Pulse`), `Active` | pulses are late or lost; a suspended page keeps its stream and falls silent; any client that connects opens the gate; it is read once and acted upon later |
| Wake (`wake.go`) | `wakes` (MAC to cancel function), one goroutine per POST | POST, DELETE, `runWake` | a second POST supersedes a goroutine that still has a deferred delete to run |
| Scan (`scan.go`, `internal/scan/scan.go`) | `scanning` | POST, `Sweep` with its workers, the throttled progress callback | one at a time on every path, a deadline in mid-sweep, arithmetic at the edges of a block |
| Roster (`store.go`, `api.go`) | columns `ip`, `name`, `name_source`, table `probes` | `Add`, `Patch`, `Delete`, `AddProbe`, `DeleteProbe` and the handlers around them | a track request is two store calls; untracking is three statements without a transaction |
| Names (`names.go`, `internal/naming`) | `nameCache`, columns `name`, `name_source` | `resolveNames`, `applyResolve` | a check and its act in two critical sections, a wait for a slot between them; two callers at once |
| Migration (`store.go`) | schema, the legacy log | `migrate`, `BackfillLegacy` | not one transaction; a marker that is dropped before the end |
| Dashboard (`web/assets/app.js`) | the frames it holds, the wake dialog | SSE handlers, requests | holds back repainting while the user edits |
| Probes, neighbour cache, magic packets, sysinfo, tailscale, catalogue, vendor table, interface detection | local | I/O and parsing | outside: their results are inputs of the models |

What makes them correct, in one line each:

- Presence: nothing memory knows and the table does not is ever forgotten by
  accident; no stored or confirmed time moves back; transitions are neither lost
  nor repeated nor reordered; what is shown as live is being probed.
- Observed hosts: a restart forgets no more than a debounce; nothing stored is
  lost to an older write.
- Roster: what counts as resolved was given by a resolver; what the user typed is not
  overwritten by what a resolver found; untracking takes everything with it.
- Migration: no history is lost, however often the move is cut short; it ends.
- Stream: no gap between greeting and queue; a mutation is always followed by a
  render; nobody waits for a slow page.
- Gate and names: one lost pulse closes nothing; what nobody watches or connects to is not probed,
  not asked for its name and not shown as live; what somebody watches is probed; no
  address is asked twice within the TTL by the same caller.
- Wake: a wake ends, keeps its cadence, stops when nobody watches, and can be
  cancelled.
- Scan: one at a time, each host once, a last event that is last.

## 2. Modules

| Module | Models | State |
|---|---|---|
| `Presence` | tracked devices, journal, flush, requests, loops, shutdown, restart, crash | memory, tables, batch in flight, each request's list, the probe cycle and the render in progress |
| `WriteBehind` | the promise of presence that is recorded in memory and saved later; `Presence` implements it | saved records and log, unsaved transitions, stage |
| `PresenceProofs` | theorems about `Presence`: types, that its scalars go on cohering wherever they live and that last-up only moves forward; what may not be lost, the refinement of `WriteBehind`, the order of the history, the verdicts that may not be kept | |
| `Gate` | pages that pulse, the hub that hears them | page states and timers, pulses in flight, the time since `Hub.Pulse` last ran |
| `Names` | the name cache and the rounds that fill it | entries by age; per caller the addresses to consider, the one waiting for a slot, the lookups in flight |
| `Activity` (extends `Gate`, `Names`) | the probe loop and the names loop behind the gate, the lookups of a scan | tickers, the probe cycle, `probed`, whether verdicts are shown |
| `Stream` | render loop, frame set, hub, page | `frames`, `kick`, the render in progress, per connection its queue, greeting and screen |
| `Observed` | untracked hosts from sighting to expiry | memory maps, table, the builds in progress, the batch or cutoff of the maintenance goroutine |
| `Roster` | the device table as configuration, name resolutions beside the requests | rows, probes, the track requests and resolutions in progress |
| `Backfill` | `migrate`, `BackfillLegacy`, and what runs beside them | the log, columns, rows, the scalars in memory, the probe cycle, render, reloads, flush and goroutine in progress |
| `Wake` | wake tasks and their registry | one record per goroutine, `wakes`, the gate |
| `Subnet` | CIDR arithmetic, `enumerate`, `Validate` | none |
| `Scan` (extends `Subnet`) | the scan request, the sweep, its events | the flag, the scan goroutines, the workers |
| `ObservedProofs`, `StreamProofs`, `RosterProofs`, `WakeProofs`, `ScanProofs`, `ActivityProofs`, `BackfillProofs` | theorems about the module they are named for | |
| `MC...` | instances | |

One action is one critical section of a mutex, or one step of a goroutine between
two of them; a value captured outside (the clock, a list, a frame set, the tracked
set) is kept in the state until it is used. Handlers therefore appear as several
actions: `Track` or `PatchIP` (the store call), then `List`, then `Load`.

### Presence

`db` and `journal` are the tables, `devs`, `events`, `ipMoves` the memory, `batch`
what a flush in progress carries. Times are whole seconds, 0 is the stored
"never". A device's cached probe result and its status are one value: they are set
and cleared together. A probe cycle is `ProbeStart` (targets), `ProbeAnswered`
(answers, and the time it will apply) and `ApplyProbes`; the answers are any. A
render captures its time in `RenderSample` and applies it with any neighbour
snapshot in `ApplyNeigh`. `FlushDrain` and `FlushCommit` or `FlushFails` are the
write-behind; `FinalDrain` needs `LoopsStopped`. `Crash` may come at any point and
loses memory, batch and requests; `Restart` follows a completed stop. `purged`
names the devices whose row was deleted since the process began: deleting the row
while a copy of it is in memory or in a batch makes the two disagree, and
`UnsavedIsQueued` is about the others. The table starts with the rows `Stored` that an earlier process
can have left (any of `StoredRow` in the proofs), incoherent ones included: a legacy backfill
whose query failed (`backfillOneMisses` of `Backfill`) may leave a row that has answered a
ping and was never up, or has been up and was never seen.

### WriteBehind

The abstract specification knows saved records, a saved log, and transitions that are
unsaved: recorded, and not yet moved to the log by one save. `Presence` maps onto it
with `rows` the scalar columns of `db`, `log` the journal, `unsaved` the batch in
flight followed by the transitions in memory, and `stage` its phase (`Abstract` in
`Presence`). A drain and a failed flush are then stutters - they only regroup what is
unsaved - and a reload is one too: memory may lag or lead, but nothing saved moves.
`DurablePresence` is `Abstract!Spec`.

### Gate, Names and Activity

Time is ticks of one clock. A page is absent, visible, hidden or suspended; the last
keeps its timer and its stream but no timer fires, which is what a sleeping laptop
does. A pulse is a message that takes up to `Latency` or is lost. A connect pulses too:
`handleEvents` may come at any time, from a page that opens its stream, from the browser
that reconnects one, or from any other client, whether or not a page is pulsing. `age` is
the time since `Hub.Pulse` last ran; `missed` and `unwatched` are histories: pulses of a page
lost in a row, and the time since a page was pulsing or a client connected. `MaxIdle` caps the latter, and
`RoomAssumption` says that the cap lies beyond every bound the properties speak of.

`resolveNames` is the start of a round, `Consider` one turn of its loop (`needsName`),
`Ask` the goroutine it starts once a slot is free, `Answered` that goroutine's
`setName`. The puck has one interface on the LAN, so a round has an address once.
`Activity` adds the tickers, each of which holds at most one tick, the probe cycle
with the deadline its pings and dials have (`ProbeTime`), and the three ways a tick of
either loop can go. `ProbeGateClosed` is `clearLive`.

### Stream

A frame is the version of the data it was built from. `Topics` are the frames
`render` sends only when they differ; `stats` and the ad-hoc events occupy queue
slots. `RenderBuild` reads one topic after the other, `RenderSwap` publishes and
fixes what differs (`moved`), `RenderCount` and each `RenderSend` are the separate critical
sections of the hub they are in the code. `Attach`, `LoadGreeting`, `Greet`, `Relay`
are `handleEvents`. A page stores what it receives and paints it unless the user
holds the table. Removing a connection and closing its channel is one step: the
channel is out of the map before it is closed, so no send can meet it in between.

### Observed

The view is built by `Loop` and by any `Viewer`, each with the clock and the tracked
set it captured. Flush and prune belong to one goroutine (`maint`). A host carries
its last sighting and whether a name is known; addresses play no part in any
decision. Requests are served from the first moment of a process, before the
tracked set and the table have been read.

### Roster

The MAC is the key. Addresses, typed names and resolved names are disjoint sets, so
that a name tells where it came from; names are as `clampName` leaves them. `Track`
is `Add` and, for a name typed by hand, `MarkManual` is the second store call, after
which a device with an address gets a resolution in the background (`Respond`).
`handleResolve` starts one too. A resolution is `ask` until it has its answer and has
read the row (`ResolveRead`), then `write` until it has patched it. `overtaken` names the
resolutions that hold a name for a row although they could not read it, or read it
before the user's mark; `orphans` the probes asked for while their device had no row.

### Backfill

`Open`, one `AddColumn` per derived column and `Stamp` come before anything is served.
`Run` reloads (`BootList`, `Apply`) and starts the goroutine: `Begin`, `legacyMACs`, one
`backfillOne` per device, `DropLog`, `Vacuum`, `JobList` and `Apply`. Every statement may
fail; the code drops the errors of some queries (`BeginFails`, `backfillOneMisses`) and
gives up on others (`BackfillFails`). A list that fails is logged (`blind`). `mine` are the
rows the old version wrote and that were not untracked since; `unread` those whose
log a dropped error has hidden. Only one request reloads at a time here: two of them
can drop a device from memory, which is `presence_stale_reload`. The two loops that see
devices take their time before the lock, as in `Presence`: `ProbeStart`, `ProbeAnswered` and
`applyProbes`, which assigns it, `RenderSample` and `applyNeigh`, which only raises the
last-seen with it; so a second, a reload, a flush or a part of the collapse may come
between. Which devices answer or are seen is any set of them.

### Wake

A task is one `runWake` goroutine. Its steps are the initial barrage, the loop head
(`elapsed` is read), the observation, the gate check, and the `select`. `Tick` is one
second for all tasks; a task that is not waiting keeps at most one pending tick, as
a `time.Ticker` does. When both a tick and the cancellation are ready the `select`
takes either.

### Subnet and Scan

Addresses are numbers of `Width` bits and `inc` wraps. `enumerate` is the loop of the
code, `Hosts` says what it is for. The workers meet the feeder on an
unbuffered channel; the progress callback runs outside the lock, and the throttle's
unsynchronised clock makes every report but the last optional.

## 3. Runs

| Run | Checks | Instance |
|---|---|---|
| `presence_reload` | `TypeOK`, `UnsavedIsQueued`, `CleanShutdownPersists`, `NoStaleLiveness`, `CoherenceIsKept`, `DurablePresence`, `LastSeenUpMovesForward` | 1 device, 1 request at a time of every kind, 2 seconds, 1 transition, 1 fault; the device untracked, or its row new, pinged, or pinged with its last-up or its last-seen missing; 2.7 M states |
| `presence_history` | `HistoryInTimeOrder` | 1 device, 4 seconds, 2 transitions, 1 fault; 2.6 M states |
| `activity_gate` | `TypeOK`, `OneLostPulseIsHarmless`, `VerdictsExpire`, `LookupsGoQuiet`, `NoHammering`, `WatchedDashboardIsProbed` | 1 page, interval 2, grace 6, latency 1, 1 address, TTL 2, probe every tick, names every 2, connects at any time; 274 k states |
| `stream_pages` | `TypeOK`, `NothingSlipsBetween`, `KickCoversMutation`, `PromptPageCatchesUp` | 1 page, channel of 2, 3 versions, 1 request; 436 k states |
| `observed_hosts` | `TypeOK`, `RestartForgetsLittle`, `StoredSightingOnlyGains` | 1 host, loop and one GET, debounce 2, retention 3, 6 seconds, 1 fault; 2.7 M states |
| `roster_edits` | `TypeOK`, `ResolvedMarkIsEarned`, `ManualNameStands`, `OrphansWereAskedFor` | 1 device, 2 track requests, 2 resolutions, 2 probes, 2 faults; 90 k states |
| `backfill_crash` | `TypeOK`, `NothingIsLost`, `MigrationRepeats`, `RecordedNeverRecedes`, `LogIsCollapsed` | 1 device, 1 log (a ping, a later port answer, a later ARP sighting), 2 seconds, 1 fault; 1.4 M states |
| `wake_tasks` | `TypeOK`, `RegistryIsNewest`, `AtMostOneBlindBarrage`, `BarrageCadence`, `EveryWakeEnds` | 2 wakes of 1 device, timeout 3; 224 k states |
| `scan_sweep` | `TypeOK`, `OneSweepHoldsFlag`, `FinalEventIsLast`, `ResultCoversTarget`, `EveryScanEnds` | 16 addresses, blocks up to 8, 2 workers, 2 scans; 50 k states |

Why the bounds are enough. Devices and hosts do not interact in the code except
through the batch they share and the locks that make its parts atomic, so one is the
interesting number; two devices without requests, and two requests without
addresses, were run too and show nothing new. One request at a time suffices for
the properties of the passing runs: the pairs that matter are a request against
each of the loops. Two requests against each other are the subject of
`presence_stale_reload`. The other rows of `StoredRow` were run too (3.6 M
states) and show nothing new. One fault per run places a crash or a failed call at every
point of every behaviour. The clock has as many seconds as the values that have to
be told apart: before and after for the scalars, one more than the retention for
expiry, one more than the timeout for a wake. A channel of two frames overflows and
drains in every way a channel of sixteen does; the backfill handles one device after
the other and the goroutine's steps for a second one are steps that leave the first alone, two faults (3.8 M states) show
nothing more than one, and its one log has a newest sample of each kind at a time of its own; two topics (1.7 M states) and two pages
(safety only, 9.8 M states) give the same answers. For the gate, two addresses (13.2 M
states) and two pages (9.5 M states, both safety only) do too, and every bound it checks is
tight: one tick less in `VerdictsExpire` or `LookupsGoQuiet` and TLC finds a
counterexample, as it does with a grace of two intervals and the latency. Deadlock is not checked where the
bounds end the system (`CHECK_DEADLOCK FALSE`); `stream_pages` and `wake_tasks` check it.

Three runs show where the code and what is said of it part:

| Run | Property | What happens |
|---|---|---|
| `presence_stale_reload` | `TrackedConverged` | two requests apply their lists in the other order: memory tracks what the table no longer holds |
| `roster_rename` | `ResolveKeepsManualName` | a rename between the read and the write of a resolution is overwritten, and its mark with it |
| `wake_cancel` | `CancelReachesEveryWake` | the deferred delete of a superseded wake takes the newer wake's cancel function with it |

Met while modelling, and without a run of their own:

- `lastSeen` in memory can step back by the length of a probe cycle: `applyProbes`
  assigns a time taken before the lock (state.go:177), while store.go:48 says that a
  last-seen only moves forward. `LastSeenUpMovesForward`, `RecordedNeverRecedes`, which leaves the remembered last-seen out, and the
  saved column by `DurablePresence` are what holds.
- A GET served while `Run` ends can record an observed host after the last drain,
  which server.go:253 excludes; it is lost like anything since the last flush.
- `Validate` looks at the target's network address alone (scan.go:34): a larger block that
  starts inside the local one passes, although scan.go:24 says "contained". The
  model's `Validate` does the same, and `ResultCoversTarget` speaks of the target as accepted.
- `Add` gives a row that is there the new address even when none was supplied, and
  keeps its name, although store.go:251 says both are "refreshed when supplied"; a
  manual mark then falls on the name that was there.
- A frame that came while the user held the table is kept and not painted when he lets
  go (app.js:375-378); changed-only frames (server.go:215) may be a long time in sending
  the next. `PromptPageCatchesUp` promises every page the last version, and its painting to
  those whose table is never held.
- `Run` warns of a grace up to one pulse interval (server.go:228), but config.go:16-18
  and sse.go:11-12 want one lost pulse to be harmless, which takes more than two intervals
  and the time a pulse travels: `OneLostPulseIsHarmless` has that as its condition. The default
  of 30 s (config.go:28) against 10 s has it.
- A page that loads in a background tab starts to watch (app.js:438) although app.js:399
  stops a page that becomes hidden; `Open` does the same.
- `lastPulse` is wall-clock time (sse.go:59): a clock that is set back holds the gate open
  by as much. The model's clock is not set.
- The names of a scan are resolved with the gate closed (scan.go:97-98), although
  names.go:43-44 leaves the gate to the callers. A scan is a request of its own, so
  `LookupsGoQuiet` is about the names loop; that asks once per round, and a round goes on for
  up to `RoundTime`.
- A name may expire between `needsName` and the `cachedName` a scan reads it with
  (scan.go:106), which then reports the host without one.
- `backfillOne` drops the errors of its queries (store.go:613-618) and the log is dropped
  afterwards: what a failed query would have found is lost, and the row may say that a ping
  was answered and not when. `seenState` has a case for such rows (state_test.go:193-199),
  `StoredRow` contains them, and `NothingIsLost` excepts them (`unread`).
- `applyResolve` drops the error of its read (scan.go:145): a row that cannot be read counts
  as absent, and a resolution may then overwrite a manual name, as one may that read the row
  before the mark was set. `ManualNameStands` excepts both (`overtaken`).
- A device that is untracked and tracked again while its values are in memory or in a batch
  in flight gets a row that receives, or misses, values of the old one; `UnsavedIsQueued` excepts
  it (`purged`). A host forgotten because it is tracked now can be recorded again by a build
  that still holds the older tracked set, or inserted again by a batch in flight; it stays
  until its retention ends.
- An observation that takes longer than a second makes a wake's next resend come late, or
  right after the last one, because the parity of the seconds decides (wake.go:150):
  `BarrageCadence` is about wakes that keep up.
- Any GET of `/events` counts as a pulse (sse.go:122-124): a browser that reconnects a stream,
  a proxy that does, or a client that is no dashboard holds the gate open with no page
  pulsing. `VerdictsExpire` and `LookupsGoQuiet` count from the last pulse or connect.
- A failed `VACUUM` is announced as retried on the next start (server.go:400), but the
  marker of the pending work is gone with the table.

## 4. Fairness

Liveness is claimed only where the scheduling supports it.

- `Wake!FairSpec`: every goroutine that can run does, and time passes. Nothing is
  assumed of the host, of the watchers or of cancellation.
- `Stream!FairSpec`: the render loop takes its steps (its ticker never stops and no
  step waits for anybody), and a `Prompt` page's
  connection takes what is written to it. Kicks, requests and other pages are free.
- `Scan!FairSpec`: the scan goroutine and its workers run; a nudge returns, since it
  only queues a datagram under a 200 ms dial limit. The deadline need never pass.
- `Activity!FairSpec`: the clock ticks, timers that are due fire, the loops take their
  ticks and their rounds go on. Ticks are strongly fair because a page may be shown and
  hidden for ever within one; so are arrivals, which says that not every pulse of a page
  that pulses for ever is lost.
- `Backfill!FairSpec`: a process that has ended is started again, and its boot and its
  goroutine go on; of interruptions there are finitely many.

`Presence`, `Observed` and `Roster` state safety only.

## 5. Proofs

Every theorem holds for every value of the constants: any set of devices, addresses,
pages, topics, requests and workers, any clock bound, channel capacity, timeout and
number of faults. They use the named assumptions of the modules and nothing else: the
sets of devices and of addresses asked for names are finite, "no address" is not an
address, the boot reload is not a request, the kinds of name are disjoint, topics are
strings, stored rows carry no time after the first second, bounds are naturals. One assumption is no property of the system but
arithmetic: that a subnet's size, a power of two, divides the number of addresses
(`SubnetSizeAssumption`). The provers know nothing of exponents; TLC evaluates it for the
width of the run.

`Presence` (`PresenceProofs`):

- `TypeCorrect` - `TypeOK` is inductive. One lemma per group of actions; lemmas on
  partial functions (`Put`, `Drop`, merge of a batch) carry the weight.
- `CoherenceIsAlwaysKept` - a step theorem, because no invariant holds: a row may come out of
  a backfill incoherent. It is about the copies of one device together - table, memory, batch,
  each request's list - since a reload brings the scalars of a list taken earlier, a flush those
  of a batch drained earlier, and MAX of two coherent records is coherent. Besides types it
  needs only that a probe cycle applies a time of at least 1: 0 is the stored "never".
- `LastSeenUpOnlyMovesForward` - `applyProbes` assigns `lastSeenUp` without a guard; it
  cannot move back because the only writer is the probe loop. `ScalarInv` says of every
  place a record can be that its last-up is no later than the clock, nor than the time the
  probe cycle in progress is going to apply. The same
  argument fails for `lastSeen`, which two loops write: see the end of section 3.
- `UnsavedAlwaysQueued` - by `SaveInv`. "Ahead of the row, hence dirty or in the batch"
  does not survive a commit by itself: one must know that a record which is clean is
  covered by its row *together with* the batch in flight (`OnDisk`), that a list still
  to be applied is behind the table, and that a device in memory has a row unless it
  was deleted since the process began.
- `CleanShutdownAlwaysPersists` - from `SaveInv` and `StopInv`: once the last drain has
  run no loop is inside an iteration, and a reload that is still served marks nothing.
- `LivenessNeverStale` - by `LiveInv`: a probe cycle in flight keeps `probed` set, because
  one goroutine does both.
- `PresenceIsDurable` - the refinement. Journal, batch and memory, concatenated, are
  regrouped by a drain, a commit and a failed flush, and extended by a probe cycle; the
  guards of `Flushed` move saved columns forward only; `SaveInv` and `StopInv` give the empty
  batch before a drain and nothing unsaved when a stop is complete.
- `HistoryAlwaysInTimeOrder` - transitions carry times taken before the lock. `OrderInv`: the
  history of a device, saved and unsaved, is ordered and ends no later than `UpBound`, the
  time the cycle in progress will apply, and `BoundNeverBack` says that bound never recedes.

`Roster` (`RosterProofs`): `RosterTypeCorrect`; `ResolvedMarkAlwaysEarned` (a resolved
row has a resolver's name; nothing is said of the other marks); `OrphansAlwaysAskedFor`;
`ManualNameAlwaysStands`, an action property, from `MarkInv`: a resolution that is about to
write, and is not counted as overtaken, has read a row whose mark has not been set since.

`Wake` (`WakeProofs`): `AtMostOneBarrageIsBlind`, by the places a goroutine can be at after a
barrage nobody watched (`BlindInv`); `RegistryIsAlwaysNewest`, which needs that tasks are
numbered in the order of the POSTs (`InOrder`) and that a device's entry goes with
whichever of its goroutines returns first. `WakeTypeCorrect`, by `Paced`: every barrage after the
first has used up a tick that passed since, and none is sent at or after the timeout, so a
wake sends at most one barrage more than it has seconds - one more than one would
expect, because a tick taken late lets two loops read the same second.
`BarrageKeepsCadence`, by `OnTime`: a loop that was always waiting for its tick is at most one
tick ahead of the second it read. It holds for a resend interval above one second; at one
second the `elapsed > 0` of the code (wake.go:150) would skip the first repeat. The code's
interval is two.

`Backfill` (`BackfillProofs`), for any set of devices, any log and any number of faults:
`TypeCorrect`, by `TypeInv`: the batches and lists in flight, too, hold scalars no later
than the clock, no last-up is later than the time the probe cycle in progress will apply
(`UpBound`), and the newest sample the queries find is one of the log. `StartsNeverStick`,
by `StartInv`: a column that a start did not find, and that is there when its turn to be
added comes, is one that this start has added itself. `RecordsOnlyAdvance`, an action
property from the same invariant: without `UpBound` a cycle could take a remembered last-up back, as it
does take the remembered last-seen, which is left out. `HistoryIsNeverLost`, by `HistoryInv`, which follows the history of the old rows
through the places it is in: the goroutine has an order, it drops the log only after the last device
(`JobOrder`); until then a row that it has passed covers its log, and from then on every row
does (`RowsTell`), every list taken after that (`ListsTell`), and in the end memory
(`MemoryTells`); no list misses one of the rows (`ListsHoldMine`).

`Scan` (`ScanProofs`): `OneSweepAlwaysHoldsFlag`, `FinalEventIsAlwaysLast`, by `ScanInv`: the flag
stands exactly while a scan is active, and workers are busy only while their sweep feeds
or winds down. `EnumerateListsHosts` is the correctness of a loop: whatever takes the steps of
`enumerate` collects the addresses between network and broadcast, ascending and once each. That
such a function exists is shown by giving it (`Onward`, an interval in closed form); that any other
agrees with it, backwards from the end of the block, by the first address where they would
differ (`WalksAgree`). The walk ends because it leaves the block, also where `inc` wraps
(`WalkLeaves`), and only the block of all addresses, which `Validate` refuses, would go round.
`ScanTypeCorrect` and `ResultAlwaysCoversTarget` follow by `SweepInv`, which says of each scan
that its jobs are the rest of that list, that the counter misses exactly the hosts workers still
have, that a host handed out has been nudged or is in the hands of one worker, and that the
report of the last host has been made or is about to be. It is stated of the values of one
scan (`Swept`), so that a step of one needs nothing of the others. `EveryScanRunsOut` is what
`EveryScanEnds` needs besides fairness: each step of an accepted scan decreases `Left`, which
weighs the hosts not yet handed out, the places of the workers and that of the goroutine.

`Activity` (`ActivityProofs`), for every interval, grace, latency, TTL and number of slots:
`ActivityTypeCorrect`; `OnePulseMayBeLost`, by `PulseInv` (the last pulse heard is no older
than the pulse lost since, the one on its way and the time since it was sent account
for); `VerdictsAlwaysExpire`, by `WatchInv` (a pulse heard or on its way was sent while a page
was watched or as a client connected, so the time since either is at most its age and the latency) and `VerdictInv` (a verdict or
a cycle is as old as the cycle under way, or as the time since the ticker last fired); `NobodyHammers`, by
`AskInv`: what a caller asked for within the TTL is still in flight or has an entry no older
than the question, and an address is in one place of a round only. `LookupsAlwaysGoQuiet`, by
`RoundInv`: once the gate has been closed for j times the longest lookup, all that was in
flight then has been answered, so what the round still has to ask, with what is in flight
and younger, fits into the slots of the turns that are left; after the last there is nothing.

`Observed` (`ObservedProofs`): `ObservedTypeCorrect`; `StoredAlwaysOnlyGains`, from type
correctness and the upsert; `RestartAlwaysForgetsLittle`, by `WriteInv`: a sighting that is not
queued is covered by the debounce mark, and the mark by a row, a batch, the queue, a request
that is about to forget the host, or the retention. It needs that the mark is set when a
batch is drained and the host queued again when the batch fails, and that at boot, when
memory may gain a later sighting than it had, nothing has been marked yet.
`Stream` (`StreamProofs`): `KickAlwaysCoversMutation`, by `KickInv`: no frame, promise or
request is ahead of the data, and a build in progress has already overtaken the published
frame of every topic it is done with - without which a swap could publish less than was
promised. `StreamTypeCorrect` and `NothingEverSlipsBetween`, by `SlipInv`: the pipeline of a topic is
described in two parts - the last of its frames in the queue, or, with none queued, what was
written last - because a page that has attached and not loaded its greeting already has a
queue and nothing written; nothing is built of a topic nobody has data for, so a greeting
without a frame leaves a screen that has none; and what is being sent is what was published.

Every invariant, every action property and the refinement that a passing run checks has
its theorem. Only model-checked are the properties under fairness - `EveryWakeEnds`,
`PromptPageCatchesUp`, `EveryScanEnds`, `LogIsCollapsed`, `WatchedDashboardIsProbed` - which are
out of the provers' reach, and of course what the three runs refute.

## 6. Not modelled, and the plan

Not modelled at all: the sockets of probes, packets and name lookups, parsing of
`/proc`, netlink, `resolv.conf` and command output, HTML and CSS, the provisioning
roles. They keep no state that another goroutine shares.

Next, in this order:

1. The wake dialog of `app.js`, composed with `Wake` and the stream: a superseded wake still
   broadcasts one observation that carries nothing but the MAC.
2. `seenState` and `buildDevices` as operators, against a reference definition.
3. Theorems: what the other properties under fairness need besides fairness, as
   `EveryScanRunsOut` does for a scan - that every step of a collapse leaves it less to do.
