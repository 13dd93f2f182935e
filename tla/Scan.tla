-------------------------------- MODULE Scan --------------------------------
(***************************************************************************)
(* The LAN scan: POST /api/scan and its single-scan flag                   *)
(* (internal/server/scan.go), the sweep that hands the hosts of the target *)
(* to a pool of workers (internal/scan/scan.go), and the events the page   *)
(* sees.  A scan is numbered in the order in which it was accepted; its    *)
(* goroutine, its workers and its channel live and end with it.            *)
(***************************************************************************)
EXTENDS Subnet, FiniteSets, SequencesExt

CONSTANTS
    Local,     \* the box's own subnet
    Workers,   \* the workers of one sweep
    MaxScans   \* bound on the scans ever accepted

ASSUME ScanAssumption ==
    Local \in Blocks /\ IsFiniteSet(Workers) /\ Workers # {} /\ MaxScans \in Nat

VARIABLES
    scanning,  \* Server.scanning
    scan,      \* per scan: runScan with its Sweep
    worker,    \* per scan and worker
    done,      \* per scan: the sweep's counter
    nudged,    \* history, per scan: how often each address was nudged
    said       \* history, per scan: the kind of its last event, and whether
               \* a progress event has said that all hosts are done

vars == <<scanning, scan, worker, done, nudged, said>>

ScanId == 1 .. MaxScans
Unused == [pc |-> "unused", target |-> Local, jobs |-> <<>>, total |-> 0]
Ready == [pc |-> "ready"]
Active(i) == scan[i].pc \notin {"unused", "ended"}
WorkersDone(i) == \A w \in Workers : worker[i][w] = Ready

-----------------------------------------------------------------------------
\* POST /api/scan, its validation, and the test and set of the flag.

Accept(b) == Validate(b, Local) /\ ~scanning

handleScan(b) ==
    /\ Accept(b)
    /\ \E i \in ScanId :
         /\ scan[i].pc = "unused"
         /\ \A j \in ScanId : scan[j].pc = "unused" => i <= j
         /\ LET hosts == enumerate(b)
            IN  scan' = [scan EXCEPT ![i] = [pc |-> "feed", target |-> b,
                                             jobs |-> hosts, total |-> Len(hosts)]]
    /\ scanning' = TRUE
    /\ UNCHANGED <<worker, done, nudged, said>>

-----------------------------------------------------------------------------
\* Sweep.

\* The jobs channel has no buffer: feeder and worker meet.
Feed(i, w) ==
    /\ scan[i].pc = "feed"
    /\ scan[i].jobs # <<>>
    /\ worker[i][w] = Ready
    /\ worker' = [worker EXCEPT ![i][w] = [pc |-> "nudge", addr |-> Head(scan[i].jobs)]]
    /\ scan' = [scan EXCEPT ![i].jobs = Tail(@)]
    /\ UNCHANGED <<scanning, done, nudged, said>>

\* The deadline passes while the feeder waits for a worker.
TimeOut(i) ==
    /\ scan[i].pc = "feed"
    /\ scan[i].jobs # <<>>
    /\ scan' = [scan EXCEPT ![i].pc = "abort"]
    /\ UNCHANGED <<scanning, worker, done, nudged, said>>

Nudge(i, w) ==
    /\ worker[i][w].pc = "nudge"
    /\ nudged' = [nudged EXCEPT ![i][worker[i][w].addr] = @ + 1]
    /\ worker' = [worker EXCEPT ![i][w] = [pc |-> "count"]]
    /\ UNCHANGED <<scanning, scan, done, said>>

Count(i, w) ==
    /\ worker[i][w].pc = "count"
    /\ done' = [done EXCEPT ![i] = @ + 1]
    /\ worker' = [worker EXCEPT ![i][w] = [pc |-> "progress", done |-> done'[i]]]
    /\ UNCHANGED <<scanning, scan, nudged, said>>

ToldProgress(i, d) ==
    [said EXCEPT ![i] = [last |-> "progress", full |-> @.full \/ d = scan[i].total]]

\* Mutant: the last report is throttled like the others.
ProgressThrottled(i, w) ==
    /\ worker[i][w].pc = "progress"
    /\ said' \in {said, ToldProgress(i, worker[i][w].done)}
    /\ worker' = [worker EXCEPT ![i][w] = Ready]
    /\ UNCHANGED <<scanning, scan, done, nudged>>

\* The throttle's clock is shared by the workers without a lock: any of them may
\* find the last report recent or old.  The report of the last host always goes.
Progress(i, w) ==
    /\ worker[i][w].pc = "progress"
    /\ said' \in {said, ToldProgress(i, worker[i][w].done)}
    /\ worker[i][w].done = scan[i].total
         => said' = ToldProgress(i, worker[i][w].done)
    /\ worker' = [worker EXCEPT ![i][w] = Ready]
    /\ UNCHANGED <<scanning, scan, done, nudged>>

FeedEnded(i) ==
    \/ scan[i].pc = "abort"
    \/ scan[i].pc = "feed" /\ scan[i].jobs = <<>>

\* Mutant: the channel is not closed when the deadline passes.
SweepEndsUnlessAborted(i) ==
    /\ scan[i].pc = "feed" /\ scan[i].jobs = <<>>
    /\ WorkersDone(i)
    /\ scan' = [scan EXCEPT ![i].pc = "read"]
    /\ UNCHANGED <<scanning, worker, done, nudged, said>>

\* Mutant: the sweep does not wait for workers that still nudge or report.
SweepEndsEarly(i) ==
    /\ FeedEnded(i)
    /\ scan' = [scan EXCEPT ![i].pc = IF @ = "abort" THEN "error" ELSE "read"]
    /\ UNCHANGED <<scanning, worker, done, nudged, said>>

\* The channel is closed and every worker has returned.
SweepEnds(i) ==
    /\ FeedEnded(i)
    /\ WorkersDone(i)
    /\ scan' = [scan EXCEPT ![i].pc = IF @ = "abort" THEN "error" ELSE "read"]
    /\ UNCHANGED <<scanning, worker, done, nudged, said>>

\* Reading the neighbour cache back can fail.
ReadBack(i) ==
    /\ scan[i].pc = "read"
    /\ \E next \in {"result", "error"} : scan' = [scan EXCEPT ![i].pc = next]
    /\ UNCHANGED <<scanning, worker, done, nudged, said>>

\* The last event of a scan; names are resolved before it.
Report(i) ==
    /\ scan[i].pc \in {"result", "error"}
    /\ said' = [said EXCEPT ![i].last = scan[i].pc]
    /\ scan' = [scan EXCEPT ![i].pc = "reset"]
    /\ UNCHANGED <<scanning, worker, done, nudged>>

\* Mutant: only a scan that came to a result clears the flag.
ResetAfterResult(i) ==
    /\ scan[i].pc = "reset"
    /\ scanning' = (scanning /\ said[i].last # "result")
    /\ scan' = [scan EXCEPT ![i].pc = "ended"]
    /\ UNCHANGED <<worker, done, nudged, said>>

\* The deferred reset of the flag.
Reset(i) ==
    /\ scan[i].pc = "reset"
    /\ scanning' = FALSE
    /\ scan' = [scan EXCEPT ![i].pc = "ended"]
    /\ UNCHANGED <<worker, done, nudged, said>>

Work(i, w) == Feed(i, w) \/ Nudge(i, w) \/ Count(i, w) \/ Progress(i, w)
RunScan(i) == SweepEnds(i) \/ ReadBack(i) \/ Report(i) \/ Reset(i)

-----------------------------------------------------------------------------
Init ==
    /\ scanning = FALSE
    /\ scan = [i \in ScanId |-> Unused]
    /\ worker = [i \in ScanId |-> [w \in Workers |-> Ready]]
    /\ done = [i \in ScanId |-> 0]
    /\ nudged = [i \in ScanId |-> [a \in Address |-> 0]]
    /\ said = [i \in ScanId |-> [last |-> "none", full |-> FALSE]]

Next ==
    \/ \E b \in Blocks : handleScan(b)
    \/ \E i \in ScanId :
         RunScan(i) \/ TimeOut(i) \/ \E w \in Workers : Work(i, w)

Spec == Init /\ [][Next]_vars

\* Goroutines that can go on do; the deadline need never pass.
FairSpec ==
    /\ Spec
    /\ \A i \in ScanId : WF_vars(RunScan(i))
    /\ \A i \in ScanId, w \in Workers : WF_vars(Work(i, w))

-----------------------------------------------------------------------------
\* The counters and the places of the goroutines are what they can be: at most
\* MaxHosts hosts are ever handed out, and never an address outside the target.
TypeOK ==
    /\ scanning \in BOOLEAN
    /\ \A i \in ScanId :
         /\ scan[i].pc \in {"unused", "feed", "abort", "read", "result", "error",
                            "reset", "ended"}
         /\ scan[i].target \in Blocks
         /\ ToSet(scan[i].jobs) \subseteq Hosts(scan[i].target)
         /\ done[i] \in 0 .. MaxHosts

\* The flag stands exactly while one sweep runs: no second one starts before the
\* first has let go of the LAN, and no path of runScan leaves the flag behind to
\* refuse the next scan (handleScan, runScan).
OneSweepHoldsFlag ==
    /\ scanning <=> \E i \in ScanId : Active(i)
    /\ \A i, j \in ScanId : Active(i) /\ Active(j) => i = j

\* The result or error of a scan is the last thing the page hears of it, and no
\* packet follows: the sweep waits for its workers on every path (Sweep).
FinalEventIsLast ==
    \A i \in ScanId :
        scan[i].pc \in {"reset", "ended"}
            => WorkersDone(i) /\ said[i].last \in {"result", "error"}

\* A scan that reports a result has nudged every host of its target once, and
\* nothing else (enumerate, Sweep), and has reported all of them as done.
ResultCoversTarget ==
    \A i \in ScanId :
        scan[i].pc = "result"
            => /\ \A a \in Address :
                    nudged[i][a] = IF a \in Hosts(scan[i].target) THEN 1 ELSE 0
               /\ scan[i].total > 0 => said[i].full

\* Every scan ends and gives the flag back for good, or for the next scan.
EveryScanEnds == \A i \in ScanId : (scan[i].pc = "feed") ~> (scan[i].pc = "ended")
=============================================================================
