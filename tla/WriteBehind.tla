----------------------------- MODULE WriteBehind -----------------------------
(***************************************************************************)
(* What puckview promises of presence that is recorded in memory and       *)
(* written to its tables later, with everything it uses to keep the        *)
(* promise left out: the dirty marks, the batch in flight, the retries,    *)
(* the reloads and the order in which the goroutines take their locks.     *)
(*                                                                         *)
(* A transition is unsaved from the moment it is recorded until one save   *)
(* moves it to the log.  Unsaved ones are lost only with the process, and  *)
(* a process that ends in stage "off" has none.                            *)
(***************************************************************************)
EXTENDS Integers, Sequences, SequencesExt

CONSTANTS
    Key,      \* what can be tracked
    Entry     \* the transitions

VARIABLES
    rows,     \* the saved record of each tracked key
    log,      \* the saved transitions of each key, oldest first
    unsaved,  \* those only the process knows, oldest first
    stage     \* boot, run, final (saving for the last time), off or lost

vars == <<rows, log, unsaved, stage>>

None == [k \in Key |-> <<>>]

\* A saved record only moves forward, column by column.
NotBehind(a, b) == (b.icmp => a.icmp) /\ b.up <= a.up /\ b.seen <= a.seen
Forward(R) == \A k \in DOMAIN rows \cap DOMAIN R : NotBehind(R[k], rows[k])

Init ==
    /\ DOMAIN rows \subseteq Key
    /\ log \in [Key -> Seq(Entry)]
    /\ unsaved = None
    /\ stage = "boot"

Start ==
    /\ stage = "boot" /\ stage' = "run"
    /\ UNCHANGED <<rows, log, unsaved>>

\* Tracking a key, or changing what is configured of it, keeps every record.
Configure ==
    /\ DOMAIN rows \subseteq DOMAIN rows'
    /\ Forward(rows')
    /\ UNCHANGED <<log, unsaved, stage>>

\* Removal takes the record and the log, or fails with the log gone; what is
\* unsaved stays.
Forget(k) ==
    /\ rows' \in {rows, [j \in DOMAIN rows \ {k} |-> rows[j]]}
    /\ log' = [log EXCEPT ![k] = <<>>]
    /\ UNCHANGED <<unsaved, stage>>

\* New transitions come last, and none once the last save has begun.
Record ==
    /\ stage \notin {"final", "off"}
    /\ \A k \in Key : IsPrefix(unsaved[k], unsaved'[k])
    /\ UNCHANGED <<rows, log, stage>>

\* One save moves the oldest unsaved transitions of every key, once each and in
\* order; the last one moves them all.
Save ==
    /\ DOMAIN rows' = DOMAIN rows
    /\ Forward(rows')
    /\ \A k \in Key : /\ IsPrefix(log[k], log'[k])
                      /\ log'[k] \o unsaved'[k] = log[k] \o unsaved[k]
    /\ \/ stage \notin {"final", "off"} /\ stage' = stage
       \/ stage = "final" /\ stage' = "off" /\ unsaved' = None

\* Retention takes the oldest of the log.
Prune ==
    /\ stage = "run"
    /\ \A k \in Key : \E n \in 0 .. Len(log[k]) :
         log'[k] = SubSeq(log[k], n + 1, Len(log[k]))
    /\ UNCHANGED <<rows, unsaved, stage>>

Stop ==
    /\ stage = "run"
    /\ stage' = "final" \/ (stage' = "off" /\ unsaved = None)
    /\ UNCHANGED <<rows, log, unsaved>>

LastSaveFails ==
    /\ stage = "final" /\ stage' = "lost"
    /\ UNCHANGED <<rows, log, unsaved>>

\* A new process, after a stop or a crash, knows what was saved.
Restart ==
    /\ stage' = "boot"
    /\ unsaved' = None
    /\ UNCHANGED <<rows, log>>

Next ==
    \/ Start \/ Configure \/ Record \/ Save \/ Prune
    \/ \E k \in Key : Forget(k)
    \/ Stop \/ LastSaveFails \/ Restart

Spec == Init /\ [][Next]_vars

=============================================================================
