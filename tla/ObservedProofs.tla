--------------------------- MODULE ObservedProofs ---------------------------
(***************************************************************************)
(* Theorems about Observed for every set of hosts, viewers and requests,   *)
(* every debounce and retention, and any number of faults.                 *)
(***************************************************************************)
EXTENDS Observed, TLAPS

-----------------------------------------------------------------------------
(* Maps.                                                                   *)

Map(f, S, T) ==
    /\ f = [x \in DOMAIN f |-> f[x]]
    /\ DOMAIN f \subseteq S
    /\ \A x \in DOMAIN f : f[x] \in T

LEMMA PartialIsMap ==
    ASSUME NEW f, NEW S, NEW T
    PROVE  f \in Partial(S, T) <=> Map(f, S, T)
<1>1. ASSUME f \in Partial(S, T) PROVE Map(f, S, T)
  <2>1. PICK D \in SUBSET S : f \in [D -> T]
    BY <1>1 DEF Partial
  <2>2. QED
    BY <2>1 DEF Map
<1>2. ASSUME Map(f, S, T) PROVE f \in Partial(S, T)
  <2>1. DOMAIN f \in SUBSET S /\ f \in [DOMAIN f -> T]
    BY <1>2 DEF Map
  <2>2. QED
    BY <2>1 DEF Partial
<1>3. QED
  BY <1>1, <1>2

LEMMA PutMap ==
    ASSUME NEW S, NEW T, NEW f, NEW h \in S, NEW v \in T, Map(f, S, T)
    PROVE  Map(Put(f, h, v), S, T)
BY DEF Map, Put

LEMMA WithoutMap ==
    ASSUME NEW S, NEW T, NEW f, NEW R, Map(f, S, T)
    PROVE  Map(Without(f, R), S \ R, T) /\ Map(Without(f, R), S, T)
BY DEF Map, Without

LEMMA NothingMap ==
    ASSUME NEW S, NEW T
    PROVE  Map(Nothing, S, T) /\ DOMAIN Nothing = {}
BY DEF Map, Nothing

-----------------------------------------------------------------------------
(* The inductive invariant.                                                *)

TableType == Map(table, Host, Sighting) /\ rows \subseteq Host /\ tracked \subseteq Host

MemType ==
    /\ Map(obs, Host, Sighting)
    /\ dirty \subseteq DOMAIN obs /\ sighted \subseteq DOMAIN obs
    /\ Map(flushed, DOMAIN obs, Time)

Touching == [pc : {"touch"}, at : Time, todo : SUBSET Host]
Asking == [pc : {"delete", "forget", "reload"}, host : Host]

ProcType ==
    /\ view \in [Builder -> {Resting} \cup Touching]
    /\ req \in [Client -> {Resting} \cup Asking]
    /\ maint.pc = "commit" => Map(maint.batch, Host, Sighting)
    /\ maint.pc = "prune" => maint.cutoff \in Int /\ maint.cutoff <= now - TTL
    /\ boot.pc = "merge" => Map(boot.rows, Host, Sighting)

\* Nothing has been written before Run's loops start.
PhaseInv ==
    /\ now \in Time /\ faults \in 0 .. MaxFaults
    /\ phase \in {"start", "boot", "run", "final", "ended"}
    /\ phase \in {"start", "boot"} => DOMAIN flushed = {} /\ maint = Resting
    /\ boot.pc = "merge" => phase = "boot"

\* A sighting that is not queued is covered by the last write ...
Covered(h) == h \in dirty \/ (h \in DOMAIN flushed /\ obs[h].last < flushed[h] + Debounce)

\* ... and what was handed out to be written is queued again, on its way, or in
\* the table, unless the host is being forgotten or has expired.
Kept(h) ==
    \/ Leaving(h) \/ h \in dirty
    \/ Carried(h) /\ flushed[h] <= maint.batch[h].last
    \/ h \in DOMAIN table /\ flushed[h] <= table[h].last
    \/ flushed[h] < now - TTL

WriteInv ==
    /\ \A h \in sighted : Covered(h)
    /\ \A h \in DOMAIN flushed : Kept(h)

ObservedInv == TableType /\ MemType /\ ProcType /\ PhaseInv /\ WriteInv

LEMMA ConstantsAre ==
    /\ Debounce \in Nat /\ TTL \in Nat /\ 0 < Debounce
    /\ Time \subseteq Int
BY ObservedAssumption DEF Time

LEMMA TypeParts ==
    TypeOK <=> /\ TableType /\ MemType
               /\ now \in Time /\ faults \in 0 .. MaxFaults
               /\ phase \in {"start", "boot", "run", "final", "ended"}
BY PartialIsMap DEF TypeOK, TableType, MemType

LEMMA InitObserved == Init => ObservedInv
<1> SUFFICES ASSUME Init PROVE ObservedInv
  OBVIOUS
<1>1. TableType /\ MemType
  BY NothingMap DEF Init, TableType, MemType
<1>2. ProcType /\ PhaseInv
  BY NothingMap, ObservedAssumption DEF Init, ProcType, PhaseInv, Resting, Time
<1>3. WriteInv
  BY NothingMap DEF Init, WriteInv
<1>4. QED
  BY <1>1, <1>2, <1>3 DEF ObservedInv

LEMMA FaultCounts ==
    ASSUME faults \in 0 .. MaxFaults, Fault
    PROVE  faults' \in 0 .. MaxFaults
BY ObservedAssumption DEF Fault

\* What a counter says of the record it is in.
LEMMA ProcStates ==
    ASSUME ProcType
    PROVE  /\ \A b \in Builder : view[b].pc = "touch" => view[b] \in Touching
           /\ \A c \in Client : req[c].pc \in {"delete", "forget", "reload"} => req[c] \in Asking
<1>1. Resting.pc = "idle"
  BY DEF Resting
<1>2. QED
  BY <1>1 DEF ProcType

-----------------------------------------------------------------------------
(* The steps.                                                              *)

\* What is written behind holds as long as only marks are added.
LEMMA BeginViewStep ==
    ASSUME ObservedInv, NEW b \in Builder, BeginView(b)
    PROVE  ObservedInv'
<1>1. PICK present \in SUBSET Host :
        view' = [view EXCEPT ![b] = [pc |-> "touch", at |-> now, todo |-> present \ tracked]]
  BY DEF BeginView
<1>2. [pc |-> "touch", at |-> now, todo |-> present \ tracked] \in Touching
  BY DEF Touching, ObservedInv, PhaseInv
<1>3. ProcType'
  BY <1>1, <1>2 DEF ObservedInv, ProcType, BeginView
<1>4. TableType' /\ MemType' /\ PhaseInv' /\ WriteInv'
  BY DEF BeginView, ObservedInv, TableType, MemType, PhaseInv, WriteInv, Covered, Kept,
         Carried, Leaving, memVars
<1>5. QED
  BY <1>3, <1>4 DEF ObservedInv

LEMMA TouchStep ==
    ASSUME ObservedInv, NEW b \in Builder, Touch(b)
    PROVE  ObservedInv'
<1> USE DEF ObservedInv
<1>1. view[b] \in Touching
  BY ProcStates DEF Touch
<1>2. CASE view[b].todo = {}
  <2>1. ProcType'
    BY <1>2 DEF Touch, ProcType
  <2>2. QED
    BY <1>2, <2>1 DEF Touch, TableType, MemType, PhaseInv, WriteInv, Covered, Kept,
                      Carried, Leaving, memVars
<1>3. ASSUME view[b].todo # {} PROVE ObservedInv'
  <2>1. PICK h \in view[b].todo :
          \E named \in BOOLEAN : /\ touchObserved(h, named, view[b].at)
                                 /\ view' = [view EXCEPT ![b].todo = @ \ {h}]
    BY <1>3 DEF Touch
  <2>2. PICK named \in BOOLEAN : /\ touchObserved(h, named, view[b].at)
                                 /\ view' = [view EXCEPT ![b].todo = @ \ {h}]
    BY <2>1
  <2>3. h \in Host /\ view[b].at \in Time /\ view[b].at \in Int
    BY <1>1, ConstantsAre DEF Touching
  <2> DEFINE s == [last |-> view[b].at, named |-> named \/ (h \in DOMAIN obs /\ obs[h].named)]
  <2>4. s \in Sighting
    <3>1. (named \/ (h \in DOMAIN obs /\ obs[h].named)) \in BOOLEAN
      OBVIOUS
    <3>2. QED
      BY <3>1, <2>3 DEF Sighting
  <2>5. obs' = Put(obs, h, s) /\ s.last = view[b].at
    BY <2>2 DEF touchObserved
  <2> HIDE DEF s
  <2>6. /\ Map(obs', Host, Sighting)
        /\ DOMAIN obs' = DOMAIN obs \cup {h}
        /\ obs'[h] = s
        /\ \A k \in DOMAIN obs : k # h => obs'[k] = obs[k]
    BY <2>3, <2>4, <2>5, PutMap DEF MemType, Put
  <2>7. /\ dirty' = IF IsDue(h, view[b].at) THEN dirty \cup {h} ELSE dirty
        /\ sighted' = sighted \cup {h} /\ flushed' = flushed
    BY <2>2 DEF touchObserved
  <2>8. MemType'
    BY <2>6, <2>7 DEF MemType, Map
  <2>9. ProcType'
    <3>1. [view[b] EXCEPT !.todo = @ \ {h}] \in Touching
      BY <1>1 DEF Touching
    <3>2. QED
      BY <2>2, <3>1 DEF Touch, ProcType
  <2>10. TableType' /\ PhaseInv'
    BY <2>7 DEF Touch, TableType, PhaseInv
  <2>11. \A k \in sighted' : Covered(k)'
    <3> SUFFICES ASSUME NEW k \in sighted' PROVE Covered(k)'
      OBVIOUS
    <3>1. CASE k # h
      BY <3>1, <2>6, <2>7 DEF WriteInv, Covered, MemType
    <3>2. CASE k = h /\ ~IsDue(h, view[b].at)
      <4>1. flushed[h] \in Int /\ h \in DOMAIN flushed
        BY <3>2, ConstantsAre DEF IsDue, MemType, Map
      <4>2. ~(view[b].at - flushed[h] >= Debounce)
        BY <3>2 DEF IsDue
      <4>3. view[b].at < flushed[h] + Debounce
        BY <4>1, <4>2, <2>3, ConstantsAre
      <4>4. QED
        BY <3>2, <4>1, <4>3, <2>5, <2>6, <2>7 DEF Covered
    <3>3. CASE k = h /\ IsDue(h, view[b].at)
      BY <3>3, <2>7 DEF Covered
    <3>4. QED
      BY <3>1, <3>2, <3>3
  <2>12. \A k \in DOMAIN flushed' : Kept(k)'
    BY <2>7 DEF Touch, WriteInv, Kept, Carried, Leaving
  <2>13. QED
    BY <2>8, <2>9, <2>10, <2>11, <2>12 DEF WriteInv
<1>4. QED
  BY <1>2, <1>3

\* A request that leaves the table and the memory alone.
LEMMA RequestStep ==
    ASSUME ObservedInv, NEW c \in Client,
           \/ \E h \in Host : Add(c, h) \/ Untrack(c, h)
           \/ DeleteObservedFails(c) \/ Reload(c)
    PROVE  ObservedInv'
<1> USE DEF ObservedInv
<1>1. /\ UNCHANGED <<table, obs, dirty, flushed, sighted, view, maint, boot, phase, now>>
      /\ req[c].pc # "forget"
      /\ faults' \in 0 .. MaxFaults
  BY FaultCounts
  DEF Add, Untrack, DeleteObservedFails, Reload, memVars, Resting, PhaseInv
<1>2. req' \in [Client -> {Resting} \cup Asking]
  <2>1. \A h \in Host : /\ [pc |-> "delete", host |-> h] \in Asking
                        /\ [pc |-> "reload", host |-> h] \in Asking
    BY DEF Asking
  <2>2. req[c].pc = "delete" => [req[c] EXCEPT !.pc = "forget"] \in Asking
    BY ProcStates DEF Asking
  <2>3. QED
    BY <2>1, <2>2 DEF Add, Untrack, DeleteObservedFails, Reload, ProcType
<1>3. rows' \subseteq Host /\ tracked' \subseteq Host
  BY DEF Add, Untrack, DeleteObservedFails, Reload, TableType
<1>4. \A h : Leaving(h) => Leaving(h)'
  <2>1. \A d \in Client : req[d].pc = "forget" => req'[d] = req[d]
    BY <1>1, <1>2 DEF Add, Untrack, DeleteObservedFails, Reload, ProcType
  <2>2. QED
    BY <2>1 DEF Leaving
<1>5. TableType' /\ MemType' /\ ProcType' /\ PhaseInv'
  BY <1>1, <1>2, <1>3 DEF TableType, MemType, ProcType, PhaseInv
<1>6. WriteInv'
  BY <1>1, <1>4 DEF WriteInv, Covered, Kept, Carried
<1>7. QED
  BY <1>5, <1>6

\* The table forgets a host that is about to be forgotten in memory.
LEMMA DeleteObservedStep ==
    ASSUME ObservedInv, NEW c \in Client, DeleteObserved(c)
    PROVE  ObservedInv'
<1> USE DEF ObservedInv
<1>0. PICK gone \in Host : gone = req[c].host
  BY ProcStates DEF DeleteObserved, Asking
<1>1. req[c] \in Asking
  BY ProcStates DEF DeleteObserved
<1>2. [req[c] EXCEPT !.pc = "forget"] \in Asking
  BY <1>1 DEF Asking
<1>3. /\ req' = [req EXCEPT ![c] = [req[c] EXCEPT !.pc = "forget"]]
      /\ req' \in [Client -> {Resting} \cup Asking]
      /\ req'[c].pc = "forget" /\ req'[c].host = gone
  BY <1>0, <1>1, <1>2 DEF DeleteObserved, ProcType, Asking
<1>4. Leaving(gone)' /\ \A h : Leaving(h) => Leaving(h)'
  <2>1. \A d \in Client : req[d].pc = "forget" => req'[d] = req[d]
    BY <1>3 DEF DeleteObserved, ProcType
  <2>2. QED
    BY <1>3, <2>1 DEF Leaving
<1>5. table' = Without(table, {gone}) /\ Map(table', Host, Sighting)
  BY <1>0, WithoutMap DEF DeleteObserved, TableType
<1>6. TableType' /\ MemType' /\ ProcType' /\ PhaseInv'
  BY <1>3, <1>5 DEF DeleteObserved, TableType, MemType, ProcType, PhaseInv, memVars
<1>7. \A h \in DOMAIN flushed : Kept(h)'
  <2> SUFFICES ASSUME NEW h \in DOMAIN flushed, h # gone PROVE Kept(h)'
    BY <1>4 DEF Kept
  <2>1. Kept(h)
    BY DEF WriteInv
  <2>2. h \in DOMAIN table => h \in DOMAIN table' /\ table'[h] = table[h]
    BY <1>5 DEF Without
  <2>3. QED
    BY <2>1, <2>2, <1>4 DEF Kept, Carried, DeleteObserved, memVars
<1>8. QED
  BY <1>6, <1>7 DEF WriteInv, Covered, DeleteObserved, memVars

\* Hosts leave the memory with everything that is known of them.
LEMMA ForgetEffect ==
    ASSUME MemType, NEW S, forget(S)
    PROVE  /\ MemType'
           /\ DOMAIN flushed' = DOMAIN flushed \ S
           /\ sighted' = sighted \ S /\ dirty' = dirty \ S
           /\ \A h \in DOMAIN obs \ S : obs'[h] = obs[h]
           /\ \A h \in DOMAIN flushed \ S : flushed'[h] = flushed[h]
<1>1. /\ obs' = Without(obs, S) /\ flushed' = Without(flushed, S)
      /\ dirty' = dirty \ S /\ sighted' = sighted \ S
  BY DEF forget
<1>2. Map(obs', Host, Sighting) /\ Map(flushed', DOMAIN obs \ S, Time)
  BY <1>1, WithoutMap DEF MemType
<1>3. DOMAIN obs' = DOMAIN obs \ S
  BY <1>1 DEF Without
<1>4. MemType'
  BY <1>1, <1>2, <1>3 DEF MemType
<1>5. QED
  BY <1>1, <1>4 DEF Without, MemType

\* Those that stay are covered and kept as before.
LEMMA ForgetKeeps ==
    ASSUME MemType, WriteInv, NEW S, forget(S), UNCHANGED <<table, now>>,
           \A h \in DOMAIN flushed \ S : Leaving(h) => Leaving(h)',
           \A h : Carried(h) => Carried(h)' /\ maint'.batch = maint.batch
    PROVE  WriteInv'
<1>1. \A h \in sighted' : Covered(h)'
  BY ForgetEffect DEF WriteInv, Covered, MemType
<1>2. ASSUME NEW h \in DOMAIN flushed' PROVE Kept(h)'
  <2>1. /\ h \in DOMAIN flushed \ S /\ flushed'[h] = flushed[h]
        /\ dirty' = dirty \ S
    BY ForgetEffect
  <2>2. Kept(h)
    BY <2>1 DEF WriteInv
  <2>3. QED
    BY <2>1, <2>2 DEF Kept
<1>3. QED
  BY <1>1, <1>2 DEF WriteInv

LEMMA ForgetObservedStep ==
    ASSUME ObservedInv, NEW c \in Client, ForgetObserved(c)
    PROVE  ObservedInv'
<1> USE DEF ObservedInv
<1>0. PICK gone \in Host : gone = req[c].host
  BY ProcStates DEF ForgetObserved, Asking
<1>1. forget({gone})
  BY <1>0 DEF ForgetObserved
<1>2. /\ req' = [req EXCEPT ![c].pc = "reload"]
      /\ UNCHANGED <<table, rows, tracked, view, maint, boot, phase, now, faults>>
  BY DEF ForgetObserved
<1>3. req' \in [Client -> {Resting} \cup Asking]
  <2>1. [req[c] EXCEPT !.pc = "reload"] \in Asking
    BY ProcStates DEF ForgetObserved, Asking
  <2>2. QED
    BY <1>2, <2>1 DEF ProcType
<1>4. \A h \in DOMAIN flushed \ {gone} : Leaving(h) => Leaving(h)'
  BY <1>0, <1>2 DEF Leaving, ProcType
<1>5. MemType' /\ DOMAIN flushed' = DOMAIN flushed \ {gone}
  BY <1>1, ForgetEffect
<1>6. TableType' /\ ProcType' /\ PhaseInv'
  BY <1>2, <1>3, <1>5 DEF TableType, ProcType, PhaseInv
<1>7. WriteInv'
  BY <1>1, <1>2, <1>4, ForgetKeeps DEF Carried
<1>8. QED
  BY <1>5, <1>6, <1>7

LEMMA PruneMemoryStep ==
    ASSUME ObservedInv, PruneMemory
    PROVE  ObservedInv'
<1> USE DEF ObservedInv
<1>0. PICK S : S = {h \in DOMAIN obs : obs[h].last < now - TTL}
  OBVIOUS
<1>1. /\ forget(S)
      /\ maint = Resting /\ phase = "run"
      /\ maint' = [pc |-> "prune", cutoff |-> now - TTL]
      /\ UNCHANGED <<table, rows, tracked, view, req, boot, phase, now, faults>>
  BY <1>0 DEF PruneMemory
<1>2. MemType'
  BY <1>1, ForgetEffect
<1>3. ProcType'
  BY <1>1, ConstantsAre DEF ProcType, PhaseInv
<1>4. TableType' /\ PhaseInv'
  BY <1>1 DEF TableType, PhaseInv
<1>5. WriteInv'
  BY <1>1, ForgetKeeps DEF Carried, Leaving, Resting
<1>6. QED
  BY <1>2, <1>3, <1>4, <1>5

\* What is dirty is handed out and marked as written.
LEMMA DrainEffect ==
    ASSUME ObservedInv, drain, maint = Resting,
           UNCHANGED <<table, req, view, boot, now>>
    PROVE  MemType' /\ ProcType' /\ WriteInv'
<1> USE DEF ObservedInv
<1>0. PICK b : b = [h \in dirty |-> obs[h]]
  OBVIOUS
<1>1. /\ maint' = [pc |-> "commit", batch |-> b]
      /\ flushed' = [h \in DOMAIN flushed \cup dirty |->
                       IF h \in dirty THEN b[h].last ELSE flushed[h]]
      /\ dirty' = {} /\ obs' = obs /\ sighted' = sighted
  <2>1. dirty \cap DOMAIN obs = dirty
    BY DEF MemType
  <2>2. DOMAIN b = dirty
    BY <1>0
  <2>3. QED
    BY <1>0, <2>1, <2>2 DEF drain
<1>2. Map(b, Host, Sighting) /\ DOMAIN b = dirty
  BY <1>0 DEF MemType, Map
<1>3. \A h \in dirty : b[h] = obs[h] /\ obs[h].last \in Time
  BY <1>0 DEF MemType, Map, Sighting
<1>4. MemType'
  BY <1>1, <1>3 DEF MemType, Map
<1>5. ProcType'
  BY <1>1, <1>2 DEF ProcType
<1>6. ASSUME NEW h \in sighted' PROVE Covered(h)'
  <2>1. CASE h \in dirty
    <3>1. h \in DOMAIN flushed' /\ flushed'[h] = obs[h].last /\ obs[h].last \in Int
      BY <1>1, <1>3, <2>1, ConstantsAre
    <3>2. obs[h].last < obs[h].last + Debounce
      BY <3>1, ConstantsAre
    <3>3. QED
      BY <1>1, <3>1, <3>2 DEF Covered
  <2>2. CASE h \notin dirty
    BY <1>1, <2>2 DEF WriteInv, Covered
  <2>3. QED
    BY <2>1, <2>2
<1>7. ASSUME NEW h \in DOMAIN flushed' PROVE Kept(h)'
  <2>1. CASE h \in dirty
    <3>1. flushed'[h] = b[h].last /\ b[h].last \in Int
      BY <1>1, <1>3, <2>1, ConstantsAre
    <3>2. Carried(h)' /\ maint'.batch[h] = b[h]
      BY <1>1, <1>2, <2>1 DEF Carried
    <3>3. QED
      BY <3>1, <3>2 DEF Kept
  <2>2. CASE h \notin dirty
    <3>1. ~Carried(h)
      BY DEF Carried, Resting
    <3>2. h \in DOMAIN flushed /\ flushed'[h] = flushed[h]
      BY <1>1, <2>2
    <3>3. Kept(h)
      BY <3>2 DEF WriteInv
    <3>4. QED
      BY <2>2, <3>1, <3>2, <3>3 DEF Kept, Leaving
  <2>3. QED
    BY <2>1, <2>2
<1>8. QED
  BY <1>4, <1>5, <1>6, <1>7 DEF WriteInv

LEMMA FlushStep ==
    ASSUME ObservedInv, Drain \/ FinalFlush
    PROVE  ObservedInv'
<1> USE DEF ObservedInv
<1>1. /\ maint = Resting /\ phase = "run" /\ boot.pc # "merge"
      /\ phase' \in {"run", "final", "ended"}
      /\ UNCHANGED <<table, rows, tracked, view, req, boot, now, faults>>
  BY DEF Drain, FinalFlush, PhaseInv
<1>2. TableType' /\ PhaseInv'
  BY <1>1 DEF TableType, PhaseInv
<1>3. CASE drain
  BY <1>1, <1>2, <1>3, DrainEffect
<1>4. CASE UNCHANGED <<memVars, maint>>
  BY <1>1, <1>2, <1>4
  DEF memVars, MemType, ProcType, WriteInv, Covered, Kept, Carried, Leaving
<1>5. QED
  BY <1>3, <1>4 DEF Drain, FinalFlush

\* A batch goes into the table: no row there is worse off.
LEMMA CommitEffect ==
    ASSUME TableType, ProcType, Commit
    PROVE  /\ Map(table', Host, Sighting)
           /\ \A h \in DOMAIN table :
                 /\ h \in DOMAIN table'
                 /\ table[h].last <= table'[h].last
                 /\ table[h].named => table'[h].named
           /\ \A h \in DOMAIN maint.batch :
                 h \in DOMAIN table' /\ maint.batch[h].last <= table'[h].last
<1>0. PICK b : b = maint.batch
  OBVIOUS
<1>1. Map(b, Host, Sighting)
  BY <1>0 DEF Commit, ProcType
<1>2. table' = [h \in DOMAIN table \cup DOMAIN b |->
                  IF h \notin DOMAIN b THEN table[h]
                  ELSE IF h \in DOMAIN table THEN Upserted(table[h], b[h])
                  ELSE b[h]]
  BY <1>0 DEF Commit
<1>3. ASSUME NEW r \in Sighting, NEW s \in Sighting
      PROVE  /\ Upserted(r, s) \in Sighting
             /\ r.last <= Upserted(r, s).last /\ s.last <= Upserted(r, s).last
             /\ r.named => Upserted(r, s).named
  <2>1. /\ r.last \in Time /\ s.last \in Time /\ r.last \in Int /\ s.last \in Int
        /\ r.named \in BOOLEAN /\ s.named \in BOOLEAN
    BY ConstantsAre DEF Sighting
  <2>2. (s.named \/ r.named) \in BOOLEAN
    OBVIOUS
  <2>3. Upserted(r, s).named = (s.named \/ r.named)
    BY DEF Upserted
  <2>4. Upserted(r, s).last = IF s.last > r.last THEN s.last ELSE r.last
    BY DEF Upserted
  <2>5. Upserted(r, s) \in Sighting
    BY <2>1, <2>2 DEF Upserted, Sighting
  <2>6. r.named => Upserted(r, s).named
    BY <2>3
  <2>7. QED
    BY <2>1, <2>4, <2>5, <2>6
<1>4. \A h \in DOMAIN table : table[h] \in Sighting /\ table[h].last \in Int
  BY ConstantsAre DEF TableType, Map, Sighting
<1>5. \A h \in DOMAIN b : b[h] \in Sighting /\ b[h].last \in Int
  BY <1>1, ConstantsAre DEF Map, Sighting
<1>6. ASSUME NEW h \in DOMAIN table
      PROVE  /\ h \in DOMAIN table' /\ table'[h] \in Sighting
             /\ table[h].last <= table'[h].last
             /\ table[h].named => table'[h].named
  BY <1>2, <1>3, <1>4, <1>5
<1>7. ASSUME NEW h \in DOMAIN b
      PROVE  /\ h \in DOMAIN table' /\ table'[h] \in Sighting
             /\ b[h].last <= table'[h].last
  BY <1>2, <1>3, <1>4, <1>5
<1>8. DOMAIN table' = DOMAIN table \cup DOMAIN b
  BY <1>2
<1>9. Map(table', Host, Sighting)
  BY <1>1, <1>2, <1>6, <1>7, <1>8 DEF Map, TableType
<1>10. QED
  BY <1>0, <1>6, <1>7, <1>9

LEMMA CommitStep ==
    ASSUME ObservedInv, Commit
    PROVE  ObservedInv'
<1> USE DEF ObservedInv
<1>1. /\ maint' = Resting
      /\ phase' = IF phase = "final" THEN "ended" ELSE phase
      /\ UNCHANGED <<rows, tracked, obs, dirty, flushed, sighted, view, req, boot, now, faults>>
  BY DEF Commit, memVars
<1>2. maint # Resting /\ phase \notin {"start", "boot"}
  BY DEF Commit, Resting, PhaseInv
<1>3. TableType' /\ MemType'
  BY <1>1, CommitEffect DEF TableType, MemType
<1>4. ProcType' /\ PhaseInv'
  BY <1>1, <1>2 DEF ProcType, PhaseInv, Resting
<1>5. ASSUME NEW h \in DOMAIN flushed PROVE Kept(h)'
  <2>1. Kept(h)
    BY DEF WriteInv
  <2>2. flushed[h] \in Int
    BY ConstantsAre DEF MemType, Map
  <2>3. ASSUME h \in DOMAIN table, flushed[h] <= table[h].last
        PROVE  h \in DOMAIN table' /\ flushed[h] <= table'[h].last
    <3>1. table[h].last \in Int /\ h \in DOMAIN table' /\ table'[h].last \in Int
      BY <2>3, <1>3, CommitEffect, ConstantsAre DEF TableType, Map, Sighting
    <3>2. table[h].last <= table'[h].last
      BY <2>3, CommitEffect
    <3>3. QED
      BY <2>2, <2>3, <3>1, <3>2
  <2>4. ASSUME Carried(h), flushed[h] <= maint.batch[h].last
        PROVE  h \in DOMAIN table' /\ flushed[h] <= table'[h].last
    <3>1. h \in DOMAIN table' /\ maint.batch[h].last <= table'[h].last
      BY <2>4, CommitEffect DEF Carried
    <3>2. maint.batch[h].last \in Int /\ table'[h].last \in Int
      BY <2>4, <3>1, <1>3, ConstantsAre DEF Carried, ProcType, TableType, Map, Sighting
    <3>3. QED
      BY <2>2, <2>4, <3>1, <3>2
  <2>5. QED
    BY <1>1, <2>1, <2>3, <2>4 DEF Kept, Leaving
<1>6. WriteInv'
  BY <1>1, <1>5 DEF WriteInv, Covered
<1>7. QED
  BY <1>3, <1>4, <1>6

\* What could not be written is queued again.
LEMMA CommitFailsStep ==
    ASSUME ObservedInv, CommitFails
    PROVE  ObservedInv'
<1> USE DEF ObservedInv
<1>1. /\ maint.pc = "commit" /\ maint' = Resting
      /\ phase' = IF phase = "final" THEN "ended" ELSE phase
      /\ dirty' = dirty \cup (DOMAIN maint.batch \cap DOMAIN obs)
      /\ UNCHANGED <<table, rows, tracked, obs, flushed, sighted, view, req, boot, now>>
  BY DEF CommitFails, restore
<1>2. faults' \in 0 .. MaxFaults
  BY FaultCounts DEF CommitFails, PhaseInv
<1>3. maint # Resting /\ phase \notin {"start", "boot"}
  BY <1>1 DEF Resting, PhaseInv
<1>4. TableType' /\ MemType'
  BY <1>1 DEF TableType, MemType
<1>5. ProcType' /\ PhaseInv'
  BY <1>1, <1>2, <1>3 DEF ProcType, PhaseInv, Resting
<1>6. WriteInv'
  BY <1>1 DEF WriteInv, Covered, Kept, Carried, Leaving, MemType, Map
<1>7. QED
  BY <1>4, <1>5, <1>6

\* The table forgets what has expired; a write as old has expired too.
LEMMA PruneTableStep ==
    ASSUME ObservedInv, PruneTable \/ PruneTableFails
    PROVE  ObservedInv'
<1> USE DEF ObservedInv
<1>0. PICK S : S = {h \in DOMAIN table : table[h].last < maint.cutoff}
  OBVIOUS
<1>1. /\ maint.pc = "prune" /\ maint' = Resting /\ faults' \in 0 .. MaxFaults
      /\ table' = Without(table, S) \/ table' = table
      /\ UNCHANGED <<rows, tracked, obs, dirty, flushed, sighted, view, req, boot, phase, now>>
  BY <1>0, FaultCounts DEF PruneTable, PruneTableFails, memVars, PhaseInv
<1>2. maint.cutoff \in Int /\ maint.cutoff <= now - TTL /\ now \in Int
  BY <1>1, ConstantsAre DEF ProcType, PhaseInv
<1>3. TableType'
  BY <1>1, WithoutMap DEF TableType
<1>4. MemType' /\ ProcType' /\ PhaseInv'
  BY <1>1 DEF MemType, ProcType, PhaseInv, Resting
<1>5. ASSUME NEW h \in DOMAIN flushed PROVE Kept(h)'
  <2>1. Kept(h) /\ ~Carried(h)
    BY <1>1 DEF WriteInv, Carried
  <2>2. CASE h \in DOMAIN table /\ flushed[h] <= table[h].last /\ table[h].last < maint.cutoff
    <3>1. flushed[h] \in Int /\ table[h].last \in Int
      BY <2>2, ConstantsAre DEF MemType, TableType, Map, Sighting
    <3>2. flushed[h] < now - TTL
      BY <2>2, <3>1, <1>2, ConstantsAre
    <3>3. QED
      BY <1>1, <3>2 DEF Kept
  <2>3. CASE h \in DOMAIN table /\ flushed[h] <= table[h].last /\ ~(table[h].last < maint.cutoff)
    <3>1. h \in DOMAIN table' /\ table'[h] = table[h]
      BY <1>0, <1>1, <2>3 DEF Without
    <3>2. QED
      BY <1>1, <2>3, <3>1 DEF Kept
  <2>4. CASE Leaving(h) \/ h \in dirty \/ flushed[h] < now - TTL
    BY <1>1, <2>4 DEF Kept, Leaving
  <2>5. QED
    BY <2>1, <2>2, <2>3, <2>4 DEF Kept
<1>6. WriteInv'
  BY <1>1, <1>5 DEF WriteInv, Covered
<1>7. QED
  BY <1>3, <1>4, <1>6

\* At boot nothing has been written, so what memory gains needs no cover: a host
\* this process has seen is still queued.
LEMMA MergeStep ==
    ASSUME ObservedInv, MergeObserved
    PROVE  ObservedInv'
<1> USE DEF ObservedInv
<1>0. PICK r : r = boot.rows
  OBVIOUS
<1>1. /\ obs' = [h \in DOMAIN obs \cup DOMAIN r |->
                   IF \/ h \notin DOMAIN obs
                      \/ h \in DOMAIN r /\ r[h].last > obs[h].last
                     THEN r[h] ELSE obs[h]]
      /\ boot.pc = "merge" /\ boot' = Resting /\ phase' = "run"
      /\ UNCHANGED <<table, rows, tracked, dirty, flushed, sighted, view, req, maint,
                     now, faults>>
  BY <1>0 DEF MergeObserved
<1>2. DOMAIN flushed = {} /\ maint = Resting
  BY <1>1 DEF PhaseInv
<1>3. Map(r, Host, Sighting)
  BY <1>0, <1>1 DEF ProcType
<1>4. DOMAIN obs' = DOMAIN obs \cup DOMAIN r
  BY <1>1
<1>5. \A h \in DOMAIN obs' : obs'[h] \in Sighting
  BY <1>1, <1>3, <1>4 DEF MemType, Map
<1>6. MemType'
  BY <1>1, <1>3, <1>4, <1>5 DEF MemType, Map
<1>7. TableType' /\ ProcType' /\ PhaseInv'
  BY <1>1, <1>2 DEF TableType, ProcType, PhaseInv, Resting
<1>8. WriteInv'
  BY <1>1, <1>2 DEF WriteInv, Covered
<1>9. QED
  BY <1>6, <1>7, <1>8

\* The other steps of a boot.
LEMMA BootStep ==
    ASSUME ObservedInv, LoadTracked \/ ListObserved \/ ListObservedFails
    PROVE  ObservedInv'
<1> USE DEF ObservedInv
<1>1. /\ phase \in {"start", "boot"}
      /\ UNCHANGED <<table, rows, obs, dirty, flushed, sighted, view, req, maint, now>>
      /\ faults' \in 0 .. MaxFaults
      /\ tracked' \subseteq Host
      /\ phase' \in {"boot", "run"}
  BY FaultCounts
  DEF LoadTracked, ListObserved, ListObservedFails, memVars, PhaseInv, TableType
<1>2. boot'.pc = "merge" => phase' = "boot" /\ Map(boot'.rows, Host, Sighting)
  <2>1. CASE ListObserved
    <3>1. PICK r : r = Without(table, {h \in DOMAIN table : table[h].last < now - TTL})
      OBVIOUS
    <3>2. boot' = [pc |-> "merge", rows |-> r] /\ phase' = phase /\ phase = "boot"
      BY <2>1, <3>1 DEF ListObserved
    <3>3. Map(r, Host, Sighting)
      BY <3>1, WithoutMap DEF TableType
    <3>4. QED
      BY <3>2, <3>3
  <2>2. CASE LoadTracked
    BY <2>2 DEF LoadTracked, ProcType, PhaseInv
  <2>3. CASE ListObservedFails
    BY <2>3 DEF ListObservedFails, Resting
  <2>4. QED
    BY <2>1, <2>2, <2>3
<1>3. TableType' /\ MemType' /\ ProcType' /\ PhaseInv'
  BY <1>1, <1>2 DEF TableType, MemType, ProcType, PhaseInv
<1>4. WriteInv'
  BY <1>1 DEF WriteInv, Covered, Kept, Carried, Leaving
<1>5. QED
  BY <1>3, <1>4

LEMMA NewProcessStep ==
    ASSUME ObservedInv, Restart \/ Crash
    PROVE  ObservedInv'
<1> USE DEF ObservedInv
<1>1. /\ NewProcess /\ faults' \in 0 .. MaxFaults
  BY FaultCounts DEF Restart, Crash, PhaseInv
<1>2. TableType' /\ MemType'
  BY <1>1, NothingMap DEF NewProcess, TableType, MemType
<1>3. ProcType' /\ PhaseInv'
  BY <1>1, NothingMap DEF NewProcess, ProcType, PhaseInv, Resting
<1>4. WriteInv'
  BY <1>1, NothingMap DEF NewProcess, WriteInv
<1>5. QED
  BY <1>2, <1>3, <1>4

LEMMA TickStep ==
    ASSUME ObservedInv, Tick
    PROVE  ObservedInv'
<1> USE DEF ObservedInv
<1>1. /\ now \in Int /\ now' = now + 1 /\ now' \in Time
      /\ UNCHANGED <<table, rows, tracked, memVars, procVars, faults>>
  BY ObservedAssumption DEF Tick, PhaseInv, Time
<1>2. TableType' /\ MemType' /\ PhaseInv'
  BY <1>1 DEF memVars, procVars, TableType, MemType, PhaseInv
<1>3. ProcType'
  BY <1>1, ConstantsAre DEF procVars, ProcType
<1>4. ASSUME NEW h \in DOMAIN flushed PROVE Kept(h)'
  <2>1. Kept(h) /\ flushed[h] \in Int
    BY ConstantsAre DEF WriteInv, MemType, Map
  <2>2. flushed[h] < now - TTL => flushed[h] < now' - TTL
    BY <1>1, <2>1, ConstantsAre
  <2>3. QED
    BY <1>1, <2>1, <2>2 DEF memVars, procVars, Kept, Carried, Leaving
<1>5. WriteInv'
  BY <1>1, <1>4 DEF memVars, WriteInv, Covered
<1>6. QED
  BY <1>2, <1>3, <1>5

LEMMA NextObserved == ObservedInv /\ [Next]_vars => ObservedInv'
<1> SUFFICES ASSUME ObservedInv, [Next]_vars PROVE ObservedInv'
  OBVIOUS
<1>1. CASE UNCHANGED vars
  BY <1>1 DEF vars, ObservedInv, TableType, MemType, ProcType, PhaseInv, WriteInv, Covered,
              Kept, Carried, Leaving
<1>2. CASE \E b \in Builder : BeginView(b) \/ Touch(b)
  BY <1>2, BeginViewStep, TouchStep
<1>3. CASE \E c \in Client :
             \/ \E h \in Host : Add(c, h) \/ Untrack(c, h)
             \/ DeleteObserved(c) \/ DeleteObservedFails(c) \/ ForgetObserved(c) \/ Reload(c)
  BY <1>3, RequestStep, DeleteObservedStep, ForgetObservedStep
<1>4. CASE Drain \/ FinalFlush
  BY <1>4, FlushStep
<1>5. CASE Commit \/ CommitFails
  BY <1>5, CommitStep, CommitFailsStep
<1>6. CASE PruneMemory \/ PruneTable \/ PruneTableFails
  BY <1>6, PruneMemoryStep, PruneTableStep
<1>7. CASE LoadTracked \/ ListObserved \/ MergeObserved \/ ListObservedFails
  BY <1>7, BootStep, MergeStep
<1>8. CASE Restart \/ Crash \/ Tick
  BY <1>8, NewProcessStep, TickStep
<1>9. QED
  BY <1>1, <1>2, <1>3, <1>4, <1>5, <1>6, <1>7, <1>8 DEF Next

-----------------------------------------------------------------------------
(* Theorems.                                                               *)

LEMMA ObservedInvariant == Spec => []ObservedInv
BY InitObserved, NextObserved, PTL DEF Spec

\* Tables and maps are well formed and no mark outlives the host it is about,
\* in every reachable state (state.go, store.go).
THEOREM ObservedTypeCorrect == Spec => []TypeOK
<1>1. ObservedInv => TypeOK
  BY TypeParts DEF ObservedInv, PhaseInv
<1>2. QED
  BY <1>1, ObservedInvariant, PTL

\* A restart shows a host for as long as the process would have, less than the
\* debounce short (touchObserved, drain, restore, prune).
THEOREM RestartAlwaysForgetsLittle == Spec => []RestartForgetsLittle
<1>1. ObservedInv => RestartForgetsLittle
  <2> SUFFICES ASSUME ObservedInv, NEW h \in sighted, obs[h].last - Debounce >= now - TTL,
                      h \notin dirty, ~Carried(h), ~Leaving(h)
               PROVE  Stored(h)
    BY DEF RestartForgetsLittle
  <2>1. h \in DOMAIN flushed /\ obs[h].last < flushed[h] + Debounce
    BY DEF ObservedInv, WriteInv, Covered
  <2>2. obs[h].last \in Int /\ flushed[h] \in Int /\ now \in Int
    BY <2>1, ConstantsAre DEF ObservedInv, MemType, PhaseInv, Map, Sighting
  <2>3. ~(flushed[h] < now - TTL)
    BY <2>1, <2>2, ConstantsAre
  <2>4. h \in DOMAIN table /\ flushed[h] <= table[h].last
    BY <2>1, <2>3 DEF ObservedInv, WriteInv, Kept
  <2>5. table[h].last \in Int
    BY <2>4, ConstantsAre DEF ObservedInv, TableType, Map, Sighting
  <2>6. obs[h].last - table[h].last < Debounce
    BY <2>1, <2>2, <2>4, <2>5, ConstantsAre
  <2>7. QED
    BY <2>4, <2>6 DEF Stored
<1>2. QED
  BY <1>1, ObservedInvariant, PTL

LEMMA GainsStep ==
    ASSUME ObservedInv, [Next]_vars, NEW h \in DOMAIN table \cap DOMAIN table'
    PROVE  /\ table[h].last <= table'[h].last
           /\ table[h].named => table'[h].named
<1>1. table[h].last \in Int
  BY ConstantsAre DEF ObservedInv, TableType, Map, Sighting
<1>2. CASE table'[h] = table[h]
  BY <1>1, <1>2
<1>3. CASE Commit
  BY <1>3, CommitEffect DEF ObservedInv
<1>4. ASSUME ~Commit PROVE table'[h] = table[h]
  <2>1. CASE UNCHANGED table
    BY <2>1
  <2>2. CASE PruneTable
    BY <2>2 DEF PruneTable, Without
  <2>3. CASE \E c \in Client : DeleteObserved(c)
    BY <2>3 DEF DeleteObserved, Without
  <2>4. QED
    BY <1>4, <2>1, <2>2, <2>3
    DEF Next, vars, BeginView, Touch, Add, Untrack, DeleteObservedFails, ForgetObserved,
        Reload, Drain, CommitFails, PruneMemory, PruneTableFails, FinalFlush, LoadTracked,
        ListObserved, MergeObserved, ListObservedFails, Restart, Crash, NewProcess, Tick
<1>5. QED
  BY <1>2, <1>3, <1>4

\* Whatever order builds, flushes and boots come in, a stored host is never seen
\* earlier or nameless again while its row exists (Store.Flush).
THEOREM StoredAlwaysOnlyGains == Spec => StoredSightingOnlyGains
<1>1. ObservedInv /\ [Next]_vars
        => [\A h \in DOMAIN table \cap DOMAIN table' :
              /\ table[h].last <= table'[h].last
              /\ table[h].named => table'[h].named]_vars
  BY GainsStep
<1>2. QED
  BY <1>1, ObservedInvariant, PTL DEF Spec, StoredSightingOnlyGains

=============================================================================
