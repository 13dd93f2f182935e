---------------------------- MODULE RosterProofs ----------------------------
(***************************************************************************)
(* Theorems about Roster for every set of devices, addresses, names,       *)
(* requests and resolutions, and any number of faults.                     *)
(***************************************************************************)
EXTENDS Roster, TLAPS

-----------------------------------------------------------------------------
(* Store calls.                                                            *)

RowsOK ==
    /\ DOMAIN devices \subseteq Dev
    /\ \A m \in DOMAIN devices : devices[m] \in Row

\* Add leaves every other row, and of the row at hand the source and a name.
LEMMA AddEffect ==
    ASSUME NEW m \in Dev, NEW ip \in IP, NEW name \in Name, RowsOK, AddRow(m, ip, name)
    PROVE  /\ RowsOK'
           /\ DOMAIN devices' = DOMAIN devices \cup {m}
           /\ \A k \in DOMAIN devices :
                /\ devices'[k].source = devices[k].source
                /\ devices[k].name # Empty => devices'[k].name = devices[k].name
                /\ devices[k].name = Empty => devices'[k].name \in {Empty, ip, name}
           /\ m \notin DOMAIN devices => devices'[m].source = Empty
<1>1. (IF name = Empty THEN ip ELSE name) \in Name
  BY DEF IP, Name
<1>2. DOMAIN devices' = DOMAIN devices \cup {m}
  BY DEF AddRow
<1>3. m \notin DOMAIN devices => devices'[m] \in Row /\ devices'[m].source = Empty
  BY <1>1 DEF AddRow, Row, Source
<1>4. ASSUME m \in DOMAIN devices
      PROVE  /\ devices'[m] \in Row
             /\ devices'[m].source = devices[m].source
             /\ devices[m].name # Empty => devices'[m].name = devices[m].name
             /\ devices[m].name = Empty => devices'[m].name \in {Empty, ip, name}
  <2>1. devices[m] \in Row
    BY <1>4 DEF RowsOK
  <2>2. devices'[m] = [devices[m] EXCEPT !.ip = ip,
                         !.name = IF @ = Empty THEN (IF name = Empty THEN ip ELSE name)
                                  ELSE @]
    BY <1>4 DEF AddRow
  <2>3. QED
    BY <1>1, <2>1, <2>2 DEF Row
<1>5. \A k \in DOMAIN devices : k # m => devices'[k] = devices[k]
  BY DEF AddRow
<1>6. QED
  BY <1>2, <1>3, <1>4, <1>5 DEF RowsOK

\* Patch writes one row, if it is there.
LEMMA PatchEffect ==
    ASSUME NEW m, NEW row, RowsOK, m \in DOMAIN devices => row \in Row, PatchRow(m, row)
    PROVE  /\ RowsOK'
           /\ DOMAIN devices' = DOMAIN devices
           /\ \A k \in DOMAIN devices : devices'[k] = IF k = m THEN row ELSE devices[k]
BY DEF PatchRow, RowsOK

\* The rows Patch is given.
LEMMA PatchedRows ==
    ASSUME NEW row \in Row
    PROVE  /\ \A ip \in IP : [row EXCEPT !.ip = ip] \in Row
           /\ [row EXCEPT !.source = "manual"] \in Row
           /\ \A name \in Name, s \in Source : [row EXCEPT !.name = name, !.source = s] \in Row
BY DEF Row, Source

-----------------------------------------------------------------------------
(* Type correctness.                                                       *)

Ask == [pc : {"ask"}, mac : Dev, ip : IP]
Write == [pc : {"write"}, mac : Dev, name : Answer]
Mark == [pc : {"mark"}, mac : Dev, ip : IP]

LEMMA TypeParts ==
    TypeOK <=> /\ RowsOK
               /\ probes \subseteq Dev \X Port
               /\ req \in [Client -> {Resting} \cup Mark]
               /\ resolve \in [Resolution -> {Resting} \cup Ask \cup Write]
               /\ faults \in 0 .. MaxFaults
BY DEF TypeOK, RowsOK, Ask, Write, Mark

LEMMA TypeIntro ==
    ASSUME RowsOK', probes' \subseteq Dev \X Port,
           req' \in [Client -> {Resting} \cup Mark],
           resolve' \in [Resolution -> {Resting} \cup Ask \cup Write],
           faults' \in 0 .. MaxFaults
    PROVE  TypeOK'
BY DEF TypeOK, RowsOK, Ask, Write, Mark

LEMMA FaultCounts ==
    ASSUME faults \in 0 .. MaxFaults, Fault
    PROVE  faults' \in 0 .. MaxFaults
BY FaultsAssumption DEF Fault

\* A goroutine that asks or writes is in the state its counter says.
LEMMA ResolveStates ==
    ASSUME TypeOK, NEW r \in Resolution
    PROVE  /\ resolve[r].pc = "ask" => resolve[r] \in Ask
           /\ resolve[r].pc = "write" => resolve[r] \in Write
<1>1. resolve[r] \in {Resting} \cup Ask \cup Write
  BY TypeParts
<1>2. CASE resolve[r] = Resting
  BY <1>2 DEF Resting
<1>3. CASE resolve[r] \in Ask
  BY <1>3 DEF Ask
<1>4. CASE resolve[r] \in Write
  BY <1>4 DEF Write
<1>5. QED
  BY <1>1, <1>2, <1>3, <1>4

LEMMA ReqStates ==
    ASSUME TypeOK, NEW c \in Client, req[c].pc = "mark"
    PROVE  req[c] \in Mark
<1>1. req[c] \in {Resting} \cup Mark
  BY TypeParts
<1>2. req[c] # Resting
  BY DEF Resting
<1>3. QED
  BY <1>1, <1>2

LEMMA StartTyped ==
    ASSUME TypeOK, NEW r \in Resolution, NEW m \in Dev, NEW ip \in IP, Start(r, m, ip)
    PROVE  resolve' \in [Resolution -> {Resting} \cup Ask \cup Write]
<1>1. [pc |-> "ask", mac |-> m, ip |-> ip] \in Ask
  BY DEF Ask
<1>2. QED
  BY <1>1, TypeParts DEF Start

LEMMA RespondTyped ==
    ASSUME TypeOK, NEW c \in Client, NEW m \in Dev, NEW ip \in IP, Respond(c, m, ip)
    PROVE  /\ resolve' \in [Resolution -> {Resting} \cup Ask \cup Write]
           /\ req' \in [Client -> {Resting} \cup Mark]
<1>1. req' \in [Client -> {Resting} \cup Mark]
  BY TypeParts DEF Respond
<1>2. CASE ip = Empty
  BY <1>2, TypeParts DEF Respond
<1>3. CASE ip # Empty
  <2>1. PICK r \in Resolution : Start(r, m, ip)
    BY <1>3 DEF Respond
  <2>2. QED
    BY <2>1, <1>1, StartTyped
<1>4. QED
  BY <1>1, <1>2, <1>3

\* What Resolve returns is a name somebody answered, or nothing.
LEMMA AnsweredTyped ==
    ASSUME TypeOK, NEW r \in Resolution, resolve[r].pc = "ask",
           NEW name \in Resolved(resolve[r].ip), NEW may, Answered(r, name, may)
    PROVE  resolve' \in [Resolution -> {Resting} \cup Ask \cup Write]
<1>1. resolve[r] \in Ask
  BY ResolveStates
<1>2. name # Empty => name \in Answer
  BY DEF Resolved
<1>3. name # Empty => [pc |-> "write", mac |-> resolve[r].mac, name |-> name] \in Write
  BY <1>1, <1>2 DEF Ask, Write
<1>4. QED
  BY <1>3, TypeParts DEF Answered

LEMMA IdleTyped ==
    ASSUME TypeOK, NEW r \in Resolution, resolve' = [resolve EXCEPT ![r] = Resting]
    PROVE  resolve' \in [Resolution -> {Resting} \cup Ask \cup Write]
BY TypeParts

LEMMA ResolverTyped ==
    ASSUME TypeOK, NEW r \in Resolution, Resolver(r)
    PROVE  TypeOK'
<1>1. ASSUME NEW m \in Dev, handleResolve(r, m) PROVE TypeOK'
  <2>1. devices[m].ip \in IP
    BY <1>1, TypeParts DEF handleResolve, RowsOK, Row
  <2>2. QED
    BY <1>1, <2>1, StartTyped, TypeParts, TypeIntro DEF handleResolve, RowsOK, auxVars
<1>2. CASE ResolveRead(r)
  <2>1. PICK name \in Resolved(resolve[r].ip) : Answered(r, name, MayName(resolve[r].mac))
    BY <1>2 DEF ResolveRead
  <2>2. resolve' \in [Resolution -> {Resting} \cup Ask \cup Write]
    BY <1>2, <2>1, AnsweredTyped DEF ResolveRead
  <2>3. QED
    BY <1>2, <2>2, TypeParts, TypeIntro DEF ResolveRead, RowsOK
<1>3. CASE ResolveReadFails(r)
  <2>1. PICK name \in Resolved(resolve[r].ip) : Answered(r, name, TRUE)
    BY <1>3 DEF ResolveReadFails
  <2>2. resolve' \in [Resolution -> {Resting} \cup Ask \cup Write]
    BY <1>3, <2>1, AnsweredTyped DEF ResolveReadFails
  <2>3. faults' \in 0 .. MaxFaults
    BY <1>3, FaultCounts, TypeParts DEF ResolveReadFails
  <2>4. QED
    BY <1>3, <2>2, <2>3, TypeParts, TypeIntro DEF ResolveReadFails, RowsOK
<1>4. CASE ResolveWrite(r)
  <2> DEFINE m == resolve[r].mac
             row == [devices[m] EXCEPT !.name = resolve[r].name, !.source = "resolved"]
  <2>1. resolve[r].name \in Name
    BY <1>4, ResolveStates DEF ResolveWrite, Write, Name
  <2>2. m \in DOMAIN devices => row \in Row
    <3>1. SUFFICES ASSUME m \in DOMAIN devices PROVE row \in Row
      OBVIOUS
    <3>2. devices[m] \in Row
      BY <3>1, TypeParts DEF RowsOK
    <3>3. QED
      BY <3>2, <2>1, PatchedRows DEF Source
  <2>3. PatchRow(m, row)
    BY <1>4 DEF ResolveWrite
  <2>4. RowsOK'
    BY <2>2, <2>3, PatchEffect, TypeParts
  <2>5. QED
    BY <1>4, <2>4, IdleTyped, TypeParts, TypeIntro DEF ResolveWrite, auxVars
<1>5. CASE ResolveWriteFails(r)
  <2>1. faults' \in 0 .. MaxFaults
    BY <1>5, FaultCounts, TypeParts DEF ResolveWriteFails
  <2>2. QED
    BY <1>5, <2>1, IdleTyped, TypeParts, TypeIntro DEF ResolveWriteFails, RowsOK
<1>6. QED
  BY <1>1, <1>2, <1>3, <1>4, <1>5 DEF Resolver

LEMMA TrackTyped ==
    ASSUME TypeOK, NEW c \in Client, NEW m \in Dev, NEW ip \in IP, NEW name \in Name,
           NEW manual \in BOOLEAN, Track(c, m, ip, name, manual)
    PROVE  TypeOK'
<1>1. RowsOK'
  BY AddEffect, TypeParts DEF Track
<1>2. /\ resolve' \in [Resolution -> {Resting} \cup Ask \cup Write]
      /\ req' \in [Client -> {Resting} \cup Mark]
  <2>1. CASE manual /\ name # Empty
    <3>1. [pc |-> "mark", mac |-> m, ip |-> ip] \in Mark
      BY DEF Mark
    <3>2. QED
      BY <2>1, <3>1, TypeParts, TypeIntro DEF Track
  <2>2. CASE ~(manual /\ name # Empty)
    BY <2>2, RespondTyped DEF Track
  <2>3. QED
    BY <2>1, <2>2
<1>3. QED
  BY <1>1, <1>2, TypeParts, TypeIntro DEF Track, auxVars

LEMMA MarkTyped ==
    ASSUME TypeOK, NEW c \in Client, MarkManual(c) \/ MarkManualFails(c)
    PROVE  TypeOK'
<1> DEFINE m == req[c].mac
           row == [devices[m] EXCEPT !.source = "manual"]
<1>1. m \in Dev /\ req[c].ip \in IP
  BY ReqStates DEF MarkManual, MarkManualFails, Mark
<1>2. /\ resolve' \in [Resolution -> {Resting} \cup Ask \cup Write]
      /\ req' \in [Client -> {Resting} \cup Mark]
  BY <1>1, RespondTyped DEF MarkManual, MarkManualFails
<1>3. CASE MarkManual(c)
  <2>1. m \in DOMAIN devices => row \in Row
    BY PatchedRows, TypeParts DEF RowsOK
  <2>2. RowsOK'
    BY <1>3, <2>1, PatchEffect, TypeParts DEF MarkManual
  <2>3. QED
    BY <1>2, <1>3, <2>2, TypeParts, TypeIntro DEF MarkManual
<1>4. CASE MarkManualFails(c)
  <2>1. faults' \in 0 .. MaxFaults
    BY <1>4, FaultCounts, TypeParts DEF MarkManualFails
  <2>2. QED
    BY <1>2, <1>4, <2>1, TypeParts, TypeIntro DEF MarkManualFails, RowsOK
<1>5. QED
  BY <1>3, <1>4

LEMMA EditorTyped ==
    ASSUME TypeOK, NEW m \in Dev, Editor(m)
    PROVE  TypeOK'
<1>1. ASSUME NEW name \in Typed \cup {Empty}, PatchName(m, name) PROVE TypeOK'
  <2> DEFINE row == [devices[m] EXCEPT !.name = name, !.source = "manual"]
  <2>1. m \in DOMAIN devices => row \in Row
    BY PatchedRows, TypeParts DEF RowsOK, Name, Source
  <2>2. RowsOK'
    BY <1>1, <2>1, PatchEffect, TypeParts DEF PatchName, Rename
  <2>3. QED
    BY <1>1, <2>2, TypeParts, TypeIntro DEF PatchName
<1>2. ASSUME NEW ip \in IP, PatchIP(m, ip) PROVE TypeOK'
  <2> DEFINE row == [devices[m] EXCEPT !.ip = ip]
  <2>1. m \in DOMAIN devices => row \in Row
    BY PatchedRows, TypeParts DEF RowsOK
  <2>2. RowsOK'
    BY <1>2, <2>1, PatchEffect, TypeParts DEF PatchIP
  <2>3. QED
    BY <1>2, <2>2, TypeParts, TypeIntro DEF PatchIP, auxVars
<1>3. CASE Untrack(m)
  <2>1. RowsOK'
    BY <1>3, TypeParts DEF Untrack, RowsOK
  <2>2. QED
    BY <1>3, <2>1, TypeParts, TypeIntro DEF Untrack
<1>4. CASE UntrackStops(m)
  <2>1. faults' \in 0 .. MaxFaults
    BY <1>4, FaultCounts, TypeParts DEF UntrackStops
  <2>2. QED
    BY <1>4, <2>1, TypeParts, TypeIntro DEF UntrackStops, RowsOK
<1>5. ASSUME NEW p \in Port, AddProbe(m, p) \/ DeleteProbe(m, p) PROVE TypeOK'
  BY <1>5, TypeParts, TypeIntro DEF AddProbe, DeleteProbe, RowsOK
<1>6. QED
  BY <1>1, <1>2, <1>3, <1>4, <1>5 DEF Editor

LEMMA CrashTyped == TypeOK /\ Crash => TypeOK'
<1>1. SUFFICES ASSUME TypeOK, Crash PROVE TypeOK'
  OBVIOUS
<1>2. faults' \in 0 .. MaxFaults
  BY <1>1, FaultCounts, TypeParts DEF Crash
<1>3. QED
  BY <1>1, <1>2, TypeParts, TypeIntro DEF Crash, RowsOK

LEMMA TypeStep == TypeOK /\ [Next]_vars => TypeOK'
<1>1. SUFFICES ASSUME TypeOK, [Next]_vars PROVE TypeOK'
  OBVIOUS
<1>2. ASSUME NEW c \in Client, Tracker(c) PROVE TypeOK'
  <2>1. ASSUME NEW m \in Dev, NEW ip \in IP, NEW name \in Name \ Addr,
               NEW manual \in BOOLEAN, Track(c, m, ip, name, manual)
        PROVE  TypeOK'
    BY <1>1, <2>1, TrackTyped
  <2>2. QED
    BY <1>1, <1>2, <2>1, MarkTyped DEF Tracker
<1>3. CASE UNCHANGED vars
  BY <1>1, <1>3 DEF TypeOK, vars
<1>4. QED
  BY <1>1, <1>2, <1>3, ResolverTyped, EditorTyped, CrashTyped DEF Next

LEMMA TypeInit == Init => TypeOK
<1>1. ASSUME Init PROVE RowsOK
  BY <1>1 DEF Init, RowsOK
<1>2. QED
  BY <1>1, TypeParts, TypeIntro, FaultsAssumption DEF Init

\* Every table and goroutine of the roster is well formed in every reachable state.
THEOREM RosterTypeCorrect == Spec => []TypeOK
BY TypeInit, TypeStep, PTL DEF Spec

-----------------------------------------------------------------------------
(* Names and probes.                                                       *)

\* A name counts as resolved only if a resolver gave it, after any step.
LEMMA SourceStep == TypeOK /\ ResolvedMarkIsEarned /\ [Next]_vars => ResolvedMarkIsEarned'
<1> SUFFICES ASSUME TypeOK, ResolvedMarkIsEarned, [Next]_vars,
                    NEW k \in DOMAIN devices', devices'[k].source = "resolved"
             PROVE  devices'[k].name \in Answer
  BY DEF ResolvedMarkIsEarned
<1> USE DEF ResolvedMarkIsEarned
<1>1. RowsOK
  BY TypeParts
<1>2. ASSUME NEW r \in Resolution, ResolveWrite(r) PROVE devices'[k].name \in Answer
  <2>1. resolve[r].name \in Answer
    BY <1>2, ResolveStates DEF ResolveWrite, Write
  <2>2. CASE k = resolve[r].mac
    <3>1. devices'[k] = [devices[k] EXCEPT !.name = resolve[r].name, !.source = "resolved"]
      BY <1>2, <2>2 DEF ResolveWrite, PatchRow
    <3>2. devices[k] \in Row
      BY <1>1, <1>2 DEF RowsOK, ResolveWrite, PatchRow
    <3>3. QED
      BY <2>1, <3>1, <3>2 DEF Row
  <2>3. CASE k # resolve[r].mac
    BY <1>2, <2>3 DEF ResolveWrite, PatchRow
  <2>4. QED
    BY <2>2, <2>3
<1>3. ASSUME NEW r \in Resolution, Resolver(r), ~ResolveWrite(r)
      PROVE  devices'[k].name \in Answer
  BY <1>3 DEF Resolver, handleResolve, ResolveRead, ResolveReadFails, ResolveWriteFails
<1>4. ASSUME NEW c \in Client, NEW m \in Dev, NEW ip \in IP, NEW name \in Name \ Addr,
             NEW manual \in BOOLEAN, Track(c, m, ip, name, manual)
      PROVE  devices'[k].name \in Answer
  <2>1. /\ DOMAIN devices' = DOMAIN devices \cup {m}
        /\ \A j \in DOMAIN devices :
             /\ devices'[j].source = devices[j].source
             /\ devices[j].name # Empty => devices'[j].name = devices[j].name
        /\ m \notin DOMAIN devices => devices'[m].source = Empty
    BY <1>1, <1>4, AddEffect DEF Track
  <2>2. k \in DOMAIN devices
    BY <2>1, NamesAssumption
  <2>3. QED
    BY <2>1, <2>2, NamesAssumption
<1>5. ASSUME NEW c \in Client, MarkManual(c) PROVE devices'[k].name \in Answer
  <2>1. k \in DOMAIN devices /\ devices[k] \in Row
    BY <1>1, <1>5 DEF MarkManual, PatchRow, RowsOK
  <2>2. CASE k = req[c].mac
    <3>1. devices'[k] = [devices[k] EXCEPT !.source = "manual"]
      BY <1>5, <2>1, <2>2 DEF MarkManual, PatchRow
    <3>2. QED
      BY <2>1, <3>1 DEF Row
  <2>3. CASE k # req[c].mac
    BY <1>5, <2>1, <2>3 DEF MarkManual, PatchRow
  <2>4. QED
    BY <2>2, <2>3
<1>6. ASSUME NEW m \in Dev, NEW name \in Typed \cup {Empty}, PatchName(m, name)
      PROVE  devices'[k].name \in Answer
  <2>1. k \in DOMAIN devices /\ devices[k] \in Row
    BY <1>1, <1>6 DEF PatchName, Rename, PatchRow, RowsOK
  <2>2. CASE k = m
    <3>1. devices'[k] = [devices[k] EXCEPT !.name = name, !.source = "manual"]
      BY <1>6, <2>1, <2>2 DEF PatchName, Rename, PatchRow
    <3>2. QED
      BY <2>1, <3>1 DEF Row
  <2>3. CASE k # m
    BY <1>6, <2>1, <2>3 DEF PatchName, Rename, PatchRow
  <2>4. QED
    BY <2>2, <2>3
<1>7. ASSUME NEW m \in Dev, NEW ip \in IP, PatchIP(m, ip)
      PROVE  devices'[k].name \in Answer
  <2>1. k \in DOMAIN devices /\ devices[k] \in Row
    BY <1>1, <1>7 DEF PatchIP, PatchRow, RowsOK
  <2>2. CASE k = m
    <3>1. devices'[k] = [devices[k] EXCEPT !.ip = ip]
      BY <1>7, <2>1, <2>2 DEF PatchIP, PatchRow
    <3>2. QED
      BY <2>1, <3>1 DEF Row
  <2>3. CASE k # m
    BY <1>7, <2>1, <2>3 DEF PatchIP, PatchRow
  <2>4. QED
    BY <2>2, <2>3
<1>8. ASSUME NEW m \in Dev, Untrack(m) \/ UntrackStops(m)
      PROVE  devices'[k].name \in Answer
  BY <1>8 DEF Untrack, UntrackStops
<1>9. ASSUME NEW m \in Dev, NEW p \in Port, AddProbe(m, p) \/ DeleteProbe(m, p)
      PROVE  devices'[k].name \in Answer
  BY <1>9 DEF AddProbe, DeleteProbe
<1>10. ASSUME NEW c \in Client, MarkManualFails(c) PROVE devices'[k].name \in Answer
  BY <1>10 DEF MarkManualFails
<1>11. CASE Crash \/ UNCHANGED vars
  BY <1>11 DEF Crash, vars
<1>12. QED
  BY <1>2, <1>3, <1>4, <1>5, <1>6, <1>7, <1>8, <1>9, <1>10, <1>11
  DEF Next, Tracker, Editor

\* A row that counts as resolved carries a resolver's name, and never a typed one or an
\* address, whatever meets on it and fails (applyResolve, handlePatchDevice, Store.Add).
THEOREM ResolvedMarkAlwaysEarned == Spec => []ResolvedMarkIsEarned
<1>1. Init => ResolvedMarkIsEarned
  BY DEF Init, ResolvedMarkIsEarned
<1>2. QED
  BY <1>1, SourceStep, RosterTypeCorrect, PTL DEF Spec

LEMMA OrphanStep == TypeOK /\ OrphansWereAskedFor /\ [Next]_vars => OrphansWereAskedFor'
<1> SUFFICES ASSUME TypeOK, OrphansWereAskedFor, [Next]_vars, NEW p \in probes'
             PROVE  p[1] \in DOMAIN devices' \/ p \in orphans'
  BY DEF OrphansWereAskedFor
<1> USE DEF OrphansWereAskedFor, ProbesOf
<1>1. RowsOK
  BY TypeParts
<1>2. ASSUME NEW r \in Resolution, Resolver(r)
      PROVE  p[1] \in DOMAIN devices' \/ p \in orphans'
  BY <1>2 DEF Resolver, handleResolve, ResolveRead, ResolveReadFails, ResolveWrite,
              ResolveWriteFails, PatchRow, auxVars
<1>3. ASSUME NEW c \in Client, Tracker(c)
      PROVE  p[1] \in DOMAIN devices' \/ p \in orphans'
  BY <1>3 DEF Tracker, Track, MarkManual, MarkManualFails, AddRow, PatchRow, auxVars
<1>4. ASSUME NEW m \in Dev, Untrack(m) \/ UntrackStops(m)
      PROVE  p[1] \in DOMAIN devices' \/ p \in orphans'
  BY <1>4 DEF Untrack, UntrackStops
<1>5. ASSUME NEW m \in Dev, NEW q \in Port, AddProbe(m, q) \/ DeleteProbe(m, q)
      PROVE  p[1] \in DOMAIN devices' \/ p \in orphans'
  BY <1>5 DEF AddProbe, DeleteProbe
<1>6. ASSUME NEW m \in Dev, Editor(m), ~(Untrack(m) \/ UntrackStops(m)),
             \A q \in Port : ~(AddProbe(m, q) \/ DeleteProbe(m, q))
      PROVE  p[1] \in DOMAIN devices' \/ p \in orphans'
  BY <1>6 DEF Editor, PatchName, Rename, PatchIP, PatchRow, auxVars
<1>7. CASE Crash \/ UNCHANGED vars
  BY <1>7 DEF Crash, vars
<1>8. QED
  BY <1>2, <1>3, <1>4, <1>5, <1>6, <1>7 DEF Next

\* A probe without a device was asked for when there was none (Store.Delete).
THEOREM OrphansAlwaysAskedFor == Spec => []OrphansWereAskedFor
<1>1. Init => OrphansWereAskedFor
  BY DEF Init, OrphansWereAskedFor
<1>2. QED
  BY <1>1, OrphanStep, RosterTypeCorrect, PTL DEF Spec

-----------------------------------------------------------------------------
(* The user's names.                                                       *)

\* Each step either leaves who holds what for which row alone, or accounts for it.
LEMMA MarkStep == TypeOK /\ MarkInv /\ [Next]_vars => MarkInv'
<1> SUFFICES ASSUME TypeOK, MarkInv, [Next]_vars, NEW r \in Resolution,
                    resolve'[r].pc = "write", resolve'[r].mac \in DOMAIN devices',
                    devices'[resolve'[r].mac].source = "manual"
             PROVE  r \in overtaken'
  BY DEF MarkInv
<1> USE DEF MarkInv
<1>1. RowsOK /\ resolve \in [Resolution -> {Resting} \cup Ask \cup Write]
  BY TypeParts
<1> DEFINE m == resolve'[r].mac
\* A resolution that held its name before, for a row that was marked before.
<1>2. ASSUME resolve'[r] = resolve[r], m \in DOMAIN devices,
             devices[m].source = "manual", r \in overtaken => r \in overtaken'
      PROVE  r \in overtaken'
  BY <1>2
<1>3. ASSUME NEW s \in Resolution, Resolver(s) PROVE r \in overtaken'
  <2>1. ASSUME NEW k \in Dev, handleResolve(s, k) PROVE r \in overtaken'
    BY <1>1, <1>2, <2>1 DEF handleResolve, Start, auxVars
  <2>2. CASE ResolveRead(s)
    <3>1. PICK name \in Resolved(resolve[s].ip) : Answered(s, name, MayName(resolve[s].mac))
      BY <2>2 DEF ResolveRead
    <3>2. CASE r = s
      <4>1. MayName(resolve[s].mac) /\ m = resolve[s].mac
        BY <1>1, <3>1, <3>2 DEF Answered, Resting
      <4>2. QED
        BY <2>2, <4>1 DEF ResolveRead, MayName
    <3>3. CASE r # s
      BY <1>1, <1>2, <2>2, <3>1, <3>3 DEF ResolveRead, Answered
    <3>4. QED
      BY <3>2, <3>3
  <2>3. CASE ResolveReadFails(s)
    BY <1>1, <1>2, <2>3 DEF ResolveReadFails, Answered
  <2>4. CASE ResolveWrite(s)
    <3>1. r # s
      BY <1>1, <2>4 DEF ResolveWrite, Resting
    <3>2. resolve'[r] = resolve[r] /\ overtaken' = overtaken
      BY <1>1, <2>4, <3>1 DEF ResolveWrite, auxVars
    <3>3. CASE m = resolve[s].mac
      <4>1. m \in DOMAIN devices /\ devices[m] \in Row
        BY <1>1, <2>4 DEF ResolveWrite, PatchRow, RowsOK
      <4>2. devices'[m] = [devices[m] EXCEPT !.name = resolve[s].name, !.source = "resolved"]
        BY <2>4, <3>3, <4>1 DEF ResolveWrite, PatchRow
      <4>3. devices'[m].source = "resolved"
        BY <4>1, <4>2 DEF Row
      <4>4. QED
        BY <4>3
    <3>4. CASE m # resolve[s].mac
      BY <1>2, <2>4, <3>2, <3>4 DEF ResolveWrite, PatchRow
    <3>5. QED
      BY <3>3, <3>4
  <2>5. CASE ResolveWriteFails(s)
    BY <1>1, <1>2, <2>5 DEF ResolveWriteFails, Resting
  <2>6. QED
    BY <1>3, <2>1, <2>2, <2>3, <2>4, <2>5 DEF Resolver
\* A response starts a resolution, which does not hold a name yet.
<1>4. ASSUME NEW c \in Client, NEW k \in Dev, NEW ip \in IP, Respond(c, k, ip)
      PROVE  resolve'[r] = resolve[r]
  <2>1. CASE ip = Empty
    BY <1>4, <2>1 DEF Respond
  <2>2. CASE ip # Empty
    <3>1. PICK s \in Resolution : Start(s, k, ip)
      BY <1>4, <2>2 DEF Respond
    <3>2. r # s
      BY <1>1, <3>1 DEF Start
    <3>3. QED
      BY <1>1, <3>1, <3>2 DEF Start
  <2>3. QED
    BY <2>1, <2>2
<1>5. ASSUME NEW c \in Client, NEW k \in Dev, NEW ip \in IP, NEW name \in Name \ Addr,
             NEW manual \in BOOLEAN, Track(c, k, ip, name, manual)
      PROVE  r \in overtaken'
  <2>1. resolve'[r] = resolve[r]
    BY <1>4, <1>5 DEF Track
  <2>2. /\ DOMAIN devices' = DOMAIN devices \cup {k}
        /\ \A j \in DOMAIN devices : devices'[j].source = devices[j].source
        /\ k \notin DOMAIN devices => devices'[k].source = Empty
    BY <1>1, <1>5, AddEffect DEF Track
  <2>3. m \in DOMAIN devices
    BY <2>2, NamesAssumption
  <2>4. QED
    BY <1>2, <1>5, <2>1, <2>2, <2>3 DEF Track, auxVars
<1>6. ASSUME NEW c \in Client, MarkManual(c) PROVE r \in overtaken'
  <2>1. req[c].mac \in Dev /\ req[c].ip \in IP
    BY <1>6, ReqStates DEF MarkManual, Mark
  <2>2. resolve'[r] = resolve[r]
    BY <1>4, <1>6, <2>1 DEF MarkManual
  <2>3. CASE m = req[c].mac
    BY <1>6, <2>2, <2>3 DEF MarkManual, Holding
  <2>4. CASE m # req[c].mac
    BY <1>2, <1>6, <2>2, <2>4 DEF MarkManual, PatchRow
  <2>5. QED
    BY <2>3, <2>4
<1>7. ASSUME NEW c \in Client, MarkManualFails(c) PROVE r \in overtaken'
  <2>1. req[c].mac \in Dev /\ req[c].ip \in IP
    BY <1>7, ReqStates DEF MarkManualFails, Mark
  <2>2. QED
    BY <1>2, <1>4, <1>7, <2>1 DEF MarkManualFails
<1>8. ASSUME NEW k \in Dev, NEW name \in Typed \cup {Empty}, PatchName(k, name)
      PROVE  r \in overtaken'
  <2>1. CASE m = k
    BY <1>8, <2>1 DEF PatchName, Holding
  <2>2. CASE m # k
    BY <1>2, <1>8, <2>2 DEF PatchName, Rename, PatchRow
  <2>3. QED
    BY <2>1, <2>2
<1>9. ASSUME NEW k \in Dev, NEW ip \in IP, PatchIP(k, ip) PROVE r \in overtaken'
  <2>1. m \in DOMAIN devices /\ devices[m] \in Row
    BY <1>1, <1>9 DEF PatchIP, PatchRow, RowsOK
  <2>2. devices'[m] = IF m = k THEN [devices[m] EXCEPT !.ip = ip] ELSE devices[m]
    BY <1>9, <2>1 DEF PatchIP, PatchRow
  <2>3. devices'[m].source = devices[m].source
    BY <2>1, <2>2 DEF Row
  <2>4. QED
    BY <1>2, <1>9, <2>1, <2>3 DEF PatchIP, auxVars
<1>10. ASSUME NEW k \in Dev, Untrack(k) \/ UntrackStops(k) PROVE r \in overtaken'
  BY <1>2, <1>10 DEF Untrack, UntrackStops
<1>11. ASSUME NEW k \in Dev, NEW p \in Port, AddProbe(k, p) \/ DeleteProbe(k, p)
       PROVE  r \in overtaken'
  BY <1>2, <1>11 DEF AddProbe, DeleteProbe
<1>12. CASE Crash
  BY <1>12 DEF Crash, Resting
<1>13. CASE UNCHANGED vars
  BY <1>2, <1>13 DEF vars
<1>14. QED
  BY <1>3, <1>5, <1>6, <1>7, <1>8, <1>9, <1>10, <1>11, <1>12, <1>13
  DEF Next, Tracker, Editor

\* The step that changes a marked name is a PATCH or a resolution overtaken by one.
ManualNameStep ==
    \A m \in DOMAIN devices \cap DOMAIN devices' :
        /\ devices[m].source = "manual" /\ devices[m].name # Empty
        /\ devices'[m].name # devices[m].name
        => \/ \E name \in Name : Rename(m, name)
           \/ \E r \in overtaken : resolve[r].pc = "write" /\ resolve[r].mac = m

LEMMA ManualStep == TypeOK /\ MarkInv /\ [Next]_vars => ManualNameStep
<1> SUFFICES ASSUME TypeOK, MarkInv, [Next]_vars,
                    NEW m \in DOMAIN devices, m \in DOMAIN devices',
                    devices[m].source = "manual", devices[m].name # Empty,
                    devices'[m].name # devices[m].name
             PROVE  \/ \E name \in Name : Rename(m, name)
                    \/ \E r \in overtaken : resolve[r].pc = "write" /\ resolve[r].mac = m
  BY DEF ManualNameStep
<1>1. RowsOK /\ devices[m] \in Row
  BY TypeParts DEF RowsOK
<1>2. ASSUME NEW r \in Resolution, ResolveWrite(r)
      PROVE  \E s \in overtaken : resolve[s].pc = "write" /\ resolve[s].mac = m
  <2>1. resolve[r].mac = m
    BY <1>2 DEF ResolveWrite, PatchRow
  <2>2. r \in overtaken
    BY <1>2, <2>1 DEF ResolveWrite, MarkInv
  <2>3. QED
    BY <1>2, <2>1, <2>2 DEF ResolveWrite
<1>3. ASSUME NEW r \in Resolution, Resolver(r), ~ResolveWrite(r) PROVE FALSE
  BY <1>3 DEF Resolver, handleResolve, ResolveRead, ResolveReadFails, ResolveWriteFails
<1>4. ASSUME NEW c \in Client, NEW k \in Dev, NEW ip \in IP, NEW name \in Name \ Addr,
             NEW manual \in BOOLEAN, Track(c, k, ip, name, manual)
      PROVE  FALSE
  BY <1>1, <1>4, AddEffect DEF Track
<1>5. ASSUME NEW c \in Client, MarkManual(c) \/ MarkManualFails(c) PROVE FALSE
  <2>1. CASE MarkManualFails(c)
    BY <2>1 DEF MarkManualFails
  <2>2. CASE MarkManual(c)
    <3>1. devices'[m] = IF m = req[c].mac THEN [devices[m] EXCEPT !.source = "manual"]
                        ELSE devices[m]
      BY <2>2 DEF MarkManual, PatchRow
    <3>2. QED
      BY <1>1, <3>1 DEF Row
  <2>3. QED
    BY <1>5, <2>1, <2>2
<1>6. ASSUME NEW k \in Dev, NEW name \in Typed \cup {Empty}, PatchName(k, name)
      PROVE  \E n \in Name : Rename(m, n)
  <2>1. k = m
    BY <1>6 DEF PatchName, Rename, PatchRow
  <2>2. QED
    BY <1>6, <2>1 DEF PatchName, Name
<1>7. ASSUME NEW k \in Dev, NEW ip \in IP, PatchIP(k, ip) PROVE FALSE
  <2>1. devices'[m] = IF m = k THEN [devices[m] EXCEPT !.ip = ip] ELSE devices[m]
    BY <1>7 DEF PatchIP, PatchRow
  <2>2. QED
    BY <1>1, <2>1 DEF Row
<1>8. ASSUME NEW k \in Dev, Untrack(k) \/ UntrackStops(k) PROVE FALSE
  BY <1>8 DEF Untrack, UntrackStops
<1>9. ASSUME NEW k \in Dev, NEW p \in Port, AddProbe(k, p) \/ DeleteProbe(k, p) PROVE FALSE
  BY <1>9 DEF AddProbe, DeleteProbe
<1>10. CASE Crash \/ UNCHANGED vars
  BY <1>10 DEF Crash, vars
<1>11. QED
  BY <1>2, <1>3, <1>4, <1>5, <1>6, <1>7, <1>8, <1>9, <1>10 DEF Next, Tracker, Editor

\* A marked name stands but for the user's PATCH and overtaken resolutions.
THEOREM ManualNameAlwaysStands == Spec => ManualNameStands
<1>1. Init => MarkInv
  BY DEF Init, MarkInv, Resting
<1>2. TypeOK /\ MarkInv /\ [Next]_vars => [ManualNameStep]_vars
  BY ManualStep
<1>3. Spec => [][ManualNameStep]_vars
  BY <1>1, <1>2, MarkStep, RosterTypeCorrect, PTL DEF Spec
<1>4. QED
  BY <1>3 DEF ManualNameStands, ManualNameStep

=============================================================================
