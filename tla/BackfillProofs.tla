--------------------------- MODULE BackfillProofs ---------------------------
(***************************************************************************)
(* The move of a v0 database never trips over its own columns, never loses *)
(* a row's history and never takes back what is recorded, for every set of *)
(* devices and of logs and every bound on time and faults.                 *)
(***************************************************************************)
EXTENDS Backfill, WellFoundedInduction, TLAPS

-----------------------------------------------------------------------------
(* The newest of a set of samples.                                         *)

LEMMA NatOrder ==
    \E R : IsWellFoundedOn(R, Nat) /\ \A j, k \in Nat : <<j, k>> \in R <=> j < k
<1>1. PICK R : R = OpToRel(<, Nat)
  OBVIOUS
<1>2. IsWellFoundedOn(R, Nat)
  BY <1>1, NatLessThanWellFounded
<1>3. \A j, k \in Nat : <<j, k>> \in R <=> j < k
  BY <1>1 DEF OpToRel
<1>4. QED
  BY <1>2, <1>3

\* Induction over a set, for a property that is written as one.
LEMMA LeastElement ==
    ASSUME NEW S, S \subseteq Nat, S # {}
    PROVE  \E k \in S : \A j \in S : k <= j
<1>1. PICK R : IsWellFoundedOn(R, Nat) /\ \A j, k \in Nat : <<j, k>> \in R <=> j < k
  BY NatOrder
<1>2. \E x \in S : \A y \in S : ~ (<<y, x>> \in R)
  <2>1. IsWellFoundedOn(R, Nat)
    BY <1>1
  <2>2. QED
    BY <2>1, WFMin, Zenon
<1>3. PICK k \in S : \A j \in S : ~ (<<j, k>> \in R)
  BY <1>2
<1>4. ASSUME NEW j \in S PROVE k <= j
  <2>1. j \in Nat /\ k \in Nat
    OBVIOUS
  <2>2. ~ (<<j, k>> \in R)
    BY <1>3
  <2>3. ~ (j < k)
    BY <2>1, <2>2, <1>1, Zenon
  <2>4. QED
    BY <2>1, <2>3
<1>5. QED
  BY <1>4

LEMMA MaximumOf ==
    ASSUME NEW t \in Nat, NEW S, S \subseteq 0 .. t, S # {}
    PROVE  Max(S) \in S /\ \A k \in S : k <= Max(S)
<1>1. PICK G : G = {t - k : k \in S}
  OBVIOUS
<1>2. G \subseteq Nat /\ G # {}
  <2>1. \A k \in S : t - k \in G
    BY <1>1, Zenon
  <2>2. \A k \in S : t - k \in Nat
    OBVIOUS
  <2>3. QED
    BY <1>1, <2>1, <2>2
<1>3. PICK g \in G : \A j \in G : g <= j
  BY <1>2, LeastElement
<1>4. PICK x \in S : g = t - x
  BY <1>1, <1>3
<1>5. ASSUME NEW k \in S PROVE x >= k
  <2>1. t - k \in G
    BY <1>1, Zenon
  <2>2. g <= t - k
    BY <1>3, <2>1
  <2>3. x \in Int /\ k \in Int
    OBVIOUS
  <2>4. QED
    BY <1>4, <2>2, <2>3
<1>6. PICK y : y = Max(S)
  OBVIOUS
<1>7. y \in S /\ \A k \in S : y >= k
  BY <1>5, <1>6 DEF Max
<1>8. QED
  BY <1>6, <1>7

-----------------------------------------------------------------------------
(* Scalars up to a last-up and a last-seen, and tables of them.            *)

ScalarsUpTo(u, t) == [icmp : BOOLEAN, up : 0 .. u, seen : 0 .. t]
Rows(u, t) == UNION {[D -> ScalarsUpTo(u, t)] : D \in SUBSET Dev}

LEMMA RowsOf ==
    ASSUME NEW u, NEW t
    PROVE  \A f : f \in Rows(u, t) <=>
              /\ f = [m \in DOMAIN f |-> f[m]] /\ DOMAIN f \subseteq Dev
              /\ \A m \in DOMAIN f : f[m] \in ScalarsUpTo(u, t)
BY DEF Rows

LEMMA MadeRows ==
    ASSUME NEW u, NEW t, NEW D \in SUBSET Dev, NEW f, f \in [D -> ScalarsUpTo(u, t)]
    PROVE  f \in Rows(u, t) /\ DOMAIN f = D
BY DEF Rows

LEMMA RowsGrow ==
    ASSUME NEW u \in Nat, NEW t \in Nat, NEW v \in Nat, NEW w \in Nat, u <= v, t <= w
    PROVE  /\ ScalarsUpTo(u, t) \subseteq ScalarsUpTo(v, w)
           /\ Rows(u, t) \subseteq Rows(v, w)
<1>1. ScalarsUpTo(u, t) \subseteq ScalarsUpTo(v, w)
  BY DEF ScalarsUpTo
<1>2. ASSUME NEW f \in Rows(u, t) PROVE f \in Rows(v, w)
  BY <1>1 DEF Rows
<1>3. QED
  BY <1>1, <1>2

LEMMA FreshScalars ==
    ASSUME NEW u \in Nat, NEW t \in Nat
    PROVE  Fresh \in ScalarsUpTo(u, t) /\ [m \in {} |-> Fresh] \in Rows(u, t)
<1>1. Fresh \in ScalarsUpTo(u, t)
  BY DEF Fresh, ScalarsUpTo
<1>2. [m \in {} |-> Fresh] \in [{} -> ScalarsUpTo(u, t)]
  OBVIOUS
<1>3. QED
  BY <1>1, <1>2, MadeRows

LEMMA JoinedScalars ==
    ASSUME NEW u \in Nat, NEW t \in Nat, NEW a \in ScalarsUpTo(u, t), NEW b \in ScalarsUpTo(u, t)
    PROVE  /\ Joined(a, b) \in ScalarsUpTo(u, t)
           /\ a.icmp \/ b.icmp <=> Joined(a, b).icmp
           /\ a.up <= Joined(a, b).up /\ b.up <= Joined(a, b).up
           /\ a.seen <= Joined(a, b).seen /\ b.seen <= Joined(a, b).seen
<1>1. /\ a.icmp \in BOOLEAN /\ a.up \in 0 .. u /\ a.seen \in 0 .. t
      /\ b.icmp \in BOOLEAN /\ b.up \in 0 .. u /\ b.seen \in 0 .. t
  BY DEF ScalarsUpTo
<1>2. /\ Later(a.up, b.up) \in 0 .. u
      /\ a.up <= Later(a.up, b.up) /\ b.up <= Later(a.up, b.up)
      /\ Later(a.seen, b.seen) \in 0 .. t
      /\ a.seen <= Later(a.seen, b.seen) /\ b.seen <= Later(a.seen, b.seen)
  BY <1>1 DEF Later
<1>3. (a.icmp \/ b.icmp) \in BOOLEAN
  BY <1>1
<1>4. /\ Joined(a, b).icmp = (a.icmp \/ b.icmp)
      /\ Joined(a, b).up = Later(a.up, b.up) /\ Joined(a, b).seen = Later(a.seen, b.seen)
  BY DEF Joined
<1>5. Joined(a, b) \in ScalarsUpTo(u, t)
  BY <1>2, <1>3 DEF Joined, ScalarsUpTo
<1>6. QED
  BY <1>2, <1>4, <1>5

LEMMA AtLeastByField ==
    ASSUME NEW u \in Nat, NEW t \in Nat, NEW a \in ScalarsUpTo(u, t), NEW b \in ScalarsUpTo(u, t),
           b.icmp => a.icmp, b.up <= a.up, b.seen <= a.seen
    PROVE  AtLeast(a, b)
<1>1. /\ a.icmp \in BOOLEAN /\ a.up \in 0 .. u /\ a.seen \in 0 .. t
      /\ b.icmp \in BOOLEAN /\ b.up \in 0 .. u /\ b.seen \in 0 .. t
      /\ a = [icmp |-> a.icmp, up |-> a.up, seen |-> a.seen]
  BY DEF ScalarsUpTo
<1>2. Later(a.up, b.up) = a.up /\ Later(a.seen, b.seen) = a.seen
  BY <1>1 DEF Later
<1>3. (a.icmp \/ b.icmp) = a.icmp
  BY <1>1
<1>4. QED
  BY <1>1, <1>2, <1>3 DEF AtLeast, Joined

LEMMA JoinedAtLeast ==
    ASSUME NEW u \in Nat, NEW t \in Nat, NEW a \in ScalarsUpTo(u, t), NEW b \in ScalarsUpTo(u, t)
    PROVE  AtLeast(Joined(a, b), a) /\ AtLeast(a, a)
<1>1. PICK j : j = Joined(a, b)
  OBVIOUS
<1>2. j \in ScalarsUpTo(u, t) /\ (a.icmp => j.icmp) /\ a.up <= j.up /\ a.seen <= j.seen
  BY <1>1, JoinedScalars
<1>3. AtLeast(j, a)
  BY <1>2, AtLeastByField
<1>4. a.up <= a.up /\ a.seen <= a.seen
  BY DEF ScalarsUpTo
<1>5. QED
  BY <1>1, <1>3, <1>4, AtLeastByField

-----------------------------------------------------------------------------
(* What the log says of a device.                                          *)

LEMMA NewestOf ==
    ASSUME NEW S, S \subseteq Sample
    PROVE  Newest(S) \in 0 .. Start /\ \A s \in S : s.ts <= Newest(S)
<1>1. Start \in Nat
  BY BoundsAssumption
<1>2. PICK T : T = {s.ts : s \in S}
  OBVIOUS
<1>3. T \subseteq 0 .. Start /\ \A s \in S : s.ts \in T
  BY <1>1, <1>2 DEF Sample
<1>4. CASE S = {}
  BY <1>1, <1>4 DEF Newest
<1>5. CASE S # {}
  <2>1. T # {}
    BY <1>5, <1>3
  <2>2. Max(T) \in T /\ \A k \in T : k <= Max(T)
    BY <1>1, <1>3, <2>1, MaximumOf
  <2>3. Newest(S) = Max(T)
    BY <1>2, <1>5 DEF Newest
  <2>4. QED
    BY <1>3, <2>2, <2>3
<1>6. QED
  BY <1>4, <1>5

\* Covers, of a log that is given.
Tells(sc, samples, m) ==
    \A s \in samples : s.mac = m =>
        /\ sc.seen >= s.ts
        /\ s.signal # "arp" => sc.up >= s.ts
        /\ s.signal = "icmp" => sc.icmp

LEMMA LegacyOf ==
    ASSUME log \subseteq Sample, NEW m \in Dev
    PROVE  Legacy(m) \in ScalarsUpTo(Start, Start) /\ Tells(Legacy(m), log, m)
<1>1. PICK own : own = {s \in log : s.mac = m}
  OBVIOUS
<1>2. PICK ups : ups = {s \in own : s.signal \in {"icmp", "tcp"}}
  OBVIOUS
<1>3. own \subseteq Sample /\ ups \subseteq Sample
  BY <1>1, <1>2
<1>4. PICK old : old = Legacy(m)
  OBVIOUS
<1>5. PICK pinged \in BOOLEAN : pinged = \E s \in own : s.signal = "icmp"
  OBVIOUS
<1>6. old = [icmp |-> pinged, up |-> Newest(ups), seen |-> Newest(own)]
  BY <1>1, <1>2, <1>4, <1>5 DEF Legacy
<1>7. /\ Newest(ups) \in 0 .. Start /\ \A s \in ups : s.ts <= Newest(ups)
      /\ Newest(own) \in 0 .. Start /\ \A s \in own : s.ts <= Newest(own)
  BY <1>3, NewestOf
<1>8. old \in ScalarsUpTo(Start, Start)
  BY <1>6, <1>7 DEF ScalarsUpTo
<1>9. ASSUME NEW s \in log, s.mac = m
      PROVE  /\ old.seen >= s.ts
             /\ s.signal # "arp" => old.up >= s.ts
             /\ s.signal = "icmp" => old.icmp
  <2>1. s \in own /\ s.ts \in 1 .. Start /\ s.signal \in {"icmp", "tcp", "arp"}
    BY <1>1, <1>9, BoundsAssumption DEF Sample, Signal
  <2>2. s.signal # "arp" => s \in ups
    BY <1>2, <2>1
  <2>3. s.signal = "icmp" => pinged
    BY <1>5, <2>1
  <2>4. old.seen = Newest(own) /\ old.up = Newest(ups) /\ old.icmp = pinged
    BY <1>6
  <2>5. Newest(own) \in Int /\ Newest(ups) \in Int
    BY <1>7
  <2>6. QED
    BY <1>7, <2>1, <2>2, <2>3, <2>4, <2>5
<1>10. Tells(old, log, m)
  BY <1>9 DEF Tells
<1>11. QED
  BY <1>4, <1>8, <1>10

\* Scalars that say more cover the log as well.
LEMMA MoreTells ==
    ASSUME NEW samples, samples \subseteq Sample, NEW u \in Nat, NEW t \in Nat, NEW m,
           NEW a \in ScalarsUpTo(u, t), NEW b \in ScalarsUpTo(u, t), Tells(a, samples, m),
           a.icmp => b.icmp, a.up <= b.up, a.seen <= b.seen
    PROVE  Tells(b, samples, m)
<1>1. {a.up, b.up, a.seen, b.seen} \subseteq Int
  BY DEF ScalarsUpTo
<1>2. \A s \in samples : s.ts \in Int
  BY BoundsAssumption DEF Sample
<1>3. ASSUME NEW s \in samples, s.mac = m
      PROVE  /\ b.seen >= s.ts
             /\ s.signal # "arp" => b.up >= s.ts
             /\ s.signal = "icmp" => b.icmp
  <2>1. /\ a.seen >= s.ts
        /\ s.signal # "arp" => a.up >= s.ts
        /\ s.signal = "icmp" => a.icmp
    BY <1>3 DEF Tells
  <2>2. QED
    BY <1>1, <1>2, <2>1
<1>4. QED
  BY <1>3 DEF Tells

LEMMA JoinedTells ==
    ASSUME NEW samples, samples \subseteq Sample, NEW u \in Nat, NEW t \in Nat, NEW m,
           NEW a \in ScalarsUpTo(u, t), NEW b \in ScalarsUpTo(u, t),
           Tells(a, samples, m) \/ Tells(b, samples, m)
    PROVE  Tells(Joined(a, b), samples, m)
<1>1. PICK j : j = Joined(a, b)
  OBVIOUS
<1>2. /\ a.icmp \/ b.icmp => j.icmp
      /\ a.up <= j.up /\ b.up <= j.up /\ a.seen <= j.seen /\ b.seen <= j.seen
      /\ j \in ScalarsUpTo(u, t)
  BY <1>1, JoinedScalars
<1>3. PICK c \in {a, b} : Tells(c, samples, m)
  OBVIOUS
<1>4. c \in ScalarsUpTo(u, t) /\ (c.icmp => j.icmp) /\ c.up <= j.up /\ c.seen <= j.seen
  BY <1>2
<1>5. Tells(j, samples, m)
  BY <1>2, <1>3, <1>4, MoreTells
<1>6. QED
  BY <1>1, <1>5

-----------------------------------------------------------------------------
(* Types.                                                                  *)

Column == {"icmp_seen", "last_seen_up", "last_seen"}
FlushPlace(u, t) == {Resting} \cup [pc : {"commit"}, rows : Rows(u, t)]
LoadPlace(u, t) == {Resting} \cup [pc : {"list"}] \cup [pc : {"apply"}, rows : Rows(u, t)]
JobPlace ==
    [pc : {"begin", "list", "vacuum", "reload", "done", "failed", "skipped"}]
        \cup [pc : {"each"}, todo : SUBSET Dev]
PhasePlace ==
    [pc : {"off", "load", "run", "stuck"}]
        \cup [pc : {"add"}, have : SUBSET Column, next : 1 .. 4]

LoopPlace(t) ==
    {Resting} \cup [pc : {"wait"}, targets : SUBSET Dev]
        \cup [pc : {"apply"}, targets : SUBSET Dev, ts : Start .. t]
        \cup [pc : {"apply"}, ts : Start .. t]

\* A last-up is no later than the clock, nor than the time that the probe cycle
\* in progress is going to assign.
UpBound == IF loop["probe"].pc = "apply" THEN loop["probe"].ts ELSE now

\* What TypeOK leaves out: the batches and lists in flight hold scalars too, and
\* none of them is ahead of the clock, nor its last-up of UpBound.
TypeInv ==
    /\ log \subseteq Sample /\ table \in BOOLEAN /\ columns \subseteq Column
    /\ now \in Start .. MaxTime /\ faults \in 0 .. MaxFaults
    /\ devices \in Rows(UpBound, now) /\ state \in Rows(UpBound, now)
    /\ dirty \subseteq DOMAIN state /\ mine \subseteq DOMAIN devices
    /\ loop \in [Loop -> LoopPlace(now)]
    /\ flush \in FlushPlace(UpBound, now)
    /\ load \in [Loader -> LoadPlace(UpBound, now)]
    /\ job \in JobPlace /\ phase \in PhasePlace

LEMMA Times == /\ Start \in Nat /\ MaxTime \in Nat /\ Start <= MaxTime /\ MaxFaults \in Nat
               /\ \A t \in Start .. MaxTime : t \in Nat
BY BoundsAssumption

LEMMA Bounds ==
    TypeInv => /\ UpBound \in Nat /\ now \in Nat
               /\ UpBound \in Start .. now /\ Start \in Nat
<1> SUFFICES ASSUME TypeInv PROVE UpBound \in Start .. now
  BY Times DEF TypeInv
<1>1. loop["probe"] \in LoopPlace(now)
  BY DEF TypeInv, Loop
<1>2. loop["probe"].pc = "apply" => loop["probe"].ts \in Start .. now
  BY <1>1 DEF LoopPlace, Resting
<1>3. QED
  BY <1>2, Times DEF UpBound, TypeInv

LEMMA DerivedColumns ==
    /\ DOMAIN Derived = 1 .. 3
    /\ \A i \in 1 .. 3 : Derived[i] \in Column
    /\ \A i, j \in 1 .. 3 : Derived[i] = Derived[j] => i = j
BY DEF Derived, Column

LEMMA TypeInvStatesTypeOK == TypeInv => TypeOK
<1> SUFFICES ASSUME TypeInv PROVE TypeOK
  OBVIOUS
<1>1. /\ now \in Nat /\ MaxTime \in Nat /\ now <= MaxTime
      /\ UpBound \in Nat /\ UpBound <= now
  BY Times, Bounds DEF TypeInv
<1>2. ScalarsUpTo(UpBound, now) \subseteq Scalars
  BY <1>1 DEF ScalarsUpTo, Scalars
<1>3. /\ DOMAIN devices \subseteq Dev /\ \A m \in DOMAIN devices : devices[m] \in ScalarsUpTo(UpBound, now)
      /\ DOMAIN state \subseteq Dev /\ \A m \in DOMAIN state : state[m] \in ScalarsUpTo(UpBound, now)
  BY RowsOf DEF TypeInv
<1>4. job.pc \in {"begin", "list", "each", "vacuum", "reload", "done", "failed", "skipped"}
  BY DEF TypeInv, JobPlace
<1>5. ASSUME NEW l \in Loop, loop[l].pc = "apply" PROVE loop[l].ts \in Start .. now
  <2>1. loop[l] \in LoopPlace(now)
    BY DEF TypeInv
  <2>2. QED
    BY <1>5, <2>1 DEF LoopPlace, Resting
<1>6. QED
  BY <1>2, <1>3, <1>4, <1>5 DEF TypeInv, TypeOK

LEMMA InitTyped == Init => TypeInv
<1> SUFFICES ASSUME Init PROVE TypeInv
  OBVIOUS
<1>1. PICK D \in SUBSET Dev : devices = [m \in D |-> Fresh]
  BY DEF Init
<1>2. now \in Nat /\ now \in Start .. MaxTime /\ UpBound = now
  BY Times DEF Init, UpBound, Loop, Resting
<1>3. devices \in Rows(UpBound, now) /\ mine \subseteq DOMAIN devices
  <2>1. devices \in [D -> ScalarsUpTo(UpBound, now)]
    BY <1>1, <1>2, FreshScalars
  <2>2. QED
    BY <2>1, MadeRows DEF Init
<1>4. state \in Rows(UpBound, now)
  BY <1>2, FreshScalars DEF Init
<1>5. /\ load \in [Loader -> LoadPlace(UpBound, now)]
      /\ flush \in FlushPlace(UpBound, now) /\ loop \in [Loop -> LoopPlace(now)]
  BY DEF Init, LoadPlace, FlushPlace, LoopPlace
<1>6. job \in JobPlace /\ phase \in PhasePlace
  BY DEF Init, JobPlace, PhasePlace
<1>7. QED
  BY <1>2, <1>3, <1>4, <1>5, <1>6, LogsAssumption, Times DEF Init, TypeInv

\* A fault is one more.
LEMMA FaultTyped == faults \in 0 .. MaxFaults /\ Fault => faults' \in 0 .. MaxFaults
BY Times DEF Fault

LEMMA LoadPut ==
    ASSUME TypeInv, NEW l \in Loader, NEW p \in LoadPlace(UpBound, now)
    PROVE  /\ [load EXCEPT ![l] = p] \in [Loader -> LoadPlace(UpBound, now)]
           /\ [load EXCEPT ![l] = p][l] = p
           /\ \A k \in Loader \ {l} : [load EXCEPT ![l] = p][k] = load[k]
BY DEF TypeInv

\* Where a list of the rows is put, and what is left when it has been used.
LEMMA LoadMoves ==
    ASSUME TypeInv, NEW l \in Loader
    PROVE  /\ \A p \in LoadPlace(UpBound, now) :
                /\ [load EXCEPT ![l] = p] \in [Loader -> LoadPlace(UpBound, now)]
                /\ [load EXCEPT ![l] = p][l] = p
                /\ \A k \in Loader \ {l} : [load EXCEPT ![l] = p][k] = load[k]
           /\ Resting \in LoadPlace(UpBound, now) /\ [pc |-> "list"] \in LoadPlace(UpBound, now)
           /\ [pc |-> "apply", rows |-> devices] \in LoadPlace(UpBound, now)
           /\ load[l].pc = "apply" =>
                /\ load[l] = [pc |-> "apply", rows |-> load[l].rows]
                /\ load[l].rows \in Rows(UpBound, now)
<1>1. load[l] \in LoadPlace(UpBound, now)
  BY DEF TypeInv
<1>2. Resting \in LoadPlace(UpBound, now) /\ [pc |-> "list"] \in LoadPlace(UpBound, now)
  BY DEF LoadPlace
<1>3. [pc |-> "apply", rows |-> devices] \in LoadPlace(UpBound, now)
  BY DEF LoadPlace, TypeInv
<1>4. load[l].pc = "apply" => /\ load[l] = [pc |-> "apply", rows |-> load[l].rows]
                              /\ load[l].rows \in Rows(UpBound, now)
  BY <1>1 DEF LoadPlace, Resting
<1>5. QED
  BY <1>2, <1>3, <1>4, LoadPut

\* Load merges the list into memory: every row of the list is there afterwards,
\* and says at least what the list and memory said.
LEMMA Merged ==
    ASSUME NEW u \in Nat, NEW t \in Nat, NEW old \in Rows(u, t), NEW rows \in Rows(u, t),
           NEW new, new = [m \in DOMAIN rows |->
                             IF m \in DOMAIN old THEN Joined(old[m], rows[m]) ELSE rows[m]]
    PROVE  /\ new \in Rows(u, t) /\ DOMAIN new = DOMAIN rows
           /\ \A m \in DOMAIN old \cap DOMAIN rows : new[m] = Joined(old[m], rows[m])
           /\ \A m \in DOMAIN rows \ DOMAIN old : new[m] = rows[m]
<1>1. /\ DOMAIN rows \subseteq Dev /\ \A m \in DOMAIN rows : rows[m] \in ScalarsUpTo(u, t)
      /\ \A m \in DOMAIN old : old[m] \in ScalarsUpTo(u, t)
  BY RowsOf
<1>2. ASSUME NEW m \in DOMAIN rows PROVE new[m] \in ScalarsUpTo(u, t)
  BY <1>1, JoinedScalars
<1>3. new \in [DOMAIN rows -> ScalarsUpTo(u, t)]
  BY <1>2
<1>4. QED
  BY <1>1, <1>3, MadeRows

\* Flush takes the larger of row and batch wherever it has a row.
LEMMA Flushed ==
    ASSUME NEW u \in Nat, NEW t \in Nat, NEW old \in Rows(u, t), NEW rows \in Rows(u, t),
           NEW new, new = [m \in DOMAIN old |->
                             IF m \in DOMAIN rows THEN Joined(old[m], rows[m]) ELSE old[m]]
    PROVE  /\ new \in Rows(u, t) /\ DOMAIN new = DOMAIN old
           /\ \A m \in DOMAIN old \cap DOMAIN rows : new[m] = Joined(old[m], rows[m])
           /\ \A m \in DOMAIN old \ DOMAIN rows : new[m] = old[m]
<1>1. /\ DOMAIN old \subseteq Dev /\ \A m \in DOMAIN rows : rows[m] \in ScalarsUpTo(u, t)
      /\ \A m \in DOMAIN old : old[m] \in ScalarsUpTo(u, t)
  BY RowsOf
<1>2. ASSUME NEW m \in DOMAIN old PROVE new[m] \in ScalarsUpTo(u, t)
  BY <1>1, JoinedScalars
<1>3. new \in [DOMAIN old -> ScalarsUpTo(u, t)]
  BY <1>2
<1>4. QED
  BY <1>1, <1>3, MadeRows

\* backfillOne joins one row with what was found.
LEMMA Updated ==
    ASSUME TypeInv, NEW m \in Dev, NEW found \in ScalarsUpTo(UpBound, now), Update(m, found)
    PROVE  /\ devices' \in Rows(UpBound, now) /\ DOMAIN devices' = DOMAIN devices
           /\ m \in DOMAIN devices => devices'[m] = Joined(devices[m], found)
           /\ \A k \in DOMAIN devices \ {m} : devices'[k] = devices[k]
<1>1. UpBound \in Nat /\ now \in Nat
  BY Bounds
<1>2. /\ DOMAIN devices \subseteq Dev
      /\ \A k \in DOMAIN devices : devices[k] \in ScalarsUpTo(UpBound, now)
      /\ devices = [k \in DOMAIN devices |-> devices[k]]
  BY RowsOf DEF TypeInv
<1>3. CASE m \notin DOMAIN devices
  BY <1>3 DEF Update, TypeInv
<1>4. CASE m \in DOMAIN devices
  <2>1. devices' = [devices EXCEPT ![m] = Joined(devices[m], found)]
    BY <1>4 DEF Update, Collapsed
  <2>2. Joined(devices[m], found) \in ScalarsUpTo(UpBound, now)
    BY <1>1, <1>2, <1>4, JoinedScalars
  <2>3. devices' \in [DOMAIN devices -> ScalarsUpTo(UpBound, now)]
    BY <1>2, <2>1, <2>2
  <2>4. QED
    BY <1>2, <1>4, <2>1, <2>3, MadeRows
<1>5. QED
  BY <1>3, <1>4

\* What the queries find, whether or not one of them fails.
LEMMA FoundScalars ==
    ASSUME TypeInv, NEW m \in Dev
    PROVE  /\ Legacy(m) \in ScalarsUpTo(UpBound, now)
           /\ [Legacy(m) EXCEPT !.icmp = FALSE] \in ScalarsUpTo(UpBound, now)
           /\ [Legacy(m) EXCEPT !.up = 0] \in ScalarsUpTo(UpBound, now)
           /\ [Legacy(m) EXCEPT !.seen = 0] \in ScalarsUpTo(UpBound, now)
<1>1. /\ now \in Nat /\ Start \in Nat /\ Start <= now
      /\ UpBound \in Nat /\ Start <= UpBound
  BY Bounds
<1>2. PICK f : f = Legacy(m)
  OBVIOUS
<1>3. f \in ScalarsUpTo(UpBound, now)
  <2>1. f \in ScalarsUpTo(Start, Start)
    BY <1>2, LegacyOf DEF TypeInv
  <2>2. ScalarsUpTo(Start, Start) \subseteq ScalarsUpTo(UpBound, now)
    BY <1>1, RowsGrow
  <2>3. QED
    BY <2>1, <2>2
<1>4. /\ [f EXCEPT !.icmp = FALSE] \in ScalarsUpTo(UpBound, now)
      /\ [f EXCEPT !.up = 0] \in ScalarsUpTo(UpBound, now)
      /\ [f EXCEPT !.seen = 0] \in ScalarsUpTo(UpBound, now)
  <2>1. PICK p \in BOOLEAN, u \in 0 .. UpBound, n \in 0 .. now :
          f = [icmp |-> p, up |-> u, seen |-> n]
    BY <1>3 DEF ScalarsUpTo
  <2>2. \A b \in BOOLEAN : [f EXCEPT !.icmp = b] = [icmp |-> b, up |-> u, seen |-> n]
    BY <2>1
  <2>3. \A b \in BOOLEAN : [f EXCEPT !.icmp = b] \in ScalarsUpTo(UpBound, now)
    BY <2>2 DEF ScalarsUpTo
  <2>4. [f EXCEPT !.icmp = FALSE] \in ScalarsUpTo(UpBound, now)
    BY <2>3, Zenon
  <2>5. [f EXCEPT !.up = 0] = [icmp |-> p, up |-> 0, seen |-> n]
    BY <2>1
  <2>6. [f EXCEPT !.seen = 0] = [icmp |-> p, up |-> u, seen |-> 0]
    BY <2>1
  <2>7. QED
    BY <1>1, <2>4, <2>5, <2>6 DEF ScalarsUpTo
<1>5. QED
  BY <1>2, <1>3, <1>4

-----------------------------------------------------------------------------
(* TypeInv is inductive.                                                   *)

LEMMA LoadTyped ==
    ASSUME TypeInv, NEW l \in Loader, Apply(l)
    PROVE  TypeInv'
<1>1. load[l].rows \in Rows(UpBound, now) /\ load' \in [Loader -> LoadPlace(UpBound, now)]
  BY LoadMoves DEF Apply
<1>2. UpBound \in Nat /\ now \in Nat /\ UNCHANGED <<UpBound, now, loop>>
  BY Bounds DEF Apply, UpBound
<1>3. state' \in Rows(UpBound, now)
  BY <1>1, <1>2, Merged DEF TypeInv, Apply
<1>4. job' \in JobPlace /\ phase' \in PhasePlace
  BY DEF TypeInv, Apply, JobPlace, PhasePlace
<1>5. QED
  BY <1>1, <1>2, <1>3, <1>4 DEF TypeInv, Apply, dbVars, auxVars

LEMMA TrackTyped ==
    ASSUME TypeInv, NEW m \in Dev, Track(m) \/ Untrack(m)
    PROVE  TypeInv'
<1>1. load' \in [Loader -> LoadPlace(UpBound, now)]
  <2>1. load' = [load EXCEPT !["request"] = [pc |-> "list"]]
    BY DEF Track, Untrack
  <2>2. "request" \in Loader
    BY DEF Loader
  <2>3. QED
    BY <2>1, <2>2, LoadMoves
<1>2. /\ DOMAIN devices \subseteq Dev
      /\ \A k \in DOMAIN devices : devices[k] \in ScalarsUpTo(UpBound, now)
  BY RowsOf DEF TypeInv
<1>3. UpBound \in Nat /\ now \in Nat /\ UNCHANGED <<UpBound, now, loop>>
  BY Bounds DEF Track, Untrack, UpBound, memVars
<1>4. CASE Track(m)
  <2>1. devices' = [k \in DOMAIN devices \cup {m} |-> IF k = m THEN Fresh ELSE devices[k]]
    BY <1>4 DEF Track
  <2>2. devices' \in [DOMAIN devices \cup {m} -> ScalarsUpTo(UpBound, now)]
    BY <1>2, <1>3, <2>1, FreshScalars
  <2>3. devices' \in Rows(UpBound, now) /\ DOMAIN devices' = DOMAIN devices \cup {m}
    BY <1>2, <2>2, MadeRows
  <2>4. QED
    BY <1>1, <1>3, <1>4, <2>3 DEF Track, TypeInv, memVars, auxVars
<1>5. CASE Untrack(m)
  <2>1. devices' = [k \in DOMAIN devices \ {m} |-> devices[k]]
    BY <1>5 DEF Untrack
  <2>2. devices' \in [DOMAIN devices \ {m} -> ScalarsUpTo(UpBound, now)]
    BY <1>2, <2>1
  <2>3. devices' \in Rows(UpBound, now) /\ DOMAIN devices' = DOMAIN devices \ {m}
    BY <1>2, <2>2, MadeRows
  <2>4. QED
    BY <1>1, <1>3, <1>5, <2>3 DEF Untrack, TypeInv, memVars
<1>6. QED
  BY <1>4, <1>5

LEMMA FlushTyped ==
    ASSUME TypeInv, Drain \/ Commit \/ CommitFails
    PROVE  TypeInv'
<1>1. UpBound \in Nat /\ now \in Nat /\ UNCHANGED <<UpBound, now, loop>>
  BY Bounds DEF Drain, Commit, CommitFails, UpBound
<1>2. CASE Drain
  <2>1. /\ DOMAIN state \subseteq Dev
        /\ \A k \in DOMAIN state : state[k] \in ScalarsUpTo(UpBound, now)
    BY RowsOf DEF TypeInv
  <2>2. [m \in dirty |-> state[m]] \in [dirty -> ScalarsUpTo(UpBound, now)] /\ dirty \in SUBSET Dev
    BY <2>1 DEF TypeInv
  <2>3. [m \in dirty |-> state[m]] \in Rows(UpBound, now)
    BY <2>2, MadeRows
  <2>4. flush' \in FlushPlace(UpBound, now)
    BY <1>2, <2>3 DEF Drain, FlushPlace
  <2>5. QED
    BY <1>1, <1>2, <2>4 DEF Drain, TypeInv, dbVars, auxVars
<1>3. CASE Commit
  <2>1. flush.rows \in Rows(UpBound, now)
    BY <1>3 DEF Commit, TypeInv, FlushPlace, Resting
  <2>2. devices' \in Rows(UpBound, now) /\ DOMAIN devices' = DOMAIN devices
    BY <1>1, <1>3, <2>1, Flushed DEF Commit, TypeInv
  <2>3. QED
    BY <1>1, <1>3, <2>2 DEF Commit, TypeInv, FlushPlace, auxVars
<1>4. CASE CommitFails
  <2>1. faults' \in 0 .. MaxFaults
    BY <1>4, FaultTyped DEF CommitFails, TypeInv
  <2>2. QED
    BY <1>1, <1>4, <2>1 DEF CommitFails, TypeInv, FlushPlace, dbVars, auxVars
<1>5. QED
  BY <1>2, <1>3, <1>4

LEMMA ListTyped ==
    ASSUME TypeInv, BootList \/ RequestList \/ RequestListFails \/ JobList
    PROVE  TypeInv'
<1>1. {"boot", "request", "job"} \subseteq Loader
  BY DEF Loader
<1>2. load' \in [Loader -> LoadPlace(UpBound, now)]
  <2>1. PICK l \in Loader, p \in {Resting, [pc |-> "apply", rows |-> devices]} :
          load' = [load EXCEPT ![l] = p]
    BY <1>1 DEF BootList, RequestList, RequestListFails, JobList, List
  <2>2. p \in LoadPlace(UpBound, now)
    BY LoadMoves
  <2>3. QED
    BY <2>1, <2>2, LoadMoves
<1>3. faults' \in 0 .. MaxFaults
  BY FaultTyped DEF BootList, RequestList, RequestListFails, JobList, TypeInv
<1>4. UNCHANGED <<UpBound, now, loop>>
  BY DEF BootList, RequestList, RequestListFails, JobList, UpBound, memVars
<1>5. QED
  BY <1>2, <1>3, <1>4 DEF BootList, RequestList, RequestListFails, JobList, TypeInv, dbVars,
     memVars, auxVars

LEMMA OpenTyped ==
    ASSUME TypeInv, Open \/ AddColumn \/ Stamp \/ OpenFails \/ BootListFails
    PROVE  TypeInv'
<1>1. faults' \in 0 .. MaxFaults
  BY FaultTyped DEF Open, AddColumn, Stamp, OpenFails, BootListFails, TypeInv
<1>0. UNCHANGED <<UpBound, now, loop>>
  BY DEF Open, AddColumn, Stamp, OpenFails, BootListFails, UpBound, memVars
<1>2. CASE Open
  BY <1>0, <1>1, <1>2 DEF Open, TypeInv, PhasePlace, dbVars, memVars, auxVars
<1>3. CASE AddColumn
  <2>1. phase \in [pc : {"add"}, have : SUBSET Column, next : 1 .. 4] /\ phase.next \in 1 .. 3
    BY <1>3, DerivedColumns DEF AddColumn, TypeInv, PhasePlace
  <2>2. PICK c \in Column : c = Derived[phase.next]
    BY <2>1, DerivedColumns
  <2>3. columns' \subseteq Column
    BY <1>3, <2>2 DEF AddColumn, TypeInv
  <2>4. phase' \in PhasePlace
    BY <1>3, <2>1, <2>2 DEF AddColumn, PhasePlace
  <2>5. QED
    BY <1>0, <1>1, <1>3, <2>3, <2>4 DEF AddColumn, TypeInv, memVars, auxVars
<1>4. CASE Stamp
  BY <1>0, <1>1, <1>4 DEF Stamp, TypeInv, PhasePlace, memVars, auxVars
<1>5. CASE OpenFails \/ BootListFails
  BY <1>0, <1>1, <1>5 DEF OpenFails, BootListFails, TypeInv, PhasePlace, dbVars, memVars, auxVars
<1>6. QED
  BY <1>2, <1>3, <1>4, <1>5

LEMMA JobTyped ==
    ASSUME TypeInv,
           \/ Begin \/ BeginFails \/ legacyMACs \/ DropLog \/ Vacuum
           \/ BackfillFails \/ JobListFails
    PROVE  TypeInv'
<1>1. faults' \in 0 .. MaxFaults
  BY FaultTyped
  DEF Begin, BeginFails, legacyMACs, DropLog, Vacuum, BackfillFails, JobListFails, TypeInv
<1>2. DOMAIN devices \subseteq Dev
  BY RowsOf DEF TypeInv
<1>3. job' \in JobPlace
  BY <1>2
  DEF Begin, BeginFails, legacyMACs, DropLog, Vacuum, BackfillFails, JobListFails, Go, JobPlace
<1>0. UNCHANGED <<UpBound, now, loop>>
  BY DEF Begin, BeginFails, legacyMACs, DropLog, Vacuum, BackfillFails, JobListFails,
         UpBound, memVars
<1>4. CASE DropLog
  BY <1>0, <1>1, <1>3, <1>4 DEF DropLog, TypeInv, memVars, auxVars
<1>5. CASE Begin \/ BeginFails \/ legacyMACs \/ Vacuum \/ BackfillFails \/ JobListFails
  BY <1>0, <1>1, <1>3, <1>5
  DEF Begin, BeginFails, legacyMACs, Vacuum, BackfillFails, JobListFails, TypeInv, dbVars,
      memVars, auxVars
<1>6. QED
  BY <1>4, <1>5

LEMMA OneTyped ==
    ASSUME TypeInv, NEW m \in Dev, backfillOne(m) \/ backfillOneMisses(m)
    PROVE  /\ TypeInv'
           /\ \E found \in ScalarsUpTo(UpBound, now) :
                Update(m, found) /\ (backfillOne(m) => found = Legacy(m))
<1>1. faults' \in 0 .. MaxFaults
  BY FaultTyped DEF backfillOne, backfillOneMisses, TypeInv
<1>2. PICK found \in ScalarsUpTo(UpBound, now) :
        Update(m, found) /\ (backfillOne(m) => found = Legacy(m))
  <2>1. CASE backfillOne(m)
    BY <2>1, FoundScalars DEF backfillOne
  <2>2. CASE backfillOneMisses(m) /\ ~backfillOne(m)
    BY <2>2, FoundScalars DEF backfillOneMisses
  <2>3. QED
    BY <2>1, <2>2
<1>3. devices' \in Rows(UpBound, now) /\ DOMAIN devices' = DOMAIN devices
  BY <1>2, Updated
<1>4. job' \in JobPlace
  <2>1. job \in [pc : {"each"}, todo : SUBSET Dev]
    BY DEF backfillOne, backfillOneMisses, TypeInv, JobPlace
  <2>2. job' = [job EXCEPT !.todo = job.todo \ {m}]
    BY DEF backfillOne, backfillOneMisses
  <2>3. QED
    BY <2>1, <2>2 DEF JobPlace
<1>5. TypeInv'
  <2>1. UNCHANGED <<log, table, columns, memVars, load, phase, now, mine>>
    BY DEF backfillOne, backfillOneMisses, auxVars
  <2>2. UNCHANGED <<UpBound, loop>>
    BY <2>1 DEF UpBound, memVars
  <2>3. QED
    BY <1>1, <1>3, <1>4, <2>1, <2>2 DEF TypeInv, memVars
<1>6. QED
  BY <1>2, <1>5

LEMMA CrashTyped == TypeInv /\ Crash => TypeInv'
<1> SUFFICES ASSUME TypeInv, Crash PROVE TypeInv'
  OBVIOUS
<1>1. faults' \in 0 .. MaxFaults
  BY FaultTyped DEF Crash, TypeInv
<1>2. /\ UpBound \in Nat /\ now \in Nat /\ UpBound <= now
      /\ loop' = [l \in Loop |-> Resting] /\ now' = now
  BY Bounds DEF Crash
<1>3. UpBound' = now
  BY <1>2 DEF UpBound, Loop, Resting
<1>4. state' \in Rows(now, now) /\ devices' \in Rows(now, now)
  <2>1. Rows(UpBound, now) \subseteq Rows(now, now)
    BY <1>2, RowsGrow
  <2>2. QED
    BY <1>2, <2>1, FreshScalars DEF Crash, TypeInv, dbVars
<1>5. /\ load' \in [Loader -> LoadPlace(now, now)] /\ flush' \in FlushPlace(now, now)
      /\ loop' \in [Loop -> LoopPlace(now)]
  BY <1>2 DEF Crash, LoadPlace, FlushPlace, LoopPlace
<1>6. job' \in JobPlace /\ phase' \in PhasePlace
  BY DEF Crash, JobPlace, PhasePlace
<1>7. QED
  BY <1>1, <1>2, <1>3, <1>4, <1>5, <1>6 DEF Crash, TypeInv, dbVars

\* When only time and its bounds move on, everything recorded stays within them.
LEMMA BoundsGrow ==
    ASSUME TypeInv, UpBound' \in Nat, now' \in Start .. MaxTime,
           UpBound <= UpBound', now <= now',
           UNCHANGED <<dbVars, state, dirty, flush, load, job, phase, mine>>,
           loop' \in [Loop -> LoopPlace(now')], faults' \in 0 .. MaxFaults
    PROVE  TypeInv'
<1>1. UpBound \in Nat /\ now \in Nat /\ now' \in Nat
  BY Bounds, Times
<1>2. Rows(UpBound, now) \subseteq Rows(UpBound', now')
  BY <1>1, RowsGrow
<1>3. /\ FlushPlace(UpBound, now) \subseteq FlushPlace(UpBound', now')
      /\ LoadPlace(UpBound, now) \subseteq LoadPlace(UpBound', now')
  BY <1>2 DEF FlushPlace, LoadPlace
<1>4. /\ devices' \in Rows(UpBound', now') /\ state' \in Rows(UpBound', now')
      /\ flush' \in FlushPlace(UpBound', now')
      /\ load' \in [Loader -> LoadPlace(UpBound', now')]
  BY <1>2, <1>3 DEF TypeInv, dbVars
<1>5. QED
  BY <1>4 DEF TypeInv, dbVars

LEMMA TickTyped == TypeInv /\ Tick => TypeInv'
<1> SUFFICES ASSUME TypeInv, Tick PROVE TypeInv'
  OBVIOUS
<1>1. now \in Nat /\ now' \in Nat /\ now <= now' /\ now' \in Start .. MaxTime
  BY Times DEF TypeInv, Tick
<1>2. loop' = loop /\ UpBound' \in Nat /\ UpBound <= UpBound'
  BY <1>1, Bounds DEF Tick, UpBound, procVars
<1>3. LoopPlace(now) \subseteq LoopPlace(now')
  BY <1>1, Bounds DEF LoopPlace
<1>4. loop' \in [Loop -> LoopPlace(now')]
  BY <1>2, <1>3 DEF TypeInv
<1>5. QED
  BY <1>1, <1>2, <1>4, BoundsGrow DEF TypeInv, Tick, procVars, auxVars

\* What a loop's step leaves of its time.
LEMMA LoopPut ==
    ASSUME TypeInv, NEW l \in Loop, NEW p \in LoopPlace(now), loop' = [loop EXCEPT ![l] = p]
    PROVE  /\ loop' \in [Loop -> LoopPlace(now)] /\ loop'[l] = p
           /\ \A k \in Loop \ {l} : loop'[k] = loop[k]
BY DEF TypeInv

\* A loop that takes its targets or its time records nothing yet.
LEMMA SampleTyped ==
    ASSUME TypeInv, ProbeStart \/ ProbeAnswered \/ RenderSample
    PROVE  TypeInv'
<1>1. /\ UpBound \in Nat /\ now \in Nat /\ UpBound \in Start .. now /\ Start \in Nat
      /\ "probe" \in Loop /\ "render" \in Loop /\ "probe" # "render" /\ now' = now
  BY Bounds DEF Loop, ProbeStart, ProbeAnswered, RenderSample
<1>2. DOMAIN state \subseteq Dev
  BY RowsOf DEF TypeInv
<1>3. ASSUME NEW l \in Loop, NEW p \in LoopPlace(now), loop' = [loop EXCEPT ![l] = p],
             l = "probe" => loop["probe"].pc # "apply",
             l = "probe" /\ p.pc = "apply" => p.ts = now
      PROVE  loop' \in [Loop -> LoopPlace(now)] /\ UpBound' = UpBound
  <2>1. /\ loop' \in [Loop -> LoopPlace(now)] /\ loop'[l] = p
        /\ \A k \in Loop \ {l} : loop'[k] = loop[k]
    BY <1>3, LoopPut
  <2>2. QED
    BY <1>1, <1>3, <2>1 DEF UpBound
<1>4. CASE ProbeStart
  <2>1. PICK p : p = [pc |-> "wait", targets |-> DOMAIN state]
    OBVIOUS
  <2>2. p \in LoopPlace(now) /\ p.pc # "apply"
    BY <1>2, <2>1 DEF LoopPlace
  <2>3. loop' = [loop EXCEPT !["probe"] = p] /\ loop["probe"].pc # "apply"
    BY <1>4, <2>1 DEF ProbeStart, Resting
  <2>4. loop' \in [Loop -> LoopPlace(now)] /\ UpBound' = UpBound
    BY <1>1, <1>3, <2>2, <2>3
  <2>5. QED
    BY <1>1, <1>4, <2>4, BoundsGrow DEF ProbeStart, TypeInv, auxVars
<1>5. CASE ProbeAnswered
  <2>1. loop["probe"] \in LoopPlace(now) /\ loop["probe"].pc = "wait"
    BY <1>1, <1>5 DEF ProbeAnswered, TypeInv
  <2>2. PICK D \in SUBSET Dev : loop["probe"].targets = D
    BY <2>1 DEF LoopPlace, Resting
  <2>3. PICK p : p = [pc |-> "apply", targets |-> D, ts |-> now]
    OBVIOUS
  <2>4. p \in LoopPlace(now) /\ p.ts = now
    BY <1>1, <2>3 DEF LoopPlace
  <2>5. loop' = [loop EXCEPT !["probe"] = p] /\ loop["probe"].pc # "apply"
    BY <1>5, <2>1, <2>2, <2>3 DEF ProbeAnswered
  <2>6. loop' \in [Loop -> LoopPlace(now)] /\ UpBound' = UpBound
    BY <1>1, <1>3, <2>4, <2>5
  <2>7. QED
    BY <1>1, <1>5, <2>6, BoundsGrow DEF ProbeAnswered, TypeInv, auxVars
<1>6. CASE RenderSample
  <2>1. PICK p : p = [pc |-> "apply", ts |-> now]
    OBVIOUS
  <2>2. p \in LoopPlace(now)
    BY <1>1, <2>1 DEF LoopPlace
  <2>3. loop' = [loop EXCEPT !["render"] = p]
    BY <1>6, <2>1 DEF RenderSample
  <2>4. loop' \in [Loop -> LoopPlace(now)] /\ UpBound' = UpBound
    BY <1>1, <1>3, <2>2, <2>3
  <2>5. QED
    BY <1>1, <1>6, <2>4, BoundsGrow DEF RenderSample, TypeInv, auxVars
<1>7. QED
  BY <1>4, <1>5, <1>6

\* applyProbes assigns a time no earlier than any last-up that is recorded; the
\* bound moves on with the end of the cycle.
LEMMA ProbesTyped ==
    ASSUME TypeInv, NEW U \in SUBSET Dev, NEW P \in SUBSET Dev, applyProbes(U, P)
    PROVE  /\ TypeInv' /\ DOMAIN state' = DOMAIN state
           /\ \A k \in DOMAIN state \ U : state'[k] = state[k]
           /\ \A k \in DOMAIN state \cap U :
                 /\ state[k].icmp => state'[k].icmp
                 /\ state[k].up <= state'[k].up
                 /\ state'[k].up \in Start .. now /\ state'[k].seen = state'[k].up
<1>1. /\ UpBound \in Nat /\ now \in Nat /\ UpBound \in Start .. now /\ Start \in Nat
      /\ "probe" \in Loop /\ now' = now
  BY Bounds DEF Loop, applyProbes
<1>2. PICK t : t = loop["probe"].ts
  OBVIOUS
<1>3. UpBound = t /\ t \in Nat /\ t \in Start .. now
  BY <1>1, <1>2 DEF applyProbes, UpBound
<1>4. /\ DOMAIN state \subseteq Dev
      /\ \A k \in DOMAIN state : state[k] \in ScalarsUpTo(t, now)
      /\ state = [k \in DOMAIN state |-> state[k]]
  BY <1>3, RowsOf DEF TypeInv
<1>5. state' = [m \in DOMAIN state |->
                  IF m \in U THEN [icmp |-> state[m].icmp \/ m \in P, up |-> t, seen |-> t]
                  ELSE state[m]]
  BY <1>2 DEF applyProbes
<1>6. ASSUME NEW k \in DOMAIN state \cap U
      PROVE  /\ state'[k] \in ScalarsUpTo(t, now)
             /\ state[k].icmp => state'[k].icmp
             /\ state[k].up <= state'[k].up
             /\ state'[k].up = t /\ state'[k].seen = t
  <2>1. PICK p \in BOOLEAN : p = (state[k].icmp \/ k \in P)
    OBVIOUS
  <2>2. state'[k] = [icmp |-> p, up |-> t, seen |-> t]
    BY <1>5, <2>1
  <2>3. state[k].up \in 0 .. t
    BY <1>4 DEF ScalarsUpTo
  <2>4. state'[k] \in ScalarsUpTo(t, now)
    BY <1>1, <1>3, <2>2 DEF ScalarsUpTo
  <2>5. state'[k].icmp = p /\ state'[k].up = t /\ state'[k].seen = t
    BY <2>2
  <2>6. state[k].icmp => state'[k].icmp
    BY <2>1, <2>5
  <2>7. QED
    BY <1>3, <2>3, <2>4, <2>5, <2>6
<1>7. \A k \in DOMAIN state \ U : state'[k] = state[k]
  BY <1>5
<1>8. state' \in [DOMAIN state -> ScalarsUpTo(t, now)]
  <2>1. \A k \in DOMAIN state : state'[k] \in ScalarsUpTo(t, now)
    BY <1>4, <1>6, <1>7
  <2>2. QED
    BY <1>5, <2>1
<1>9. state' \in Rows(UpBound, now) /\ DOMAIN state' = DOMAIN state
  BY <1>3, <1>4, <1>8, MadeRows
<1>10. loop' \in [Loop -> LoopPlace(now)] /\ UpBound' = now
  <2>1. Resting \in LoopPlace(now) /\ Resting.pc # "apply"
    BY DEF LoopPlace, Resting
  <2>2. PICK l \in Loop : l = "probe"
    BY <1>1
  <2>3. loop' = [loop EXCEPT ![l] = Resting]
    BY <2>2 DEF applyProbes
  <2>4. loop' \in [Loop -> LoopPlace(now)] /\ loop'[l] = Resting
    BY <2>1, <2>3, LoopPut
  <2>5. QED
    BY <1>1, <2>1, <2>2, <2>4 DEF UpBound
<1>11. Rows(UpBound, now) \subseteq Rows(now, now)
  BY <1>1, RowsGrow
<1>12. /\ FlushPlace(UpBound, now) \subseteq FlushPlace(now, now)
       /\ LoadPlace(UpBound, now) \subseteq LoadPlace(now, now)
  BY <1>11 DEF FlushPlace, LoadPlace
<1>13. /\ devices' \in Rows(now, now) /\ state' \in Rows(now, now)
       /\ flush' \in FlushPlace(now, now) /\ load' \in [Loader -> LoadPlace(now, now)]
  BY <1>9, <1>11, <1>12 DEF TypeInv, applyProbes, dbVars
<1>14. dirty' \subseteq DOMAIN state'
  BY <1>9 DEF TypeInv, applyProbes
<1>15. TypeInv'
  BY <1>1, <1>10, <1>13, <1>14 DEF TypeInv, applyProbes, dbVars, auxVars
<1>16. QED
  BY <1>3, <1>6, <1>7, <1>9, <1>15

\* applyNeigh only raises a last-seen, to a time that is not ahead of the clock.
LEMMA NeighTyped ==
    ASSUME TypeInv, NEW D \in SUBSET Dev, applyNeigh(D)
    PROVE  /\ TypeInv' /\ DOMAIN state' = DOMAIN state
           /\ \A k \in DOMAIN state :
                 /\ state[k].icmp => state'[k].icmp
                 /\ state'[k].up = state[k].up /\ state[k].seen <= state'[k].seen
<1>1. /\ UpBound \in Nat /\ now \in Nat /\ UpBound \in Start .. now /\ Start \in Nat
      /\ "probe" \in Loop /\ "render" \in Loop /\ "probe" # "render" /\ now' = now
  BY Bounds DEF Loop, applyNeigh
<1>2. PICK t : t = loop["render"].ts
  OBVIOUS
<1>3. t \in Start .. now
  <2>1. loop["render"] \in LoopPlace(now) /\ loop["render"].pc = "apply"
    BY <1>1 DEF TypeInv, applyNeigh
  <2>2. QED
    BY <1>2, <2>1 DEF LoopPlace, Resting
<1>4. /\ DOMAIN state \subseteq Dev
      /\ \A k \in DOMAIN state : state[k] \in ScalarsUpTo(UpBound, now)
      /\ state = [k \in DOMAIN state |-> state[k]]
  BY RowsOf DEF TypeInv
<1>5. state' = [m \in DOMAIN state |->
                  IF m \in D THEN [state[m] EXCEPT !.seen = Later(t, state[m].seen)]
                  ELSE state[m]]
  BY <1>2 DEF applyNeigh
<1>6. ASSUME NEW k \in DOMAIN state
      PROVE  /\ state'[k] \in ScalarsUpTo(UpBound, now)
             /\ state[k].icmp => state'[k].icmp
             /\ state'[k].up = state[k].up /\ state[k].seen <= state'[k].seen
  <2>1. PICK p \in BOOLEAN, a \in 0 .. UpBound, n \in 0 .. now :
          state[k] = [icmp |-> p, up |-> a, seen |-> n]
    BY <1>4 DEF ScalarsUpTo
  <2>2. PICK v : v = Later(t, n)
    OBVIOUS
  <2>3. v \in 0 .. now /\ n <= v
    BY <1>1, <1>3, <2>2 DEF Later
  <2>4. \/ state'[k] = [icmp |-> p, up |-> a, seen |-> v]
        \/ state'[k] = [icmp |-> p, up |-> a, seen |-> n]
    BY <1>5, <2>1, <2>2
  <2>5. QED
    BY <1>1, <2>1, <2>3, <2>4 DEF ScalarsUpTo
<1>7. state' \in [DOMAIN state -> ScalarsUpTo(UpBound, now)]
  BY <1>5, <1>6
<1>8. state' \in Rows(UpBound, now) /\ DOMAIN state' = DOMAIN state
  BY <1>4, <1>7, MadeRows
<1>9. loop' \in [Loop -> LoopPlace(now)] /\ UpBound' = UpBound
  <2>1. Resting \in LoopPlace(now)
    BY DEF LoopPlace
  <2>2. PICK l \in Loop : l = "render"
    BY <1>1
  <2>3. loop' = [loop EXCEPT ![l] = Resting]
    BY <2>2 DEF applyNeigh
  <2>4. /\ loop' \in [Loop -> LoopPlace(now)]
        /\ \A k \in Loop \ {l} : loop'[k] = loop[k]
    BY <2>1, <2>3, LoopPut
  <2>5. QED
    BY <1>1, <2>2, <2>4 DEF UpBound
<1>10. dirty' \subseteq DOMAIN state'
  BY <1>8 DEF TypeInv, applyNeigh
<1>11. TypeInv'
  BY <1>1, <1>8, <1>9, <1>10 DEF TypeInv, applyNeigh, dbVars, auxVars
<1>12. QED
  BY <1>6, <1>8, <1>11

\* A step is one of these.
LEMMA Steps ==
    ASSUME [Next]_vars
    PROVE  \/ Open \/ AddColumn \/ Stamp \/ OpenFails \/ BootListFails
           \/ BootList \/ RequestList \/ RequestListFails \/ JobList
           \/ \E l \in Loader : Apply(l)
           \/ \E m \in Dev : Track(m) \/ Untrack(m)
           \/ ProbeStart \/ ProbeAnswered \/ RenderSample
           \/ \E D \in SUBSET Dev : applyNeigh(D)
           \/ \E U, P \in SUBSET Dev : applyProbes(U, P)
           \/ Drain \/ Commit \/ CommitFails
           \/ Begin \/ BeginFails \/ legacyMACs \/ DropLog \/ Vacuum
           \/ BackfillFails \/ JobListFails
           \/ \E m \in Dev : backfillOne(m) \/ backfillOneMisses(m)
           \/ Crash \/ Tick \/ UNCHANGED vars
<1>1. {"boot", "request", "job"} \subseteq Loader
  BY DEF Loader
<1>2. QED
  BY <1>1 DEF Next, Boot, Backfill, Failure, Sighting

LEMMA NextTyped == TypeInv /\ [Next]_vars => TypeInv'
<1> SUFFICES ASSUME TypeInv, [Next]_vars PROVE TypeInv'
  OBVIOUS
<1>1. CASE UNCHANGED vars
  BY <1>1 DEF vars, TypeInv, UpBound
<1>2. QED
  BY <1>1, Steps, LoadTyped, TrackTyped, SampleTyped, ProbesTyped, NeighTyped, FlushTyped,
     ListTyped, OpenTyped, JobTyped, OneTyped, CrashTyped, TickTyped

LEMMA TypeInvariant == Spec => []TypeInv
<1>1. TypeInv /\ [Next]_vars => TypeInv'
  BY NextTyped
<1>2. QED
  BY <1>1, InitTyped, PTL DEF Spec

\* Every table, map and goroutine holds what it can hold.
THEOREM TypeCorrect == Spec => []TypeOK
<1>1. QED
  BY TypeInvariant, TypeInvStatesTypeOK, PTL

-----------------------------------------------------------------------------
(* A start that is repeated.                                               *)

\* A column that this start did not find is one it has added and passed.
StartInv ==
    /\ phase.pc # "stuck"
    /\ phase.pc = "add" =>
         \A c \in columns \ phase.have : \E i \in 1 .. phase.next - 1 : c = Derived[i]

LEMMA NextStart == TypeInv /\ StartInv /\ [Next]_vars => StartInv'
<1> SUFFICES ASSUME TypeInv, StartInv, [Next]_vars PROVE StartInv'
  OBVIOUS
<1>1. CASE Open
  BY <1>1 DEF Open, StartInv, dbVars
<1>2. CASE AddColumn
  <2>1. phase \in [pc : {"add"}, have : SUBSET Column, next : 1 .. 4] /\ phase.next \in 1 .. 3
    BY <1>2, DerivedColumns DEF AddColumn, TypeInv, PhasePlace
  <2>2. PICK c : c = Derived[phase.next]
    OBVIOUS
  <2>3. c \in columns => c \in phase.have
    BY <2>1, <2>2, DerivedColumns DEF StartInv
  <2>4. phase' = [phase EXCEPT !.next = phase.next + 1]
    BY <1>2, <2>2, <2>3 DEF AddColumn, Skipped
  <2>5. phase'.pc = "add" /\ phase'.have = phase.have /\ phase'.next = phase.next + 1
    BY <2>1, <2>4
  <2>6. columns' \subseteq columns \cup {c}
    BY <1>2, <2>2 DEF AddColumn
  <2>7. ASSUME NEW d \in columns' \ phase.have
        PROVE  \E i \in 1 .. phase.next : d = Derived[i]
    BY <2>1, <2>2, <2>6 DEF StartInv
  <2>8. QED
    BY <2>1, <2>5, <2>7 DEF StartInv
<1>3. CASE Stamp \/ OpenFails \/ BootListFails \/ Crash
  BY <1>3 DEF Stamp, OpenFails, BootListFails, Crash, StartInv
<1>4. ASSUME NEW l \in Loader, Apply(l) PROVE StartInv'
  BY <1>4 DEF Apply, StartInv, dbVars
<1>5. CASE UNCHANGED <<phase, columns>>
  BY <1>5 DEF StartInv
<1>6. ASSUME NEW m \in Dev,
             Track(m) \/ Untrack(m) \/ backfillOne(m) \/ backfillOneMisses(m)
      PROVE  UNCHANGED <<phase, columns>>
  BY <1>6 DEF Track, Untrack, backfillOne, backfillOneMisses
<1>7. ASSUME \/ ProbeStart \/ ProbeAnswered \/ RenderSample
             \/ \E D \in SUBSET Dev : applyNeigh(D)
             \/ \E U, P \in SUBSET Dev : applyProbes(U, P)
      PROVE  UNCHANGED <<phase, columns>>
  BY <1>7 DEF ProbeStart, ProbeAnswered, RenderSample, applyNeigh, applyProbes, dbVars
<1>8. CASE \/ BootList \/ RequestList \/ RequestListFails \/ JobList
           \/ Drain \/ Commit \/ CommitFails
  BY <1>5, <1>8
  DEF BootList, RequestList, RequestListFails, JobList, Drain, Commit, CommitFails, dbVars
<1>9. CASE \/ Begin \/ BeginFails \/ legacyMACs \/ DropLog \/ Vacuum
           \/ BackfillFails \/ JobListFails \/ Tick \/ UNCHANGED vars
  BY <1>5, <1>9
  DEF Begin, BeginFails, legacyMACs, DropLog, Vacuum, BackfillFails, JobListFails, Tick,
      dbVars, procVars, vars
<1>10. QED
  BY <1>1, <1>2, <1>3, <1>4, <1>5, <1>6, <1>7, <1>8, <1>9, Steps

\* However often a start was cut short among its ALTERs, the next start does not
\* trip over the columns it left (migrate).
THEOREM StartsNeverStick == Spec => []MigrationRepeats
<1>1. Init => StartInv
  BY DEF Init, StartInv
<1>2. StartInv => MigrationRepeats
  BY DEF StartInv, MigrationRepeats
<1>3. QED
  BY <1>1, <1>2, NextStart, TypeInvariant, PTL DEF Spec

-----------------------------------------------------------------------------
(* Scalars move forward.                                                   *)

LEMMA RowsForward ==
    ASSUME TypeInv, [Next]_vars
    PROVE  \A m \in DOMAIN devices \cap DOMAIN devices' : AtLeast(devices'[m], devices[m])
<1> SUFFICES ASSUME NEW m \in DOMAIN devices \cap DOMAIN devices'
             PROVE  AtLeast(devices'[m], devices[m])
  OBVIOUS
<1>1. UpBound \in Nat /\ now \in Nat
  BY Bounds
<1>2. /\ m \in Dev /\ \A k \in DOMAIN devices : devices[k] \in ScalarsUpTo(UpBound, now)
      /\ DOMAIN devices \subseteq Dev
  BY RowsOf DEF TypeInv
<1>3. CASE devices'[m] = devices[m]
  BY <1>1, <1>2, <1>3, JoinedAtLeast
<1>4. ASSUME NEW b \in ScalarsUpTo(UpBound, now), devices'[m] = Joined(devices[m], b)
      PROVE  AtLeast(devices'[m], devices[m])
  BY <1>1, <1>2, <1>4, JoinedAtLeast
<1>5. CASE Commit
  <2>1. flush.rows \in Rows(UpBound, now)
    BY <1>5 DEF Commit, TypeInv, FlushPlace, Resting
  <2>2. \/ m \in DOMAIN flush.rows /\ devices'[m] = Joined(devices[m], flush.rows[m])
        \/ devices'[m] = devices[m]
    BY <1>1, <1>5, <2>1, Flushed DEF Commit, TypeInv
  <2>3. \A k \in DOMAIN flush.rows : flush.rows[k] \in ScalarsUpTo(UpBound, now)
    BY <2>1, RowsOf
  <2>4. QED
    BY <1>3, <1>4, <2>2, <2>3
<1>6. ASSUME NEW k \in Dev, backfillOne(k) \/ backfillOneMisses(k)
      PROVE  AtLeast(devices'[m], devices[m])
  <2>1. PICK found \in ScalarsUpTo(UpBound, now) : Update(k, found)
    BY <1>6, OneTyped
  <2>2. devices'[m] = devices[m] \/ devices'[m] = Joined(devices[m], found)
    BY <1>2, <2>1, Updated
  <2>3. QED
    BY <1>3, <1>4, <2>2
<1>7. ASSUME NEW k \in Dev, Track(k) \/ Untrack(k) PROVE devices'[m] = devices[m]
  BY <1>7 DEF Track, Untrack
<1>8. CASE UNCHANGED devices
  BY <1>3, <1>8
<1>9. ASSUME NEW l \in Loader, Apply(l) PROVE UNCHANGED devices
  BY <1>9 DEF Apply, dbVars
<1>10. ASSUME \/ ProbeStart \/ ProbeAnswered \/ RenderSample
              \/ \E D \in SUBSET Dev : applyNeigh(D)
              \/ \E U, P \in SUBSET Dev : applyProbes(U, P)
       PROVE  UNCHANGED devices
  BY <1>10 DEF ProbeStart, ProbeAnswered, RenderSample, applyNeigh, applyProbes, dbVars
<1>11. CASE \/ Open \/ AddColumn \/ Stamp \/ OpenFails \/ BootListFails
            \/ BootList \/ RequestList \/ RequestListFails \/ JobList
            \/ Drain \/ CommitFails
  BY <1>8, <1>11
  DEF Open, AddColumn, Stamp, OpenFails, BootListFails, BootList, RequestList,
      RequestListFails, JobList, Drain, CommitFails, dbVars
<1>12. CASE \/ Begin \/ BeginFails \/ legacyMACs \/ DropLog \/ Vacuum \/ BackfillFails
            \/ JobListFails \/ Crash \/ Tick \/ UNCHANGED vars
  BY <1>8, <1>12
  DEF Begin, BeginFails, legacyMACs, DropLog, Vacuum, BackfillFails, JobListFails, Crash,
      Tick, dbVars, vars
<1>13. QED
  BY <1>3, <1>5, <1>6, <1>7, <1>8, <1>9, <1>10, <1>11, <1>12, Steps

LEMMA MemoryForward ==
    ASSUME TypeInv, [Next]_vars
    PROVE  \A m \in DOMAIN state \cap DOMAIN state' :
             /\ state[m].icmp => state'[m].icmp
             /\ state[m].up <= state'[m].up
<1> SUFFICES ASSUME NEW m \in DOMAIN state \cap DOMAIN state'
             PROVE  /\ state[m].icmp => state'[m].icmp
                    /\ state[m].up <= state'[m].up
  OBVIOUS
<1>1. UpBound \in Nat /\ now \in Nat
  BY Bounds
<1>2. m \in Dev /\ \A k \in DOMAIN state : state[k] \in ScalarsUpTo(UpBound, now)
  BY RowsOf DEF TypeInv
<1>3. state[m].up \in 0 .. UpBound
  BY <1>2 DEF ScalarsUpTo
<1>4. CASE UNCHANGED state
  BY <1>1, <1>3, <1>4
<1>5. ASSUME NEW l \in Loader, Apply(l)
      PROVE  /\ state[m].icmp => state'[m].icmp
             /\ state[m].up <= state'[m].up
  <2>1. load[l].rows \in Rows(UpBound, now)
    BY <1>5, LoadMoves DEF Apply
  <2>2. m \in DOMAIN load[l].rows /\ state'[m] = Joined(state[m], load[l].rows[m])
    BY <1>1, <1>5, <2>1, Merged DEF Apply, TypeInv
  <2>3. load[l].rows[m] \in ScalarsUpTo(UpBound, now)
    BY <2>1, <2>2, RowsOf
  <2>4. QED
    BY <1>1, <1>2, <2>2, <2>3, JoinedScalars
<1>6. ASSUME NEW U \in SUBSET Dev, NEW P \in SUBSET Dev, applyProbes(U, P)
      PROVE  /\ state[m].icmp => state'[m].icmp
             /\ state[m].up <= state'[m].up
  <2>1. CASE m \in U
    BY <1>6, <2>1, ProbesTyped
  <2>2. CASE m \notin U
    <3>1. state'[m] = state[m]
      BY <1>6, <2>2, ProbesTyped
    <3>2. QED
      BY <1>1, <1>3, <3>1
  <2>3. QED
    BY <2>1, <2>2
<1>7. ASSUME NEW D \in SUBSET Dev, applyNeigh(D)
      PROVE  /\ state[m].icmp => state'[m].icmp
             /\ state[m].up <= state'[m].up
  BY <1>1, <1>3, <1>7, NeighTyped
<1>8. CASE ProbeStart \/ ProbeAnswered \/ RenderSample
  BY <1>4, <1>8 DEF ProbeStart, ProbeAnswered, RenderSample
<1>9. CASE Crash
  BY <1>9 DEF Crash
<1>10. ASSUME NEW k \in Dev,
              Track(k) \/ Untrack(k) \/ backfillOne(k) \/ backfillOneMisses(k)
       PROVE  UNCHANGED state
  BY <1>10 DEF Track, Untrack, backfillOne, backfillOneMisses, memVars
<1>11. CASE \/ Open \/ AddColumn \/ Stamp \/ OpenFails \/ BootListFails
            \/ BootList \/ RequestList \/ RequestListFails \/ JobList
            \/ Drain \/ Commit \/ CommitFails
  BY <1>4, <1>11
  DEF Open, AddColumn, Stamp, OpenFails, BootListFails, BootList, RequestList,
      RequestListFails, JobList, Drain, Commit, CommitFails, memVars
<1>12. CASE \/ Begin \/ BeginFails \/ legacyMACs \/ DropLog \/ Vacuum \/ BackfillFails
            \/ JobListFails \/ Tick \/ UNCHANGED vars
  BY <1>4, <1>12
  DEF Begin, BeginFails, legacyMACs, DropLog, Vacuum, BackfillFails, JobListFails, Tick,
      memVars, procVars, vars
<1>13. QED
  BY <1>4, <1>5, <1>6, <1>7, <1>8, <1>9, <1>10, <1>11, <1>12, Steps

\* A flush, a reload, a probe cycle and the backfill meet on the same scalars in any
\* order.  None moves a stored one backwards (Flush, backfillOne), and in memory none
\* takes back that a device answered a ping or when it was last up, although a probe
\* cycle assigns a time it took earlier (applyProbes, Load).  The remembered last-seen,
\* which may recede, is left out.
THEOREM RecordsOnlyAdvance == Spec => RecordedNeverRecedes
<1>1. TypeInv /\ [Next]_vars =>
        /\ \A m \in DOMAIN devices \cap DOMAIN devices' : AtLeast(devices'[m], devices[m])
        /\ \A m \in DOMAIN state \cap DOMAIN state' :
             /\ state[m].icmp => state'[m].icmp
             /\ state[m].up <= state'[m].up
  BY RowsForward, MemoryForward
<1>2. QED
  BY <1>1, TypeInvariant, PTL DEF Spec, RecordedNeverRecedes

-----------------------------------------------------------------------------
(* The history of the rows that v0 wrote.                                  *)

\* The rows whose log has been read without an error, or will be.
Kept == mine \ unread

\* The goroutine runs once the process serves; it drops the log after the last
\* device, and Run's reload is over before it starts.
JobOrder ==
    /\ phase.pc # "run" => job.pc = "begin"
    /\ job.pc \in {"list", "each"} => table
    /\ job.pc \in {"vacuum", "reload"} => ~table
    /\ load["boot"].pc = "apply" => phase.pc = "load"
    /\ load["job"].pc = "apply" => job.pc = "reload"

ListsHoldMine ==
    \A l \in Loader : load[l].pc = "apply" => mine \subseteq DOMAIN load[l].rows

\* A device the goroutine is done with has its history in its row.
RowsTell ==
    \A m \in Kept : ~table \/ (job.pc = "each" /\ m \notin job.todo)
        => Tells(devices[m], log, m)

\* A list taken by a start or after the drop was taken from such rows.
ListsTell ==
    \A l \in {"boot", "job"} : load[l].pc = "apply" /\ ~table =>
        \A m \in Kept : Tells(load[l].rows[m], log, m)

MemoryTells ==
    phase.pc = "run" /\ ~blind =>
        /\ mine \subseteq DOMAIN state
        /\ job.pc = "done" \/ (job.pc = "begin" /\ ~table) =>
             \A m \in Kept : Tells(state[m], log, m)

HistoryInv == JobOrder /\ ListsHoldMine /\ RowsTell /\ ListsTell /\ MemoryTells

LEMMA HistoryStatesNothingIsLost ==
    ASSUME HistoryInv PROVE NothingIsLost
<1>1. \A sc, m : Tells(sc, log, m) <=> Covers(sc, m)
  BY DEF Tells, Covers
<1>2. ASSUME ~table, NEW m \in mine \ unread PROVE Tells(devices[m], log, m)
  BY <1>2 DEF HistoryInv, RowsTell, Kept
<1>3. ASSUME job.pc = "done", ~blind, NEW m \in mine \ unread
      PROVE  m \in DOMAIN state /\ Tells(state[m], log, m)
  <2>1. phase.pc = "run"
    BY <1>3 DEF HistoryInv, JobOrder
  <2>2. QED
    BY <1>3, <2>1 DEF HistoryInv, MemoryTells, Kept
<1>4. QED
  BY <1>1, <1>2, <1>3 DEF NothingIsLost, RowsHoldHistory, MemoryCatchesUp

LEMMA InitHistory == Init => HistoryInv
<1> SUFFICES ASSUME Init PROVE HistoryInv
  OBVIOUS
<1>1. /\ table = TRUE /\ job.pc = "begin" /\ phase.pc = "off"
      /\ load = [l \in Loader |-> Resting]
  BY DEF Init
<1>2. {"boot", "job"} \subseteq Loader /\ Resting.pc # "apply"
  BY DEF Loader, Resting
<1>3. JobOrder /\ ListsHoldMine /\ ListsTell
  BY <1>1, <1>2 DEF JobOrder, ListsHoldMine, ListsTell
<1>4. RowsTell /\ MemoryTells
  BY <1>1 DEF RowsTell, MemoryTells
<1>5. QED
  BY <1>3, <1>4 DEF HistoryInv

\* What a start, a list that is taken and a failure leave alone.
LEMMA OpenHistory ==
    ASSUME TypeInv, HistoryInv,
           Open \/ AddColumn \/ Stamp \/ OpenFails \/ BootListFails
    PROVE  HistoryInv'
<1>1. UNCHANGED <<log, table, devices, state, load, job, mine, unread>>
  BY DEF Open, AddColumn, Stamp, OpenFails, BootListFails, dbVars, memVars, auxVars
<1>2. /\ phase.pc # "run" /\ load["boot"].pc # "apply"
      /\ phase'.pc = "run" => blind'
  <2>1. CASE Open \/ Stamp \/ OpenFails
    BY <2>1 DEF Open, Stamp, OpenFails, HistoryInv, JobOrder
  <2>2. CASE AddColumn
    <3>1. phase \in [pc : {"add"}, have : SUBSET Column, next : 1 .. 4]
      BY <2>2 DEF AddColumn, TypeInv, PhasePlace
    <3>2. phase'.pc # "run"
      BY <2>2, <3>1 DEF AddColumn
    <3>3. QED
      BY <2>2, <3>2 DEF AddColumn, HistoryInv, JobOrder
  <2>3. CASE BootListFails
    BY <2>3 DEF BootListFails, Resting
  <2>4. QED
    BY <2>1, <2>2, <2>3
<1>3. JobOrder'
  BY <1>1, <1>2 DEF HistoryInv, JobOrder
<1>4. ListsHoldMine' /\ RowsTell' /\ ListsTell'
  BY <1>1 DEF HistoryInv, ListsHoldMine, RowsTell, ListsTell, Kept
<1>5. MemoryTells'
  BY <1>2 DEF MemoryTells
<1>6. QED
  BY <1>3, <1>4, <1>5 DEF HistoryInv

LEMMA ListHistory ==
    ASSUME TypeInv, HistoryInv, BootList \/ RequestList \/ RequestListFails \/ JobList
    PROVE  HistoryInv'
<1>1. /\ UNCHANGED <<log, table, devices, state, job, phase, mine, unread>>
      /\ blind' = blind \/ blind'
  BY DEF BootList, RequestList, RequestListFails, JobList, dbVars, memVars, auxVars
<1>2. PICK l \in Loader, p \in {Resting, [pc |-> "apply", rows |-> devices]} :
        /\ load' = [load EXCEPT ![l] = p]
        /\ l = "boot" => phase.pc = "load"
        /\ l = "job" => job.pc = "reload"
  BY DEF BootList, RequestList, RequestListFails, JobList, List, Loader
<1>3. p \in LoadPlace(UpBound, now)
  BY LoadMoves
<1>4. load'[l] = p /\ \A k \in Loader \ {l} : load'[k] = load[k]
  BY <1>2, <1>3, LoadMoves
<1>5. {"boot", "job"} \subseteq Loader
  BY DEF Loader
<1>6. p.pc = "apply" => p.rows = devices
  BY <1>2 DEF Resting
<1>7. JobOrder'
  BY <1>1, <1>2, <1>4, <1>5 DEF HistoryInv, JobOrder
<1>8. ListsHoldMine'
  BY <1>1, <1>4, <1>6 DEF HistoryInv, ListsHoldMine, TypeInv
<1>9. RowsTell'
  BY <1>1 DEF HistoryInv, RowsTell, Kept
<1>10. ListsTell'
  BY <1>1, <1>4, <1>5, <1>6 DEF HistoryInv, ListsTell, RowsTell, Kept
<1>11. MemoryTells'
  BY <1>1 DEF HistoryInv, MemoryTells, Kept
<1>12. QED
  BY <1>7, <1>8, <1>9, <1>10, <1>11 DEF HistoryInv

LEMMA ApplyHistory ==
    ASSUME TypeInv, HistoryInv, NEW l \in Loader, Apply(l)
    PROVE  HistoryInv'
<1>1. /\ UNCHANGED <<log, table, devices, mine, unread, blind>>
      /\ load[l].pc = "apply"
      /\ phase' = IF l = "boot" THEN [pc |-> "run"] ELSE phase
      /\ job' = IF l = "job" THEN [pc |-> "done"] ELSE job
  BY DEF Apply, dbVars, auxVars
<1>2. /\ load' = [load EXCEPT ![l] = Resting]
      /\ load'[l] = Resting /\ \A k \in Loader \ {l} : load'[k] = load[k]
  <2>1. PICK p : p = Resting
    OBVIOUS
  <2>2. load' = [load EXCEPT ![l] = p]
    BY <2>1 DEF Apply
  <2>3. p \in LoadPlace(UpBound, now)
    BY <2>1 DEF LoadPlace
  <2>4. load'[l] = p /\ \A k \in Loader \ {l} : load'[k] = load[k]
    BY <2>2, <2>3, LoadPut
  <2>5. QED
    BY <2>1, <2>2, <2>4
<1>3. {"boot", "request", "job"} \subseteq Loader /\ Resting.pc # "apply"
      /\ \A k \in Loader : k \in {"boot", "request", "job"}
  BY DEF Loader, Resting
<1>4. UpBound \in Nat /\ now \in Nat /\ log \subseteq Sample
  BY Bounds DEF TypeInv
<1>5. PICK rows : rows = load[l].rows
  OBVIOUS
<1>6. rows \in Rows(UpBound, now) /\ mine \subseteq DOMAIN rows
  BY <1>1, <1>5, LoadMoves DEF HistoryInv, ListsHoldMine
<1>7. /\ DOMAIN state' = DOMAIN rows
      /\ \A m \in DOMAIN state \cap DOMAIN rows : state'[m] = Joined(state[m], rows[m])
      /\ \A m \in DOMAIN rows \ DOMAIN state : state'[m] = rows[m]
  BY <1>4, <1>5, <1>6, Merged DEF TypeInv, Apply
<1>8. /\ \A m \in DOMAIN state : state[m] \in ScalarsUpTo(UpBound, now)
      /\ \A m \in DOMAIN rows : rows[m] \in ScalarsUpTo(UpBound, now)
  BY <1>6, RowsOf DEF TypeInv
<1>9. ASSUME NEW m \in mine,
             Tells(rows[m], log, m) \/ (m \in DOMAIN state /\ Tells(state[m], log, m))
      PROVE  Tells(state'[m], log, m)
  BY <1>4, <1>6, <1>7, <1>8, <1>9, JoinedTells
<1>10. JobOrder'
  BY <1>1, <1>2, <1>3 DEF HistoryInv, JobOrder
<1>11. ListsHoldMine'
  BY <1>1, <1>2, <1>3 DEF HistoryInv, ListsHoldMine
<1>12. RowsTell'
  BY <1>1 DEF HistoryInv, RowsTell, Kept
<1>13. ListsTell'
  BY <1>1, <1>2, <1>3 DEF HistoryInv, ListsTell, Kept
<1>14. MemoryTells'
  <2> SUFFICES ASSUME phase'.pc = "run", ~blind,
                      job'.pc = "done" \/ (job'.pc = "begin" /\ ~table), NEW m \in Kept
               PROVE  Tells(state'[m], log, m)
    BY <1>1, <1>6, <1>7 DEF MemoryTells, Kept
  <2>1. m \in mine
    BY DEF Kept
  <2>2. CASE l \in {"boot", "job"}
    <3>1. ~table
      BY <1>1, <2>2 DEF HistoryInv, JobOrder
    <3>2. Tells(rows[m], log, m)
      BY <1>1, <1>5, <2>2, <3>1 DEF HistoryInv, ListsTell
    <3>3. QED
      BY <1>9, <2>1, <3>2
  <2>3. CASE l = "request"
    <3>1. phase' = phase /\ job' = job
      BY <1>1, <2>3
    <3>2. m \in DOMAIN state /\ Tells(state[m], log, m)
      BY <2>1, <3>1 DEF HistoryInv, MemoryTells
    <3>3. QED
      BY <1>9, <2>1, <3>2
  <2>4. QED
    BY <1>3, <2>2, <2>3
<1>15. QED
  BY <1>10, <1>11, <1>12, <1>13, <1>14 DEF HistoryInv

LEMMA TrackHistory ==
    ASSUME TypeInv, HistoryInv, NEW m \in Dev, Track(m) \/ Untrack(m)
    PROVE  HistoryInv'
<1>1. UNCHANGED <<log, table, state, job, phase, unread, blind>>
  BY DEF Track, Untrack, memVars, auxVars
<1>2. "request" \in Loader /\ {"boot", "job"} \subseteq Loader \ {"request"}
  BY DEF Loader
<1>3. PICK p : p = [pc |-> "list"]
  OBVIOUS
<1>4. load' = [load EXCEPT !["request"] = p] /\ p \in LoadPlace(UpBound, now) /\ p.pc # "apply"
  BY <1>2, <1>3, LoadMoves DEF Track, Untrack
<1>5. load'["request"] = p /\ \A k \in Loader \ {"request"} : load'[k] = load[k]
  <2>1. PICK l \in Loader : l = "request"
    BY <1>2
  <2>2. load' = [load EXCEPT ![l] = p]
    BY <1>4, <2>1
  <2>3. /\ [load EXCEPT ![l] = p][l] = p
        /\ \A k \in Loader \ {l} : [load EXCEPT ![l] = p][k] = load[k]
    BY <1>4, LoadPut
  <2>4. QED
    BY <2>1, <2>2, <2>3
<1>6. mine' \subseteq mine /\ \A k \in mine' : devices'[k] = devices[k]
  <2>1. CASE Track(m)
    BY <2>1 DEF Track, TypeInv, auxVars
  <2>2. CASE Untrack(m)
    BY <2>2 DEF Untrack, TypeInv
  <2>3. QED
    BY <2>1, <2>2
<1>7. JobOrder'
  BY <1>1, <1>2, <1>5 DEF HistoryInv, JobOrder
<1>8. ListsHoldMine'
  BY <1>4, <1>5, <1>6 DEF HistoryInv, ListsHoldMine
<1>9. RowsTell'
  BY <1>1, <1>6 DEF HistoryInv, RowsTell, Kept
<1>10. ListsTell'
  BY <1>1, <1>2, <1>5, <1>6 DEF HistoryInv, ListsTell, Kept
<1>11. MemoryTells'
  BY <1>1, <1>6 DEF HistoryInv, MemoryTells, Kept
<1>12. QED
  BY <1>7, <1>8, <1>9, <1>10, <1>11 DEF HistoryInv

\* A time that is assigned is no earlier than any the log holds.
LEMMA LoopHistory ==
    ASSUME TypeInv, HistoryInv,
           \/ ProbeStart \/ ProbeAnswered \/ RenderSample
           \/ \E D \in SUBSET Dev : applyNeigh(D)
           \/ \E U, P \in SUBSET Dev : applyProbes(U, P)
    PROVE  HistoryInv'
<1>1. UNCHANGED <<log, table, devices, load, job, phase, now, mine, unread, blind>>
  BY DEF ProbeStart, ProbeAnswered, RenderSample, applyNeigh, applyProbes, dbVars, auxVars
<1>2. JobOrder' /\ ListsHoldMine' /\ RowsTell' /\ ListsTell'
  BY <1>1 DEF HistoryInv, JobOrder, ListsHoldMine, RowsTell, ListsTell, Kept
<1>3. /\ UpBound \in Nat /\ now \in Nat /\ Start \in Nat /\ log \subseteq Sample
      /\ DOMAIN state \subseteq Dev
      /\ \A k \in DOMAIN state : state[k] \in ScalarsUpTo(UpBound, now)
  BY Bounds, RowsOf DEF TypeInv
<1>4. /\ DOMAIN state' = DOMAIN state
      /\ \A k \in DOMAIN state : Tells(state[k], log, k) => Tells(state'[k], log, k)
  <2>1. CASE ProbeStart \/ ProbeAnswered \/ RenderSample
    BY <2>1 DEF ProbeStart, ProbeAnswered, RenderSample
  <2>2. ASSUME NEW D \in SUBSET Dev, applyNeigh(D),
               NEW k \in DOMAIN state, Tells(state[k], log, k)
        PROVE  Tells(state'[k], log, k)
    <3>1. PICK p \in BOOLEAN, u \in 0 .. UpBound, t \in 0 .. now :
            state[k] = [icmp |-> p, up |-> u, seen |-> t]
      BY <1>3 DEF ScalarsUpTo
    <3>2. /\ state[k].icmp => state'[k].icmp
          /\ state'[k].up = state[k].up /\ state[k].seen <= state'[k].seen
          /\ TypeInv' /\ DOMAIN state' = DOMAIN state
      BY <2>2, NeighTyped
    <3>3. state'[k] \in ScalarsUpTo(UpBound', now')
      BY <3>2, RowsOf DEF TypeInv
    <3>4. /\ \A s \in log : s.ts \in Int
          /\ state'[k].seen \in Int /\ t \in Int
      BY <1>3, <3>3 DEF Sample, ScalarsUpTo
    <3>5. ASSUME NEW s \in log, s.mac = k
          PROVE  /\ state'[k].seen >= s.ts
                 /\ s.signal # "arp" => state'[k].up >= s.ts
                 /\ s.signal = "icmp" => state'[k].icmp
      <4>1. /\ state[k].seen >= s.ts
            /\ s.signal # "arp" => state[k].up >= s.ts
            /\ s.signal = "icmp" => state[k].icmp
        BY <2>2, <3>5 DEF Tells
      <4>2. state'[k].seen >= s.ts
        BY <3>1, <3>2, <3>4, <4>1
      <4>3. s.signal # "arp" => state'[k].up >= s.ts
        BY <3>2, <4>1
      <4>4. s.signal = "icmp" => state'[k].icmp
        BY <3>2, <4>1
      <4>5. QED
        BY <4>2, <4>3, <4>4
    <3>6. QED
      BY <3>5 DEF Tells
  <2>3. ASSUME NEW U \in SUBSET Dev, NEW P \in SUBSET Dev, applyProbes(U, P),
               NEW k \in DOMAIN state, Tells(state[k], log, k)
        PROVE  Tells(state'[k], log, k)
    <3>1. CASE k \notin U
      <4>1. state'[k] = state[k]
        BY <2>3, <3>1, ProbesTyped
      <4>2. QED
        BY <2>3, <4>1
    <3>2. CASE k \in U
      <4>1. /\ state[k].icmp => state'[k].icmp
            /\ state'[k].up \in Start .. now /\ state'[k].seen = state'[k].up
        BY <2>3, <3>2, ProbesTyped
      <4>2. \A s \in log : s.ts \in Int /\ s.ts <= Start
        BY <1>3 DEF Sample
      <4>3. \A s \in log : s.mac = k /\ s.signal = "icmp" => state'[k].icmp
        BY <2>3, <4>1 DEF Tells
      <4>4. \A s \in log : state'[k].up >= s.ts /\ state'[k].seen >= s.ts
        BY <1>3, <4>1, <4>2
      <4>5. QED
        BY <4>3, <4>4 DEF Tells
    <3>3. QED
      BY <3>1, <3>2
  <2>4. DOMAIN state' = DOMAIN state
    BY NeighTyped, ProbesTyped DEF ProbeStart, ProbeAnswered, RenderSample
  <2>5. QED
    BY <2>1, <2>2, <2>3, <2>4
<1>5. MemoryTells'
  BY <1>1, <1>4 DEF HistoryInv, MemoryTells, Kept
<1>6. QED
  BY <1>2, <1>5 DEF HistoryInv

LEMMA FlushHistory ==
    ASSUME TypeInv, HistoryInv, Drain \/ Commit \/ CommitFails
    PROVE  HistoryInv'
<1>1. UNCHANGED <<log, table, state, load, job, phase, mine, unread, blind>>
  BY DEF Drain, Commit, CommitFails, dbVars, auxVars
<1>2. JobOrder' /\ ListsHoldMine' /\ ListsTell' /\ MemoryTells'
  BY <1>1 DEF HistoryInv, JobOrder, ListsHoldMine, ListsTell, MemoryTells, Kept
<1>3. ASSUME NEW m \in mine, Tells(devices[m], log, m)
      PROVE  Tells(devices'[m], log, m)
  <2>1. UpBound \in Nat /\ now \in Nat /\ log \subseteq Sample /\ m \in DOMAIN devices
    BY Bounds DEF TypeInv
  <2>2. CASE UNCHANGED devices
    BY <1>3, <2>2
  <2>3. CASE Commit
    <3>1. flush.rows \in Rows(UpBound, now)
      BY <2>3 DEF Commit, TypeInv, FlushPlace, Resting
    <3>2. \/ m \in DOMAIN flush.rows /\ devices'[m] = Joined(devices[m], flush.rows[m])
          \/ devices'[m] = devices[m]
      BY <2>1, <2>3, <3>1, Flushed DEF Commit, TypeInv
    <3>3. /\ devices[m] \in ScalarsUpTo(UpBound, now)
          /\ \A k \in DOMAIN flush.rows : flush.rows[k] \in ScalarsUpTo(UpBound, now)
      BY <2>1, <3>1, RowsOf DEF TypeInv
    <3>4. QED
      BY <1>3, <2>1, <3>2, <3>3, JoinedTells
  <2>4. QED
    BY <2>2, <2>3 DEF Drain, CommitFails, dbVars
<1>4. RowsTell'
  BY <1>1, <1>3 DEF HistoryInv, RowsTell, Kept
<1>5. QED
  BY <1>2, <1>4 DEF HistoryInv

\* Begin, and the goroutine's steps between the devices.
LEMMA JobHistory ==
    ASSUME TypeInv, HistoryInv,
           \/ Begin \/ BeginFails \/ legacyMACs \/ Vacuum \/ BackfillFails \/ JobListFails
    PROVE  HistoryInv'
<1>1. UNCHANGED <<log, table, devices, state, load, phase, mine, unread>>
  BY DEF Begin, BeginFails, legacyMACs, Vacuum, BackfillFails, JobListFails, dbVars,
     memVars, auxVars
<1>2. /\ phase.pc = "run"
      /\ job.pc \notin {"reload", "done"} \/ (blind' /\ load["job"].pc # "apply")
  BY DEF Begin, BeginFails, legacyMACs, Vacuum, BackfillFails, JobListFails, HistoryInv,
     JobOrder, Resting
<1>3. JobOrder'
  BY <1>1, <1>2
  DEF Begin, BeginFails, legacyMACs, Vacuum, BackfillFails, JobListFails, Go, HistoryInv,
      JobOrder, LegacyBackfillPending
<1>4. ListsHoldMine' /\ ListsTell'
  BY <1>1 DEF HistoryInv, ListsHoldMine, ListsTell, Kept
<1>5. job'.pc = "each" => mine \subseteq job'.todo
  BY DEF Begin, BeginFails, legacyMACs, Vacuum, BackfillFails, JobListFails, Go, TypeInv
<1>6. RowsTell'
  BY <1>1, <1>5 DEF HistoryInv, RowsTell, Kept
<1>7. \/ blind'
      \/ blind' = blind /\ job'.pc # "begin"
         /\ (job'.pc = "done" => job.pc = "begin" /\ ~table)
  BY DEF Begin, BeginFails, legacyMACs, Vacuum, BackfillFails, JobListFails, Go,
     LegacyBackfillPending, auxVars
<1>8. MemoryTells'
  BY <1>1, <1>7 DEF HistoryInv, MemoryTells, Kept
<1>9. QED
  BY <1>3, <1>4, <1>6, <1>8 DEF HistoryInv

LEMMA DropHistory == TypeInv /\ HistoryInv /\ DropLog => HistoryInv'
<1> SUFFICES ASSUME TypeInv, HistoryInv, DropLog PROVE HistoryInv'
  OBVIOUS
<1>1. /\ UNCHANGED <<log, devices, state, load, phase, mine, unread, blind>>
      /\ job.pc = "each" /\ job.todo = {} /\ job' = [pc |-> "vacuum"] /\ ~table'
  BY DEF DropLog, Go, memVars, auxVars
<1>2. phase.pc = "run" /\ load["boot"].pc # "apply" /\ load["job"].pc # "apply"
  BY <1>1 DEF HistoryInv, JobOrder
<1>3. JobOrder' /\ ListsHoldMine' /\ ListsTell'
  BY <1>1, <1>2 DEF HistoryInv, JobOrder, ListsHoldMine, ListsTell
<1>4. RowsTell'
  BY <1>1 DEF HistoryInv, RowsTell, Kept
<1>5. MemoryTells'
  BY <1>1 DEF HistoryInv, MemoryTells
<1>6. QED
  BY <1>3, <1>4, <1>5 DEF HistoryInv

LEMMA OneHistory ==
    ASSUME TypeInv, HistoryInv, NEW m \in Dev, backfillOne(m) \/ backfillOneMisses(m)
    PROVE  HistoryInv'
<1>1. /\ UNCHANGED <<log, table, state, load, phase, mine, blind>>
      /\ unread \subseteq unread' /\ job.pc = "each"
      /\ backfillOne(m) \/ m \in unread'
  BY DEF backfillOne, backfillOneMisses, memVars, auxVars
<1>2. job'.pc = "each" /\ job'.todo = job.todo \ {m}
  <2>1. job \in [pc : {"each"}, todo : SUBSET Dev]
    BY <1>1 DEF TypeInv, JobPlace
  <2>2. job' = [job EXCEPT !.todo = job.todo \ {m}]
    BY DEF backfillOne, backfillOneMisses
  <2>3. QED
    BY <2>1, <2>2
<1>3. table /\ table'
  BY <1>1 DEF HistoryInv, JobOrder
<1>4. JobOrder' /\ ListsHoldMine'
  BY <1>1, <1>2 DEF HistoryInv, JobOrder, ListsHoldMine
<1>5. ListsTell' /\ MemoryTells'
  <2>1. ListsTell'
    BY <1>3 DEF ListsTell
  <2>2. job'.pc # "done" /\ job'.pc # "begin"
    BY <1>2
  <2>3. MemoryTells'
    BY <1>1, <1>2, <2>2 DEF HistoryInv, MemoryTells
  <2>4. QED
    BY <2>1, <2>3
<1>6. RowsTell'
  <2> SUFFICES ASSUME NEW k \in mine \ unread', k \notin job.todo \ {m}
               PROVE  Tells(devices'[k], log, k)
    BY <1>1, <1>2, <1>3 DEF RowsTell, Kept
  <2>1. k \in Kept /\ k \in DOMAIN devices
    BY <1>1 DEF Kept, TypeInv
  <2>2. PICK found \in ScalarsUpTo(UpBound, now) :
          Update(m, found) /\ (backfillOne(m) => found = Legacy(m))
    BY OneTyped
  <2>3. /\ m \in DOMAIN devices => devices'[m] = Joined(devices[m], found)
        /\ \A j \in DOMAIN devices \ {m} : devices'[j] = devices[j]
    BY <2>2, Updated
  <2>4. CASE k # m
    BY <1>1, <2>1, <2>3, <2>4 DEF HistoryInv, RowsTell
  <2>5. CASE k = m
    <3>1. found = Legacy(m)
      BY <1>1, <2>2, <2>5
    <3>2. Tells(found, log, m)
      BY <3>1, LegacyOf DEF TypeInv
    <3>3. /\ UpBound \in Nat /\ now \in Nat /\ log \subseteq Sample
          /\ devices[m] \in ScalarsUpTo(UpBound, now)
      BY <2>1, <2>5, Bounds, RowsOf DEF TypeInv
    <3>4. Tells(Joined(devices[m], found), log, m)
      BY <2>2, <3>2, <3>3, JoinedTells
    <3>5. QED
      BY <2>1, <2>3, <2>5, <3>4
  <2>6. QED
    BY <2>4, <2>5
<1>7. QED
  BY <1>4, <1>5, <1>6 DEF HistoryInv

LEMMA CrashHistory == HistoryInv /\ Crash => HistoryInv'
<1> SUFFICES ASSUME HistoryInv, Crash PROVE HistoryInv'
  OBVIOUS
<1>1. /\ UNCHANGED <<log, table, devices, mine, unread>>
      /\ load' = [l \in Loader |-> Resting]
      /\ job' = [pc |-> "begin"] /\ phase' = [pc |-> "off"]
  BY DEF Crash, dbVars
<1>2. {"boot", "job"} \subseteq Loader /\ Resting.pc # "apply"
  BY DEF Loader, Resting
<1>3. JobOrder' /\ ListsHoldMine' /\ ListsTell'
  BY <1>1, <1>2 DEF JobOrder, ListsHoldMine, ListsTell
<1>4. RowsTell' /\ MemoryTells'
  BY <1>1 DEF HistoryInv, RowsTell, MemoryTells, Kept
<1>5. QED
  BY <1>3, <1>4 DEF HistoryInv

LEMMA QuietHistory == HistoryInv /\ (Tick \/ UNCHANGED vars) => HistoryInv'
<1> SUFFICES ASSUME HistoryInv, Tick \/ UNCHANGED vars PROVE HistoryInv'
  OBVIOUS
<1>1. UNCHANGED <<log, table, devices, state, load, job, phase, mine, unread, blind>>
  BY DEF Tick, vars, dbVars, procVars, auxVars
<1>2. QED
  BY <1>1
  DEF HistoryInv, JobOrder, ListsHoldMine, RowsTell, ListsTell, MemoryTells, Kept

LEMMA NextHistory == TypeInv /\ HistoryInv /\ [Next]_vars => HistoryInv'
BY Steps, OpenHistory, ListHistory, ApplyHistory, TrackHistory, LoopHistory,
   FlushHistory, JobHistory, DropHistory, OneHistory, CrashHistory, QuietHistory

\* Once the log is gone, every row that v0 wrote holds its history, however often
\* the move was interrupted and whatever was written meanwhile, unless a query
\* whose error is dropped has hidden it (BackfillLegacy).  And once the goroutine
\* has ended well, memory holds it too, unless a reload of this process has failed
\* (backfillLegacy).
THEOREM HistoryIsNeverLost == Spec => []NothingIsLost
<1>1. Spec => []HistoryInv
  BY InitHistory, NextHistory, TypeInvariant, PTL DEF Spec
<1>2. HistoryInv => NothingIsLost
  BY HistoryStatesNothingIsLost
<1>3. QED
  BY <1>1, <1>2, PTL
=============================================================================
