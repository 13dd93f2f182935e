----------------------------- MODULE ScanProofs -----------------------------
(***************************************************************************)
(* Theorems about Scan for every address width, every local network, any   *)
(* number of workers and any number of scans.                              *)
(***************************************************************************)
EXTENDS Scan, FiniteSetTheorems, NaturalsInduction, SequenceTheorems, TLAPS

\* The fields the arguments read; what a scan's jobs are does not matter to them.
Shape ==
    /\ DOMAIN scan = ScanId
    /\ \A i \in ScanId : DOMAIN scan[i] = {"pc", "target", "jobs", "total"}
    /\ \A i \in ScanId : scan[i].pc \in {"unused", "feed", "abort", "read", "result",
                                         "error", "reset", "ended"}
    /\ DOMAIN worker = ScanId
    /\ \A i \in ScanId : DOMAIN worker[i] = Workers
    /\ DOMAIN said = ScanId
    /\ \A i \in ScanId : DOMAIN said[i] = {"last", "full"}

OneSweep == \A i, j \in ScanId : Active(i) /\ Active(j) => i = j
FlagIsBacked == scanning => \E i \in ScanId : Active(i)

\* The flag is the running scan: it stands exactly while there is one.
FlagInv ==
    /\ \A i \in ScanId : Active(i) => scanning
    /\ OneSweep
    /\ FlagIsBacked

\* Workers are busy only while their sweep feeds or winds down.
WorkerInv ==
    \A i \in ScanId : scan[i].pc \notin {"feed", "abort"} => WorkersDone(i)

LastInv ==
    \A i \in ScanId :
        scan[i].pc \in {"reset", "ended"} => said[i].last \in {"result", "error"}

ScanInv == Shape /\ FlagInv /\ WorkerInv /\ LastInv

-----------------------------------------------------------------------------
(* A step of a scan's own goroutines leaves the flag and the other scans.   *)

OwnStep(i) ==
    /\ scanning' = scanning
    /\ DOMAIN scan' = ScanId
    /\ DOMAIN scan'[i] = DOMAIN scan[i]
    /\ \A j \in ScanId \ {i} : scan'[j] = scan[j]
    /\ Active(i) /\ scan'[i].pc \notin {"unused", "ended"}

LEMMA FlagKept ==
    ASSUME Shape, FlagInv, NEW i \in ScanId, OwnStep(i)
    PROVE  FlagInv'
<1>1. \A j \in ScanId : Active(j)' <=> Active(j)
  BY DEF OwnStep, Active
<1>2. scanning' = scanning
  BY DEF OwnStep
<1>3. QED
  BY <1>1, <1>2 DEF FlagInv, OneSweep, FlagIsBacked

LEMMA HandleScanStep ==
    ASSUME ScanInv, NEW b \in Blocks, handleScan(b)
    PROVE  ScanInv'
<1>1. PICK i \in ScanId :
        /\ scan[i].pc = "unused"
        /\ scan' = [scan EXCEPT ![i] = [pc |-> "feed", target |-> b,
                       jobs |-> enumerate(b), total |-> Len(enumerate(b))]]
  BY DEF handleScan
<1>2. /\ ~scanning /\ scanning'
      /\ UNCHANGED <<worker, said>>
  BY DEF handleScan, Accept
<1>3. /\ scan'[i].pc = "feed"
      /\ DOMAIN scan'[i] = {"pc", "target", "jobs", "total"}
      /\ DOMAIN scan' = ScanId
      /\ \A j \in ScanId \ {i} : scan'[j] = scan[j]
  BY <1>1 DEF ScanInv, Shape
<1>4. \A j \in ScanId : ~Active(j)
  BY <1>2 DEF ScanInv, FlagInv
<1>5. FlagInv'
  <2>1. \A j \in ScanId : Active(j)' <=> j = i
    BY <1>3, <1>4 DEF Active
  <2>2. QED
    BY <1>2, <2>1 DEF FlagInv, OneSweep, FlagIsBacked
<1>6. Shape'
  BY <1>2, <1>3 DEF ScanInv, Shape
<1>7. WorkerInv' /\ LastInv'
  BY <1>2, <1>3 DEF ScanInv, WorkerInv, WorkersDone, LastInv
<1>8. QED
  BY <1>5, <1>6, <1>7 DEF ScanInv

\* Feeding, nudging, counting and reporting happen while the sweep is on.
LEMMA WorkStep ==
    ASSUME ScanInv, NEW i \in ScanId, NEW w \in Workers, Work(i, w)
    PROVE  ScanInv'
<1>1. scan[i].pc \in {"feed", "abort"} /\ scan'[i].pc = scan[i].pc
  <2>1. CASE Feed(i, w)
    BY <2>1 DEF Feed, ScanInv, Shape
  <2>2. CASE Nudge(i, w) \/ Count(i, w) \/ Progress(i, w)
    <3>1. worker[i][w].pc # "ready" /\ scan' = scan
      BY <2>2 DEF Nudge, Count, Progress
    <3>2. ~WorkersDone(i)
      BY <3>1 DEF WorkersDone, Ready
    <3>3. QED
      BY <3>1, <3>2 DEF ScanInv, WorkerInv
  <2>3. QED
    BY <2>1, <2>2 DEF Work
<1>2. /\ scanning' = scanning
      /\ DOMAIN scan' = ScanId /\ DOMAIN scan'[i] = DOMAIN scan[i]
      /\ \A j \in ScanId \ {i} : scan'[j] = scan[j]
  BY DEF Work, Feed, Nudge, Count, Progress, ScanInv, Shape
<1>3. /\ DOMAIN worker' = ScanId /\ DOMAIN worker'[i] = Workers
      /\ \A j \in ScanId \ {i} : worker'[j] = worker[j]
  BY DEF Work, Feed, Nudge, Count, Progress, ScanInv, Shape
<1>4. /\ DOMAIN said' = ScanId /\ DOMAIN said'[i] = {"last", "full"}
      /\ \A j \in ScanId \ {i} : said'[j] = said[j]
  BY DEF Work, Feed, Nudge, Count, Progress, ToldProgress, ScanInv, Shape
<1>5. FlagInv'
  BY <1>1, <1>2, FlagKept DEF OwnStep, Active, ScanInv
<1>6. Shape'
  BY <1>1, <1>2, <1>3, <1>4 DEF ScanInv, Shape
<1>7. WorkerInv' /\ LastInv'
  BY <1>1, <1>2, <1>3, <1>4 DEF ScanInv, WorkerInv, WorkersDone, LastInv
<1>8. QED
  BY <1>5, <1>6, <1>7 DEF ScanInv

\* The goroutine of the scan goes on, up to its last event.
LEMMA RunStep ==
    ASSUME ScanInv, NEW i \in ScanId,
           SweepEnds(i) \/ TimeOut(i) \/ ReadBack(i) \/ Report(i)
    PROVE  ScanInv'
<1>1. /\ scanning' = scanning /\ worker' = worker
      /\ DOMAIN scan' = ScanId /\ DOMAIN scan'[i] = DOMAIN scan[i]
      /\ \A j \in ScanId \ {i} : scan'[j] = scan[j]
  BY DEF SweepEnds, TimeOut, ReadBack, Report, ScanInv, Shape
<1>2. /\ scan[i].pc \in {"feed", "abort", "read", "result", "error"}
      /\ scan'[i].pc \in {"abort", "read", "result", "error", "reset"}
  BY DEF SweepEnds, FeedEnded, TimeOut, ReadBack, Report, ScanInv, Shape
<1>3. /\ DOMAIN said' = ScanId /\ DOMAIN said'[i] = {"last", "full"}
      /\ \A j \in ScanId \ {i} : said'[j] = said[j]
  BY DEF SweepEnds, TimeOut, ReadBack, Report, ScanInv, Shape
<1>4. FlagInv'
  BY <1>1, <1>2, FlagKept DEF OwnStep, Active, ScanInv
<1>5. Shape'
  BY <1>1, <1>2, <1>3 DEF ScanInv, Shape
<1>6. scan'[i].pc # "abort" => WorkersDone(i)
  <2>1. CASE TimeOut(i)
    BY <2>1 DEF TimeOut, ScanInv, Shape
  <2>2. CASE SweepEnds(i)
    BY <2>2 DEF SweepEnds
  <2>3. CASE ReadBack(i) \/ Report(i)
    BY <2>3 DEF ReadBack, Report, ScanInv, WorkerInv
  <2>4. QED
    BY <2>1, <2>2, <2>3
<1>7. WorkerInv'
  BY <1>1, <1>6 DEF ScanInv, WorkerInv, WorkersDone
<1>8. scan'[i].pc = "reset" => said'[i].last \in {"result", "error"}
  <2>1. CASE Report(i)
    BY <2>1 DEF Report, ScanInv, Shape
  <2>2. CASE SweepEnds(i) \/ TimeOut(i) \/ ReadBack(i)
    BY <2>2 DEF SweepEnds, TimeOut, ReadBack, ScanInv, Shape
  <2>3. QED
    BY <2>1, <2>2
<1>9. LastInv'
  BY <1>1, <1>2, <1>3, <1>8 DEF ScanInv, LastInv
<1>10. QED
  BY <1>4, <1>5, <1>7, <1>9 DEF ScanInv

LEMMA ResetStep ==
    ASSUME ScanInv, NEW i \in ScanId, Reset(i)
    PROVE  ScanInv'
<1>1. /\ ~scanning' /\ UNCHANGED <<worker, said>>
      /\ scan[i].pc = "reset" /\ scan'[i].pc = "ended"
      /\ DOMAIN scan' = ScanId /\ DOMAIN scan'[i] = DOMAIN scan[i]
      /\ \A j \in ScanId \ {i} : scan'[j] = scan[j]
  BY DEF Reset, ScanInv, Shape
<1>2. Active(i)
  BY <1>1 DEF Active
<1>3. \A j \in ScanId : ~Active(j)'
  BY <1>1, <1>2 DEF Active, ScanInv, FlagInv, OneSweep
<1>4. FlagInv'
  BY <1>1, <1>3 DEF FlagInv, OneSweep, FlagIsBacked
<1>5. Shape'
  BY <1>1 DEF ScanInv, Shape
<1>6. WorkerInv' /\ LastInv'
  BY <1>1 DEF ScanInv, WorkerInv, WorkersDone, LastInv
<1>7. QED
  BY <1>4, <1>5, <1>6 DEF ScanInv

LEMMA ScanInvStep == ScanInv /\ [Next]_vars => ScanInv'
<1> SUFFICES ASSUME ScanInv, [Next]_vars PROVE ScanInv'
  OBVIOUS
<1>1. ASSUME NEW b \in Blocks, handleScan(b) PROVE ScanInv'
  BY <1>1, HandleScanStep
<1>2. ASSUME NEW i \in ScanId, RunScan(i) \/ TimeOut(i) PROVE ScanInv'
  BY <1>2, RunStep, ResetStep DEF RunScan
<1>3. ASSUME NEW i \in ScanId, NEW w \in Workers, Work(i, w) PROVE ScanInv'
  BY <1>3, WorkStep
<1>4. CASE UNCHANGED vars
  BY <1>4 DEF vars, ScanInv, Shape, FlagInv, OneSweep, FlagIsBacked, Active,
     WorkerInv, WorkersDone, LastInv
<1>5. QED
  BY <1>1, <1>2, <1>3, <1>4 DEF Next

LEMMA ScanInvInit == Init => ScanInv
<1> SUFFICES ASSUME Init PROVE ScanInv
  OBVIOUS
<1>1. \A i \in ScanId : scan[i].pc = "unused"
                        /\ DOMAIN scan[i] = {"pc", "target", "jobs", "total"}
  BY DEF Init, Unused
<1>2. Shape
  BY <1>1 DEF Init, Shape
<1>3. FlagInv
  BY <1>1 DEF Init, FlagInv, OneSweep, FlagIsBacked, Active
<1>4. WorkerInv /\ LastInv
  BY <1>1 DEF Init, WorkerInv, WorkersDone, LastInv
<1>5. QED
  BY <1>2, <1>3, <1>4 DEF ScanInv

LEMMA ScanInvariant == Spec => []ScanInv
BY ScanInvInit, ScanInvStep, PTL DEF Spec

-----------------------------------------------------------------------------
\* A scan is accepted only when the one before has cleared the flag, and every
\* path of runScan clears it.
THEOREM OneSweepAlwaysHoldsFlag == Spec => []OneSweepHoldsFlag
<1>1. ScanInv => OneSweepHoldsFlag
  BY DEF ScanInv, FlagInv, OneSweep, FlagIsBacked, OneSweepHoldsFlag
<1>2. QED
  BY <1>1, ScanInvariant, PTL

\* No worker nudges or reports after the result or error of its scan (Sweep).
THEOREM FinalEventIsAlwaysLast == Spec => []FinalEventIsLast
<1>1. ScanInv => FinalEventIsLast
  BY DEF ScanInv, WorkerInv, LastInv, FinalEventIsLast
<1>2. QED
  BY <1>1, ScanInvariant, PTL

-----------------------------------------------------------------------------
(* What enumerate computes.                                                *)

\* Ascending addresses, n of them from lo on.
Run(lo, n) == [j \in 1 .. n |-> lo + j - 1]
HostCount(b) == IF SubnetSize(b.len) > 2 THEN SubnetSize(b.len) - 2 ELSE 0

LEMMA RunOps ==
    ASSUME NEW lo \in Nat, NEW n \in Nat
    PROVE  /\ Run(lo, n) \in Seq(Nat) /\ Len(Run(lo, n)) = n
           /\ ToSet(Run(lo, n)) = lo .. lo + n - 1
           /\ Run(lo, n) = <<>> <=> n = 0
<1>1. Run(lo, n) \in Seq(Nat) /\ Len(Run(lo, n)) = n
  BY DEF Run
<1>2. ToSet(Run(lo, n)) = lo .. lo + n - 1
  <2>1. ASSUME NEW x \in lo .. lo + n - 1 PROVE x \in ToSet(Run(lo, n))
    <3>1. PICK j \in 1 .. n : j = x - lo + 1
      OBVIOUS
    <3>2. Run(lo, n)[j] = x
      BY <3>1 DEF Run
    <3>3. QED
      BY <1>1, <3>2 DEF ToSet
  <2>2. ASSUME NEW x \in ToSet(Run(lo, n)) PROVE x \in lo .. lo + n - 1
    <3>1. PICK j \in 1 .. n : x = Run(lo, n)[j]
      BY <1>1 DEF ToSet
    <3>2. QED
      BY <3>1 DEF Run
  <2>3. QED
    BY <2>1, <2>2
<1>3. Run(lo, n) = <<>> <=> n = 0
  BY <1>1
<1>4. QED
  BY <1>1, <1>2, <1>3

LEMMA RunHeadTail ==
    ASSUME NEW lo \in Nat, NEW n \in Nat \ {0}
    PROVE  /\ Head(Run(lo, n)) = lo /\ Tail(Run(lo, n)) = Run(lo + 1, n - 1)
           /\ Run(lo, n) = <<lo>> \o Run(lo + 1, n - 1)
<1>1. /\ Run(lo, n) \in Seq(Nat) /\ Len(Run(lo, n)) = n /\ Run(lo, n) # <<>>
      /\ Run(lo + 1, n - 1) \in Seq(Nat) /\ Len(Run(lo + 1, n - 1)) = n - 1
  <2>1. lo + 1 \in Nat /\ n - 1 \in Nat
    OBVIOUS
  <2>2. QED
    BY <2>1, RunOps
<1>2. Head(Run(lo, n)) = lo
  BY <1>1 DEF Run
<1>3. Tail(Run(lo, n)) = Run(lo + 1, n - 1)
  <2>1. PICK S : S = Run(lo, n)
    OBVIOUS
  <2>2. /\ Tail(S) \in Seq(Nat) /\ Len(Tail(S)) = n - 1
        /\ \A j \in 1 .. n - 1 : Tail(S)[j] = S[j + 1]
    BY <1>1, <2>1, HeadTailProperties
  <2>3. \A j \in 1 .. n - 1 : S[j + 1] = lo + 1 + j - 1
    BY <2>1 DEF Run
  <2>4. PICK T : T = Run(lo + 1, n - 1)
    OBVIOUS
  <2>5. \A j \in 1 .. n - 1 : T[j] = lo + 1 + j - 1
    BY <2>4 DEF Run
  <2>6. Tail(S) = T
    <3>1. Tail(S) \in Seq(Nat) /\ T \in Seq(Nat) /\ Len(T) = Len(Tail(S))
      BY <1>1, <2>2, <2>4
    <3>2. \A j \in 1 .. Len(Tail(S)) : Tail(S)[j] = T[j]
      BY <2>2, <2>3, <2>5
    <3>3. QED
      BY <3>1, <3>2, SeqEqual
  <2>7. QED
    BY <2>1, <2>4, <2>6
<1>4. Run(lo, n) = <<lo>> \o Run(lo + 1, n - 1)
  <2>1. PICK S : S = Run(lo + 1, n - 1)
    OBVIOUS
  <2>2. PICK T : T = <<lo>> \o S
    OBVIOUS
  <2>3. T \in Seq(Nat) /\ Len(T) = n
    BY <1>1, <2>1, <2>2
  <2>4. ASSUME NEW j \in 1 .. n PROVE T[j] = Run(lo, n)[j]
    <3>1. CASE j = 1
      BY <2>2, <3>1 DEF Run
    <3>2. CASE j > 1
      <4>1. T[j] = S[j - 1] /\ j - 1 \in 1 .. n - 1
        BY <1>1, <2>1, <2>2, <3>2
      <4>2. QED
        BY <2>1, <4>1 DEF Run
    <3>3. QED
      BY <3>1, <3>2
  <2>5. T = Run(lo, n)
    BY <1>1, <2>3, <2>4
  <2>6. QED
    BY <2>1, <2>2, <2>5
<1>5. QED
  BY <1>2, <1>3, <1>4

LEMMA Division ==
    ASSUME NEW a \in Nat, NEW m \in Nat \ {0}
    PROVE  \E q \in Nat, r \in 0 .. m - 1 : a = m * q + r /\ a % m = r
<1>1. a % m \in 0 .. m - 1 /\ a \div m \in Nat /\ a = m * (a \div m) + (a % m)
  OBVIOUS
<1>2. QED
  BY <1>1

LEMMA OneQuotient ==
    ASSUME NEW m \in Nat \ {0}, NEW p \in Nat, NEW q \in Nat,
           NEW r \in 0 .. m - 1, NEW s \in 0 .. m - 1, m * p + r = m * q + s
    PROVE  p = q /\ r = s
OBVIOUS

LEMMA BlockShape ==
    ASSUME NEW b \in Blocks
    PROVE  /\ b.len \in Length /\ SubnetSize(b.len) \in Nat \ {0}
           /\ b.net \in Nat /\ b.net + SubnetSize(b.len) <= 2^Width
           /\ \E q \in Nat : b.net = SubnetSize(b.len) * q
<1>1. PICK a \in Address, len \in Length : b = Block(a, len)
  BY DEF Blocks
<1>2. b.len = len /\ b.net = Masked(a, len)
  BY <1>1 DEF Block
<1>3. PICK m \in Nat \ {0} : m = SubnetSize(len)
  BY SubnetSizeAssumption
<1>4. PICK N \in Nat : N = 2^Width /\ N % m = 0 /\ a \in 0 .. N - 1
  BY <1>3, SubnetSizeAssumption DEF Address
<1>5. PICK p \in Nat, r \in 0 .. m - 1 : a = m * p + r /\ a % m = r
  <2>1. a \in Nat
    BY <1>4
  <2>2. QED
    BY <2>1, Division
<1>6. PICK K \in Nat : N = m * K
  <2>1. PICK K \in Nat, d \in 0 .. m - 1 : N = m * K + d /\ N % m = d
    BY Division
  <2>2. m * K \in Nat
    OBVIOUS
  <2>3. QED
    BY <1>4, <2>1, <2>2
<1>7. b.net = m * p
  BY <1>2, <1>3, <1>5 DEF Masked
<1>8. m * p + m <= m * K
  <2>1. m * p \in Nat /\ m * K \in Nat /\ m * p < m * K
    BY <1>4, <1>5, <1>6
  <2>2. p < K
    <3>1. p >= K => m * p >= m * K
      OBVIOUS
    <3>2. QED
      BY <2>1, <3>1
  <2>3. PICK d \in Nat : K = p + 1 + d
    <3>1. K - p - 1 \in Nat
      BY <2>2
    <3>2. QED
      BY <3>1
  <2>4. m * K = m * p + m + m * d /\ m * d \in Nat
    BY <2>3
  <2>5. QED
    BY <2>1, <2>4
<1>9. m * p \in Nat
  OBVIOUS
<1>10. QED
  BY <1>2, <1>3, <1>4, <1>6, <1>7, <1>8, <1>9

\* A block is an interval of addresses.
LEMMA BlockInterval ==
    ASSUME NEW b \in Blocks, NEW a \in Address
    PROVE  /\ InBlock(b, a) <=> b.net <= a /\ a <= b.net + SubnetSize(b.len) - 1
           /\ InBlock(b, a) => Broadcast(a, b.len) = b.net + SubnetSize(b.len) - 1
<1>1. PICK m \in Nat \ {0} : m = SubnetSize(b.len)
  BY BlockShape
<1>2. PICK q \in Nat : b.net = m * q
  BY <1>1, BlockShape
<1>3. a \in Nat
  BY SubnetSizeAssumption DEF Address
<1>4. PICK p \in Nat, r \in 0 .. m - 1 : a = m * p + r /\ a % m = r
  BY <1>3, Division
<1>5. Masked(a, b.len) = m * p /\ m * p \in Nat /\ m * q \in Nat
  BY <1>1, <1>4 DEF Masked
<1>6. m * p = m * q => m * q <= a /\ a <= m * q + m - 1
  BY <1>4, <1>5
<1>7. ASSUME m * q <= a, a <= m * q + m - 1 PROVE m * p = m * q
  <2>1. PICK s \in 0 .. m - 1 : a = m * q + s
    <3>1. a - m * q \in 0 .. m - 1
      BY <1>3, <1>5, <1>7
    <3>2. QED
      BY <1>3, <1>5, <3>1
  <2>2. QED
    BY <1>4, <2>1, OneQuotient
<1>8. QED
  BY <1>1, <1>2, <1>5, <1>6, <1>7 DEF InBlock, Broadcast

LEMMA NatOrder ==
    \E R : IsWellFoundedOn(R, Nat) /\ \A j, k \in Nat : <<j, k>> \in R <=> j < k
<1>1. PICK R : R = OpToRel(<, Nat)
  OBVIOUS
<1>2. IsWellFoundedOn(R, Nat)
  BY <1>1, NatLessThanWellFounded
<1>3. \A j, k \in Nat : <<j, k>> \in R <=> j < k
  BY <1>1 DEF OpToRel
<1>4. QED
  BY <1>2, <1>3

\* Induction over a set, for a property that is written as one.
LEMMA LeastElement ==
    ASSUME NEW S, S \subseteq Nat, S # {}
    PROVE  \E k \in S : \A j \in S : k <= j
<1>1. PICK R : IsWellFoundedOn(R, Nat) /\ \A j, k \in Nat : <<j, k>> \in R <=> j < k
  BY NatOrder
<1>2. \E x \in S : \A y \in S : ~ (<<y, x>> \in R)
  <2>1. IsWellFoundedOn(R, Nat)
    BY <1>1
  <2>2. QED
    BY <2>1, WFMin, Zenon
<1>3. PICK k \in S : \A j \in S : ~ (<<j, k>> \in R)
  BY <1>2
<1>4. ASSUME NEW j \in S PROVE k <= j
  <2>1. j \in Nat /\ k \in Nat
    OBVIOUS
  <2>2. ~ (<<j, k>> \in R)
    BY <1>3
  <2>3. ~ (j < k)
    BY <2>1, <2>2, <1>1, Zenon
  <2>4. QED
    BY <2>1, <2>3
<1>5. QED
  BY <1>4


\* The addresses after net, from the last one backwards, are what the walk that
\* starts at a still collects.
Onward(b, a) ==
    IF ~InBlock(b, a) THEN <<>>
    ELSE IF a = b.net THEN Run(b.net + 1, HostCount(b))
    ELSE Run(a, b.net + SubnetSize(b.len) - 1 - a)

\* enumerate's recursion.
Walks(b, f) ==
    f = [a \in Address |->
          IF ~InBlock(b, a) THEN <<>>
          ELSE (IF a \in {b.net, Broadcast(a, b.len)} THEN <<>> ELSE <<a>>)
                 \o f[inc(a)]]

LEMMA EnumerateWalks ==
    ASSUME NEW b, NEW g, Walks(b, g)
    PROVE  \E f : Walks(b, f) /\ enumerate(b) = f[b.net]
BY Zenon DEF enumerate, Walks

LEMMA Wraps ==
    ASSUME NEW a \in Address
    PROVE  /\ a \in Nat /\ inc(a) \in Address /\ 0 \in Address
           /\ a + 1 < 2^Width => inc(a) = a + 1
           /\ a + 1 >= 2^Width => inc(a) = 0
<1>1. PICK N \in Nat : N = 2^Width
  BY SubnetSizeAssumption
<1>2. a \in 0 .. N - 1 /\ N \in Nat \ {0}
  BY <1>1 DEF Address
<1>3. PICK k \in Nat : k = a + 1
  BY <1>2
<1>4. PICK q \in Nat, r \in 0 .. N - 1 : k = N * q + r /\ k % N = r
  BY <1>2, Division
<1>5. inc(a) = r
  BY <1>1, <1>3, <1>4 DEF inc
<1>6. r \in Address /\ 0 \in Address
  BY <1>1, <1>2 DEF Address
<1>7. ASSUME k < N PROVE r = k
  <2>1. N * 0 + k = N * q + r /\ k \in 0 .. N - 1
    BY <1>2, <1>4, <1>7
  <2>2. QED
    BY <1>2, <2>1, OneQuotient
<1>8. ASSUME k >= N PROVE r = 0
  <2>1. N * 1 + 0 = N * q + r /\ 0 \in 0 .. N - 1
    BY <1>2, <1>3, <1>4, <1>8
  <2>2. QED
    BY <1>2, <2>1, OneQuotient
<1>9. QED
  BY <1>1, <1>2, <1>3, <1>5, <1>6, <1>7, <1>8

\* The walk goes up through the block and out of it at its end.
LEMMA WalkLeaves ==
    ASSUME NEW b \in Blocks, SubnetSize(b.len) < 2^Width, NEW a \in Address, InBlock(b, a)
    PROVE  LET last == b.net + SubnetSize(b.len) - 1
           IN  /\ inc(a) \in Address /\ last \in Address /\ b.net \in Address
               /\ a < last => inc(a) = a + 1 /\ InBlock(b, inc(a))
               /\ a = last => ~InBlock(b, inc(a))
<1>1. PICK m \in Nat \ {0} : m = SubnetSize(b.len)
  BY BlockShape
<1>2. PICK N \in Nat : N = 2^Width
  BY SubnetSizeAssumption
<1>3. PICK n \in Nat : n = b.net
  BY BlockShape
<1>4. n + m <= N /\ m < N
  BY <1>1, <1>2, <1>3, BlockShape
<1>5. a \in Nat /\ n <= a /\ a <= n + m - 1
  BY <1>1, <1>3, BlockInterval, Wraps
<1>6. PICK i \in Address : i = inc(a)
  BY Wraps
<1>7. InBlock(b, i) <=> n <= i /\ i <= n + m - 1
  BY <1>1, <1>3, <1>6, BlockInterval, Wraps
<1>8. /\ a + 1 < N => i = a + 1
      /\ a + 1 >= N => i = 0
  BY <1>2, <1>6, Wraps
<1>9. i \in Nat
  BY <1>6, Wraps
<1>10. ASSUME a = n + m - 1 PROVE ~InBlock(b, i)
  BY <1>4, <1>7, <1>8, <1>9, <1>10
<1>11. ASSUME a < n + m - 1 PROVE i = a + 1 /\ InBlock(b, i)
  BY <1>4, <1>5, <1>7, <1>8, <1>9, <1>11
<1>12. n + m - 1 \in Address /\ n \in Address
  BY <1>2, <1>4 DEF Address
<1>13. QED
  BY <1>1, <1>3, <1>6, <1>10, <1>11, <1>12

LEMMA EmptyConcat == ASSUME NEW t \in Seq(Nat) PROVE <<>> \o t = t
BY ConcatEmptySeq

\* Onward takes the steps of enumerate.
LEMMA OnwardStep ==
    ASSUME NEW b \in Blocks, SubnetSize(b.len) < 2^Width, NEW a \in Address, InBlock(b, a)
    PROVE  Onward(b, a) = (IF a \in {b.net, Broadcast(a, b.len)} THEN <<>> ELSE <<a>>)
                            \o Onward(b, inc(a))
<1>1. PICK m \in Nat \ {0} : m = SubnetSize(b.len)
  BY BlockShape
<1>2. PICK n \in Nat : n = b.net
  BY BlockShape
<1>3. PICK e \in Nat : e = n + m - 1
  BY <1>1
<1>4. a \in Nat /\ n <= a /\ a <= e
  BY <1>1, <1>2, <1>3, BlockInterval, Wraps
<1>5. Broadcast(a, b.len) = e
  BY <1>1, <1>2, <1>3, BlockInterval
<1>6. PICK i \in Address : i = inc(a)
  BY Wraps
<1>7. /\ a < e => i = a + 1 /\ InBlock(b, i)
      /\ a = e => ~InBlock(b, i)
  BY <1>1, <1>2, <1>3, <1>6, WalkLeaves
<1>8. \A x, k \in Nat : Run(x, k) \in Seq(Nat) /\ Run(x, 0) = <<>>
  BY RunOps
<1>9. CASE a = e /\ a = n
  <2>1. m = 1
    BY <1>1, <1>3, <1>9
  <2>2. HostCount(b) = 0
    BY <1>1, <2>1 DEF HostCount
  <2>3. Onward(b, a) = <<>>
    <3>1. Onward(b, a) = Run(n + 1, 0)
      BY <1>2, <1>9, <2>2 DEF Onward
    <3>2. QED
      BY <1>8, <3>1
  <2>4. Onward(b, i) = <<>>
    BY <1>7, <1>9 DEF Onward
  <2>5. <<>> \o <<>> = <<>>
    BY EmptyConcat
  <2>6. QED
    BY <1>2, <1>6, <1>9, <2>3, <2>4, <2>5
<1>10. CASE a = e /\ a # n
  <2>1. b.net + SubnetSize(b.len) - 1 - a = 0
    BY <1>1, <1>2, <1>3, <1>10
  <2>2. Onward(b, a) = <<>>
    BY <1>2, <1>4, <1>8, <1>10, <2>1 DEF Onward
  <2>3. Onward(b, i) = <<>>
    BY <1>7, <1>10 DEF Onward
  <2>4. <<>> \o <<>> = <<>>
    BY EmptyConcat
  <2>5. QED
    BY <1>5, <1>6, <1>10, <2>2, <2>3, <2>4
<1>11. CASE a < e
  <2>1. i = a + 1 /\ InBlock(b, i) /\ i # n
    BY <1>4, <1>7, <1>11
  <2>2. PICK k \in Nat : k = e - i
    BY <1>4, <1>11, <2>1
  <2>3. b.net + SubnetSize(b.len) - 1 - i = k
    BY <1>1, <1>2, <1>3, <1>4, <2>1, <2>2
  <2>4. Onward(b, i) = Run(i, k)
    BY <1>2, <2>1, <2>3 DEF Onward
  <2>5. CASE a = n
    <3>1. HostCount(b) = k
      BY <1>1, <1>3, <2>1, <2>2, <2>5 DEF HostCount
    <3>2. Onward(b, a) = Run(i, k)
      BY <1>2, <2>1, <2>5, <3>1 DEF Onward
    <3>3. <<>> \o Run(i, k) = Run(i, k)
      BY <1>8, <2>1, EmptyConcat
    <3>4. QED
      BY <1>2, <1>6, <2>4, <2>5, <3>2, <3>3
  <2>6. CASE a # n
    <3>1. b.net + SubnetSize(b.len) - 1 - a = k + 1
      BY <1>1, <1>2, <1>3, <2>1, <2>2, <1>4
    <3>2. Onward(b, a) = Run(a, k + 1)
      BY <1>2, <2>6, <3>1 DEF Onward
    <3>3. PICK h \in Nat \ {0} : h = k + 1 /\ h - 1 = k
      OBVIOUS
    <3>4. Run(a, h) = <<a>> \o Run(a + 1, h - 1)
      BY <1>4, RunHeadTail
    <3>5. Onward(b, a) = <<a>> \o Onward(b, i)
      BY <2>1, <2>4, <3>2, <3>3, <3>4
    <3>6. a \notin {b.net, Broadcast(a, b.len)}
      BY <1>2, <1>4, <1>5, <1>11, <2>6
    <3>7. QED
      BY <1>6, <3>5, <3>6
  <2>7. QED
    BY <2>5, <2>6
<1>12. QED
  BY <1>4, <1>9, <1>10, <1>11

LEMMA OnwardWalks ==
    ASSUME NEW b \in Blocks, SubnetSize(b.len) < 2^Width
    PROVE  Walks(b, [a \in Address |-> Onward(b, a)])
<1>1. PICK g : g = [a \in Address |-> Onward(b, a)]
  OBVIOUS
<1>2. ASSUME NEW a \in Address
      PROVE  g[a] = IF ~InBlock(b, a) THEN <<>>
                    ELSE (IF a \in {b.net, Broadcast(a, b.len)} THEN <<>> ELSE <<a>>)
                           \o g[inc(a)]
  <2>1. g[a] = Onward(b, a) /\ g[inc(a)] = Onward(b, inc(a))
    BY <1>1, Wraps
  <2>2. CASE ~InBlock(b, a)
    BY <2>1, <2>2 DEF Onward
  <2>3. CASE InBlock(b, a)
    BY <2>1, <2>3, OnwardStep
  <2>4. QED
    BY <2>2, <2>3
<1>3. Walks(b, g)
  BY <1>1, <1>2 DEF Walks
<1>4. QED
  BY <1>1, <1>3

\* Whatever walks like enumerate collects what Onward says: backwards from the end
\* of the block, by the first place where it would not.
LEMMA WalksAgree ==
    ASSUME NEW b \in Blocks, SubnetSize(b.len) < 2^Width, NEW f, Walks(b, f)
    PROVE  f[b.net] = Onward(b, b.net)
<1>1. PICK m \in Nat \ {0} : m = SubnetSize(b.len)
  BY BlockShape
<1>2. PICK n \in Nat : n = b.net
  BY BlockShape
<1>3. PICK e \in Nat : e = n + m - 1
  BY <1>1
<1>4. ASSUME NEW a \in Address, InBlock(b, a)
      PROVE  f[a] = (IF a \in {b.net, Broadcast(a, b.len)} THEN <<>> ELSE <<a>>) \o f[inc(a)]
  BY <1>4 DEF Walks
<1>5. ASSUME NEW a \in Address, ~InBlock(b, a) PROVE f[a] = Onward(b, a)
  BY <1>5 DEF Walks, Onward
<1>6. n \in Address /\ e \in Address
  <2>1. PICK N \in Nat : N = 2^Width
    BY SubnetSizeAssumption
  <2>2. n + m <= N
    BY <1>1, <1>2, <2>1, BlockShape
  <2>3. QED
    BY <1>3, <2>1, <2>2 DEF Address
<1>7. \A a \in Nat : n <= a /\ a <= e => a \in Address /\ InBlock(b, a)
  <2>1. ASSUME NEW a \in Nat, n <= a, a <= e PROVE a \in Address
    BY <1>6, <2>1, SubnetSizeAssumption DEF Address
  <2>2. QED
    BY <1>1, <1>2, <1>3, <2>1, BlockInterval
<1>8. PICK Bad : Bad = {k \in 0 .. m - 1 : f[e - k] # Onward(b, e - k)}
  OBVIOUS
<1>9. Bad = {}
  <2> SUFFICES ASSUME Bad # {} PROVE FALSE
    OBVIOUS
  <2>1. Bad \subseteq Nat
    BY <1>8
  <2>2. PICK k \in Bad : \A j \in Bad : k <= j
    BY <2>1, LeastElement
  <2>3. k \in 0 .. m - 1 /\ f[e - k] # Onward(b, e - k)
    BY <1>8, <2>2
  <2>4. PICK a \in Address : a = e - k /\ a \in Nat /\ n <= a /\ a <= e /\ InBlock(b, a)
    BY <1>3, <1>7, <2>3
  <2>5. PICK i \in Address : i = inc(a)
    BY Wraps
  <2>6. f[i] = Onward(b, i)
    <3>1. CASE a = e
      BY <1>1, <1>2, <1>3, <1>5, <2>4, <2>5, <3>1, WalkLeaves
    <3>2. CASE a # e
      <4>1. a < e
        BY <2>4, <3>2
      <4>2. i = a + 1
        BY <1>1, <1>2, <1>3, <2>4, <2>5, <4>1, WalkLeaves
      <4>3. PICK j \in 0 .. m - 1 : j = k - 1 /\ e - j = i
        BY <2>3, <2>4, <4>1, <4>2
      <4>4. j \notin Bad
        BY <2>2, <2>3, <4>3
      <4>5. QED
        BY <1>8, <4>3, <4>4
    <3>3. QED
      BY <3>1, <3>2
  <2>7. f[a] = Onward(b, a)
    <3>1. f[a] = (IF a \in {b.net, Broadcast(a, b.len)} THEN <<>> ELSE <<a>>) \o f[inc(a)]
      BY <1>4, <2>4
    <3>2. Onward(b, a) = (IF a \in {b.net, Broadcast(a, b.len)} THEN <<>> ELSE <<a>>)
                            \o Onward(b, inc(a))
      BY <2>4, OnwardStep
    <3>3. f[inc(a)] = Onward(b, inc(a))
      BY <2>5, <2>6
    <3>4. QED
      BY <3>1, <3>2, <3>3
  <2>8. QED
    BY <2>3, <2>4, <2>7
<1>10. PICK k \in 0 .. m - 1 : e - k = n
  BY <1>3
<1>11. k \notin Bad
  BY <1>9
<1>12. QED
  BY <1>2, <1>8, <1>10, <1>11

\* enumerate lists the addresses between network and broadcast, in order.
LEMMA EnumerateRun ==
    ASSUME NEW b \in Blocks, SubnetSize(b.len) < 2^Width
    PROVE  enumerate(b) = Run(b.net + 1, HostCount(b))
<1>1. PICK f : Walks(b, f) /\ enumerate(b) = f[b.net]
  BY OnwardWalks, EnumerateWalks
<1>2. enumerate(b) = Onward(b, b.net)
  BY <1>1, WalksAgree
<1>3. b.net \in Address /\ InBlock(b, b.net)
  <2>1. PICK m \in Nat \ {0} : m = SubnetSize(b.len)
    BY BlockShape
  <2>2. PICK n \in Nat : n = b.net
    BY BlockShape
  <2>3. PICK N \in Nat : N = 2^Width
    BY SubnetSizeAssumption
  <2>4. n + m <= N
    BY <2>1, <2>2, <2>3, BlockShape
  <2>5. n \in Address
    BY <2>3, <2>4 DEF Address
  <2>6. QED
    BY <2>1, <2>2, <2>5, BlockInterval
<1>4. QED
  BY <1>2, <1>3 DEF Onward

LEMMA HostsRange ==
    ASSUME NEW b \in Blocks
    PROVE  /\ Hosts(b) = b.net + 1 .. b.net + HostCount(b)
           /\ HostCount(b) \in Nat /\ HostCount(b) < SubnetSize(b.len)
           /\ b.net + HostCount(b) < 2^Width
<1>1. PICK m \in Nat \ {0} : m = SubnetSize(b.len)
  BY BlockShape
<1>2. PICK n \in Nat : n = b.net
  BY BlockShape
<1>3. PICK N \in Nat : N = 2^Width
  BY SubnetSizeAssumption
<1>4. n + m <= N
  BY <1>1, <1>2, <1>3, BlockShape
<1>5. PICK h \in Nat : h = HostCount(b) /\ h = IF m > 2 THEN m - 2 ELSE 0
  BY <1>1 DEF HostCount
<1>6. ASSUME NEW a \in Address
      PROVE  /\ a \in Nat
             /\ InBlock(b, a) <=> n <= a /\ a <= n + m - 1
  BY <1>1, <1>2, BlockInterval, Wraps
<1>7. ASSUME NEW a \in n + 1 .. n + h PROVE a \in Hosts(b)
  <2>1. a \in Address
    BY <1>3, <1>4, <1>5 DEF Address
  <2>2. /\ n <= a /\ a <= n + m - 1
        /\ a # n /\ a # n + m - 1
    BY <1>5
  <2>3. QED
    BY <1>1, <1>2, <1>6, <2>1, <2>2 DEF Hosts, Members
<1>8. ASSUME NEW a \in Hosts(b) PROVE a \in n + 1 .. n + h
  <2>1. a \in Address /\ InBlock(b, a) /\ a # n /\ a # n + m - 1
    BY <1>1, <1>2 DEF Hosts, Members
  <2>2. a \in Nat /\ n <= a /\ a <= n + m - 1
    BY <1>6, <2>1
  <2>3. QED
    BY <1>5, <2>1, <2>2
<1>9. h < m
  BY <1>5
<1>10. Hosts(b) = n + 1 .. n + h
  BY <1>7, <1>8
<1>11. n + h < N
  BY <1>4, <1>9
<1>12. QED
  BY <1>1, <1>2, <1>3, <1>5, <1>9, <1>10, <1>11

\* An accepted target is enumerated to the end, and its list names every host of
\* it once, in ascending order, and neither the network nor the broadcast address,
\* at whatever end of the address space the target lies (enumerate, inc).
THEOREM EnumerateListsHosts ==
    ASSUME NEW b \in Blocks, Validate(b, Local)
    PROVE  /\ enumerate(b) \in Seq(Address)
           /\ ToSet(enumerate(b)) = Hosts(b)
           /\ \A j, k \in 1 .. Len(enumerate(b)) :
                 j < k => enumerate(b)[j] < enumerate(b)[k]
<1>1. SubnetSize(b.len) < 2^Width
  <2>1. PICK N \in Nat : N = 2^Width
    BY SubnetSizeAssumption
  <2>2. PICK m \in Nat : m = SubnetSize(b.len)
    BY BlockShape
  <2>3. QED
    BY <2>1, <2>2, WidthAssumption DEF Validate
<1>2. PICK n \in Nat : n = b.net + 1
  BY BlockShape
<1>3. PICK h \in Nat : h = HostCount(b)
  BY HostsRange
<1>4. enumerate(b) = Run(n, h)
  BY <1>1, <1>2, <1>3, EnumerateRun
<1>5. ToSet(enumerate(b)) = Hosts(b)
  <2>1. n + h - 1 = b.net + HostCount(b)
    BY <1>2, <1>3, BlockShape
  <2>2. QED
    BY <1>2, <1>4, <2>1, RunOps, HostsRange
<1>6. enumerate(b) \in Seq(Address)
  <2>1. Run(n, h) \in Seq(Nat) /\ Len(Run(n, h)) = h
    BY RunOps
  <2>2. \A j \in 1 .. h : Run(n, h)[j] \in ToSet(Run(n, h))
    BY <2>1 DEF ToSet
  <2>3. Hosts(b) \subseteq Address
    BY DEF Hosts, Members
  <2>4. QED
    BY <1>4, <1>5, <2>1, <2>2, <2>3
<1>7. \A j, k \in 1 .. Len(enumerate(b)) : j < k => enumerate(b)[j] < enumerate(b)[k]
  <2>1. Len(Run(n, h)) = h
    BY RunOps
  <2>2. \A j, k \in 1 .. h : j < k => Run(n, h)[j] < Run(n, h)[k]
    BY DEF Run
  <2>3. QED
    BY <1>4, <2>1, <2>2
<1>8. QED
  BY <1>5, <1>6, <1>7

-----------------------------------------------------------------------------
(* One scan: its record s, its workers W, its counter d, the nudges N and  *)
(* the events r.                                                           *)

WorkerState ==
    [pc : {"ready", "count"}] \cup [pc : {"nudge"}, addr : Address]
        \cup [pc : {"progress"}, done : Nat]

ScanRecord ==
    [pc : {"unused", "feed", "abort", "read", "result", "error", "reset", "ended"},
     target : Blocks, jobs : Seq(Nat), total : Nat]
SaidRecord == [last : {"none", "progress", "result", "error"}, full : BOOLEAN]

SweepType(s, W, d, N, r) ==
    /\ s \in ScanRecord
    /\ W \in [Workers -> WorkerState]
    /\ d \in Nat
    /\ N \in [Address -> Nat]
    /\ r \in SaidRecord

\* How many hosts the feeder has handed out, which ones, and the workers that have
\* one and have not counted it.
Fed(s) == s.total - Len(s.jobs)
Taken(s) == s.target.net + 1 .. s.target.net + Fed(s)
Owing(W) == {w \in Workers : W[w].pc \in {"nudge", "count"}}
Nudging(W, w, a) == W[w].pc = "nudge" /\ W[w].addr = a

\* The jobs are the rest of the hosts of the target.
JobsLeft(s) ==
    /\ Len(s.jobs) <= s.total
    /\ s.pc = "unused" => s.total = 0
    /\ s.pc # "unused" =>
          /\ SubnetSize(s.target.len) <= MaxHosts
          /\ s.total = HostCount(s.target)
          /\ s.jobs = Run(s.target.net + 1 + Fed(s), Len(s.jobs))
    /\ s.pc \in {"read", "result"} => s.jobs = <<>>

\* The counter misses the hosts that are still with a worker.
Counted(s, W, d) == d + Cardinality(Owing(W)) = Fed(s)

\* A host that was handed out has been nudged once, or one worker is about to.
NudgedOnce(s, W, N) ==
    /\ \A a \in Address, w \in Workers : Nudging(W, w, a) => a \in Taken(s) /\ N[a] = 0
    /\ \A a \in Taken(s) \cap Address : (\A w \in Workers : ~Nudging(W, w, a)) => N[a] = 1
    /\ \A a \in Address \ Taken(s) : N[a] = 0
    /\ \A a \in Address, w, v \in Workers : Nudging(W, w, a) /\ Nudging(W, v, a) => w = v

\* The report of the last host has been made, or its worker is about to make it.
LastReported(s, W, d, r) ==
    d = s.total /\ s.total > 0 =>
        r.full \/ \E w \in Workers : W[w].pc = "progress" /\ W[w].done = s.total

Swept(s, W, d, N, r) ==
    /\ SweepType(s, W, d, N, r)
    /\ JobsLeft(s)
    /\ Counted(s, W, d)
    /\ NudgedOnce(s, W, N)
    /\ LastReported(s, W, d, r)

SweepInv ==
    /\ scanning \in BOOLEAN
    /\ DOMAIN done = ScanId /\ DOMAIN nudged = ScanId
    /\ \A i \in ScanId : Swept(scan[i], worker[i], done[i], nudged[i], said[i])

-----------------------------------------------------------------------------
(* What one step does to a scan.                                           *)

\* The target of a scan that has begun, and the hosts it has to hand out.
LEMMA ScanShape ==
    ASSUME NEW s, NEW W, NEW d, NEW N, NEW r, Swept(s, W, d, N, r)
    PROVE  /\ s.total \in Nat /\ Len(s.jobs) \in Nat /\ Fed(s) \in Nat /\ Fed(s) <= s.total
           /\ s.target \in Blocks /\ s.target.net \in Nat
           /\ IsFiniteSet(Owing(W)) /\ Cardinality(Owing(W)) \in Nat
           /\ d <= Fed(s) /\ d \in Nat
           /\ s.pc # "unused" => Taken(s) \subseteq Address
<1>1. /\ s.total \in Nat /\ s.jobs \in Seq(Nat) /\ s.target \in Blocks /\ d \in Nat
  BY DEF Swept, SweepType, ScanRecord
<1>2. PICK k \in Nat : k = Len(s.jobs) /\ k <= s.total
  BY <1>1 DEF Swept, JobsLeft
<1>3. Fed(s) \in Nat /\ Fed(s) <= s.total
  BY <1>1, <1>2 DEF Fed
<1>4. IsFiniteSet(Owing(W)) /\ Cardinality(Owing(W)) \in Nat
  <2>1. Owing(W) \subseteq Workers
    BY DEF Owing
  <2>2. QED
    BY <2>1, ScanAssumption, FS_Subset, FS_CardinalityType
<1>5. d <= Fed(s)
  BY <1>1, <1>3, <1>4 DEF Swept, Counted
<1>6. s.target.net \in Nat
  BY <1>1, BlockShape
<1>7. ASSUME s.pc # "unused" PROVE Taken(s) \subseteq Address
  <2>1. Fed(s) <= HostCount(s.target)
    BY <1>3, <1>7 DEF Swept, JobsLeft
  <2>2. PICK M \in Nat : M = 2^Width
    BY SubnetSizeAssumption
  <2>3. PICK n \in Nat : n = s.target.net
    BY <1>6
  <2>4. PICK h \in Nat : h = HostCount(s.target) /\ n + h < M
    BY <1>1, <2>2, <2>3, HostsRange
  <2>5. PICK f \in Nat : f = Fed(s) /\ f <= h
    BY <1>3, <2>1, <2>4
  <2>6. n + 1 .. n + f \subseteq 0 .. M - 1
    BY <2>4, <2>5
  <2>7. QED
    BY <2>2, <2>3, <2>5, <2>6 DEF Taken, Address
<1>8. QED
  BY <1>1, <1>2, <1>3, <1>4, <1>5, <1>6, <1>7

LEMMA BeginSwept ==
    ASSUME NEW s, NEW W, NEW d, NEW N, NEW r, Swept(s, W, d, N, r), s.pc = "unused",
           NEW b \in Blocks, SubnetSize(b.len) <= MaxHosts,
           NEW t, t = [pc |-> "feed", target |-> b,
                       jobs |-> enumerate(b), total |-> Len(enumerate(b))]
    PROVE  Swept(t, W, d, N, r)
<1>1. SubnetSize(b.len) < 2^Width
  <2>1. PICK K \in Nat : K = 2^Width
    BY SubnetSizeAssumption
  <2>2. PICK m \in Nat : m = SubnetSize(b.len)
    BY BlockShape
  <2>3. QED
    BY <2>1, <2>2, WidthAssumption
<1>2. PICK n \in Nat : n = b.net + 1
  BY BlockShape
<1>3. PICK h \in Nat : h = HostCount(b)
  BY HostsRange
<1>4. enumerate(b) = Run(n, h) /\ Run(n, h) \in Seq(Nat) /\ Len(Run(n, h)) = h
  BY <1>1, <1>2, <1>3, EnumerateRun, RunOps
<1>5. /\ t.pc = "feed" /\ t.target = b /\ t.jobs = Run(n, h) /\ t.total = h
      /\ t \in ScanRecord
  BY <1>4 DEF ScanRecord
<1>6. s.total = 0 /\ Fed(s) = 0 /\ Fed(t) = 0
  <2>1. s.total = 0
    BY DEF Swept, JobsLeft
  <2>2. Fed(t) = 0
    BY <1>4, <1>5 DEF Fed
  <2>3. QED
    BY <2>1, <2>2, ScanShape
<1>7. Taken(s) = {} /\ Taken(t) = {}
  <2>1. s.target.net \in Nat /\ b.net \in Nat
    BY ScanShape, BlockShape
  <2>2. QED
    BY <1>5, <1>6, <2>1 DEF Taken
<1>8. SweepType(t, W, d, N, r)
  BY <1>5 DEF Swept, SweepType
<1>9. JobsLeft(t)
  <2>1. b.net + 1 + 0 = n
    BY <1>2, BlockShape
  <2>2. t.jobs = Run(b.net + 1 + Fed(t), Len(t.jobs)) /\ Len(t.jobs) <= t.total
    BY <1>4, <1>5, <1>6, <2>1
  <2>3. QED
    BY <1>3, <1>5, <2>2 DEF JobsLeft
<1>10. Counted(t, W, d)
  BY <1>6 DEF Swept, Counted
<1>11. NudgedOnce(t, W, N)
  BY <1>7 DEF Swept, NudgedOnce
<1>12. LastReported(t, W, d, r)
  <2>1. d = 0
    BY <1>6, ScanShape
  <2>2. QED
    BY <1>5, <2>1 DEF LastReported
<1>13. QED
  BY <1>8, <1>9, <1>10, <1>11, <1>12 DEF Swept

\* Only the place of the scan's own goroutine moves, and its last event.
LEMMA PlaceSwept ==
    ASSUME NEW s, NEW W, NEW d, NEW N, NEW r, Swept(s, W, d, N, r), s.pc # "unused",
           NEW p \in {"feed", "abort", "read", "result", "error", "reset", "ended"},
           p \in {"read", "result"} => s.jobs = <<>>,
           NEW l \in {"none", "progress", "result", "error"},
           NEW t, t = [s EXCEPT !.pc = p], NEW q, q = [r EXCEPT !.last = l]
    PROVE  Swept(t, W, d, N, q)
<1>1. /\ t.pc = p /\ t.target = s.target /\ t.jobs = s.jobs /\ t.total = s.total
      /\ t \in ScanRecord
  BY DEF Swept, SweepType, ScanRecord
<1>2. /\ q.full = r.full
      /\ q \in SaidRecord
  BY DEF Swept, SweepType, SaidRecord
<1>3. Fed(t) = Fed(s) /\ Taken(t) = Taken(s)
  BY <1>1 DEF Fed, Taken
<1>4. SweepType(t, W, d, N, q)
  BY <1>1, <1>2 DEF Swept, SweepType
<1>5. JobsLeft(t)
  BY <1>1, <1>3 DEF Swept, JobsLeft
<1>6. Counted(t, W, d) /\ NudgedOnce(t, W, N)
  BY <1>3 DEF Swept, Counted, NudgedOnce
<1>7. LastReported(t, W, d, q)
  BY <1>1, <1>2 DEF Swept, LastReported
<1>8. QED
  BY <1>4, <1>5, <1>6, <1>7 DEF Swept

LEMMA FeedSwept ==
    ASSUME NEW s, NEW W, NEW d, NEW N, NEW r, Swept(s, W, d, N, r),
           s.pc = "feed", s.jobs # <<>>, NEW w \in Workers, W[w] = Ready,
           NEW t, t = [s EXCEPT !.jobs = Tail(@)],
           NEW V, V = [W EXCEPT ![w] = [pc |-> "nudge", addr |-> Head(s.jobs)]]
    PROVE  Swept(t, V, d, N, r)
<1>1. PICK n \in Nat : n = s.target.net
  BY ScanShape
<1>2. PICK f \in Nat : f = Fed(s)
  BY ScanShape
<1>3. PICK k \in Nat \ {0} : k = Len(s.jobs) /\ f + k = s.total
  <2>1. s.jobs \in Seq(Nat) /\ s.total \in Nat
    BY DEF Swept, SweepType, ScanRecord
  <2>2. Len(s.jobs) \in Nat \ {0}
    BY <2>1, EmptySeq
  <2>3. PICK k \in Nat \ {0}, e \in Nat : k = Len(s.jobs) /\ e = s.total
    BY <2>1, <2>2
  <2>4. f = e - k
    BY <1>2, <2>3 DEF Fed
  <2>5. f + k = e
    BY <2>4
  <2>6. QED
    BY <2>3, <2>5
<1>4. PICK x \in Nat : x = n + 1 + f
  OBVIOUS
<1>5. s.jobs = Run(x, k)
  <2>1. s.target.net + 1 + Fed(s) = x
    BY <1>1, <1>2, <1>4
  <2>2. QED
    BY <1>3, <2>1 DEF Swept, JobsLeft
<1>6. Head(s.jobs) = x /\ Tail(s.jobs) = Run(x + 1, k - 1)
  BY <1>5, RunHeadTail
<1>7. Run(x + 1, k - 1) \in Seq(Nat) /\ Len(Run(x + 1, k - 1)) = k - 1
  <2>1. x + 1 \in Nat /\ k - 1 \in Nat
    OBVIOUS
  <2>2. QED
    BY <2>1, RunOps
<1>8. /\ t.pc = "feed" /\ t.target = s.target /\ t.total = s.total
      /\ t.jobs = Run(x + 1, k - 1)
      /\ t \in ScanRecord
  BY <1>6, <1>7 DEF Swept, SweepType, ScanRecord
<1>9. Fed(t) = f + 1
  BY <1>3, <1>7, <1>8 DEF Fed
<1>10. Taken(t) = Taken(s) \cup {x} /\ x \notin Taken(s)
  <2>1. Taken(s) = n + 1 .. n + f /\ Taken(t) = n + 1 .. n + (f + 1)
    BY <1>1, <1>2, <1>8, <1>9 DEF Taken
  <2>2. QED
    BY <1>4, <2>1
<1>11. x \in Address
  <2>1. PICK M \in Nat : M = 2^Width
    BY SubnetSizeAssumption
  <2>2. n + s.total < M
    <3>1. s.total = HostCount(s.target) /\ s.target \in Blocks
      BY ScanShape DEF Swept, JobsLeft
    <3>2. QED
      BY <1>1, <2>1, <3>1, HostsRange
  <2>3. x <= n + s.total /\ s.total \in Nat
    BY <1>3, <1>4
  <2>4. x < M
    BY <2>2, <2>3
  <2>5. QED
    BY <2>1, <2>4 DEF Address
<1>12. /\ W \in [Workers -> WorkerState] /\ W[w].pc = "ready"
       /\ \A v \in Workers \ {w} : V[v] = W[v]
       /\ V[w].pc = "nudge" /\ V[w].addr = x
       /\ V \in [Workers -> WorkerState]
  <2>1. W \in [Workers -> WorkerState]
    BY DEF Swept, SweepType
  <2>2. [pc |-> "nudge", addr |-> x] \in WorkerState
    BY <1>11 DEF WorkerState
  <2>3. QED
    BY <1>6, <2>1, <2>2 DEF Ready
<1>13. SweepType(t, V, d, N, r)
  BY <1>8, <1>12 DEF Swept, SweepType
<1>14. JobsLeft(t)
  <2>1. s.target.net + 1 + Fed(t) = x + 1
    <3>1. s.target.net + 1 + Fed(t) = n + 1 + (f + 1)
      BY <1>1, <1>9
    <3>2. n + 1 + (f + 1) = x + 1
      BY <1>4
    <3>3. QED
      BY <3>1, <3>2
  <2>2. Len(t.jobs) = k - 1
    BY <1>7, <1>8
  <2>3. t.jobs = Run(t.target.net + 1 + Fed(t), Len(t.jobs))
    BY <1>8, <2>1, <2>2
  <2>4. Len(t.jobs) <= t.total
    BY <1>3, <1>8, <2>2
  <2>5. QED
    BY <1>8, <2>3, <2>4 DEF Swept, JobsLeft
<1>15. Counted(t, V, d)
  <2>1. Owing(V) = Owing(W) \cup {w} /\ w \notin Owing(W)
    BY <1>12 DEF Owing
  <2>2. Cardinality(Owing(V)) = Cardinality(Owing(W)) + 1
    BY <2>1, ScanShape, FS_AddElement
  <2>3. QED
    BY <1>2, <1>9, <2>2, ScanShape DEF Swept, Counted
<1>16. NudgedOnce(t, V, N)
  <2>1. \A a \in Address, v \in Workers :
           Nudging(V, v, a) <=> Nudging(W, v, a) \/ (v = w /\ a = x)
    <3>1. \A a \in Address : Nudging(V, w, a) <=> a = x
      BY <1>12 DEF Nudging
    <3>2. \A a \in Address : ~Nudging(W, w, a)
      BY <1>12 DEF Nudging
    <3>3. \A a \in Address, v \in Workers \ {w} : Nudging(V, v, a) <=> Nudging(W, v, a)
      BY <1>12 DEF Nudging
    <3>4. QED
      BY <3>1, <3>2, <3>3
  <2>2. N[x] = 0 /\ \A v \in Workers : ~Nudging(W, v, x)
    BY <1>10, <1>11 DEF Swept, NudgedOnce
  <2>3. /\ \A a \in Address, v \in Workers : Nudging(W, v, a) => a \in Taken(s) /\ N[a] = 0
        /\ \A a \in Taken(s) \cap Address : (\A v \in Workers : ~Nudging(W, v, a)) => N[a] = 1
        /\ \A a \in Address \ Taken(s) : N[a] = 0
        /\ \A a \in Address, u, v \in Workers : Nudging(W, u, a) /\ Nudging(W, v, a) => u = v
    BY DEF Swept, NudgedOnce
  <2>4. \A a \in Address, v \in Workers : Nudging(V, v, a) => a \in Taken(t) /\ N[a] = 0
    BY <1>10, <2>1, <2>2, <2>3
  <2>5. \A a \in Taken(t) \cap Address : (\A v \in Workers : ~Nudging(V, v, a)) => N[a] = 1
    <3>1. Nudging(V, w, x)
      BY <1>11, <2>1
    <3>2. QED
      BY <1>10, <2>1, <2>3, <3>1
  <2>6. \A a \in Address \ Taken(t) : N[a] = 0
    BY <1>10, <2>3
  <2>7. \A a \in Address, u, v \in Workers : Nudging(V, u, a) /\ Nudging(V, v, a) => u = v
    BY <2>1, <2>2, <2>3
  <2>8. QED
    BY <2>4, <2>5, <2>6, <2>7 DEF NudgedOnce
<1>17. LastReported(t, V, d, r)
  BY <1>8, <1>12 DEF Swept, LastReported
<1>18. QED
  BY <1>13, <1>14, <1>15, <1>16, <1>17 DEF Swept

LEMMA NudgeSwept ==
    ASSUME NEW s, NEW W, NEW d, NEW N, NEW r, Swept(s, W, d, N, r), s.pc # "unused",
           NEW w \in Workers, W[w].pc = "nudge",
           NEW V, V = [W EXCEPT ![w] = [pc |-> "count"]],
           NEW L, L = [N EXCEPT ![W[w].addr] = @ + 1]
    PROVE  Swept(s, V, d, L, r)
<1>1. W \in [Workers -> WorkerState] /\ N \in [Address -> Nat]
  BY DEF Swept, SweepType
<1>2. PICK x \in Address : x = W[w].addr
  BY <1>1 DEF WorkerState
<1>3. /\ \A v \in Workers \ {w} : V[v] = W[v]
      /\ V[w].pc = "count" /\ V \in [Workers -> WorkerState]
  BY <1>1 DEF WorkerState
<1>4. /\ L \in [Address -> Nat] /\ L[x] = N[x] + 1
      /\ \A a \in Address \ {x} : L[a] = N[a]
  BY <1>1, <1>2
<1>5. SweepType(s, V, d, L, r)
  BY <1>3, <1>4 DEF Swept, SweepType
<1>6. Counted(s, V, d)
  <2>1. Owing(V) = Owing(W)
    BY <1>3 DEF Owing
  <2>2. QED
    BY <2>1 DEF Swept, Counted
<1>7. NudgedOnce(s, V, L)
  <2>1. Nudging(W, w, x)
    BY <1>2 DEF Nudging
  <2>2. x \in Taken(s) /\ N[x] = 0 /\ \A v \in Workers : Nudging(W, v, x) => v = w
    BY <2>1 DEF Swept, NudgedOnce
  <2>3. \A a \in Address, v \in Workers : Nudging(V, v, a) <=> Nudging(W, v, a) /\ v # w
    BY <1>3 DEF Nudging
  <2>4. \A a \in Address : Nudging(W, w, a) => a = x
    BY <1>2 DEF Nudging
  <2>5. L[x] = 1
    BY <1>4, <2>2
  <2>6. \A a \in Address, v \in Workers : Nudging(V, v, a) => a \in Taken(s) /\ L[a] = 0
    <3>1. \A a \in Address, v \in Workers : Nudging(W, v, a) => a \in Taken(s) /\ N[a] = 0
      BY DEF Swept, NudgedOnce
    <3>2. \A v \in Workers : ~Nudging(V, v, x)
      BY <2>2, <2>3
    <3>3. ASSUME NEW a \in Address, NEW v \in Workers, Nudging(V, v, a)
          PROVE  a \in Taken(s) /\ L[a] = 0
      <4>1. a # x /\ Nudging(W, v, a)
        BY <2>3, <3>2, <3>3
      <4>2. L[a] = N[a]
        BY <1>4, <4>1
      <4>3. QED
        BY <3>1, <4>1, <4>2
    <3>4. QED
      BY <3>3
  <2>7. ASSUME NEW a \in Taken(s) \cap Address, \A v \in Workers : ~Nudging(V, v, a)
        PROVE  L[a] = 1
    <3>1. CASE a = x
      BY <2>5, <3>1
    <3>2. CASE a # x
      <4>1. \A v \in Workers : ~Nudging(W, v, a)
        BY <2>3, <2>4, <2>7, <3>2
      <4>2. N[a] = 1
        BY <4>1 DEF Swept, NudgedOnce
      <4>3. QED
        BY <1>4, <3>2, <4>2
    <3>3. QED
      BY <3>1, <3>2
  <2>8. \A a \in Address \ Taken(s) : L[a] = 0
    BY <1>4, <2>2 DEF Swept, NudgedOnce
  <2>9. \A a \in Address, u, v \in Workers : Nudging(V, u, a) /\ Nudging(V, v, a) => u = v
    BY <2>3 DEF Swept, NudgedOnce
  <2>10. QED
    BY <2>6, <2>7, <2>8, <2>9 DEF NudgedOnce
<1>8. LastReported(s, V, d, r)
  BY <1>3 DEF Swept, LastReported
<1>9. QED
  BY <1>5, <1>6, <1>7, <1>8 DEF Swept

LEMMA CountSwept ==
    ASSUME NEW s, NEW W, NEW d, NEW N, NEW r, Swept(s, W, d, N, r), s.pc # "unused",
           NEW w \in Workers, W[w].pc = "count",
           NEW V, V = [W EXCEPT ![w] = [pc |-> "progress", done |-> d + 1]]
    PROVE  Swept(s, V, d + 1, N, r)
<1>1. W \in [Workers -> WorkerState] /\ d \in Nat /\ d + 1 \in Nat
  BY DEF Swept, SweepType
<1>2. /\ \A v \in Workers \ {w} : V[v] = W[v]
      /\ V[w].pc = "progress" /\ V[w].done = d + 1 /\ V \in [Workers -> WorkerState]
  BY <1>1 DEF WorkerState
<1>3. SweepType(s, V, d + 1, N, r)
  <2>1. PICK e \in Nat : e = d + 1
    BY <1>1
  <2>2. SweepType(s, V, e, N, r)
    BY <1>2 DEF Swept, SweepType
  <2>3. QED
    BY <2>1, <2>2
<1>4. Counted(s, V, d + 1)
  <2>1. Owing(V) = Owing(W) \ {w} /\ w \in Owing(W)
    BY <1>2 DEF Owing
  <2>2. Cardinality(Owing(V)) = Cardinality(Owing(W)) - 1
    BY <2>1, ScanShape, FS_RemoveElement
  <2>3. QED
    BY <1>1, <2>2, ScanShape DEF Swept, Counted
<1>5. NudgedOnce(s, V, N)
  <2>1. \A a \in Address, v \in Workers : Nudging(V, v, a) <=> Nudging(W, v, a)
    BY <1>2 DEF Nudging
  <2>2. QED
    BY <2>1 DEF Swept, NudgedOnce
<1>6. LastReported(s, V, d + 1, r)
  BY <1>2 DEF LastReported
<1>7. QED
  BY <1>3, <1>4, <1>5, <1>6 DEF Swept

OfLastHost(s, W, w) == W[w].done = s.total
Told(s, W, w, r) == [last |-> "progress", full |-> r.full \/ OfLastHost(s, W, w)]

\* The report may be dropped, unless it is that of the last host.
LEMMA ProgressSwept ==
    ASSUME NEW s, NEW W, NEW d, NEW N, NEW r, Swept(s, W, d, N, r),
           NEW w \in Workers, W[w].pc = "progress",
           NEW V, V = [W EXCEPT ![w] = Ready],
           NEW q, q = r \/ q = Told(s, W, w, r), OfLastHost(s, W, w) => q = Told(s, W, w, r)
    PROVE  Swept(s, V, d, N, q)
<1>1. /\ W \in [Workers -> WorkerState]
      /\ r \in SaidRecord
  BY DEF Swept, SweepType
<1>2. /\ \A v \in Workers \ {w} : V[v] = W[v]
      /\ V[w].pc = "ready" /\ V \in [Workers -> WorkerState]
  BY <1>1 DEF WorkerState, Ready
<1>3. /\ q \in SaidRecord
      /\ r.full => q.full
      /\ OfLastHost(s, W, w) => q.full
  <2>1. PICK p \in BOOLEAN : p = r.full
    BY <1>1 DEF SaidRecord
  <2>2. PICK e \in BOOLEAN : e = OfLastHost(s, W, w)
    BY DEF OfLastHost
  <2>3. PICK z \in BOOLEAN : z = (p \/ e)
    OBVIOUS
  <2>4. Told(s, W, w, r) = [last |-> "progress", full |-> z]
    BY <2>1, <2>2, <2>3 DEF Told
  <2>5. /\ q = r \/ q = [last |-> "progress", full |-> z]
        /\ e => q = [last |-> "progress", full |-> z]
    BY <2>2, <2>4
  <2>6. CASE q = r
    <3>1. e => r = [last |-> "progress", full |-> z]
      BY <2>5, <2>6
    <3>2. e => r.full
      <4>1. [last |-> "progress", full |-> z].full = z
        OBVIOUS
      <4>2. e => r.full = z
        BY <3>1, <4>1
      <4>3. e => z
        BY <2>3
      <4>4. QED
        BY <4>2, <4>3
    <3>3. QED
      BY <1>1, <2>2, <2>6, <3>2
  <2>7. CASE q = [last |-> "progress", full |-> z]
    <3>1. q.full = z /\ q \in SaidRecord
      BY <2>7 DEF SaidRecord
    <3>2. QED
      BY <2>1, <2>2, <2>3, <3>1
  <2>8. QED
    BY <2>5, <2>6, <2>7
<1>4. SweepType(s, V, d, N, q)
  BY <1>2, <1>3 DEF Swept, SweepType
<1>5. Counted(s, V, d)
  <2>1. Owing(V) = Owing(W)
    BY <1>2 DEF Owing
  <2>2. QED
    BY <2>1 DEF Swept, Counted
<1>6. NudgedOnce(s, V, N)
  <2>1. \A a \in Address, v \in Workers : Nudging(V, v, a) <=> Nudging(W, v, a)
    BY <1>2 DEF Nudging
  <2>2. QED
    BY <2>1 DEF Swept, NudgedOnce
<1>7. LastReported(s, V, d, q)
  BY <1>2, <1>3 DEF Swept, LastReported, OfLastHost
<1>8. QED
  BY <1>4, <1>5, <1>6, <1>7 DEF Swept

-----------------------------------------------------------------------------
(* The steps of the system, each on one scan.                              *)

OthersRest(i) ==
    /\ DOMAIN done' = ScanId /\ DOMAIN nudged' = ScanId
    /\ \A j \in ScanId \ {i} :
          /\ scan'[j] = scan[j] /\ worker'[j] = worker[j] /\ done'[j] = done[j]
          /\ nudged'[j] = nudged[j] /\ said'[j] = said[j]

LEMMA OneScanMoves ==
    ASSUME SweepInv, NEW i \in ScanId, OthersRest(i), scanning' \in BOOLEAN,
           Swept(scan'[i], worker'[i], done'[i], nudged'[i], said'[i])
    PROVE  SweepInv'
<1>1. ASSUME NEW j \in ScanId
      PROVE  Swept(scan'[j], worker'[j], done'[j], nudged'[j], said'[j])
  <2>1. CASE j = i
    BY <2>1
  <2>2. CASE j # i
    <3>1. Swept(scan[j], worker[j], done[j], nudged[j], said[j])
      BY DEF SweepInv
    <3>2. QED
      BY <2>2, <3>1 DEF OthersRest
  <2>3. QED
    BY <2>1, <2>2
<1>2. QED
  BY <1>1 DEF SweepInv, OthersRest

LEMMA BeginStep ==
    ASSUME ScanInv, SweepInv, NEW b \in Blocks, handleScan(b)
    PROVE  SweepInv'
<1>1. PICK t : t = [pc |-> "feed", target |-> b,
                    jobs |-> enumerate(b), total |-> Len(enumerate(b))]
  OBVIOUS
<1>2. PICK i \in ScanId : scan[i].pc = "unused" /\ scan' = [scan EXCEPT ![i] = t]
  BY <1>1 DEF handleScan
<1>3. UNCHANGED <<worker, done, nudged, said>> /\ scanning' = TRUE
      /\ SubnetSize(b.len) <= MaxHosts
  BY DEF handleScan, Accept, Validate
<1>4. scan'[i] = t /\ OthersRest(i)
  BY <1>2, <1>3 DEF OthersRest, ScanInv, Shape, SweepInv
<1>5. Swept(scan[i], worker[i], done[i], nudged[i], said[i])
  BY DEF SweepInv
<1>6. Swept(t, worker[i], done[i], nudged[i], said[i])
  BY <1>1, <1>2, <1>3, <1>5, BeginSwept
<1>7. QED
  BY <1>3, <1>4, <1>6, OneScanMoves

LEMMA FeedStep ==
    ASSUME ScanInv, SweepInv, NEW i \in ScanId, NEW w \in Workers, Feed(i, w)
    PROVE  SweepInv'
<1>1. PICK s, W : s = scan[i] /\ W = worker[i]
  OBVIOUS
<1>2. PICK t, V : /\ t = [s EXCEPT !.jobs = Tail(@)]
                  /\ V = [W EXCEPT ![w] = [pc |-> "nudge", addr |-> Head(s.jobs)]]
  OBVIOUS
<1>3. scan'[i] = t /\ worker'[i] = V
  BY <1>1, <1>2 DEF Feed, ScanInv, Shape
<1>4. OthersRest(i) /\ UNCHANGED <<scanning, done, nudged, said>>
  BY DEF OthersRest, Feed, ScanInv, Shape, SweepInv
<1>5. Swept(s, W, done[i], nudged[i], said[i]) /\ scanning \in BOOLEAN
  BY <1>1 DEF SweepInv
<1>6. s.pc = "feed" /\ s.jobs # <<>> /\ W[w] = Ready
  BY <1>1 DEF Feed
<1>7. Swept(t, V, done[i], nudged[i], said[i])
  BY <1>2, <1>5, <1>6, FeedSwept
<1>8. QED
  BY <1>3, <1>4, <1>5, <1>7, OneScanMoves

\* A worker that is not ready belongs to a scan that has begun.
LEMMA BusyBegun ==
    ASSUME ScanInv, NEW i \in ScanId, NEW w \in Workers, worker[i][w].pc # "ready"
    PROVE  scan[i].pc # "unused"
<1>1. ~WorkersDone(i)
  BY DEF WorkersDone, Ready
<1>2. QED
  BY <1>1 DEF ScanInv, WorkerInv

LEMMA NudgeStep ==
    ASSUME ScanInv, SweepInv, NEW i \in ScanId, NEW w \in Workers, Nudge(i, w)
    PROVE  SweepInv'
<1>1. PICK W, N : W = worker[i] /\ N = nudged[i]
  OBVIOUS
<1>2. PICK V, L : /\ V = [W EXCEPT ![w] = [pc |-> "count"]]
                  /\ L = [N EXCEPT ![W[w].addr] = @ + 1]
  OBVIOUS
<1>3. worker'[i] = V /\ nudged'[i] = L
  BY <1>1, <1>2 DEF Nudge, ScanInv, Shape, SweepInv
<1>4. OthersRest(i) /\ UNCHANGED <<scanning, scan, done, said>>
  BY DEF OthersRest, Nudge, ScanInv, Shape, SweepInv
<1>5. Swept(scan[i], W, done[i], N, said[i]) /\ scanning \in BOOLEAN
  BY <1>1 DEF SweepInv
<1>6. W[w].pc = "nudge" /\ scan[i].pc # "unused"
  BY <1>1, BusyBegun DEF Nudge
<1>7. Swept(scan[i], V, done[i], L, said[i])
  BY <1>2, <1>5, <1>6, NudgeSwept
<1>8. QED
  BY <1>3, <1>4, <1>5, <1>7, OneScanMoves

LEMMA CountStep ==
    ASSUME ScanInv, SweepInv, NEW i \in ScanId, NEW w \in Workers, Count(i, w)
    PROVE  SweepInv'
<1>1. PICK W, d : W = worker[i] /\ d = done[i]
  OBVIOUS
<1>2. PICK V : V = [W EXCEPT ![w] = [pc |-> "progress", done |-> d + 1]]
  OBVIOUS
<1>3. done'[i] = d + 1
  BY <1>1 DEF Count, SweepInv
<1>4. worker'[i] = V
  BY <1>1, <1>2, <1>3 DEF Count, ScanInv, Shape
<1>5. OthersRest(i) /\ UNCHANGED <<scanning, scan, nudged, said>>
  BY DEF OthersRest, Count, ScanInv, Shape, SweepInv
<1>6. Swept(scan[i], W, d, nudged[i], said[i]) /\ scanning \in BOOLEAN
  BY <1>1 DEF SweepInv
<1>7. W[w].pc = "count" /\ scan[i].pc # "unused"
  BY <1>1, BusyBegun DEF Count
<1>8. Swept(scan[i], V, d + 1, nudged[i], said[i])
  BY <1>2, <1>6, <1>7, CountSwept
<1>9. QED
  BY <1>3, <1>4, <1>5, <1>6, <1>8, OneScanMoves

LEMMA ProgressStep ==
    ASSUME ScanInv, SweepInv, NEW i \in ScanId, NEW w \in Workers, Progress(i, w)
    PROVE  SweepInv'
<1>1. PICK W, r, s : W = worker[i] /\ r = said[i] /\ s = scan[i]
  OBVIOUS
<1>2. PICK V, q : V = [W EXCEPT ![w] = Ready] /\ q = said'[i]
  OBVIOUS
<1>3. PICK told : told = Told(s, W, w, r)
  OBVIOUS
<1>4. ToldProgress(i, W[w].done) = [said EXCEPT ![i] = told]
  BY <1>1, <1>3 DEF ToldProgress, Told, OfLastHost, ScanInv, Shape
<1>5. (q = r \/ q = told) /\ (OfLastHost(s, W, w) => q = told)
  BY <1>1, <1>2, <1>4 DEF Progress, OfLastHost, ScanInv, Shape
<1>6. \A j \in ScanId \ {i} : said'[j] = said[j]
  BY <1>1, <1>4 DEF Progress, ScanInv, Shape
<1>7. worker'[i] = V
  BY <1>1, <1>2 DEF Progress, ScanInv, Shape
<1>8. OthersRest(i) /\ UNCHANGED <<scanning, scan, done, nudged>>
  BY <1>6 DEF OthersRest, Progress, ScanInv, Shape, SweepInv
<1>9. Swept(s, W, done[i], nudged[i], r) /\ scanning \in BOOLEAN
  BY <1>1 DEF SweepInv
<1>10. W[w].pc = "progress"
  BY <1>1 DEF Progress
<1>11. Swept(s, V, done[i], nudged[i], q)
  <2>1. PICK d, N : d = done[i] /\ N = nudged[i]
    OBVIOUS
  <2>2. Swept(s, W, d, N, r)
    BY <1>9, <2>1
  <2>3. /\ q = r \/ q = Told(s, W, w, r)
        /\ OfLastHost(s, W, w) => q = Told(s, W, w, r)
    BY <1>3, <1>5
  <2>4. V = [W EXCEPT ![w] = Ready]
    BY <1>2
  <2>5. Swept(s, V, d, N, q)
    BY <1>10, <2>2, <2>3, <2>4, ProgressSwept
  <2>6. QED
    BY <2>1, <2>5
<1>12. QED
  BY <1>1, <1>2, <1>7, <1>8, <1>9, <1>11, OneScanMoves

\* The goroutine of the scan: TimeOut, SweepEnds, ReadBack, Report, Reset.
LEMMA PlaceStep ==
    ASSUME ScanInv, SweepInv, NEW i \in ScanId, TimeOut(i) \/ RunScan(i)
    PROVE  SweepInv'
<1>1. PICK s, r : s = scan[i] /\ r = said[i]
  OBVIOUS
<1>2. Swept(s, worker[i], done[i], nudged[i], r) /\ scanning \in BOOLEAN
  BY <1>1 DEF SweepInv
<1>3. r \in SaidRecord
  BY <1>2 DEF Swept, SweepType
<1>4. \E p \in {"feed", "abort", "read", "result", "error", "reset", "ended"} :
         /\ p \in {"read", "result"} => s.jobs = <<>>
         /\ scan' = [scan EXCEPT ![i].pc = p]
  <2>1. CASE TimeOut(i) \/ SweepEnds(i) \/ Report(i) \/ Reset(i)
    BY <1>1, <2>1 DEF TimeOut, SweepEnds, FeedEnded, Report, Reset, ScanInv, Shape
  <2>2. CASE ReadBack(i)
    <3>1. s.pc = "read"
      BY <1>1, <2>2 DEF ReadBack
    <3>2. s.jobs = <<>>
      BY <1>2, <3>1 DEF Swept, JobsLeft
    <3>3. QED
      BY <2>2, <3>2 DEF ReadBack
  <2>3. QED
    BY <2>1, <2>2 DEF RunScan
<1>5. s.pc # "unused"
  BY <1>1 DEF TimeOut, RunScan, SweepEnds, FeedEnded, ReadBack, Report, Reset
<1>6. \A j \in ScanId \ {i} : said'[j] = said[j]
  BY DEF TimeOut, RunScan, SweepEnds, ReadBack, Report, Reset, ScanInv, Shape
<1>7. \E l \in {"none", "progress", "result", "error"} : said'[i] = [r EXCEPT !.last = l]
  <2>1. CASE Report(i)
    <3>1. PICK l \in {"result", "error"} : said' = [said EXCEPT ![i].last = l]
      BY <2>1 DEF Report
    <3>2. QED
      BY <1>1, <3>1 DEF ScanInv, Shape
  <2>2. CASE said' = said
    <3>1. r = [r EXCEPT !.last = r.last]
      BY <1>3 DEF SaidRecord
    <3>2. QED
      BY <1>1, <1>3, <2>2, <3>1 DEF SaidRecord
  <2>3. QED
    BY <2>1, <2>2 DEF TimeOut, RunScan, SweepEnds, ReadBack, Reset
<1>8. PICK p \in {"feed", "abort", "read", "result", "error", "reset", "ended"} :
        (p \in {"read", "result"} => s.jobs = <<>>) /\ scan' = [scan EXCEPT ![i].pc = p]
  BY <1>4
<1>9. PICK l \in {"none", "progress", "result", "error"} : said'[i] = [r EXCEPT !.last = l]
  BY <1>7
<1>10. PICK t, q : t = [s EXCEPT !.pc = p] /\ q = [r EXCEPT !.last = l]
  OBVIOUS
<1>11. scan'[i] = t /\ said'[i] = q
  BY <1>1, <1>8, <1>9, <1>10 DEF ScanInv, Shape
<1>12. UNCHANGED <<worker, done, nudged>> /\ (scanning' = scanning \/ scanning' = FALSE)
  BY DEF TimeOut, RunScan, SweepEnds, ReadBack, Report, Reset
<1>13. OthersRest(i)
  BY <1>6, <1>8, <1>12 DEF OthersRest, ScanInv, Shape, SweepInv
<1>14. Swept(t, worker[i], done[i], nudged[i], q)
  BY <1>2, <1>5, <1>8, <1>10, PlaceSwept
<1>15. QED
  BY <1>2, <1>11, <1>12, <1>13, <1>14, OneScanMoves

LEMMA InitSwept == Init => SweepInv
<1> SUFFICES ASSUME Init PROVE SweepInv
  OBVIOUS
<1>1. ASSUME NEW i \in ScanId PROVE Swept(scan[i], worker[i], done[i], nudged[i], said[i])
  <2>1. PICK s, W, N, r : s = Unused /\ W = [w \in Workers |-> Ready]
                          /\ N = [a \in Address |-> 0] /\ r = [last |-> "none", full |-> FALSE]
    OBVIOUS
  <2>2. scan[i] = s /\ worker[i] = W /\ done[i] = 0 /\ nudged[i] = N /\ said[i] = r
    BY <2>1 DEF Init
  <2>3. /\ s.pc = "unused" /\ s.target = Local /\ s.jobs = <<>> /\ s.total = 0
        /\ SweepType(s, W, 0, N, r)
    BY <2>1, ScanAssumption DEF Unused, SweepType, ScanRecord, SaidRecord, WorkerState, Ready
  <2>4. Fed(s) = 0 /\ Taken(s) = {}
    <3>1. s.target.net \in Nat
      BY <2>3, ScanAssumption, BlockShape
    <3>2. Fed(s) = 0
      <4>1. Len(s.jobs) = 0
        BY <2>3
      <4>2. PICK k \in Nat, l \in Nat : k = s.total /\ l = Len(s.jobs) /\ k = 0 /\ l = 0
        BY <2>3, <4>1
      <4>3. Fed(s) = k - l
        BY <4>2 DEF Fed
      <4>4. QED
        BY <4>2, <4>3
    <3>3. QED
      BY <3>1, <3>2 DEF Taken
  <2>5. \A w \in Workers : W[w].pc = "ready"
    BY <2>1 DEF Ready
  <2>6. Owing(W) = {}
    BY <2>5 DEF Owing
  <2>7. Counted(s, W, 0)
    BY <2>4, <2>6, FS_EmptySet DEF Counted
  <2>8. NudgedOnce(s, W, N)
    BY <2>1, <2>4, <2>5 DEF NudgedOnce, Nudging
  <2>9. JobsLeft(s) /\ LastReported(s, W, 0, r)
    BY <2>3 DEF JobsLeft, LastReported
  <2>10. QED
    BY <2>2, <2>3, <2>7, <2>8, <2>9 DEF Swept
<1>2. QED
  BY <1>1 DEF Init, SweepInv

LEMMA NextSwept == ScanInv /\ SweepInv /\ [Next]_vars => SweepInv'
<1> SUFFICES ASSUME ScanInv, SweepInv, [Next]_vars PROVE SweepInv'
  OBVIOUS
<1>1. ASSUME NEW b \in Blocks, handleScan(b) PROVE SweepInv'
  BY <1>1, BeginStep
<1>2. ASSUME NEW i \in ScanId, RunScan(i) \/ TimeOut(i) PROVE SweepInv'
  BY <1>2, PlaceStep
<1>3. ASSUME NEW i \in ScanId, NEW w \in Workers, Work(i, w) PROVE SweepInv'
  BY <1>3, FeedStep, NudgeStep, CountStep, ProgressStep DEF Work
<1>4. CASE UNCHANGED vars
  BY <1>4 DEF vars, SweepInv
<1>5. QED
  BY <1>1, <1>2, <1>3, <1>4 DEF Next

LEMMA SweepInvariant == Spec => [](ScanInv /\ SweepInv)
<1>1. Spec => []ScanInv
  BY ScanInvariant
<1>2. QED
  BY <1>1, InitSwept, NextSwept, PTL DEF Spec

\* A sweep never hands out an address outside its target, and its counter never
\* exceeds the hosts the scan may have.
THEOREM ScanTypeCorrect == Spec => []TypeOK
<1>1. ASSUME SweepInv PROVE TypeOK
  <2>1. ASSUME NEW i \in ScanId
        PROVE  /\ scan[i].pc \in {"unused", "feed", "abort", "read", "result", "error",
                                  "reset", "ended"}
               /\ scan[i].target \in Blocks
               /\ ToSet(scan[i].jobs) \subseteq Hosts(scan[i].target)
               /\ done[i] \in 0 .. MaxHosts
    <3>1. PICK s, W, d, N, r : /\ s = scan[i] /\ W = worker[i] /\ d = done[i]
                               /\ N = nudged[i] /\ r = said[i]
      OBVIOUS
    <3>2. Swept(s, W, d, N, r)
      BY <1>1, <3>1 DEF SweepInv
    <3>3. /\ s.total \in Nat /\ Len(s.jobs) \in Nat /\ Fed(s) \in Nat /\ d \in Nat
          /\ Fed(s) <= s.total /\ d <= Fed(s) /\ s.target \in Blocks
      BY <3>2, ScanShape
    <3>4. s.pc \in {"unused", "feed", "abort", "read", "result", "error", "reset", "ended"}
          /\ s.jobs \in Seq(Nat)
      BY <3>2 DEF Swept, SweepType, ScanRecord
    <3>5. PICK M \in Nat : M = MaxHosts
      BY WidthAssumption
    <3>6. CASE s.pc = "unused"
      <4>1. s.total = 0 /\ Len(s.jobs) <= 0
        BY <3>2, <3>6 DEF Swept, JobsLeft
      <4>2. s.jobs = <<>> /\ d = 0
        BY <3>3, <3>4, <4>1, EmptySeq
      <4>3. ToSet(s.jobs) = {}
        BY <4>2 DEF ToSet
      <4>4. QED
        BY <3>1, <3>3, <3>4, <3>5, <4>2, <4>3
    <3>7. CASE s.pc # "unused"
      <4>1. /\ SubnetSize(s.target.len) <= MaxHosts /\ s.total = HostCount(s.target)
            /\ s.jobs = Run(s.target.net + 1 + Fed(s), Len(s.jobs))
        BY <3>2, <3>7 DEF Swept, JobsLeft
      <4>2. PICK n \in Nat : n = s.target.net
        BY <3>3, BlockShape
      <4>3. PICK m \in Nat \ {0} : m = SubnetSize(s.target.len)
        BY <3>3, BlockShape
      <4>4. PICK f \in Nat, k \in Nat : f = Fed(s) /\ k = Len(s.jobs) /\ f + k = s.total
        BY <3>3 DEF Fed
      <4>5. /\ Hosts(s.target) = n + 1 .. n + s.total
            /\ s.total < m
        BY <3>3, <4>1, <4>2, <4>3, HostsRange
      <4>6. d \in 0 .. M
        BY <3>3, <3>5, <4>1, <4>3, <4>5
      <4>7. s.jobs = Run(n + 1 + f, k)
        BY <4>1, <4>2, <4>4
      <4>8. ToSet(s.jobs) = n + 1 + f .. n + 1 + f + k - 1
        BY <4>7, RunOps
      <4>9. ToSet(s.jobs) \subseteq Hosts(s.target)
        BY <4>4, <4>5, <4>8
      <4>10. QED
        BY <3>1, <3>3, <3>4, <3>5, <4>6, <4>9
    <3>8. QED
      BY <3>6, <3>7
  <2>2. QED
    BY <1>1, <2>1 DEF TypeOK, SweepInv
<1>2. QED
  BY <1>1, SweepInvariant, PTL

\* A scan that reports a result has nudged every host of its target exactly once,
\* nothing outside it, and has told the page that all of them are done, whatever
\* the number of workers and the order they were in.
THEOREM ResultAlwaysCoversTarget == Spec => []ResultCoversTarget
<1>1. ASSUME ScanInv, SweepInv PROVE ResultCoversTarget
  <2>1. ASSUME NEW i \in ScanId, scan[i].pc = "result"
        PROVE  /\ \A a \in Address :
                     nudged[i][a] = IF a \in Hosts(scan[i].target) THEN 1 ELSE 0
               /\ scan[i].total > 0 => said[i].full
    <3>1. PICK s, W, d, N, r : /\ s = scan[i] /\ W = worker[i] /\ d = done[i]
                               /\ N = nudged[i] /\ r = said[i]
      OBVIOUS
    <3>2. Swept(s, W, d, N, r) /\ s.pc = "result"
      BY <1>1, <2>1, <3>1 DEF SweepInv
    <3>3. \A w \in Workers : W[w].pc = "ready"
      BY <1>1, <2>1, <3>1 DEF ScanInv, WorkerInv, WorkersDone, Ready
    <3>4. /\ s.total \in Nat /\ d \in Nat /\ s.target \in Blocks /\ Fed(s) \in Nat
      BY <3>2, ScanShape
    <3>5. s.jobs = <<>> /\ s.total = HostCount(s.target)
      BY <3>2 DEF Swept, JobsLeft
    <3>6. Fed(s) = s.total
      BY <3>4, <3>5 DEF Fed
    <3>7. Taken(s) = Hosts(s.target)
      BY <3>4, <3>5, <3>6, HostsRange DEF Taken
    <3>8. \A a \in Address : N[a] = IF a \in Hosts(s.target) THEN 1 ELSE 0
      <4>1. \A a \in Address, w \in Workers : ~Nudging(W, w, a)
        BY <3>3 DEF Nudging
      <4>2. QED
        BY <3>2, <3>7, <4>1 DEF Swept, NudgedOnce
    <3>9. d = s.total
      <4>1. Owing(W) = {}
        BY <3>3 DEF Owing
      <4>2. QED
        BY <3>2, <3>4, <3>6, <4>1, FS_EmptySet DEF Swept, Counted
    <3>10. s.total > 0 => r.full
      BY <3>2, <3>3, <3>9 DEF Swept, LastReported
    <3>11. QED
      BY <3>1, <3>8, <3>10
  <2>2. QED
    BY <2>1 DEF ResultCoversTarget
<1>2. QED
  BY <1>1, SweepInvariant, PTL

-----------------------------------------------------------------------------
(* A scan runs out of steps.                                               *)

Within(W, p) == {w \in Workers : W[w].pc = p}
At(W, p) == Cardinality(Within(W, p))
Rank(p) ==
    CASE p = "feed" -> 5
      [] p \in {"abort", "read"} -> 4
      [] p \in {"result", "error"} -> 3
      [] p = "reset" -> 2
      [] OTHER -> 1

\* The steps that a scan has left, at most: four for each host not yet handed out.
Left(s, W) ==
    4 * Len(s.jobs) + 3 * At(W, "nudge") + 2 * At(W, "count") + At(W, "progress")
      + Rank(s.pc)

LEMMA AtType == ASSUME NEW W, NEW p PROVE At(W, p) \in Nat /\ IsFiniteSet(Within(W, p))
<1>1. Within(W, p) \subseteq Workers
  BY DEF Within
<1>2. QED
  BY <1>1, ScanAssumption, FS_Subset, FS_CardinalityType DEF At

LEMMA WorkerTurns ==
    ASSUME NEW W, NEW V, NEW w \in Workers, \A v \in Workers \ {w} : V[v] = W[v],
           NEW p, NEW q, p # q, W[w].pc = p, V[w].pc = q
    PROVE  /\ At(V, p) = At(W, p) - 1
           /\ At(V, q) = At(W, q) + 1
           /\ \A o : o # p /\ o # q => At(V, o) = At(W, o)
<1>1. Within(V, p) = Within(W, p) \ {w} /\ w \in Within(W, p)
  BY DEF Within
<1>2. At(V, p) = At(W, p) - 1
  <2>1. PICK S : S = Within(W, p) /\ IsFiniteSet(S)
    BY AtType
  <2>2. Cardinality(S \ {w}) = Cardinality(S) - 1
    BY <1>1, <2>1, FS_RemoveElement
  <2>3. QED
    BY <1>1, <2>1, <2>2 DEF At
<1>3. Within(V, q) = Within(W, q) \cup {w} /\ w \notin Within(W, q)
  BY DEF Within
<1>4. At(V, q) = At(W, q) + 1
  <2>1. PICK S : S = Within(W, q) /\ IsFiniteSet(S)
    BY AtType
  <2>2. Cardinality(S \cup {w}) = Cardinality(S) + 1
    BY <1>3, <2>1, FS_AddElement
  <2>3. QED
    BY <1>3, <2>1, <2>2 DEF At
<1>5. ASSUME NEW o, o # p, o # q PROVE At(V, o) = At(W, o)
  <2>1. Within(V, o) = Within(W, o)
    BY <1>5 DEF Within
  <2>2. QED
    BY <2>1 DEF At
<1>6. QED
  BY <1>2, <1>4, <1>5

LEMMA Ranks ==
    /\ Rank("feed") = 5 /\ Rank("abort") = 4 /\ Rank("read") = 4
    /\ Rank("result") = 3 /\ Rank("error") = 3 /\ Rank("reset") = 2 /\ Rank("ended") = 1
BY DEF Rank

LEMMA RankType == ASSUME NEW p PROVE Rank(p) \in Nat
BY DEF Rank

LEMMA BeginNudge ==
    ASSUME NEW W, NEW V, NEW w \in Workers, \A v \in Workers \ {w} : V[v] = W[v],
           W[w].pc = "ready", V[w].pc = "nudge"
    PROVE  /\ At(V, "nudge") = At(W, "nudge") + 1 /\ At(V, "count") = At(W, "count")
           /\ At(V, "progress") = At(W, "progress")
<1>1. PICK p, q : p = "ready" /\ q = "nudge"
  OBVIOUS
<1>2. p # q /\ W[w].pc = p /\ V[w].pc = q
  BY <1>1
<1>3. /\ At(V, p) = At(W, p) - 1 /\ At(V, q) = At(W, q) + 1
      /\ \A o : o # p /\ o # q => At(V, o) = At(W, o)
  BY <1>2, WorkerTurns
<1>4. QED
  BY <1>1, <1>3

LEMMA EndNudge ==
    ASSUME NEW W, NEW V, NEW w \in Workers, \A v \in Workers \ {w} : V[v] = W[v],
           W[w].pc = "nudge", V[w].pc = "count"
    PROVE  /\ At(V, "nudge") = At(W, "nudge") - 1 /\ At(V, "count") = At(W, "count") + 1
           /\ At(V, "progress") = At(W, "progress")
<1>1. PICK p, q : p = "nudge" /\ q = "count"
  OBVIOUS
<1>2. p # q /\ W[w].pc = p /\ V[w].pc = q
  BY <1>1
<1>3. /\ At(V, p) = At(W, p) - 1 /\ At(V, q) = At(W, q) + 1
      /\ \A o : o # p /\ o # q => At(V, o) = At(W, o)
  BY <1>2, WorkerTurns
<1>4. QED
  BY <1>1, <1>3

LEMMA EndCount ==
    ASSUME NEW W, NEW V, NEW w \in Workers, \A v \in Workers \ {w} : V[v] = W[v],
           W[w].pc = "count", V[w].pc = "progress"
    PROVE  /\ At(V, "nudge") = At(W, "nudge") /\ At(V, "count") = At(W, "count") - 1
           /\ At(V, "progress") = At(W, "progress") + 1
<1>1. PICK p, q : p = "count" /\ q = "progress"
  OBVIOUS
<1>2. p # q /\ W[w].pc = p /\ V[w].pc = q
  BY <1>1
<1>3. /\ At(V, p) = At(W, p) - 1 /\ At(V, q) = At(W, q) + 1
      /\ \A o : o # p /\ o # q => At(V, o) = At(W, o)
  BY <1>2, WorkerTurns
<1>4. QED
  BY <1>1, <1>3

LEMMA EndProgress ==
    ASSUME NEW W, NEW V, NEW w \in Workers, \A v \in Workers \ {w} : V[v] = W[v],
           W[w].pc = "progress", V[w].pc = "ready"
    PROVE  /\ At(V, "nudge") = At(W, "nudge") /\ At(V, "count") = At(W, "count")
           /\ At(V, "progress") = At(W, "progress") - 1
<1>1. PICK p, q : p = "progress" /\ q = "ready"
  OBVIOUS
<1>2. p # q /\ W[w].pc = p /\ V[w].pc = q
  BY <1>1
<1>3. /\ At(V, p) = At(W, p) - 1 /\ At(V, q) = At(W, q) + 1
      /\ \A o : o # p /\ o # q => At(V, o) = At(W, o)
  BY <1>2, WorkerTurns
<1>4. QED
  BY <1>1, <1>3

\* A step of scan i, and of no other.
Steps(i) ==
    /\ \A j \in ScanId \ {i} : scan'[j] = scan[j] /\ worker'[j] = worker[j]
    /\ Left(scan'[i], worker'[i]) < Left(scan[i], worker[i])

LEMMA FeedLess ==
    ASSUME ScanInv, SweepInv, NEW i \in ScanId, NEW w \in Workers, Feed(i, w)
    PROVE  Steps(i)
<1>1. PICK s, W, t, V : s = scan[i] /\ W = worker[i] /\ t = scan'[i] /\ V = worker'[i]
  OBVIOUS
<1>2. \A j \in ScanId \ {i} : scan'[j] = scan[j] /\ worker'[j] = worker[j]
  BY DEF Feed, ScanInv, Shape
<1>3. W \in [Workers -> WorkerState] /\ s \in ScanRecord
  BY <1>1 DEF SweepInv, Swept, SweepType
<1>4. t = [s EXCEPT !.jobs = Tail(@)]
  BY <1>1 DEF Feed, ScanInv, Shape
<1>5. V = [W EXCEPT ![w] = [pc |-> "nudge", addr |-> Head(s.jobs)]]
  BY <1>1 DEF Feed, ScanInv, Shape
<1>6. s.jobs \in Seq(Nat) /\ s.jobs # <<>> /\ W[w].pc = "ready"
  BY <1>1, <1>3 DEF Feed, ScanRecord, Ready
<1>7. t.pc = s.pc /\ t.jobs = Tail(s.jobs)
  BY <1>3, <1>4 DEF ScanRecord
<1>8. PICK k \in Nat : Len(s.jobs) = k + 1 /\ Len(t.jobs) = k
  <2>1. Len(Tail(s.jobs)) = Len(s.jobs) - 1
    BY <1>6, HeadTailProperties
  <2>2. PICK l \in Nat \ {0} : l = Len(s.jobs)
    BY <1>6, EmptySeq
  <2>3. Len(t.jobs) = l - 1 /\ l - 1 \in Nat
    BY <1>7, <2>1, <2>2
  <2>4. QED
    BY <2>2, <2>3
<1>9. V[w].pc = "nudge" /\ \A v \in Workers \ {w} : V[v] = W[v]
  BY <1>3, <1>5
<1>10. PICK n \in Nat, c \in Nat, g \in Nat :
         n = At(W, "nudge") /\ c = At(W, "count") /\ g = At(W, "progress")
  BY AtType
<1>11. PICK r \in Nat : r = Rank(s.pc)
  BY RankType
<1>12. At(V, "nudge") = n + 1 /\ At(V, "count") = c /\ At(V, "progress") = g
  BY <1>6, <1>9, <1>10, BeginNudge
<1>13. Left(s, W) = 4 * (k + 1) + 3 * n + 2 * c + g + r
  BY <1>8, <1>10, <1>11 DEF Left
<1>14. Left(t, V) = 4 * k + 3 * (n + 1) + 2 * c + g + r
  BY <1>7, <1>8, <1>11, <1>12 DEF Left
<1>15. Left(t, V) < Left(s, W)
  BY <1>13, <1>14
<1>16. QED
  BY <1>1, <1>2, <1>15 DEF Steps

LEMMA WorkLess ==
    ASSUME ScanInv, SweepInv, NEW i \in ScanId, NEW w \in Workers,
           Nudge(i, w) \/ Count(i, w) \/ Progress(i, w)
    PROVE  Steps(i)
<1>1. PICK s, W, V : s = scan[i] /\ W = worker[i] /\ V = worker'[i]
  OBVIOUS
<1>2. scan' = scan /\ \A j \in ScanId \ {i} : worker'[j] = worker[j]
  BY DEF Nudge, Count, Progress, ScanInv, Shape
<1>3. W \in [Workers -> WorkerState] /\ Len(s.jobs) \in Nat
  BY <1>1 DEF SweepInv, Swept, SweepType, ScanRecord
<1>4. \A v \in Workers \ {w} : V[v] = W[v]
  BY <1>1 DEF Nudge, Count, Progress, ScanInv, Shape
<1>5. \/ W[w].pc = "nudge" /\ V[w].pc = "count"
      \/ W[w].pc = "count" /\ V[w].pc = "progress"
      \/ W[w].pc = "progress" /\ V[w].pc = "ready"
  BY <1>1 DEF Nudge, Count, Progress, ScanInv, Shape, Ready
<1>6. PICK n \in Nat, c \in Nat, g \in Nat :
         n = At(W, "nudge") /\ c = At(W, "count") /\ g = At(W, "progress")
  BY AtType
<1>7. PICK r \in Nat, k \in Nat : r = Rank(s.pc) /\ k = Len(s.jobs)
  BY <1>3, RankType
<1>8. Left(s, W) = 4 * k + 3 * n + 2 * c + g + r
  BY <1>6, <1>7 DEF Left
<1>9. CASE W[w].pc = "nudge" /\ V[w].pc = "count"
  <2>1. At(V, "nudge") = n - 1 /\ At(V, "count") = c + 1 /\ At(V, "progress") = g
    BY <1>4, <1>6, <1>9, EndNudge
  <2>2. Left(s, V) = 4 * k + 3 * (n - 1) + 2 * (c + 1) + g + r
    BY <1>7, <2>1 DEF Left
  <2>3. Left(s, V) < Left(s, W)
    BY <1>8, <2>2
  <2>4. QED
    BY <1>1, <1>2, <2>3 DEF Steps
<1>10. CASE W[w].pc = "count" /\ V[w].pc = "progress"
  <2>1. At(V, "nudge") = n /\ At(V, "count") = c - 1 /\ At(V, "progress") = g + 1
    BY <1>4, <1>6, <1>10, EndCount
  <2>2. Left(s, V) = 4 * k + 3 * n + 2 * (c - 1) + (g + 1) + r
    BY <1>7, <2>1 DEF Left
  <2>3. Left(s, V) < Left(s, W)
    BY <1>8, <2>2
  <2>4. QED
    BY <1>1, <1>2, <2>3 DEF Steps
<1>11. CASE W[w].pc = "progress" /\ V[w].pc = "ready"
  <2>1. At(V, "nudge") = n /\ At(V, "count") = c /\ At(V, "progress") = g - 1
    BY <1>4, <1>6, <1>11, EndProgress
  <2>2. Left(s, V) = 4 * k + 3 * n + 2 * c + (g - 1) + r
    BY <1>7, <2>1 DEF Left
  <2>3. Left(s, V) < Left(s, W)
    BY <1>8, <2>2
  <2>4. QED
    BY <1>1, <1>2, <2>3 DEF Steps
<1>12. QED
  BY <1>5, <1>9, <1>10, <1>11

LEMMA PlaceLess ==
    ASSUME ScanInv, SweepInv, NEW i \in ScanId, TimeOut(i) \/ RunScan(i)
    PROVE  Steps(i)
<1>1. PICK s, W, t : s = scan[i] /\ W = worker[i] /\ t = scan'[i]
  OBVIOUS
<1>2. worker' = worker /\ \A j \in ScanId \ {i} : scan'[j] = scan[j]
  BY DEF TimeOut, RunScan, SweepEnds, ReadBack, Report, Reset, ScanInv, Shape
<1>3. s \in ScanRecord /\ Len(s.jobs) \in Nat
  BY <1>1 DEF SweepInv, Swept, SweepType, ScanRecord
<1>4. \E p : t = [s EXCEPT !.pc = p] /\ Rank(p) < Rank(s.pc)
  <2>1. CASE TimeOut(i)
    <3>1. s.pc = "feed" /\ t = [s EXCEPT !.pc = "abort"]
      BY <1>1, <2>1 DEF TimeOut, ScanInv, Shape
    <3>2. QED
      BY <3>1, Ranks
  <2>2. CASE SweepEnds(i)
    <3>1. \/ s.pc = "abort" /\ t = [s EXCEPT !.pc = "error"]
          \/ s.pc = "feed" /\ t = [s EXCEPT !.pc = "read"]
      BY <1>1, <2>2 DEF SweepEnds, FeedEnded, ScanInv, Shape
    <3>2. QED
      BY <3>1, Ranks
  <2>3. CASE ReadBack(i)
    <3>1. /\ s.pc = "read"
          /\ t = [s EXCEPT !.pc = "result"] \/ t = [s EXCEPT !.pc = "error"]
      BY <1>1, <2>3 DEF ReadBack, ScanInv, Shape
    <3>2. QED
      BY <3>1, Ranks
  <2>4. CASE Report(i)
    <3>1. s.pc \in {"result", "error"} /\ t = [s EXCEPT !.pc = "reset"]
      BY <1>1, <2>4 DEF Report, ScanInv, Shape
    <3>2. QED
      BY <3>1, Ranks
  <2>5. CASE Reset(i)
    <3>1. s.pc = "reset" /\ t = [s EXCEPT !.pc = "ended"]
      BY <1>1, <2>5 DEF Reset, ScanInv, Shape
    <3>2. QED
      BY <3>1, Ranks
  <2>6. QED
    BY <2>1, <2>2, <2>3, <2>4, <2>5 DEF RunScan
<1>5. PICK p : t = [s EXCEPT !.pc = p] /\ Rank(p) < Rank(s.pc)
  BY <1>4
<1>6. t.pc = p /\ t.jobs = s.jobs
  BY <1>3, <1>5 DEF ScanRecord
<1>7. PICK n \in Nat, c \in Nat, g \in Nat :
         n = At(W, "nudge") /\ c = At(W, "count") /\ g = At(W, "progress")
  BY AtType
<1>8. PICK r \in Nat, q \in Nat, k \in Nat : r = Rank(s.pc) /\ q = Rank(p) /\ k = Len(s.jobs)
  BY <1>3, RankType
<1>9. Left(s, W) = 4 * k + 3 * n + 2 * c + g + r
  BY <1>7, <1>8 DEF Left
<1>10. Left(t, W) = 4 * k + 3 * n + 2 * c + g + q
  BY <1>6, <1>7, <1>8 DEF Left
<1>11. q < r
  BY <1>5, <1>8
<1>12. Left(t, W) < Left(s, W)
  <2>1. PICK z \in Nat : z = 4 * k + 3 * n + 2 * c + g
    OBVIOUS
  <2>2. Left(s, W) = z + r /\ Left(t, W) = z + q
    BY <1>9, <1>10, <2>1
  <2>3. QED
    BY <1>11, <2>2
<1>13. QED
  BY <1>1, <1>2, <1>12 DEF Steps

LEMMA LeftType ==
    ASSUME SweepInv, NEW i \in ScanId
    PROVE  Left(scan[i], worker[i]) \in Nat
<1>1. PICK s, W : s = scan[i] /\ W = worker[i]
  OBVIOUS
<1>2. PICK k \in Nat : k = Len(s.jobs)
  BY <1>1 DEF SweepInv, Swept, SweepType, ScanRecord
<1>3. PICK n \in Nat, c \in Nat, g \in Nat :
         n = At(W, "nudge") /\ c = At(W, "count") /\ g = At(W, "progress")
  BY AtType
<1>4. PICK r \in Nat : r = Rank(s.pc)
  BY RankType
<1>5. Left(s, W) = 4 * k + 3 * n + 2 * c + g + r
  BY <1>2, <1>3, <1>4 DEF Left
<1>6. QED
  BY <1>1, <1>5

\* Every step of a scan that was accepted leaves it less to do, and no step of another
\* scan or request gives it more: the sweep cannot go round, with or without a deadline,
\* and takes at most four steps for each host and four of its own (runScan, Sweep).
StepsRunOut ==
    \A i \in ScanId :
        /\ Left(scan[i], worker[i]) \in Nat
        /\ scan[i].pc # "unused" /\ <<scan[i], worker[i]>>' # <<scan[i], worker[i]>>
              => Left(scan[i], worker[i])' < Left(scan[i], worker[i])

THEOREM EveryScanRunsOut == Spec => [][StepsRunOut]_vars
<1>1. ScanInv /\ SweepInv /\ [Next]_vars => [StepsRunOut]_vars
  <2> SUFFICES ASSUME ScanInv, SweepInv, Next PROVE StepsRunOut
    OBVIOUS
  <2>1. ASSUME NEW i \in ScanId, Steps(i) PROVE StepsRunOut
    <3>1. ASSUME NEW j \in ScanId, <<scan[j], worker[j]>>' # <<scan[j], worker[j]>>
          PROVE  Left(scan[j], worker[j])' < Left(scan[j], worker[j])
      <4>1. j = i
        BY <2>1, <3>1 DEF Steps
      <4>2. QED
        BY <2>1, <4>1 DEF Steps
    <3>2. QED
      BY <3>1, LeftType DEF StepsRunOut
  <2>2. ASSUME NEW b \in Blocks, handleScan(b) PROVE StepsRunOut
    <3>1. worker' = worker /\ \A j \in ScanId : scan[j].pc # "unused" => scan'[j] = scan[j]
      BY <2>2 DEF handleScan, ScanInv, Shape
    <3>2. QED
      BY <3>1, LeftType DEF StepsRunOut
  <2>3. ASSUME NEW i \in ScanId, RunScan(i) \/ TimeOut(i) PROVE StepsRunOut
    BY <2>1, <2>3, PlaceLess
  <2>4. ASSUME NEW i \in ScanId, NEW w \in Workers, Work(i, w) PROVE StepsRunOut
    BY <2>1, <2>4, FeedLess, WorkLess DEF Work
  <2>5. QED
    BY <2>2, <2>3, <2>4 DEF Next
<1>2. QED
  BY <1>1, SweepInvariant, PTL DEF Spec
=============================================================================
