----------------------------- MODULE WakeProofs -----------------------------
(***************************************************************************)
(* Theorems about Wake for every set of devices, any number of wakes, any  *)
(* timeout and any resend interval.                                        *)
(***************************************************************************)
EXTENDS Wake, TLAPS

-----------------------------------------------------------------------------
(* Types, as far as the proofs need them: the counters are unbounded.      *)

Pc == {"free", "send", "head", "observe", "gate", "wait", "return", "done"}

Goroutine ==
    [pc : Pc, mac : Mac, cancelled : BOOLEAN, age : Nat, elapsed : Nat,
     ticked : BOOLEAN, sent : Nat, late : BOOLEAN]

Shape ==
    /\ task \in [Task -> Goroutine]
    /\ DOMAIN wakes \subseteq Mac /\ wakes \in [DOMAIN wakes -> Task]
    /\ blind \in [Task -> Nat]
    /\ watching \in BOOLEAN

LEMMA NewTaskTyped == \A m \in Mac : NewTask(m) \in Goroutine
BY DEF NewTask, Goroutine, Pc

\* Cancelling touches nothing but the mark of one task.
LEMMA CancelledEffect ==
    ASSUME Shape, NEW m
    PROVE  /\ Cancelled(m) \in [Task -> Goroutine]
           /\ \A t \in Task : /\ Cancelled(m)[t].pc = task[t].pc
                              /\ Cancelled(m)[t].mac = task[t].mac
<1> \A g \in Goroutine : [g EXCEPT !.cancelled = TRUE] \in Goroutine
  BY DEF Goroutine
<1>1. \A t \in Task : [task[t] EXCEPT !.cancelled = TRUE] \in Goroutine
  BY DEF Shape
<1>2. \A t \in Task : Cancelled(m)[t] \in Goroutine
  BY <1>1 DEF Shape, Cancelled
<1>3. \A t \in Task : /\ Cancelled(m)[t].pc = task[t].pc
                      /\ Cancelled(m)[t].mac = task[t].mac
  BY DEF Shape, Cancelled, Goroutine
<1>4. QED
  BY <1>2, <1>3 DEF Cancelled

\* What a step of a goroutine other than its last leaves of the registry, the
\* devices, and which tasks are started and running.
Going(t) ==
    /\ task' \in [Task -> Goroutine]
    /\ \A u \in Task : task'[u].mac = task[u].mac
    /\ \A u \in Task \ {t} : task'[u].pc = task[u].pc
    /\ task[t].pc \notin {"free", "return", "done"}
    /\ task'[t].pc \notin {"free", "done"}
    /\ wakes' = wakes /\ watching' = watching
    /\ blind' \in [Task -> Nat]

LEMMA BarrageTyped ==
    ASSUME Shape, NEW t \in Task, Barrage(t)
    PROVE  /\ blind' \in [Task -> Nat]
           /\ blind'[t] = (IF watching THEN 0 ELSE blind[t] + 1)
           /\ \A u \in Task \ {t} : blind'[u] = blind[u]
BY DEF Shape, Barrage

\* A step is one if it puts a running goroutine of the same device in place of t's.
LEMMA GoingIntro ==
    ASSUME Shape, NEW t \in Task, NEW g \in Goroutine,
           task[t].pc \notin {"free", "return", "done"},
           g.pc \notin {"free", "done"}, g.mac = task[t].mac,
           task' = [task EXCEPT ![t] = g],
           wakes' = wakes, watching' = watching, blind' \in [Task -> Nat]
    PROVE  Going(t)
<1>1. task \in [Task -> Goroutine]
  BY DEF Shape
<1>2. task' \in [Task -> Goroutine]
  BY <1>1
<1>3. task'[t] = g /\ \A u \in Task \ {t} : task'[u] = task[u]
  BY <1>1
<1>4. \A u \in Task : task'[u].mac = task[u].mac
  BY <1>3
<1>5. QED
  BY <1>2, <1>3, <1>4 DEF Going

LEMMA GoingSteps ==
    ASSUME Shape, NEW t \in Task, RunWake(t), ~Return(t)
    PROVE  Going(t)
<1> DEFINE g == task[t]
<1>1. g \in Goroutine /\ task \in [Task -> Goroutine] /\ blind \in [Task -> Nat]
  BY DEF Shape
<1>2. g.sent + 1 \in Nat /\ g.age \in Nat
  BY <1>1 DEF Goroutine
<1> HIDE DEF g
<1>3. CASE InitialSend(t)
  <2> DEFINE h == [g EXCEPT !.pc = "head", !.sent = 1]
  <2>1. task' = [task EXCEPT ![t] = h]
    BY <1>1, <1>3 DEF InitialSend, g
  <2>2. h \in Goroutine /\ h.mac = g.mac /\ h.pc \notin {"free", "done"}
    BY <1>1, <1>2 DEF Goroutine, Pc
  <2>3. /\ g.pc = "send" /\ wakes' = wakes /\ watching' = watching
        /\ blind' \in [Task -> Nat]
    BY <1>1, <1>3, BarrageTyped DEF InitialSend, g
  <2> HIDE DEF h
  <2>4. QED
    BY <2>1, <2>2, <2>3, GoingIntro DEF g
<1>4. CASE LoopHead(t)
  <2> DEFINE h == [g EXCEPT !.pc = "observe", !.elapsed = g.age]
  <2>1. task' = [task EXCEPT ![t] = h]
    BY <1>1, <1>4 DEF LoopHead, g
  <2>2. h \in Goroutine /\ h.mac = g.mac /\ h.pc \notin {"free", "done"}
    BY <1>1, <1>2 DEF Goroutine, Pc
  <2>3. /\ g.pc = "head" /\ wakes' = wakes /\ watching' = watching
        /\ blind' \in [Task -> Nat]
    BY <1>1, <1>4 DEF LoopHead, g
  <2> HIDE DEF h
  <2>4. QED
    BY <2>1, <2>2, <2>3, GoingIntro DEF g
<1>5. CASE Observe(t)
  <2>1. PICK p \in {"return", "gate"} : task' = [task EXCEPT ![t] = [g EXCEPT !.pc = p]]
    BY <1>1, <1>5 DEF Observe, g
  <2> DEFINE h == [g EXCEPT !.pc = p]
  <2>2. /\ h \in Goroutine /\ h.mac = g.mac /\ h.pc \notin {"free", "done"}
        /\ task' = [task EXCEPT ![t] = h]
    BY <1>1, <2>1 DEF Goroutine, Pc
  <2>3. /\ g.pc = "observe" /\ wakes' = wakes /\ watching' = watching
        /\ blind' \in [Task -> Nat]
    BY <1>1, <1>5 DEF Observe, g
  <2> HIDE DEF h
  <2>4. QED
    BY <2>2, <2>3, GoingIntro DEF g
<1>6. CASE GateCheck(t)
  <2> DEFINE p == IF watching THEN "wait" ELSE "return"
            h == [g EXCEPT !.pc = p]
  <2> HIDE DEF p
  <2>1. p \in {"wait", "return"} /\ task' = [task EXCEPT ![t] = h]
    BY <1>1, <1>6 DEF GateCheck, g, p
  <2>2. h \in Goroutine /\ h.mac = g.mac /\ h.pc \notin {"free", "done"}
    BY <1>1, <2>1 DEF Goroutine, Pc
  <2>3. /\ g.pc = "gate" /\ wakes' = wakes /\ watching' = watching
        /\ blind' \in [Task -> Nat]
    BY <1>1, <1>6 DEF GateCheck, g
  <2> HIDE DEF h
  <2>4. QED
    BY <2>1, <2>2, <2>3, GoingIntro DEF g
<1>7. CASE SelectCancelled(t)
  <2> DEFINE h == [g EXCEPT !.pc = "return"]
  <2>1. task' = [task EXCEPT ![t] = h]
    BY <1>1, <1>7 DEF SelectCancelled, g
  <2>2. h \in Goroutine /\ h.mac = g.mac /\ h.pc \notin {"free", "done"}
    BY <1>1, <1>2 DEF Goroutine, Pc
  <2>3. /\ g.pc = "wait" /\ wakes' = wakes /\ watching' = watching
        /\ blind' \in [Task -> Nat]
    BY <1>1, <1>7 DEF SelectCancelled, g
  <2> HIDE DEF h
  <2>4. QED
    BY <2>1, <2>2, <2>3, GoingIntro DEF g
<1>8. CASE SelectTick(t)
  <2>1. CASE ResendDue(g.elapsed)
    <3> DEFINE h == [g EXCEPT !.pc = "head", !.ticked = FALSE, !.sent = g.sent + 1]
    <3>1. task' = [task EXCEPT ![t] = h]
      BY <1>1, <1>8, <2>1 DEF SelectTick, g
    <3>2. h \in Goroutine /\ h.mac = g.mac /\ h.pc \notin {"free", "done"}
      BY <1>1, <1>2 DEF Goroutine, Pc
    <3>3. /\ g.pc = "wait" /\ wakes' = wakes /\ watching' = watching
          /\ blind' \in [Task -> Nat]
      BY <1>1, <1>8, <2>1, BarrageTyped DEF SelectTick, g
    <3> HIDE DEF h
    <3>4. QED
      BY <3>1, <3>2, <3>3, GoingIntro DEF g
  <2>2. CASE ~ResendDue(g.elapsed)
    <3> DEFINE h == [g EXCEPT !.pc = "head", !.ticked = FALSE]
    <3>1. task' = [task EXCEPT ![t] = h]
      BY <1>1, <1>8, <2>2 DEF SelectTick, g
    <3>2. h \in Goroutine /\ h.mac = g.mac /\ h.pc \notin {"free", "done"}
      BY <1>1, <1>2 DEF Goroutine, Pc
    <3>3. /\ g.pc = "wait" /\ wakes' = wakes /\ watching' = watching
          /\ blind' \in [Task -> Nat]
      BY <1>1, <1>8, <2>2 DEF SelectTick, g
    <3> HIDE DEF h
    <3>4. QED
      BY <3>1, <3>2, <3>3, GoingIntro DEF g
  <2>3. QED
    BY <2>1, <2>2
<1>9. QED
  BY <1>3, <1>4, <1>5, <1>6, <1>7, <1>8 DEF RunWake

\* A second passes for the tickers; no goroutine moves.
LEMMA TickEffect ==
    ASSUME Shape, Tick
    PROVE  /\ task' \in [Task -> Goroutine]
           /\ \A t \in Task : task'[t].pc = task[t].pc /\ task'[t].mac = task[t].mac
<1>1. ASSUME NEW t \in Task
      PROVE  /\ task'[t] \in Goroutine
             /\ task'[t].pc = task[t].pc /\ task'[t].mac = task[t].mac
  <2>1. task[t] \in Goroutine
    BY DEF Shape
  <2>2. CASE ~Ticking(t)
    BY <2>1, <2>2 DEF Tick
  <2>3. CASE Ticking(t)
    <3> DEFINE a == IF task[t].age > Timeout THEN task[t].age ELSE task[t].age + 1
               l == task[t].late \/ task[t].pc # "wait" \/ task[t].ticked
    <3>1. task'[t] = [task[t] EXCEPT !.age = a, !.ticked = TRUE, !.late = l]
      BY <2>3 DEF Tick
    <3>2. a \in Nat /\ l \in BOOLEAN
      BY <2>1, WakeAssumption DEF Goroutine
    <3>3. QED
      BY <2>1, <3>1, <3>2 DEF Goroutine
  <2>4. QED
    BY <2>2, <2>3
<1>2. QED
  BY <1>1 DEF Tick

LEMMA ShapeStep == Shape /\ [Next]_vars => Shape'
<1> SUFFICES ASSUME Shape, [Next]_vars PROVE Shape'
  OBVIOUS
<1>1. ASSUME NEW m \in Mac, handleWake(m) PROVE Shape'
  <2>1. PICK t \in Free : /\ task' = [Cancelled(m) EXCEPT ![t] = NewTask(m)]
                          /\ wakes' = Register(m, t)
                          /\ blind' = [blind EXCEPT ![t] = 0]
                          /\ UNCHANGED watching
    BY <1>1 DEF handleWake
  <2>2. task' \in [Task -> Goroutine]
    BY <2>1, NewTaskTyped, CancelledEffect DEF Free
  <2>3. QED
    BY <2>1, <2>2 DEF Shape, Register, Free
<1>2. ASSUME NEW m \in Mac, handleCancelWake(m) PROVE Shape'
  BY <1>2, CancelledEffect DEF handleCancelWake, Shape
<1>3. ASSUME NEW t \in Task, RunWake(t), ~Return(t) PROVE Shape'
  BY <1>3, GoingSteps DEF Going, Shape
<1>4. ASSUME NEW t \in Task, Return(t) PROVE Shape'
  <2>1. [NewTask(task[t].mac) EXCEPT !.pc = "done"] \in Goroutine
    BY NewTaskTyped DEF Shape, Goroutine, Pc
  <2>2. QED
    BY <1>4, <2>1 DEF Return, Shape
<1>5. CASE Tick
  BY <1>5, TickEffect DEF Tick, Shape
<1>6. CASE GateMoves
  BY <1>6 DEF GateMoves, Shape
<1>7. CASE UNCHANGED vars
  BY <1>7 DEF vars, Shape
<1>8. QED
  BY <1>1, <1>2, <1>3, <1>4, <1>5, <1>6, <1>7 DEF Next

LEMMA ShapeInit == Init => Shape
<1> SUFFICES ASSUME Init PROVE Shape
  OBVIOUS
<1>1. PICK m \in Mac : task = [t \in Task |-> [NewTask(m) EXCEPT !.pc = "free"]]
  BY DEF Init
<1>2. [NewTask(m) EXCEPT !.pc = "free"] \in Goroutine
  BY NewTaskTyped DEF Goroutine, Pc
<1>3. QED
  BY <1>1, <1>2 DEF Init, Shape

LEMMA AlwaysShape == Spec => []Shape
BY ShapeInit, ShapeStep, PTL DEF Spec

-----------------------------------------------------------------------------
(* The gate.                                                               *)

\* A barrage nobody watched is followed by nothing but the way out.
BlindInv ==
    \A t \in Task :
        \/ blind[t] = 0
        \/ blind[t] = 1 /\ ~watching /\ task[t].pc \notin {"send", "wait"}

LEMMA BlindStep == Shape /\ BlindInv /\ [Next]_vars => BlindInv'
<1> SUFFICES ASSUME Shape, BlindInv, [Next]_vars, NEW u \in Task
             PROVE  \/ blind'[u] = 0
                    \/ blind'[u] = 1 /\ ~watching' /\ task'[u].pc \notin {"send", "wait"}
  BY DEF BlindInv
<1> USE DEF BlindInv
<1>1. ASSUME NEW m \in Mac, handleWake(m)
      PROVE  \/ blind'[u] = 0
             \/ blind'[u] = 1 /\ ~watching' /\ task'[u].pc \notin {"send", "wait"}
  <2>1. PICK t \in Free : /\ task' = [Cancelled(m) EXCEPT ![t] = NewTask(m)]
                          /\ blind' = [blind EXCEPT ![t] = 0]
                          /\ UNCHANGED watching
    BY <1>1 DEF handleWake
  <2>2. CASE u = t
    BY <2>1, <2>2 DEF Shape, Free
  <2>3. CASE u # t
    BY <2>1, <2>3, CancelledEffect DEF Shape
  <2>4. QED
    BY <2>2, <2>3
<1>2. ASSUME NEW m \in Mac, handleCancelWake(m)
      PROVE  blind'[u] = blind[u] /\ watching' = watching /\ task'[u].pc = task[u].pc
  BY <1>2, CancelledEffect DEF handleCancelWake
<1>3. ASSUME NEW t \in Task, RunWake(t), ~Return(t)
      PROVE  \/ blind'[u] = 0
             \/ blind'[u] = 1 /\ ~watching' /\ task'[u].pc \notin {"send", "wait"}
  <2>1. Going(t)
    BY <1>3, GoingSteps
  <2>2. CASE u # t
    <3>1. task'[u].pc = task[u].pc /\ watching' = watching
      BY <2>1, <2>2 DEF Going
    <3>2. blind'[u] = blind[u]
      BY <1>3, <2>2, BarrageTyped DEF RunWake, InitialSend, LoopHead, Observe, GateCheck,
           SelectCancelled, SelectTick
    <3>3. QED
      BY <3>1, <3>2
  <2>3. CASE u = t
    <3>1. CASE InitialSend(t) \/ SelectTick(t)
      <4>1. task[t].pc \in {"send", "wait"} /\ task'[t].pc = "head"
        BY <3>1 DEF InitialSend, SelectTick, Shape, Goroutine
      <4>2. blind[t] = 0 /\ watching' = watching
        BY <4>1, <2>1 DEF Going
      <4>3. blind'[t] = blind[t] \/ blind'[t] = IF watching THEN 0 ELSE blind[t] + 1
        BY <3>1, BarrageTyped DEF InitialSend, SelectTick
      <4>4. QED
        BY <2>3, <4>1, <4>2, <4>3 DEF Shape
    <3>2. CASE LoopHead(t) \/ Observe(t) \/ SelectCancelled(t)
      BY <2>3, <3>2 DEF LoopHead, Observe, SelectCancelled, Shape, Goroutine
    <3>3. CASE GateCheck(t)
      BY <2>3, <3>3 DEF GateCheck, Shape, Goroutine
    <3>4. QED
      BY <1>3, <3>1, <3>2, <3>3 DEF RunWake
  <2>4. QED
    BY <2>2, <2>3
<1>4. ASSUME NEW t \in Task, Return(t)
      PROVE  \/ blind'[u] = 0
             \/ blind'[u] = 1 /\ ~watching' /\ task'[u].pc \notin {"send", "wait"}
  <2>1. [NewTask(task[t].mac) EXCEPT !.pc = "done"].pc = "done"
    BY DEF NewTask
  <2>2. QED
    BY <1>4, <2>1 DEF Return, Shape
<1>5. CASE Tick
  BY <1>5, TickEffect DEF Tick
<1>6. CASE GateMoves
  BY <1>6 DEF GateMoves
<1>7. CASE UNCHANGED vars
  BY <1>7 DEF vars
<1>8. QED
  BY <1>1, <1>2, <1>3, <1>4, <1>5, <1>6, <1>7 DEF Next

\* Without a watcher a wake puts at most one more barrage on the LAN (runWake).
THEOREM AtMostOneBarrageIsBlind == Spec => []AtMostOneBlindBarrage
<1>1. Init => BlindInv
  BY DEF Init, BlindInv
<1>2. Shape /\ BlindInv => AtMostOneBlindBarrage
  BY DEF Shape, BlindInv, AtMostOneBlindBarrage
<1>3. QED
  BY <1>1, <1>2, BlindStep, AlwaysShape, PTL DEF Spec

-----------------------------------------------------------------------------
(* The registry.                                                           *)

\* POSTs take the tasks in order.
InOrder == \A t, u \in Task : Started(t) /\ u <= t => Started(u)

LEMMA InOrderStep == Shape /\ InOrder /\ [Next]_vars => InOrder'
<1> SUFFICES ASSUME Shape, InOrder, [Next]_vars PROVE InOrder'
  OBVIOUS
<1> USE DEF InOrder, Started
<1>1. ASSUME NEW m \in Mac, handleWake(m) PROVE InOrder'
  <2>1. PICK t \in Free : /\ \A u \in Free : t <= u
                          /\ task' = [Cancelled(m) EXCEPT ![t] = NewTask(m)]
    BY <1>1 DEF handleWake
  <2>2. \A u \in Task \ {t} : task'[u].pc = task[u].pc
    BY <2>1, CancelledEffect
  <2>3. task'[t].pc = "send"
    BY <2>1, CancelledEffect DEF Free, NewTask
  <2>4. \A u, v \in Task : u < v \/ v <= u
    BY WakeAssumption DEF Task
  <2>5. \A u \in Task : u <= t => Started(u)'
    <3>1. SUFFICES ASSUME NEW u \in Task, u <= t, u # t PROVE Started(u)
      BY <2>2, <2>3
    <3>2. u \notin Free
      BY <2>1, <3>1, WakeAssumption DEF Free, Task
    <3>3. QED
      BY <3>2 DEF Free
  <2>6. SUFFICES ASSUME NEW u \in Task, NEW v \in Task, Started(u)', v <= u
                 PROVE  Started(v)'
    OBVIOUS
  <2>7. CASE u = t
    BY <2>5, <2>6, <2>7
  <2>8. CASE u # t
    <3>1. Started(v)
      BY <2>2, <2>6, <2>8
    <3>2. QED
      BY <2>2, <2>3, <3>1
  <2>9. QED
    BY <2>7, <2>8
<1>2. ASSUME \A u \in Task : task'[u].pc = "free" <=> task[u].pc = "free" PROVE InOrder'
  BY <1>2
<1>3. ASSUME NEW m \in Mac, handleCancelWake(m) PROVE InOrder'
  BY <1>2, <1>3, CancelledEffect DEF handleCancelWake
<1>4. ASSUME NEW t \in Task, RunWake(t), ~Return(t) PROVE InOrder'
  BY <1>2, <1>4, GoingSteps DEF Going
<1>5. ASSUME NEW t \in Task, Return(t) PROVE InOrder'
  <2>1. [NewTask(task[t].mac) EXCEPT !.pc = "done"].pc = "done"
    BY DEF NewTask
  <2>2. QED
    BY <1>2, <1>5, <2>1 DEF Return, Shape
<1>6. CASE Tick
  BY <1>2, <1>6, TickEffect
<1>7. CASE GateMoves \/ UNCHANGED vars
  BY <1>2, <1>7 DEF GateMoves, vars
<1>8. QED
  BY <1>1, <1>3, <1>4, <1>5, <1>6, <1>7 DEF Next

LEMMA RegistryStep == Shape /\ InOrder /\ RegistryIsNewest /\ [Next]_vars => RegistryIsNewest'
<1> SUFFICES ASSUME Shape, InOrder, RegistryIsNewest, [Next]_vars, NEW m \in DOMAIN wakes'
             PROVE  /\ task'[wakes'[m]].pc \notin {"free", "done"} /\ task'[wakes'[m]].mac = m
                    /\ \A t \in Task : task'[t].pc # "free" /\ task'[t].mac = m => t <= wakes'[m]
  BY DEF RegistryIsNewest, Live, Started
<1> DEFINE Goal == /\ task'[wakes'[m]].pc \notin {"free", "done"} /\ task'[wakes'[m]].mac = m
                   /\ \A t \in Task : task'[t].pc # "free" /\ task'[t].mac = m => t <= wakes'[m]
<1> USE DEF RegistryIsNewest, Started, Live
<1>1. ASSUME wakes'[m] = wakes[m], m \in DOMAIN wakes,
             \A u \in Task : task'[u].mac = task[u].mac,
             \A u \in Task : task'[u].pc = "free" <=> task[u].pc = "free",
             task'[wakes[m]].pc # "done"
      PROVE  Goal
  BY <1>1 DEF Shape
<1>2. ASSUME NEW k \in Mac, handleWake(k) PROVE Goal
  <2>1. PICK t \in Free : /\ \A u \in Free : t <= u
                          /\ task' = [Cancelled(k) EXCEPT ![t] = NewTask(k)]
                          /\ wakes' = Register(k, t)
    BY <1>2 DEF handleWake
  <2>2. /\ t \in Task /\ task[t].pc = "free"
        /\ task'[t].pc = "send" /\ task'[t].mac = k
    BY <2>1, CancelledEffect DEF Free, NewTask
  <2>3. \A u \in Task \ {t} : task'[u].pc = task[u].pc /\ task'[u].mac = task[u].mac
    BY <2>1, CancelledEffect
  <2>4. \A u \in Task : Started(u) => u <= t
    <3>1. SUFFICES ASSUME NEW u \in Task, Started(u) PROVE u <= t
      OBVIOUS
    <3>2. ~(t <= u)
      BY <2>2, <3>1 DEF InOrder
    <3>3. QED
      BY <2>2, <3>2, WakeAssumption DEF Task
  <2>5. CASE m = k
    <3>1. wakes'[m] = t
      BY <2>1, <2>5 DEF Register
    <3>2. \A u \in Task : task'[u].pc # "free" => u <= t
      <4>1. t <= t
        BY <2>2 DEF Task
      <4>2. QED
        BY <2>2, <2>3, <2>4, <4>1
    <3>3. QED
      BY <2>2, <2>5, <3>1, <3>2
  <2>6. CASE m # k
    <3>1. m \in DOMAIN wakes /\ wakes'[m] = wakes[m]
      BY <2>1, <2>6 DEF Register
    <3>2. wakes[m] # t
      BY <2>2, <3>1
    <3>3. wakes[m] \in Task
      BY <3>1 DEF Shape
    <3>4. QED
      BY <2>2, <2>3, <2>6, <3>1, <3>2, <3>3
  <2>7. QED
    BY <2>5, <2>6
<1>3. ASSUME NEW k \in Mac, handleCancelWake(k) PROVE Goal
  <2>1. wakes[m] \in Task /\ m \in DOMAIN wakes
    BY <1>3 DEF Shape, handleCancelWake
  <2>2. QED
    BY <1>1, <1>3, <2>1, CancelledEffect DEF handleCancelWake
<1>4. ASSUME NEW t \in Task, RunWake(t), ~Return(t) PROVE Goal
  <2>1. Going(t)
    BY <1>4, GoingSteps
  <2>2. wakes[m] \in Task /\ m \in DOMAIN wakes
    BY <2>1 DEF Shape, Going
  <2>3. QED
    BY <1>1, <2>1, <2>2 DEF Going
<1>5. ASSUME NEW t \in Task, Return(t) PROVE Goal
  <2>1. /\ [NewTask(task[t].mac) EXCEPT !.pc = "done"].pc = "done"
        /\ [NewTask(task[t].mac) EXCEPT !.pc = "done"].mac = task[t].mac
    BY DEF NewTask
  <2>2. /\ task'[t].pc = "done" /\ task'[t].mac = task[t].mac
        /\ \A u \in Task \ {t} : task'[u] = task[u]
    BY <1>5, <2>1 DEF Return, Shape
  <2>3. m \in DOMAIN wakes /\ m # task[t].mac /\ wakes'[m] = wakes[m]
    BY <1>5 DEF Return
  <2>4. wakes[m] # t /\ wakes[m] \in Task
    BY <2>3 DEF Shape
  <2>5. task[t].pc # "free"
    BY <1>5 DEF Return
  <2>6. QED
    BY <1>1, <2>2, <2>3, <2>4, <2>5
<1>6. CASE Tick
  <2>1. wakes[m] \in Task /\ m \in DOMAIN wakes
    BY <1>6 DEF Shape, Tick
  <2>2. QED
    BY <1>1, <1>6, <2>1, TickEffect DEF Tick
<1>7. CASE GateMoves \/ UNCHANGED vars
  <2>1. wakes[m] \in Task /\ m \in DOMAIN wakes
    BY <1>7 DEF Shape, GateMoves, vars
  <2>2. QED
    BY <1>1, <1>7, <2>1 DEF GateMoves, vars
<1>8. QED
  BY <1>2, <1>3, <1>4, <1>5, <1>6, <1>7 DEF Next

\* The registered cancel function is that of the newest wake of its device, and
\* of a running one, in every reachable state (handleWake, runWake's defer).
THEOREM RegistryIsAlwaysNewest == Spec => []RegistryIsNewest
<1>1. Init => InOrder /\ RegistryIsNewest
  <2>1. SUFFICES ASSUME Init PROVE InOrder /\ RegistryIsNewest
    OBVIOUS
  <2>2. PICK m \in Mac : task = [t \in Task |-> [NewTask(m) EXCEPT !.pc = "free"]]
    BY <2>1 DEF Init
  <2>3. [NewTask(m) EXCEPT !.pc = "free"].pc = "free"
    BY DEF NewTask
  <2>4. QED
    BY <2>1, <2>2, <2>3 DEF Init, InOrder, Started, RegistryIsNewest
<1>2. QED
  BY <1>1, InOrderStep, RegistryStep, AlwaysShape, PTL DEF Spec

-----------------------------------------------------------------------------
(* The pace of a barrage.                                                  *)

Loop == {"head", "observe", "gate", "wait"}

\* Every barrage but the first has used up a tick, and the loop stops at the
\* timeout.  A tick taken late can put two barrages on one second.
Paced(g) ==
    /\ g.age <= Timeout + 1 /\ g.elapsed <= g.age /\ g.sent <= Timeout + 1
    /\ g.pc \in {"free", "send", "done"} => g.age = 0 /\ ~g.ticked
    /\ g.pc \in Loop /\ g.age <= Timeout
         => g.sent <= g.age + 1 /\ (g.ticked => g.sent <= g.age)
    /\ g.pc \in {"observe", "gate", "wait"} => g.sent <= g.elapsed + 1
    /\ g.pc \in {"gate", "wait"} => g.elapsed < Timeout

\* A loop that never missed a tick is at most one tick ahead of what it read.
OnTime(g) ==
    ~g.late =>
        /\ g.pc = "head" => ~g.ticked /\ g.sent = 1 + g.age \div ResendEvery
        /\ g.pc \in {"observe", "gate", "wait"} =>
              /\ g.sent = 1 + g.elapsed \div ResendEvery
              /\ ~g.ticked => g.age = g.elapsed
              /\ g.ticked => g.pc = "wait" /\ g.age = g.elapsed + 1

LEMMA DivStep ==
    ASSUME NEW R \in Nat \ {0}, NEW e \in Nat
    PROVE  /\ (e + 1) % R = 0 => (e + 1) \div R = (e \div R) + 1
           /\ (e + 1) % R # 0 => (e + 1) \div R = e \div R
<1>1. PICK q : q = e \div R
  OBVIOUS
<1>2. PICK r : r = e % R
  OBVIOUS
<1>3. q \in Int /\ r \in 0 .. R - 1 /\ e = R * q + r
  BY <1>1, <1>2
<1>4. PICK p : p = (e + 1) \div R
  OBVIOUS
<1>5. PICK s : s = (e + 1) % R
  OBVIOUS
<1>6. p \in Int /\ s \in 0 .. R - 1 /\ e + 1 = R * p + s
  BY <1>4, <1>5
<1>7. R * (p - q) = r + 1 - s
  BY <1>3, <1>6
<1>8. QED
  BY <1>1, <1>3, <1>4, <1>5, <1>6, <1>7

\* A second barrage is not due before a second has been read.
LEMMA DueStep ==
    ASSUME ResendEvery > 1, NEW e \in Nat
    PROVE  /\ ResendDue(e) => (e + 1) \div ResendEvery = (e \div ResendEvery) + 1
           /\ ~ResendDue(e) => (e + 1) \div ResendEvery = e \div ResendEvery
<1>1. ResendEvery \in Nat \ {0}
  BY WakeAssumption
<1>2. CASE e > 0
  BY <1>1, <1>2, DivStep DEF ResendDue
<1>3. CASE e = 0
  <2>1. (e + 1) % ResendEvery = 1
    BY <1>1, <1>3
  <2>2. (e + 1) % ResendEvery # 0
    BY <2>1
  <2>3. (e + 1) \div ResendEvery = e \div ResendEvery
    BY ONLY <1>1, <2>2, DivStep, e \in Nat
  <2>4. QED
    BY <1>3, <2>3 DEF ResendDue
<1>4. QED
  BY <1>2, <1>3

LEMMA PaceStart ==
    ASSUME NEW m \in Mac, NEW p \in {"free", "send", "done"}
    PROVE  /\ Paced([NewTask(m) EXCEPT !.pc = p]) /\ OnTime([NewTask(m) EXCEPT !.pc = p])
           /\ Paced(NewTask(m)) /\ OnTime(NewTask(m))
<1>1. PICK g : g = [NewTask(m) EXCEPT !.pc = p]
  OBVIOUS
<1>2. /\ g.pc = p /\ g.sent = 0 /\ g.age = 0 /\ g.elapsed = 0 /\ g.ticked = FALSE
  BY <1>1 DEF NewTask
<1>3. Paced(g) /\ OnTime(g)
  BY <1>2, WakeAssumption DEF Paced, OnTime, Loop
<1>4. PICK h : h = NewTask(m)
  OBVIOUS
<1>5. /\ h.pc = "send" /\ h.sent = 0 /\ h.age = 0 /\ h.elapsed = 0 /\ h.ticked = FALSE
  BY <1>4 DEF NewTask
<1>6. Paced(h) /\ OnTime(h)
  BY <1>5, WakeAssumption DEF Paced, OnTime, Loop
<1>7. QED
  BY <1>1, <1>3, <1>4, <1>6

LEMMA PaceSend ==
    ASSUME NEW g \in Goroutine, Paced(g), g.pc = "send"
    PROVE  LET h == [g EXCEPT !.pc = "head", !.sent = 1] IN Paced(h) /\ OnTime(h)
<1>1. PICK h : h = [g EXCEPT !.pc = "head", !.sent = 1]
  OBVIOUS
<1>2. /\ h.pc = "head" /\ h.sent = 1 /\ h.age = 0 /\ h.elapsed = g.elapsed
      /\ h.ticked = FALSE /\ g.elapsed \in Nat /\ g.elapsed <= 0
  BY <1>1 DEF Goroutine, Paced
<1>3. 0 \div ResendEvery = 0
  BY WakeAssumption
<1>4. QED
  BY <1>1, <1>2, <1>3, WakeAssumption DEF Paced, OnTime, Loop

LEMMA PaceHead ==
    ASSUME NEW g \in Goroutine, Paced(g), g.pc = "head"
    PROVE  LET h == [g EXCEPT !.pc = "observe", !.elapsed = g.age]
           IN  Paced(h) /\ (OnTime(g) => OnTime(h))
<1>1. PICK h : h = [g EXCEPT !.pc = "observe", !.elapsed = g.age]
  OBVIOUS
<1>2. /\ h.pc = "observe" /\ h.sent = g.sent /\ h.age = g.age /\ h.elapsed = g.age
      /\ h.ticked = g.ticked /\ h.late = g.late /\ g.age \in Nat /\ g.sent \in Nat
  BY <1>1 DEF Goroutine
<1>3. Paced(h)
  BY <1>2, WakeAssumption DEF Paced, Loop
<1>4. OnTime(g) => OnTime(h)
  BY <1>2 DEF OnTime
<1>5. QED
  BY <1>1, <1>3, <1>4

\* The steps that only move the goroutine on: observe, gate, cancel.
LEMMA PaceMove ==
    ASSUME NEW g \in Goroutine, Paced(g),
           NEW p, \/ g.pc \in {"observe", "gate", "wait"} /\ p = "return"
                  \/ g.pc = "observe" /\ p = "gate" /\ g.elapsed < Timeout
                  \/ g.pc = "gate" /\ p = "wait"
    PROVE  LET h == [g EXCEPT !.pc = p] IN Paced(h) /\ (OnTime(g) => OnTime(h))
<1>1. PICK h : h = [g EXCEPT !.pc = p]
  OBVIOUS
<1>2. /\ h.pc = p /\ h.sent = g.sent /\ h.age = g.age /\ h.elapsed = g.elapsed
      /\ h.ticked = g.ticked /\ h.late = g.late
  BY <1>1 DEF Goroutine
<1>3. Paced(h)
  BY <1>2 DEF Paced, Loop
<1>4. OnTime(g) => OnTime(h)
  BY <1>2 DEF OnTime
<1>5. QED
  BY <1>1, <1>3, <1>4

LEMMA PaceTick ==
    ASSUME NEW g \in Goroutine, Paced(g), g.pc = "wait", g.ticked,
           NEW n, n = IF ResendDue(g.elapsed) THEN g.sent + 1 ELSE g.sent
    PROVE  LET h == [g EXCEPT !.pc = "head", !.ticked = FALSE, !.sent = n]
           IN  Paced(h) /\ (ResendEvery > 1 /\ OnTime(g) => OnTime(h))
<1>1. PICK h : h = [g EXCEPT !.pc = "head", !.ticked = FALSE, !.sent = n]
  OBVIOUS
<1>2. /\ h.pc = "head" /\ h.sent = n /\ h.age = g.age /\ h.elapsed = g.elapsed
      /\ h.ticked = FALSE /\ h.late = g.late
      /\ g.age \in Nat /\ g.elapsed \in Nat /\ g.sent \in Nat
  BY <1>1 DEF Goroutine
<1>3. n \in Nat /\ n <= g.sent + 1
  BY <1>2
<1>4. Paced(h)
  BY <1>2, <1>3, WakeAssumption DEF Paced, Loop
<1>5. ASSUME ResendEvery > 1, OnTime(g), ~g.late PROVE OnTime(h)
  <2>1. g.sent = 1 + g.elapsed \div ResendEvery /\ g.age = g.elapsed + 1
    BY <1>5 DEF OnTime
  <2>2. g.elapsed \div ResendEvery \in Int
    BY <1>2, WakeAssumption
  <2>3. n = 1 + (g.elapsed + 1) \div ResendEvery
    BY <1>2, <1>5, <2>1, <2>2, DueStep
  <2>4. QED
    BY <1>2, <2>1, <2>3 DEF OnTime
<1>6. g.late => OnTime(h)
  BY <1>2 DEF OnTime
<1>7. QED
  BY <1>1, <1>4, <1>5, <1>6

LEMMA PaceSecond ==
    ASSUME NEW g \in Goroutine, Paced(g), g.pc \in Loop,
           NEW a, a = IF g.age > Timeout THEN g.age ELSE g.age + 1,
           NEW l, l = (g.late \/ g.pc # "wait" \/ g.ticked)
    PROVE  LET h == [g EXCEPT !.age = a, !.ticked = TRUE, !.late = l]
           IN  Paced(h) /\ (OnTime(g) => OnTime(h))
<1>1. PICK h : h = [g EXCEPT !.age = a, !.ticked = TRUE, !.late = l]
  OBVIOUS
<1>2. /\ h.pc = g.pc /\ h.sent = g.sent /\ h.age = a /\ h.elapsed = g.elapsed
      /\ h.ticked = TRUE /\ h.late = l
      /\ g.age \in Nat /\ g.elapsed \in Nat /\ g.sent \in Nat
  BY <1>1 DEF Goroutine
<1>3. a \in Nat /\ a >= g.age /\ (a <= Timeout => a = g.age + 1)
  BY <1>2, WakeAssumption
<1>4. Paced(h)
  <2>1. a <= Timeout + 1
    BY <1>2, WakeAssumption DEF Paced
  <2>2. g.age <= Timeout => g.sent <= g.age + 1
    BY DEF Paced
  <2>3. QED
    BY <1>2, <1>3, <2>1, <2>2, WakeAssumption DEF Paced, Loop
<1>5. ASSUME OnTime(g), ~l PROVE OnTime(h)
  <2>1. ~g.late /\ g.pc = "wait" /\ ~g.ticked
    BY <1>5
  <2>2. g.age = g.elapsed /\ g.elapsed < Timeout
    BY <1>5, <2>1 DEF OnTime, Paced
  <2>3. QED
    BY <1>2, <1>5, <2>1, <2>2, WakeAssumption DEF OnTime
<1>6. l => OnTime(h)
  BY <1>2 DEF OnTime
<1>7. QED
  BY <1>1, <1>4, <1>5, <1>6

\* Cancelling a wake does not change its pace.
LEMMA PaceCancelled ==
    ASSUME Shape, NEW m, NEW u \in Task, Paced(task[u])
    PROVE  /\ Paced(Cancelled(m)[u])
           /\ OnTime(task[u]) => OnTime(Cancelled(m)[u])
<1>1. PICK g : g = Cancelled(m)[u]
  OBVIOUS
<1>2. g = task[u] \/ g = [task[u] EXCEPT !.cancelled = TRUE]
  BY <1>1 DEF Cancelled
<1>3. /\ g.pc = task[u].pc /\ g.sent = task[u].sent /\ g.age = task[u].age
      /\ g.elapsed = task[u].elapsed /\ g.ticked = task[u].ticked /\ g.late = task[u].late
  BY <1>2 DEF Shape, Goroutine
<1>4. Paced(g)
  BY <1>3 DEF Paced
<1>5. OnTime(task[u]) => OnTime(g)
  BY <1>3 DEF OnTime
<1>6. QED
  BY <1>1, <1>4, <1>5

\* A step of one goroutine keeps its pace.
LEMMA PaceRun ==
    ASSUME Shape, NEW t \in Task, Paced(task[t]), RunWake(t)
    PROVE  Paced(task'[t]) /\ (ResendEvery > 1 /\ OnTime(task[t]) => OnTime(task'[t]))
<1> DEFINE Goal == Paced(task'[t]) /\ (ResendEvery > 1 /\ OnTime(task[t]) => OnTime(task'[t]))
<1>1. PICK g \in Goroutine : g = task[t]
  BY DEF Shape
<1>2. task \in [Task -> Goroutine] /\ Paced(g)
  BY <1>1 DEF Shape
<1>3. CASE InitialSend(t)
  <2>1. task'[t] = [g EXCEPT !.pc = "head", !.sent = 1] /\ g.pc = "send"
    BY <1>1, <1>2, <1>3 DEF InitialSend
  <2>2. QED
    BY <1>1, <1>2, <2>1, PaceSend
<1>4. CASE LoopHead(t)
  <2>1. task'[t] = [g EXCEPT !.pc = "observe", !.elapsed = g.age] /\ g.pc = "head"
    BY <1>1, <1>2, <1>4 DEF LoopHead
  <2>2. QED
    BY <1>1, <1>2, <2>1, PaceHead
<1>5. ASSUME Observe(t) \/ GateCheck(t) \/ SelectCancelled(t) PROVE Goal
  <2>1. PICK p : task'[t] = [g EXCEPT !.pc = p]
                 /\ \/ g.pc \in {"observe", "gate", "wait"} /\ p = "return"
                    \/ g.pc = "observe" /\ p = "gate" /\ g.elapsed < Timeout
                    \/ g.pc = "gate" /\ p = "wait"
    <3>1. CASE Observe(t)
      <4>1. PICK up \in BOOLEAN :
               task' = [task EXCEPT ![t].pc = IF up \/ task[t].elapsed >= Timeout
                                                THEN "return" ELSE "gate"]
        BY <3>1 DEF Observe
      <4>2. g.pc = "observe" /\ g.elapsed \in Nat
        BY <1>1, <3>1 DEF Observe, Goroutine
      <4>3. CASE up \/ g.elapsed >= Timeout
        <5>1. task'[t] = [g EXCEPT !.pc = "return"]
          BY <1>1, <1>2, <4>1, <4>3
        <5>2. QED
          BY <4>2, <5>1
      <4>4. CASE ~(up \/ g.elapsed >= Timeout)
        <5>1. task'[t] = [g EXCEPT !.pc = "gate"]
          BY <1>1, <1>2, <4>1, <4>4
        <5>2. g.elapsed < Timeout
          BY <4>2, <4>4, WakeAssumption
        <5>3. QED
          BY <4>2, <5>1, <5>2
      <4>5. QED
        BY <4>3, <4>4
    <3>2. CASE GateCheck(t)
      <4>1. CASE watching
        <5>1. task'[t] = [g EXCEPT !.pc = "wait"] /\ g.pc = "gate"
          BY <1>1, <1>2, <3>2, <4>1 DEF GateCheck
        <5>2. QED
          BY <5>1
      <4>2. CASE ~watching
        <5>1. task'[t] = [g EXCEPT !.pc = "return"] /\ g.pc = "gate"
          BY <1>1, <1>2, <3>2, <4>2 DEF GateCheck
        <5>2. QED
          BY <5>1
      <4>3. QED
        BY <4>1, <4>2
    <3>3. CASE SelectCancelled(t)
      <4>1. task'[t] = [g EXCEPT !.pc = "return"] /\ g.pc = "wait"
        BY <1>1, <1>2, <3>3 DEF SelectCancelled
      <4>2. QED
        BY <4>1
    <3>4. QED
      BY <1>5, <3>1, <3>2, <3>3
  <2>2. QED
    BY <1>1, <1>2, <2>1, PaceMove
<1>6. CASE SelectTick(t)
  <2>1. PICK n : n = IF ResendDue(g.elapsed) THEN g.sent + 1 ELSE g.sent
    OBVIOUS
  <2>2. g.pc = "wait" /\ g.ticked
    BY <1>1, <1>6 DEF SelectTick
  <2>3. task'[t] = [g EXCEPT !.pc = "head", !.ticked = FALSE, !.sent = n]
    <3>1. CASE ResendDue(g.elapsed)
      BY <1>1, <1>2, <1>6, <2>1, <3>1 DEF SelectTick
    <3>2. CASE ~ResendDue(g.elapsed)
      <4>1. task'[t] = [g EXCEPT !.pc = "head", !.ticked = FALSE]
        BY <1>1, <1>2, <1>6, <3>2 DEF SelectTick
      <4>2. n = g.sent
        BY <2>1, <3>2
      <4>3. QED
        BY <1>1, <4>1, <4>2 DEF Goroutine
    <3>3. QED
      BY <3>1, <3>2
  <2>4. PICK h : h = [g EXCEPT !.pc = "head", !.ticked = FALSE, !.sent = n]
    OBVIOUS
  <2>5. Paced(h) /\ (ResendEvery > 1 /\ OnTime(g) => OnTime(h))
    BY <1>2, <2>1, <2>2, <2>4, PaceTick
  <2>6. QED
    BY <1>1, <2>3, <2>4, <2>5
<1>7. CASE Return(t)
  <2>1. task'[t] = [NewTask(g.mac) EXCEPT !.pc = "done"] /\ g.mac \in Mac
    BY <1>1, <1>2, <1>7 DEF Return, Goroutine
  <2>2. QED
    BY <2>1, PaceStart
<1>8. QED
  BY <1>3, <1>4, <1>5, <1>6, <1>7 DEF RunWake

LEMMA RunOthers ==
    ASSUME Shape, NEW t \in Task, RunWake(t), NEW u \in Task \ {t}
    PROVE  task'[u] = task[u]
BY DEF Shape, RunWake, InitialSend, LoopHead, Observe, GateCheck, SelectCancelled, SelectTick,
       Return

PaceInv == \A t \in Task : Paced(task[t])
OnTimeInv == \A t \in Task : OnTime(task[t])

LEMMA PaceStep ==
    ASSUME Shape, PaceInv, [Next]_vars
    PROVE  PaceInv' /\ (ResendEvery > 1 /\ OnTimeInv => OnTimeInv')
<1> SUFFICES ASSUME NEW u \in Task
             PROVE  /\ Paced(task'[u])
                    /\ ResendEvery > 1 /\ OnTime(task[u]) => OnTime(task'[u])
  BY DEF PaceInv, OnTimeInv
<1>0. Paced(task[u]) /\ task[u] \in Goroutine
  BY DEF PaceInv, Shape
<1> DEFINE Goal == /\ Paced(task'[u])
                   /\ ResendEvery > 1 /\ OnTime(task[u]) => OnTime(task'[u])
<1>1. ASSUME NEW m \in Mac, handleWake(m) PROVE Goal
  <2>1. PICK t \in Free : task' = [Cancelled(m) EXCEPT ![t] = NewTask(m)]
    BY <1>1 DEF handleWake
  <2>2. CASE u = t
    <3>1. task'[u] = NewTask(m)
      BY <2>1, <2>2, CancelledEffect
    <3>2. QED
      BY <3>1, PaceStart
  <2>3. CASE u # t
    <3>1. task'[u] = Cancelled(m)[u]
      BY <2>1, <2>3, CancelledEffect
    <3>2. QED
      BY <1>0, <3>1, PaceCancelled
  <2>4. QED
    BY <2>2, <2>3
<1>2. ASSUME NEW m \in Mac, handleCancelWake(m) PROVE Goal
  BY <1>0, <1>2, PaceCancelled DEF handleCancelWake
<1>3. ASSUME NEW t \in Task, RunWake(t) PROVE Goal
  <2>1. CASE u = t
    BY <1>0, <1>3, <2>1, PaceRun
  <2>2. CASE u # t
    BY <1>0, <1>3, <2>2, RunOthers
  <2>3. QED
    BY <2>1, <2>2
<1>4. CASE Tick
  <2>1. CASE ~Ticking(u)
    <3>1. task'[u] = task[u]
      BY <1>4, <2>1 DEF Tick
    <3>2. QED
      BY <1>0, <3>1
  <2>2. CASE Ticking(u)
    <3>1. PICK a : a = IF task[u].age > Timeout THEN task[u].age ELSE task[u].age + 1
      OBVIOUS
    <3>2. PICK l : l = (task[u].late \/ task[u].pc # "wait" \/ task[u].ticked)
      OBVIOUS
    <3>3. task'[u] = [task[u] EXCEPT !.age = a, !.ticked = TRUE, !.late = l]
      BY <1>4, <2>2, <3>1, <3>2 DEF Tick
    <3>4. task[u].pc \in Loop
      BY <2>2 DEF Ticking, Loop
    <3>5. PICK g \in Goroutine : g = task[u]
      BY <1>0
    <3>6. PICK h : h = [g EXCEPT !.age = a, !.ticked = TRUE, !.late = l]
      OBVIOUS
    <3>7. Paced(h) /\ (OnTime(g) => OnTime(h))
      BY <1>0, <3>1, <3>2, <3>4, <3>5, <3>6, PaceSecond
    <3>8. QED
      BY <3>3, <3>5, <3>6, <3>7
  <2>3. QED
    BY <2>1, <2>2
<1>5. CASE GateMoves \/ UNCHANGED vars
  BY <1>0, <1>5 DEF GateMoves, vars
<1>6. QED
  BY <1>1, <1>2, <1>3, <1>4, <1>5 DEF Next

LEMMA PaceInit == Init => PaceInv /\ OnTimeInv
<1> SUFFICES ASSUME Init PROVE PaceInv /\ OnTimeInv
  OBVIOUS
<1>1. PICK m \in Mac : task = [t \in Task |-> [NewTask(m) EXCEPT !.pc = "free"]]
  BY DEF Init
<1>2. QED
  BY <1>1, PaceStart DEF PaceInv, OnTimeInv

LEMMA AlwaysPaced == Spec => [](Shape /\ PaceInv)
<1>1. Shape /\ PaceInv /\ [Next]_vars => PaceInv'
  BY PaceStep
<1>2. QED
  BY <1>1, PaceInit, AlwaysShape, PTL DEF Spec

\* A wake sends at most one barrage more than it has seconds, even if its ticks
\* come late, and its clock never runs past the timeout by more than the second in
\* which it notices (runWake).
THEOREM WakeTypeCorrect == Spec => []TypeOK
<1>1. Shape /\ PaceInv => TypeOK
  <2>1. SUFFICES ASSUME Shape, PaceInv PROVE TypeOK
    OBVIOUS
  <2>2. ASSUME NEW t \in Task PROVE task[t] \in TaskRecord
    <3>1. task[t] \in Goroutine /\ Paced(task[t])
      BY <2>1 DEF Shape, PaceInv
    <3>2. task[t].age \in Age /\ task[t].elapsed \in Age /\ task[t].sent \in 0 .. Timeout + 1
      BY <3>1, WakeAssumption DEF Goroutine, Paced, Age
    <3>3. QED
      BY <3>1, <3>2 DEF Goroutine, TaskRecord, Pc
  <2>3. task \in [Task -> TaskRecord]
    BY <2>1, <2>2 DEF Shape
  <2>4. wakes \in [DOMAIN wakes -> Task]
    BY <2>1 DEF Shape
  <2>5. QED
    BY <2>1, <2>3, <2>4 DEF Shape, TypeOK
<1>2. QED
  BY <1>1, AlwaysPaced, PTL

\* A wake that keeps up with its ticker repeats the barrage every ResendEvery
\* seconds exactly.  With a resend every second it would not: the code holds
\* nothing due before it has read a full second.
THEOREM BarrageKeepsCadence ==
    ASSUME ResendEvery > 1
    PROVE  Spec => []BarrageCadence
<1>1. Shape /\ PaceInv /\ OnTimeInv /\ [Next]_vars => OnTimeInv'
  BY PaceStep
<1>2. OnTimeInv => BarrageCadence
  BY DEF OnTimeInv, OnTime, BarrageCadence
<1>3. QED
  BY <1>1, <1>2, PaceInit, AlwaysPaced, PTL DEF Spec

=============================================================================
