-------------------------------- MODULE Wake --------------------------------
(***************************************************************************)
(* The wake-and-watch of internal/server/wake.go: a POST starts a          *)
(* goroutine that sends a barrage of magic packets, observes the host once *)
(* a second and repeats the barrage every other second; a second POST for  *)
(* the same device, or a DELETE, cancels the one that Server.wakes names.  *)
(*                                                                         *)
(* A task is one runWake goroutine, numbered in the order of the POSTs.    *)
(* The clock advances in whole seconds for all tasks at once, which is as  *)
(* fine as elapsed and the ticker are; between two ticks the goroutines    *)
(* and the requests interleave freely.                                     *)
(***************************************************************************)
EXTENDS Integers, FiniteSets

CONSTANTS
    Mac,        \* devices
    MaxTasks,   \* bound on the POSTs ever made
    Timeout,    \* wakeTimeout, in seconds
    ResendEvery \* wakeResendEv

ASSUME WakeAssumption ==
    MaxTasks \in Nat /\ Timeout \in Nat \ {0} /\ ResendEvery \in Nat \ {0}

VARIABLES
    task,     \* per task: the goroutine and its locals
    wakes,    \* Server.wakes: the task whose cancel function is registered
    watching, \* Hub.Active(): a recent pulse stands
    blind     \* history: barrages a task has sent since the gate last closed

vars == <<task, wakes, watching, blind>>

Task == 1 .. MaxTasks
\* Seconds beyond the timeout are indistinguishable to the code.
Age == 0 .. Timeout + 1

\* pc: "free" before its POST, then the steps of runWake in order.
\* late is history: a tick fell while the goroutine was not waiting for it.
TaskRecord ==
    [pc : {"free", "send", "head", "observe", "gate", "wait", "return", "done"},
     mac : Mac, cancelled : BOOLEAN, age : Age, elapsed : Age, ticked : BOOLEAN,
     sent : 0 .. Timeout + 1, late : BOOLEAN]

Started(t) == task[t].pc # "free"
Live(t) == task[t].pc \notin {"free", "done"}
Ticking(t) == task[t].pc \in {"head", "observe", "gate", "wait"}
Free == {t \in Task : ~Started(t)}

-----------------------------------------------------------------------------
\* Requests: one critical section of wakeMu each.

NewTask(m) ==
    [pc |-> "send", mac |-> m, cancelled |-> FALSE, age |-> 0, elapsed |-> 0,
     ticked |-> FALSE, sent |-> 0, late |-> FALSE]

\* Mutant: a wake already registered for the device keeps its entry.
RegisterIfAbsent(m, t) ==
    IF m \in DOMAIN wakes THEN wakes
    ELSE [k \in DOMAIN wakes \cup {m} |-> IF k = m THEN t ELSE wakes[k]]

Register(m, t) == [k \in DOMAIN wakes \cup {m} |-> IF k = m THEN t ELSE wakes[k]]

\* The tasks as the registered cancel function of m leaves them.
Cancelled(m) ==
    [t \in Task |-> IF m \in DOMAIN wakes /\ wakes[m] = t
                      THEN [task[t] EXCEPT !.cancelled = TRUE]
                      ELSE task[t]]

\* POST /api/devices/{mac}/wake for a tracked device
handleWake(m) ==
    \E t \in Free :
        /\ \A u \in Free : t <= u
        /\ task' = [Cancelled(m) EXCEPT ![t] = NewTask(m)]
        /\ wakes' = Register(m, t)
        /\ blind' = [blind EXCEPT ![t] = 0]
        /\ UNCHANGED watching

\* DELETE /api/devices/{mac}/wake
handleCancelWake(m) ==
    /\ task' = Cancelled(m)
    /\ UNCHANGED <<wakes, watching, blind>>

-----------------------------------------------------------------------------
\* runWake, step by step.

\* One barrage; packets is counted in barrages.
Barrage(t) == blind' = [blind EXCEPT ![t] = IF watching THEN 0 ELSE @ + 1]

\* The first barrage; start is taken before it, the ticker made after it.
InitialSend(t) ==
    /\ task[t].pc = "send"
    /\ task' = [task EXCEPT ![t].pc = "head", ![t].sent = 1]
    /\ Barrage(t)
    /\ UNCHANGED <<wakes, watching>>

\* Top of the loop: elapsed is read.
LoopHead(t) ==
    /\ task[t].pc = "head"
    /\ task' = [task EXCEPT ![t].pc = "observe", ![t].elapsed = task[t].age]
    /\ UNCHANGED <<wakes, watching, blind>>

\* Mutant: the attempt has no timeout.
ObserveUntilUp(t) ==
    /\ task[t].pc = "observe"
    /\ \E up \in BOOLEAN :
         task' = [task EXCEPT ![t].pc = IF up THEN "return" ELSE "gate"]
    /\ UNCHANGED <<wakes, watching, blind>>

\* Every signal has answered or timed out; the event goes out on the stream.
\* The host answers or not as it likes.
Observe(t) ==
    /\ task[t].pc = "observe"
    /\ \E up \in BOOLEAN :
         LET done == up \/ task[t].elapsed >= Timeout
         IN  task' = [task EXCEPT ![t].pc = IF done THEN "return" ELSE "gate"]
    /\ UNCHANGED <<wakes, watching, blind>>

\* Mutant: the goroutine goes on whether or not anyone is watching.
GateIgnored(t) ==
    /\ task[t].pc = "gate"
    /\ task' = [task EXCEPT ![t].pc = "wait"]
    /\ UNCHANGED <<wakes, watching, blind>>

GateCheck(t) ==
    /\ task[t].pc = "gate"
    /\ task' = [task EXCEPT ![t].pc = IF watching THEN "wait" ELSE "return"]
    /\ UNCHANGED <<wakes, watching, blind>>

\* The select: with both channels ready either case may be taken.
SelectCancelled(t) ==
    /\ task[t].pc = "wait"
    /\ task[t].cancelled
    /\ task' = [task EXCEPT ![t].pc = "return"]
    /\ UNCHANGED <<wakes, watching, blind>>

\* Mutants: the barrage is repeated every second; the parity is that of elapsed.
ResendEverySecond(elapsed) == TRUE
ResendOnEven(elapsed) == elapsed > 0 /\ elapsed % ResendEvery = 0

ResendDue(elapsed) == elapsed > 0 /\ (elapsed + 1) % ResendEvery = 0

SelectTick(t) ==
    /\ task[t].pc = "wait"
    /\ task[t].ticked
    /\ IF ResendDue(task[t].elapsed)
         THEN /\ task' = [task EXCEPT ![t].pc = "head", ![t].ticked = FALSE,
                                      ![t].sent = @ + 1]
              /\ Barrage(t)
         ELSE /\ task' = [task EXCEPT ![t].pc = "head", ![t].ticked = FALSE]
              /\ UNCHANGED blind
    /\ UNCHANGED <<wakes, watching>>

\* The deferred delete takes the entry of the device, whoever registered it.
\* What a finished goroutine leaves behind is nothing: its locals are reset.
Return(t) ==
    /\ task[t].pc = "return"
    /\ task' = [task EXCEPT ![t] = [NewTask(task[t].mac) EXCEPT !.pc = "done"]]
    /\ wakes' = [k \in DOMAIN wakes \ {task[t].mac} |-> wakes[k]]
    /\ UNCHANGED <<watching, blind>>

RunWake(t) ==
    \/ InitialSend(t) \/ LoopHead(t) \/ Observe(t) \/ GateCheck(t)
    \/ SelectCancelled(t) \/ SelectTick(t) \/ Return(t)

-----------------------------------------------------------------------------
\* A second passes.  The ticker's channel holds one tick: a tick nobody has
\* taken is not doubled.
Tick ==
    /\ \E t \in Task : Ticking(t)
    /\ task' = [t \in Task |->
                  IF Ticking(t)
                    THEN [task[t] EXCEPT !.age = IF @ > Timeout THEN @ ELSE @ + 1,
                                         !.ticked = TRUE,
                                         !.late = @ \/ task[t].pc # "wait"
                                                    \/ task[t].ticked]
                    ELSE task[t]]
    /\ UNCHANGED <<wakes, watching, blind>>

\* A pulse arrives after a silence, or the grace window runs out.
GateMoves ==
    /\ watching' = ~watching
    /\ blind' = [t \in Task |-> 0]
    /\ UNCHANGED <<task, wakes>>

-----------------------------------------------------------------------------
Init ==
    /\ \E m \in Mac :
         task = [t \in Task |-> [NewTask(m) EXCEPT !.pc = "free"]]
    /\ wakes = [m \in {} |-> 0]
    /\ watching \in BOOLEAN
    /\ blind = [t \in Task |-> 0]

Next ==
    \/ \E m \in Mac : handleWake(m) \/ handleCancelWake(m)
    \/ \E t \in Task : RunWake(t)
    \/ Tick
    \/ GateMoves

Spec == Init /\ [][Next]_vars

\* A goroutine that can run does (each probe has its timeout), and time passes.
\* Nothing is assumed of the requests, the host or the watcher.
Fairness ==
    /\ \A t \in Task : WF_vars(RunWake(t))
    /\ WF_vars(Tick)

FairSpec == Spec /\ Fairness

-----------------------------------------------------------------------------
(* Correctness.                                                            *)

\* Every variable holds what its source variable can hold, and a wake sends at most
\* one barrage more than the timeout has seconds: two loops can read the same
\* second when a tick is taken late (runWake).
TypeOK ==
    /\ task \in [Task -> TaskRecord]
    /\ DOMAIN wakes \subseteq Mac /\ wakes \in [DOMAIN wakes -> Task]
    /\ watching \in BOOLEAN
    /\ blind \in [Task -> Nat]

\* The cancel function registered for a device is that of the newest wake of
\* the device, and of one that is still running: a DELETE never spends itself
\* on a wake that is over while a newer one sends.
RegistryIsNewest ==
    \A m \in DOMAIN wakes :
        /\ Live(wakes[m]) /\ task[wakes[m]].mac = m
        /\ \A t \in Task : (Started(t) /\ task[t].mac = m) => t <= wakes[m]

\* Once nobody is watching, a wake puts at most one more barrage on the LAN.
AtMostOneBlindBarrage == \A t \in Task : blind[t] <= 1

\* A wake whose observations keep up with the ticker repeats its barrage every
\* ResendEvery seconds exactly, counting the one it starts with.
BarrageCadence ==
    \A t \in Task :
        (task[t].pc = "observe" /\ ~task[t].late) =>
            task[t].sent = 1 + task[t].elapsed \div ResendEvery

\* Every wake ends, watched or not, cancelled or not, whether or not the host
\* ever answers and however its cancel function was lost.
EveryWakeEnds == \A t \in Task : Live(t) ~> task[t].pc = "done"

\* What wake.go:66 says of DELETE: it cancels the in-flight wake.  Every wake
\* of a device that runs on uncancelled is the one whose cancel function a
\* DELETE, or the next POST, would find.
CancelReachesEveryWake ==
    \A t \in Task : (Live(t) /\ ~task[t].cancelled) =>
        task[t].mac \in DOMAIN wakes /\ wakes[task[t].mac] = t

=============================================================================
