------------------------------- MODULE Stream -------------------------------
(***************************************************************************)
(* How a change of the data reaches a dashboard: the render loop that      *)
(* builds, publishes and broadcasts a frame set (internal/server/server.go *)
(* and frames.go), the hub with one bounded queue per connection (sse.go), *)
(* and the page that shows what arrives (web/assets/app.js).               *)
(*                                                                         *)
(* A frame is the version of the data it was built from; 0 is "no frame".  *)
(* Topics are the frames that are sent only when they differ from the last *)
(* ones, in the order render sends them.  The stats frame, sent on every   *)
(* render, and the wake and scan events take part as occupants of queues.  *)
(***************************************************************************)
EXTENDS Integers, Sequences, SequencesExt

CONSTANTS
    Page,       \* dashboards, one connection each
    Prompt,     \* those that keep reading; the others may stall for ever
    Topics,     \* the changed-only frames, in the order render sends them
    Handler,    \* concurrent mutating requests
    Cap,        \* capacity of a connection's channel
    MaxVersion  \* bound on the versions of the data

ASSUME PageAssumption == Prompt \subseteq Page
ASSUME TopicsAssumption ==
    /\ Topics \in Seq(STRING)
    /\ ToSet(Topics) \cap {"stats", "event"} = {}
ASSUME SizeAssumption == Cap \in Nat \ {0} /\ MaxVersion \in Nat \ {0}

VARIABLES
    data,      \* per topic: what a build would marshal now
    req,       \* per request: the version it wrote and has yet to kick for
    kick,      \* Server.kick holds a token
    frames,    \* Server.frames, the published frame set
    render,    \* the render in progress
    clients,   \* Hub.clients: the connections a send goes to
    queue,     \* their channels
    conn,      \* the handleEvents goroutine of each page
    screen,    \* what the page has received and shows
    promised,  \* history: the versions handlers have kicked for
    missed     \* history: topics whose latest frame a full queue has dropped

hubVars == <<clients, queue, missed>>
reqVars == <<data, req, promised>>
vars == <<data, req, kick, frames, render, clients, queue, conn, screen,
          promised, missed>>

-----------------------------------------------------------------------------
Topic == ToSet(Topics)
Version == 1 .. MaxVersion
FrameSet == [Topic -> 0 .. MaxVersion]
NoFrames == [t \in Topic |-> 0]

\* Frames as they travel: a version of a topic, or data of no further interest.
Frame == [topic : Topic, ver : Version] \cup [topic : {"stats", "event"}]
Stats == [topic |-> "stats"]
Notice == [topic |-> "event"]

Idle == [topic |-> "none"]
Holdable == Topic \ {"services"}

-----------------------------------------------------------------------------
\* Data: the loops change it on their own, a request changes it and then kicks.

Change(t) ==
    /\ data[t] < MaxVersion
    /\ data' = [data EXCEPT ![t] = @ + 1]
    /\ UNCHANGED <<req, kick, frames, render, clients, queue, conn, screen,
                   promised, missed>>

Mutate(h, t) ==
    /\ req[h] = Idle
    /\ data[t] < MaxVersion
    /\ data' = [data EXCEPT ![t] = @ + 1]
    /\ req' = [req EXCEPT ![h] = [topic |-> t, ver |-> data'[t]]]
    /\ UNCHANGED <<kick, frames, render, clients, queue, conn, screen,
                   promised, missed>>

\* kickRender, the last thing the request does: a pending kick is enough.
KickRender(h) ==
    /\ req[h] # Idle
    /\ kick' = TRUE
    /\ promised' = [promised EXCEPT ![req[h].topic] =
                      IF @ < req[h].ver THEN req[h].ver ELSE @]
    /\ req' = [req EXCEPT ![h] = Idle]
    /\ UNCHANGED <<data, frames, render, clients, queue, conn, screen, missed>>

-----------------------------------------------------------------------------
\* The render loop.

\* The select of renderLoop takes the tick or, if there is one, the kick.
StartRender ==
    /\ render.pc = "idle"
    /\ render' = [render EXCEPT !.pc = "build", !.todo = Topics]
    /\ kick' \in {kick, FALSE}
    /\ UNCHANGED <<frames, hubVars, reqVars, conn, screen>>

\* One builder after the other; the data can move between two of them.
RenderBuild ==
    /\ render.pc = "build"
    /\ IF render.todo = <<>>
         THEN render' = [render EXCEPT !.pc = "swap"]
         ELSE LET t == Head(render.todo)
              IN  render' = [render EXCEPT !.built[t] = data[t],
                                           !.todo = Tail(@)]
    /\ UNCHANGED <<kick, frames, hubVars, reqVars, conn, screen>>

Changed(prev, next, t) == prev[t] # next[t]

\* Mutant: a kick that came in while the frames were built is taken as served.
RenderSwapServesKick ==
    /\ render.pc = "swap"
    /\ frames' = render.built
    /\ render' = [render EXCEPT
                    !.pc = "count", !.todo = <<"stats">> \o Topics,
                    !.moved = {t \in Topic : Changed(frames, render.built, t)}]
    /\ kick' = FALSE
    /\ UNCHANGED <<hubVars, reqVars, conn, screen>>

\* frames.Swap; what has to be sent follows from the previous set.
RenderSwap ==
    /\ render.pc = "swap"
    /\ frames' = render.built
    /\ render' = [render EXCEPT
                    !.pc = "count", !.todo = <<"stats">> \o Topics,
                    !.moved = {t \in Topic : Changed(frames, render.built, t)}]
    /\ UNCHANGED <<kick, hubVars, reqVars, conn, screen>>

Done == [render EXCEPT !.pc = "idle", !.todo = <<>>, !.moved = {}]

\* Hub.Clients() is read in a critical section of its own.
RenderCount ==
    /\ render.pc = "count"
    /\ render' = IF clients = {} THEN Done ELSE [render EXCEPT !.pc = "send"]
    /\ UNCHANGED <<kick, frames, hubVars, reqVars, conn, screen>>

HasRoom(c) == Len(queue[c]) < Cap

\* Mutant: the queue of a slow client grows.
sendAlways(f) ==
    /\ queue' = [c \in Page |-> IF c \in clients THEN Append(queue[c], f)
                                                 ELSE queue[c]]
    /\ UNCHANGED <<missed, clients>>

\* Hub.send: every client with room gets the frame, the others lose it.
send(f) ==
    /\ queue' = [c \in Page |-> IF c \in clients /\ HasRoom(c)
                                  THEN Append(queue[c], f) ELSE queue[c]]
    /\ missed' = [c \in Page |->
                    IF c \in clients /\ f.topic \in Topic
                      THEN IF HasRoom(c) THEN missed[c] \ {f.topic}
                                         ELSE missed[c] \cup {f.topic}
                      ELSE missed[c]]
    /\ UNCHANGED clients

\* The stats frame always goes, the others if they have changed.
RenderSend ==
    /\ render.pc = "send"
    /\ IF render.todo = <<>>
         THEN render' = Done /\ UNCHANGED hubVars
         ELSE LET t == Head(render.todo)
              IN  /\ \/ t = "stats" /\ send(Stats)
                     \/ t \in render.moved /\ send([topic |-> t, ver |-> render.built[t]])
                     \/ t \notin render.moved \cup {"stats"} /\ UNCHANGED hubVars
                  /\ render' = [render EXCEPT !.todo = Tail(@)]
    /\ UNCHANGED <<kick, frames, reqVars, conn, screen>>

Render == StartRender \/ RenderBuild \/ RenderSwap \/ RenderCount \/ RenderSend

\* A wake or scan event of another goroutine.
Broadcast ==
    /\ send(Notice)
    /\ UNCHANGED <<kick, frames, render, reqVars, conn, screen>>

-----------------------------------------------------------------------------
\* handleEvents, one goroutine per connection.

\* Headers are out, the channel is in the hub, the greeting is not loaded.
Attach(c) ==
    /\ conn[c].pc = "gone"
    /\ conn' = [conn EXCEPT ![c].pc = "attached"]
    /\ clients' = clients \cup {c}
    /\ queue' = [queue EXCEPT ![c] = <<>>]
    /\ missed' = [missed EXCEPT ![c] = {}]
    /\ UNCHANGED <<kick, frames, render, reqVars, screen>>

\* frames.Load(): before the first render there is only the hello frame.
LoadGreeting(c) ==
    /\ conn[c].pc = "attached"
    /\ conn' = [conn EXCEPT ![c].pc = "greet", ![c].greeting = frames]
    /\ UNCHANGED <<kick, frames, render, hubVars, reqVars, screen>>

\* The page stores what it receives, and repaints unless the user holds the table.
Received(s, t, v) ==
    [s EXCEPT !.got[t] = v,
              !.painted[t] = IF t \in s.held THEN @ ELSE v]

Greeted(s, g) ==
    [s EXCEPT !.got = [t \in Topic |-> IF g[t] = 0 THEN s.got[t] ELSE g[t]],
              !.painted = [t \in Topic |-> IF g[t] = 0 \/ t \in s.held
                                             THEN s.painted[t] ELSE g[t]]]

\* Mutant: what was queued during the greeting is discarded as a duplicate.
GreetDropsQueued(c) ==
    /\ conn[c].pc = "greet"
    /\ conn' = [conn EXCEPT ![c].pc = "relay"]
    /\ screen' = [screen EXCEPT ![c] = Greeted(@, conn[c].greeting)]
    /\ queue' = [queue EXCEPT ![c] = <<>>]
    /\ UNCHANGED <<kick, frames, render, clients, missed, reqVars>>

Greet(c) ==
    /\ conn[c].pc = "greet"
    /\ conn' = [conn EXCEPT ![c].pc = "relay"]
    /\ screen' = [screen EXCEPT ![c] = Greeted(@, conn[c].greeting)]
    /\ UNCHANGED <<kick, frames, render, hubVars, reqVars>>

Relay(c) ==
    /\ conn[c].pc = "relay"
    /\ queue[c] # <<>>
    /\ LET f == Head(queue[c])
       IN  screen' = IF f.topic \in Topic
                       THEN [screen EXCEPT ![c] = Received(@, f.topic, f.ver)]
                       ELSE screen
    /\ queue' = [queue EXCEPT ![c] = Tail(@)]
    /\ UNCHANGED <<kick, frames, render, clients, missed, reqVars, conn>>

\* The request's context ends or a write fails: Hub.remove.
Leave(c) ==
    /\ conn[c].pc # "gone"
    /\ conn' = [conn EXCEPT ![c].pc = "gone", ![c].greeting = NoFrames]
    /\ clients' = clients \ {c}
    /\ queue' = [queue EXCEPT ![c] = <<>>]
    /\ missed' = [missed EXCEPT ![c] = {}]
    /\ UNCHANGED <<kick, frames, render, reqVars, screen>>

\* The user selects text in a table or enters one of its inputs, and releases the
\* selection or leaves the input; neither end repaints the table by itself.
Hold(c, t) ==
    /\ screen' = [screen EXCEPT ![c].held = @ \cup {t}]
    /\ UNCHANGED <<kick, frames, render, hubVars, reqVars, conn>>

Release(c, t) ==
    /\ screen' = [screen EXCEPT ![c].held = @ \ {t}]
    /\ UNCHANGED <<kick, frames, render, hubVars, reqVars, conn>>

Serve(c) == LoadGreeting(c) \/ Greet(c) \/ Relay(c)

-----------------------------------------------------------------------------
\* Run renders once before it starts its loops; clients may be there already.
Init ==
    /\ data = [t \in Topic |-> 1]
    /\ req = [h \in Handler |-> Idle]
    /\ kick = FALSE
    /\ frames = NoFrames
    /\ render = [pc |-> "build", built |-> NoFrames, todo |-> Topics, moved |-> {}]
    /\ clients = {}
    /\ queue = [c \in Page |-> <<>>]
    /\ conn = [c \in Page |-> [pc |-> "gone", greeting |-> NoFrames]]
    /\ screen = [c \in Page |-> [got |-> NoFrames, painted |-> NoFrames, held |-> {}]]
    /\ promised = NoFrames
    /\ missed = [c \in Page |-> {}]

Next ==
    \/ Render
    \/ Broadcast
    \/ \E t \in Topic : Change(t)
    \/ \E h \in Handler : KickRender(h) \/ \E t \in Topic : Mutate(h, t)
    \/ \E c \in Page : Serve(c) \/ Attach(c) \/ Leave(c)
    \/ \E c \in Page, t \in Holdable : Hold(c, t) \/ Release(c, t)

Spec == Init /\ [][Next]_vars

\* The ticker keeps the render loop going and no step of it waits for another
\* goroutine.  A prompt page's connection takes what is written to it.
FairSpec ==
    /\ Spec
    /\ WF_vars(Render)
    /\ \A c \in Prompt : WF_vars(Serve(c))

-----------------------------------------------------------------------------
\* Every variable holds what its source variable can hold; no channel holds
\* more frames than its capacity (Hub.add, Hub.send).
TypeOK ==
    /\ data \in [Topic -> Version]
    /\ req \in [Handler -> [topic : Topic, ver : Version] \cup {Idle}]
    /\ kick \in BOOLEAN
    /\ frames \in FrameSet
    /\ render \in [pc : {"idle", "build", "swap", "count", "send"}, built : FrameSet,
                   todo : Seq(Topic \cup {"stats"}), moved : SUBSET Topic]
    /\ clients \subseteq Page
    /\ queue \in [Page -> Seq(Frame)] /\ \A c \in Page : Len(queue[c]) <= Cap
    /\ conn \in [Page -> [pc : {"gone", "attached", "greet", "relay"},
                          greeting : FrameSet]]
    /\ screen \in [Page -> [got : FrameSet, painted : FrameSet,
                            held : SUBSET Topic]]
    /\ promised \in FrameSet
    /\ missed \in [Page -> SUBSET Topic]

\* The newest version of a topic in a queue, and in all a connection has written,
\* is writing or has queued.
Queued(q, t) == {i \in DOMAIN q : q[i].topic = t}
NewestIn(q, t, v) == \E i \in Queued(q, t) : q[i].ver = v /\ \A j \in Queued(q, t) : j <= i
Written(c, t) == IF conn[c].pc = "greet" THEN conn[c].greeting[t] ELSE screen[c].got[t]
Newest(c, t, v) == IF Queued(queue[c], t) = {} THEN Written(c, t) = v
                   ELSE NewestIn(queue[c], t, v)

ToBeSent(t) ==
    /\ render.pc \in {"count", "send"}
    /\ t \in ToSet(render.todo) /\ t \in render.moved

\* From the moment a connection has loaded its greeting, the published version
\* of every topic is the last thing in its pipeline, unless the render that
\* published it is still to send it or a full queue has dropped it: attaching
\* before loading, and swapping before sending, leaves no gap (handleEvents).
NothingSlipsBetween ==
    \A c \in Page, t \in Topic :
        /\ conn[c].pc \in {"greet", "relay"}
        /\ t \notin missed[c]
        => Newest(c, t, frames[t]) \/ ToBeSent(t)

\* When a request has returned, a render that reads what it wrote has been
\* published, is under way or is asked for, although a kick that finds one
\* pending is dropped (kickRender).
KickCoversMutation ==
    \A t \in Topic :
        \/ promised[t] <= frames[t]
        \/ kick
        \/ render.pc = "build" /\ t \in ToSet(render.todo)
        \/ render.pc \in {"build", "swap"} /\ promised[t] <= render.built[t]

\* Once the data rests, a page that keeps reading receives its last version,
\* unless its queue overflowed on it (render, handleEvents), and paints it, if
\* nobody ever edits or selects in its table (openStream in app.js).
PromptPageCatchesUp ==
    \A c \in Prompt, t \in Topic :
        <>[](conn[c].pc = "relay" /\ t \notin missed[c])
            => /\ <>[](screen[c].got[t] = data[t])
               /\ [](t \notin screen[c].held) => <>[](screen[c].painted[t] = data[t])
=============================================================================
