---------------------------- MODULE StreamProofs ----------------------------
(***************************************************************************)
(* Theorems about Stream for every set of pages, topics and requests, any  *)
(* channel capacity and any number of versions.                            *)
(***************************************************************************)
EXTENDS Stream, SequenceTheorems, TLAPS

\* Versions and the render loop's own state.
Shape ==
    /\ data \in [Topic -> Nat]
    /\ frames \in [Topic -> Nat]
    /\ promised \in [Topic -> Nat]
    /\ req \in [Handler -> [topic : Topic, ver : Nat] \cup {Idle}]
    /\ DOMAIN render = {"pc", "built", "todo", "moved"}
    /\ render.pc \in {"idle", "build", "swap", "count", "send"}
    /\ render.built \in [Topic -> Nat]
    /\ render.pc = "build" => render.todo \in Seq(STRING)

\* Nothing runs ahead of the data it was taken from.
Behind ==
    /\ \A t \in Topic : /\ frames[t] <= data[t] /\ promised[t] <= data[t]
                       /\ render.built[t] <= data[t]
    /\ \A h \in Handler : req[h] # Idle => req[h].ver <= data[req[h].topic]

\* A build in progress has replaced every topic it is not still to replace, and
\* by no older version than the published one.
Building ==
    \A t \in Topic :
        /\ render.pc = "build" /\ t \notin ToSet(render.todo)
             => frames[t] <= render.built[t]
        /\ render.pc = "swap" => frames[t] <= render.built[t]

KickInv == Shape /\ Behind /\ Building /\ KickCoversMutation

-----------------------------------------------------------------------------
LEMMA StringsTravel == Topic \subseteq STRING /\ Topics \in Seq(STRING)
BY TopicsAssumption, RangeEquality DEF Topic, ToSet

\* An element is the head of a queue or in its tail.
LEMMA HeadOrTail ==
    ASSUME NEW S, NEW s \in Seq(S), s # <<>>
    PROVE  /\ Tail(s) \in Seq(S) /\ Head(s) \in S
           /\ ToSet(s) = {Head(s)} \cup ToSet(Tail(s))
<1>1. Len(s) \in Nat /\ Len(s) > 0 /\ Tail(s) \in Seq(S) /\ Head(s) \in S
  BY EmptySeq, HeadTailProperties
<1>2. /\ Len(Tail(s)) = Len(s) - 1
      /\ \A i \in 1 .. Len(Tail(s)) : Tail(s)[i] = s[i + 1]
      /\ DOMAIN s = 1 .. Len(s) /\ DOMAIN Tail(s) = 1 .. Len(Tail(s))
      /\ Head(s) = s[1]
  BY <1>1, HeadTailProperties
<1>3. ASSUME NEW i \in 1 .. Len(s)
      PROVE  s[i] = Head(s) \/ \E j \in DOMAIN Tail(s) : s[i] = Tail(s)[j]
  <2>1. CASE i = 1
    BY <1>2, <2>1
  <2>2. CASE i # 1
    <3>1. i - 1 \in 1 .. Len(Tail(s)) /\ Tail(s)[i - 1] = s[(i - 1) + 1]
      BY <1>1, <1>2, <2>2
    <3>2. (i - 1) + 1 = i
      BY <1>1
    <3>3. QED
      BY <1>2, <3>1, <3>2
  <2>3. QED
    BY <2>1, <2>2
<1>4. \A j \in DOMAIN Tail(s) : j + 1 \in DOMAIN s /\ Tail(s)[j] = s[j + 1]
  BY <1>1, <1>2
<1>5. 1 \in DOMAIN s
  BY <1>1, <1>2
<1>6. QED
  BY <1>1, <1>2, <1>3, <1>4, <1>5 DEF ToSet

\* What a step that leaves the render loop and its frames alone must do.
LEMMA DataMoves ==
    ASSUME KickInv,
           UNCHANGED <<frames, render>>, data' \in [Topic -> Nat],
           \A t \in Topic : data[t] <= data'[t],
           Shape', Behind',
           kick => kick',
           \A t \in Topic : promised'[t] = promised[t] \/ kick'
    PROVE  KickInv'
<1>1. Building'
  BY DEF KickInv, Building
<1>2. KickCoversMutation'
  BY DEF KickInv, KickCoversMutation
<1>3. QED
  BY <1>1, <1>2 DEF KickInv

LEMMA ChangeStep ==
    ASSUME KickInv, NEW t \in Topic, Change(t)
    PROVE  KickInv'
<1>1. /\ data' \in [Topic -> Nat] /\ \A u \in Topic : data[u] <= data'[u]
      /\ UNCHANGED <<frames, render, kick, promised, req>>
  BY DEF Change, KickInv, Shape
<1>2. Shape'
  BY <1>1 DEF KickInv, Shape
<1>3. Behind'
  <2>1. \A u \in Topic : /\ frames'[u] <= data'[u] /\ promised'[u] <= data'[u]
                          /\ render'.built[u] <= data'[u]
    BY <1>1 DEF KickInv, Shape, Behind
  <2>2. \A h \in Handler : req'[h] # Idle => req'[h].ver <= data'[req'[h].topic]
    <3>1. SUFFICES ASSUME NEW h \in Handler, req[h] # Idle
                   PROVE  req[h].ver <= data'[req[h].topic]
      BY <1>1
    <3>2. req[h].topic \in Topic /\ req[h].ver \in Nat
      BY <3>1 DEF KickInv, Shape
    <3>3. req[h].ver <= data[req[h].topic]
      BY <3>1 DEF KickInv, Behind
    <3>4. QED
      BY <1>1, <3>2, <3>3 DEF KickInv, Shape
  <2>3. QED
    BY <2>1, <2>2 DEF Behind
<1>4. QED
  BY <1>1, <1>2, <1>3, DataMoves

LEMMA MutateStep ==
    ASSUME KickInv, NEW g \in Handler, NEW t \in Topic, Mutate(g, t)
    PROVE  KickInv'
<1>1. /\ data' \in [Topic -> Nat] /\ \A u \in Topic : data[u] <= data'[u]
      /\ UNCHANGED <<frames, render, kick, promised>>
  BY DEF Mutate, KickInv, Shape
<1>2. /\ [topic |-> t, ver |-> data'[t]] \in [topic : Topic, ver : Nat]
      /\ req'[g] = [topic |-> t, ver |-> data'[t]]
      /\ \A h \in Handler \ {g} : req'[h] = req[h]
  BY <1>1 DEF Mutate, KickInv, Shape
<1>3. Shape'
  <2>1. req' \in [Handler -> [topic : Topic, ver : Nat] \cup {Idle}]
    BY <1>2 DEF Mutate, KickInv, Shape
  <2>2. QED
    BY <1>1, <2>1 DEF KickInv, Shape
<1>4. Behind'
  <2>1. \A u \in Topic : /\ frames'[u] <= data'[u] /\ promised'[u] <= data'[u]
                          /\ render'.built[u] <= data'[u]
    BY <1>1 DEF KickInv, Shape, Behind
  <2>2. ASSUME NEW h \in Handler, req'[h] # Idle
        PROVE  req'[h].ver <= data'[req'[h].topic]
    <3>1. CASE h = g
      BY <1>1, <1>2, <3>1
    <3>2. CASE h # g
      <4>1. req'[h] = req[h] /\ req[h].topic \in Topic /\ req[h].ver \in Nat
        BY <1>2, <2>2, <3>2 DEF KickInv, Shape
      <4>2. req[h].ver <= data[req[h].topic]
        BY <2>2, <4>1 DEF KickInv, Behind
      <4>3. QED
        BY <1>1, <4>1, <4>2 DEF KickInv, Shape
    <3>3. QED
      BY <3>1, <3>2
  <2>3. QED
    BY <2>1, <2>2 DEF Behind
<1>5. QED
  BY <1>1, <1>3, <1>4, DataMoves

LEMMA KickStep ==
    ASSUME KickInv, NEW g \in Handler, KickRender(g)
    PROVE  KickInv'
<1>1. /\ req[g].topic \in Topic /\ req[g].ver \in Nat
      /\ req[g].ver <= data[req[g].topic]
      /\ UNCHANGED <<data, frames, render>> /\ kick'
  BY DEF KickRender, KickInv, Shape, Behind
<1>2. ASSUME NEW u \in Topic
      PROVE  promised'[u] \in Nat /\ promised'[u] <= data[u]
  BY <1>1, <1>2 DEF KickRender, KickInv, Shape, Behind
<1>3. promised' \in [Topic -> Nat]
  BY <1>2 DEF KickRender, KickInv, Shape
<1>4. \A h \in Handler : req'[h] = Idle \/ req'[h] = req[h]
  BY DEF KickRender, KickInv, Shape
<1>5. req' \in [Handler -> [topic : Topic, ver : Nat] \cup {Idle}]
  BY DEF KickRender, KickInv, Shape
<1>6. Shape'
  BY <1>1, <1>3, <1>5 DEF KickInv, Shape
<1>7. Behind'
  BY <1>1, <1>2, <1>4 DEF KickInv, Behind
<1>8. data' \in [Topic -> Nat] /\ \A u \in Topic : data[u] <= data'[u]
  BY <1>1 DEF KickInv, Shape
<1>9. \A u \in Topic : promised'[u] = promised[u] \/ kick'
  BY <1>1
<1>10. QED
  BY <1>1, <1>6, <1>7, <1>8, <1>9, DataMoves

-----------------------------------------------------------------------------
(* The render loop.                                                        *)

LEMMA StartStep ==
    ASSUME KickInv, StartRender
    PROVE  KickInv'
<1>1. /\ render' = [render EXCEPT !.pc = "build", !.todo = Topics]
      /\ UNCHANGED <<data, frames, promised, req>>
  BY DEF StartRender, reqVars
<1>2. /\ render'.pc = "build" /\ render'.todo = Topics
      /\ render'.built = render.built /\ DOMAIN render' = DOMAIN render
  BY <1>1 DEF KickInv, Shape
<1>3. Shape' /\ Behind'
  BY <1>1, <1>2, StringsTravel DEF KickInv, Shape, Behind
<1>4. Building' /\ KickCoversMutation'
  BY <1>1, <1>2 DEF Building, KickCoversMutation, Topic
<1>5. QED
  BY <1>3, <1>4 DEF KickInv

LEMMA BuildStep ==
    ASSUME KickInv, RenderBuild
    PROVE  KickInv'
<1>1. UNCHANGED <<data, frames, promised, req, kick>>
  BY DEF RenderBuild, reqVars
<1>2. /\ render.pc = "build" /\ render.todo \in Seq(STRING)
      /\ render.built \in [Topic -> Nat]
  BY DEF RenderBuild, KickInv, Shape
<1>3. CASE render.todo = <<>>
  <2>1. render' = [render EXCEPT !.pc = "swap"]
    BY <1>3 DEF RenderBuild
  <2>2. /\ render'.pc = "swap" /\ render'.built = render.built
        /\ DOMAIN render' = DOMAIN render
    BY <2>1 DEF KickInv, Shape
  <2>3. ToSet(render.todo) = {}
    BY <1>3 DEF ToSet
  <2>4. Shape' /\ Behind'
    BY <1>1, <2>2 DEF KickInv, Shape, Behind
  <2>5. Building' /\ KickCoversMutation'
    BY <1>1, <1>2, <2>2, <2>3 DEF KickInv, Building, KickCoversMutation
  <2>6. QED
    BY <2>4, <2>5 DEF KickInv
<1>4. CASE render.todo # <<>>
  <2> DEFINE t == Head(render.todo)
  <2>1. render' = [render EXCEPT !.built[t] = data[t], !.todo = Tail(render.todo)]
    BY <1>4 DEF RenderBuild
  <2>2. /\ Tail(render.todo) \in Seq(STRING)
        /\ ToSet(render.todo) = {t} \cup ToSet(Tail(render.todo))
    BY <1>2, <1>4, HeadOrTail
  <2>3. /\ render'.pc = "build" /\ render'.todo = Tail(render.todo)
        /\ render'.built = [render.built EXCEPT ![t] = data[t]]
        /\ DOMAIN render' = DOMAIN render
    BY <1>2, <2>1 DEF KickInv, Shape
  <2>4. \A u \in Topic : render'.built[u] = IF u = t THEN data[u] ELSE render.built[u]
    BY <1>2, <2>3
  <2>5. render'.built \in [Topic -> Nat]
    BY <1>2, <2>3 DEF KickInv, Shape
  <2>6. Shape'
    BY <1>1, <2>2, <2>3, <2>5 DEF KickInv, Shape
  <2>7. Behind'
    <3>1. ASSUME NEW u \in Topic PROVE render'.built[u] <= data[u]
      <4>1. data[u] \in Nat /\ render.built[u] <= data[u]
        BY DEF KickInv, Shape, Behind
      <4>2. data[u] <= data[u]
        BY <4>1
      <4>3. QED
        BY <2>4, <4>1, <4>2
    <3>2. QED
      BY <1>1, <3>1 DEF KickInv, Behind
  <2>8. Building'
    BY <1>1, <1>2, <2>2, <2>3, <2>4 DEF KickInv, Building, Behind
  <2>9. KickCoversMutation'
    BY <1>1, <1>2, <2>2, <2>3, <2>4 DEF KickInv, Behind, KickCoversMutation
  <2>10. QED
    BY <2>6, <2>7, <2>8, <2>9 DEF KickInv
<1>5. QED
  BY <1>3, <1>4

LEMMA SwapStep ==
    ASSUME KickInv, RenderSwap
    PROVE  KickInv'
<1>1. /\ UNCHANGED <<data, promised, req, kick>>
      /\ render.pc = "swap" /\ frames' = render.built
  BY DEF RenderSwap, reqVars
<1>2. /\ render'.pc = "count" /\ render'.built = render.built
      /\ DOMAIN render' = DOMAIN render
  BY DEF RenderSwap, KickInv, Shape
<1>3. Shape' /\ Behind' /\ Building'
  BY <1>1, <1>2 DEF KickInv, Shape, Behind, Building
<1>4. KickCoversMutation'
  <2>1. SUFFICES ASSUME NEW t \in Topic
                 PROVE  promised[t] <= render.built[t] \/ kick
    BY <1>1 DEF KickCoversMutation
  <2>2. CASE promised[t] <= frames[t]
    <3>1. frames[t] <= render.built[t]
      BY <1>1 DEF KickInv, Building
    <3>2. QED
      BY <2>2, <3>1 DEF KickInv, Shape
  <2>3. CASE ~(promised[t] <= frames[t])
    BY <1>1, <2>3 DEF KickInv, KickCoversMutation
  <2>4. QED
    BY <2>2, <2>3
<1>5. QED
  BY <1>3, <1>4 DEF KickInv

\* Counting and sending build nothing; no kick is taken.
LEMMA SendStep ==
    ASSUME KickInv, RenderCount \/ RenderSend
    PROVE  KickInv'
<1>1. UNCHANGED <<data, promised, req, kick, frames>>
  BY DEF RenderCount, RenderSend, reqVars
<1>2. /\ render.pc \in {"count", "send"} /\ render'.pc \in {"idle", "send"}
      /\ render'.built = render.built /\ DOMAIN render' = DOMAIN render
  BY DEF RenderCount, RenderSend, Done, KickInv, Shape
<1>3. Shape' /\ Behind' /\ Building'
  BY <1>1, <1>2 DEF KickInv, Shape, Behind, Building
<1>4. KickCoversMutation'
  BY <1>1, <1>2 DEF KickInv, KickCoversMutation
<1>5. QED
  BY <1>3, <1>4 DEF KickInv

-----------------------------------------------------------------------------
LEMMA KickInvStep == KickInv /\ [Next]_vars => KickInv'
<1> SUFFICES ASSUME KickInv, [Next]_vars PROVE KickInv'
  OBVIOUS
<1>1. ASSUME UNCHANGED <<data, req, kick, frames, render, promised>> PROVE KickInv'
  BY <1>1 DEF KickInv, Shape, Behind, Building, KickCoversMutation
<1>2. CASE Render
  BY <1>2, StartStep, BuildStep, SwapStep, SendStep DEF Render
<1>3. CASE Broadcast
  BY <1>1, <1>3 DEF Broadcast, reqVars
<1>4. ASSUME NEW t \in Topic, Change(t) PROVE KickInv'
  BY <1>4, ChangeStep
<1>5. ASSUME NEW h \in Handler, KickRender(h) PROVE KickInv'
  BY <1>5, KickStep
<1>6. ASSUME NEW h \in Handler, NEW t \in Topic, Mutate(h, t) PROVE KickInv'
  BY <1>6, MutateStep
<1>7. ASSUME NEW c \in Page, Serve(c) \/ Attach(c) \/ Leave(c) PROVE KickInv'
  BY <1>1, <1>7 DEF Serve, LoadGreeting, Greet, Relay, Attach, Leave, reqVars
<1>8. ASSUME NEW c \in Page, NEW t \in Holdable, Hold(c, t) \/ Release(c, t)
      PROVE  KickInv'
  BY <1>1, <1>8 DEF Hold, Release, reqVars
<1>9. CASE UNCHANGED vars
  BY <1>1, <1>9 DEF vars
<1>10. QED
  BY <1>2, <1>3, <1>4, <1>5, <1>6, <1>7, <1>8, <1>9 DEF Next

LEMMA KickInvInit == Init => KickInv
<1> SUFFICES ASSUME Init PROVE KickInv
  OBVIOUS
<1>1. Shape
  BY StringsTravel DEF Init, Shape, NoFrames, Idle
<1>2. Behind /\ Building /\ KickCoversMutation
  BY DEF Init, Behind, Building, KickCoversMutation, NoFrames, Topic
<1>3. QED
  BY <1>1, <1>2 DEF KickInv

\* A dropped kick is never a lost one: what a request wrote before it returned is
\* published, being built, or asked for (kickRender, renderLoop, render).
THEOREM KickAlwaysCoversMutation == Spec => []KickCoversMutation
<1>1. KickInv => KickCoversMutation
  BY DEF KickInv
<1>2. QED
  BY <1>1, KickInvInit, KickInvStep, PTL DEF Spec

-----------------------------------------------------------------------------
(* Types, and no gap between greeting and queue.                           *)

Todo == Topic \cup {"stats"}
RenderSet == [pc : {"idle", "build", "swap", "count", "send"}, built : FrameSet,
              todo : Seq(Todo), moved : SUBSET Topic]
ConnSet == [pc : {"gone", "attached", "greet", "relay"}, greeting : FrameSet]
ScreenSet == [got : FrameSet, painted : FrameSet, held : SUBSET Topic]
ReqSet == [topic : Topic, ver : Version] \cup {Idle}

\* A build has a version for every topic it is done with, and what is being sent
\* is what was published.
Built ==
    /\ render.pc = "build" => \A t \in Topic \ ToSet(render.todo) : render.built[t] # 0
    /\ render.pc \in {"swap", "count", "send"} => \A t \in Topic : render.built[t] # 0
    /\ render.pc \in {"count", "send"} => frames = render.built

LEMMA Names ==
    /\ Topic \subseteq STRING /\ Topics \in Seq(Todo)
    /\ \A t \in Topic : t # "stats" /\ t # "event"
BY StringsTravel, TopicsAssumption, RangeEquality, SeqDef DEF Topic, ToSet, Todo

LEMMA FirstVersions == /\ NoFrames \in FrameSet /\ Version \subseteq Nat \ {0}
                       /\ FrameSet = [Topic -> {0} \cup Version]
BY SizeAssumption DEF NoFrames, FrameSet, Version

LEMMA RenderParts ==
    ASSUME TypeOK
    PROVE  /\ render \in RenderSet /\ render.todo \in Seq(Todo)
           /\ render.built \in FrameSet /\ frames \in FrameSet /\ data \in [Topic -> Version]
<1>1. render \in RenderSet
  BY DEF TypeOK, RenderSet, Todo
<1>2. render.todo \in Seq(Todo) /\ render.built \in FrameSet
  BY <1>1 DEF RenderSet
<1>3. QED
  BY <1>1, <1>2 DEF TypeOK

\* What a step of the render loop that leaves the hub alone must show.
LEMMA RenderTyped ==
    ASSUME TypeOK, render' \in RenderSet, frames' \in FrameSet, kick' \in BOOLEAN,
           UNCHANGED <<hubVars, reqVars, conn, screen>>
    PROVE  TypeOK'
BY DEF TypeOK, RenderSet, Todo, hubVars, reqVars

LEMMA StartTyped ==
    ASSUME TypeOK, Built, StartRender
    PROVE  TypeOK' /\ Built'
<1>1. render' = [render EXCEPT !.pc = "build", !.todo = Topics]
  BY DEF StartRender
<1>2. render' \in RenderSet /\ render'.pc = "build" /\ render'.todo = Topics
  BY <1>1, RenderParts, Names DEF RenderSet
<1>3. TypeOK'
  BY <1>2, RenderTyped DEF StartRender, TypeOK
<1>4. Built'
  BY <1>2 DEF Built, Topic
<1>5. QED
  BY <1>3, <1>4

LEMMA BuildTyped ==
    ASSUME TypeOK, Built, RenderBuild
    PROVE  TypeOK' /\ Built'
<1>1. /\ render \in RenderSet /\ render.pc = "build" /\ render.todo \in Seq(Todo)
      /\ render.built \in FrameSet /\ data \in [Topic -> Version]
  BY RenderParts DEF RenderBuild
<1>2. CASE render.todo = <<>>
  <2>1. render' = [render EXCEPT !.pc = "swap"]
    BY <1>2 DEF RenderBuild
  <2>2. render' \in RenderSet /\ render'.pc = "swap" /\ render'.built = render.built
    BY <1>1, <2>1 DEF RenderSet
  <2>3. ToSet(render.todo) = {}
    BY <1>2 DEF ToSet
  <2>4. TypeOK'
    BY <2>2, RenderTyped DEF RenderBuild, TypeOK
  <2>5. Built'
    BY <1>1, <2>2, <2>3 DEF Built
  <2>6. QED
    BY <2>4, <2>5
<1>3. CASE render.todo # <<>>
  <2>1. PICK t : t = Head(render.todo)
    OBVIOUS
  <2>2. render' = [render EXCEPT !.built[t] = data[t], !.todo = Tail(render.todo)]
    BY <1>3, <2>1 DEF RenderBuild
  <2>3. ToSet(render.todo) = {t} \cup ToSet(Tail(render.todo))
    BY <1>1, <1>3, <2>1, HeadOrTail
  <2>4. Tail(render.todo) \in Seq(Todo)
    BY <1>1, <1>3, HeadTailProperties
  <2>5. [render.built EXCEPT ![t] = data[t]] \in FrameSet
    BY <1>1, FirstVersions
  <2>6. /\ render' \in RenderSet /\ render'.pc = "build"
        /\ render'.todo = Tail(render.todo)
        /\ render'.built = [render.built EXCEPT ![t] = data[t]]
    BY <1>1, <2>2, <2>4, <2>5 DEF RenderSet
  <2>7. TypeOK'
    BY <2>6, RenderTyped DEF RenderBuild, TypeOK
  <2>8. \A u \in Topic \ ToSet(render'.todo) : render'.built[u] # 0
    <3>1. SUFFICES ASSUME NEW u \in Topic, u \notin ToSet(Tail(render.todo))
                   PROVE  render'.built[u] # 0
      BY <2>6
    <3>2. CASE u = t
      BY <1>1, <2>6, <3>2, FirstVersions
    <3>3. CASE u # t
      BY <1>1, <2>3, <2>6, <3>1, <3>3 DEF Built
    <3>4. QED
      BY <3>2, <3>3
  <2>9. Built'
    BY <2>6, <2>8 DEF Built
  <2>10. QED
    BY <2>7, <2>9
<1>4. QED
  BY <1>2, <1>3

LEMMA SwapTodo ==
    /\ <<"stats">> \o Topics \in Seq(Todo)
    /\ Topic \subseteq ToSet(<<"stats">> \o Topics)
<1>1. <<"stats">> \in Seq(Todo) /\ Len(<<"stats">>) = 1
  BY DEF Todo
<1>2. Topics \in Seq(Todo) /\ Len(Topics) \in Nat /\ DOMAIN Topics = 1 .. Len(Topics)
  BY Names, LenProperties
<1>3. PICK s : s = <<"stats">> \o Topics
  OBVIOUS
<1>4. /\ s \in Seq(Todo) /\ Len(s) = 1 + Len(Topics)
      /\ \A i \in 1 .. 1 + Len(Topics) :
            s[i] = IF i <= 1 THEN <<"stats">>[i] ELSE Topics[i - 1]
  BY <1>1, <1>2, <1>3, ConcatProperties
<1>5. DOMAIN s = 1 .. 1 + Len(Topics)
  BY <1>4, LenProperties
<1>6. ASSUME NEW i \in 1 .. Len(Topics) PROVE Topics[i] = s[i + 1] /\ i + 1 \in DOMAIN s
  <2>1. i + 1 \in 1 .. 1 + Len(Topics) /\ ~(i + 1 <= 1) /\ (i + 1) - 1 = i
    BY <1>2
  <2>2. QED
    BY <1>4, <1>5, <2>1
<1>7. \A t \in Topic : \E i \in 1 .. Len(Topics) : t = Topics[i]
  BY <1>2 DEF Topic, ToSet
<1>8. Topic \subseteq ToSet(s)
  BY <1>6, <1>7 DEF ToSet
<1>9. QED
  BY <1>3, <1>4, <1>8

LEMMA SwapTyped ==
    ASSUME TypeOK, Built, RenderSwap
    PROVE  /\ TypeOK' /\ Built'
           /\ render'.pc = "count"
           /\ \A t \in Topic : frames'[t] = frames[t]
                  \/ (t \in ToSet(render'.todo) /\ t \in render'.moved)
<1>0. PICK moved : moved = {t \in Topic : frames[t] # render.built[t]}
  OBVIOUS
<1>1. /\ render.pc = "swap" /\ frames' = render.built
      /\ render' = [render EXCEPT !.pc = "count", !.todo = <<"stats">> \o Topics,
                                  !.moved = moved]
  BY <1>0 DEF RenderSwap, Changed
<1>2. moved \in SUBSET Topic
  BY <1>0
<1>3. /\ render' \in RenderSet /\ render'.pc = "count" /\ render'.built = render.built
      /\ render'.todo = <<"stats">> \o Topics /\ render'.moved = moved
  BY <1>1, <1>2, SwapTodo, RenderParts DEF RenderSet
<1>4. TypeOK'
  BY <1>1, <1>3, RenderTyped, RenderParts DEF RenderSwap, TypeOK
<1>5. Built'
  BY <1>1, <1>3 DEF Built
<1>6. QED
  BY <1>0, <1>1, <1>3, <1>4, <1>5, SwapTodo

LEMMA DoneTyped ==
    ASSUME TypeOK
    PROVE  Done \in RenderSet /\ Done.pc = "idle"
<1>1. <<>> \in Seq(Todo)
  BY EmptySeq
<1>2. QED
  BY <1>1, RenderParts DEF Done, RenderSet

LEMMA CountTyped ==
    ASSUME TypeOK, Built, RenderCount
    PROVE  /\ TypeOK' /\ Built'
           /\ \/ clients = {}
              \/ /\ render'.pc = "send" /\ render'.todo = render.todo
                 /\ render'.moved = render.moved
<1>1. CASE clients = {}
  <2>1. render' \in RenderSet /\ render'.pc = "idle"
    BY <1>1, DoneTyped DEF RenderCount
  <2>2. QED
    BY <1>1, <2>1, RenderTyped DEF RenderCount, TypeOK, Built
<1>2. CASE clients # {}
  <2>1. /\ render' \in RenderSet /\ render'.pc = "send" /\ render'.built = render.built
        /\ render'.todo = render.todo /\ render'.moved = render.moved
    BY <1>2, RenderParts DEF RenderCount, RenderSet
  <2>2. TypeOK'
    BY <2>1, RenderTyped DEF RenderCount, TypeOK
  <2>3. QED
    BY <1>2, <2>1, <2>2 DEF RenderCount, Built
<1>3. QED
  BY <1>1, <1>2

-----------------------------------------------------------------------------
(* Queues.                                                                 *)

LEMMA QueueAppend ==
    ASSUME NEW q \in Seq(Frame), NEW f \in Frame, NEW t \in Topic
    PROVE  /\ f.topic = t => /\ Queued(Append(q, f), t) # {}
                             /\ NewestIn(Append(q, f), t, f.ver)
           /\ f.topic # t => /\ Queued(Append(q, f), t) = Queued(q, t)
                             /\ \A v : NewestIn(q, t, v) => NewestIn(Append(q, f), t, v)
<1>0. PICK a : a = Append(q, f)
  OBVIOUS
<1>1. /\ Len(q) \in Nat /\ DOMAIN q = 1 .. Len(q)
      /\ a \in Seq(Frame) /\ Len(a) = Len(q) + 1
      /\ \A i \in 1 .. Len(q) : a[i] = q[i]
      /\ a[Len(q) + 1] = f
  BY <1>0, LenProperties, AppendProperties
<1>2. DOMAIN a = 1 .. Len(q) + 1
  BY <1>1, LenProperties
<1>3. \A i \in DOMAIN a : i = Len(q) + 1 \/ (i \in DOMAIN q /\ a[i] = q[i])
  BY <1>1, <1>2
<1>4. Len(q) + 1 \in DOMAIN a /\ DOMAIN q \subseteq DOMAIN a /\ \A i \in DOMAIN a : i <= Len(q) + 1
  BY <1>1, <1>2
<1>5. CASE f.topic = t
  <2>1. Len(q) + 1 \in Queued(a, t)
    BY <1>1, <1>4, <1>5 DEF Queued
  <2>2. NewestIn(a, t, f.ver)
    BY <1>1, <1>4, <2>1 DEF NewestIn, Queued
  <2>3. QED
    BY <1>0, <1>5, <2>1, <2>2
<1>6. CASE f.topic # t
  <2>1. Queued(a, t) = Queued(q, t)
    BY <1>1, <1>3, <1>4, <1>6 DEF Queued
  <2>2. \A i \in Queued(q, t) : a[i] = q[i]
    BY <1>1 DEF Queued
  <2>3. QED
    BY <1>0, <1>6, <2>1, <2>2 DEF NewestIn
<1>7. QED
  BY <1>5, <1>6

LEMMA QueueTail ==
    ASSUME NEW q \in Seq(Frame), q # <<>>, NEW t \in Topic
    PROVE  /\ Queued(Tail(q), t) # {} => /\ Queued(q, t) # {}
                                        /\ \A v : NewestIn(q, t, v) => NewestIn(Tail(q), t, v)
           /\ Queued(Tail(q), t) = {} => /\ Head(q).topic = t <=> Queued(q, t) # {}
                                        /\ \A v : NewestIn(q, t, v) => Head(q).ver = v
<1>0. PICK r : r = Tail(q)
  OBVIOUS
<1>1. /\ Len(q) \in Nat \ {0} /\ Len(r) = Len(q) - 1 /\ r \in Seq(Frame)
      /\ \A i \in 1 .. Len(r) : r[i] = q[i + 1]
      /\ Head(q) = q[1]
  BY <1>0, EmptySeq, HeadTailProperties
<1>2. DOMAIN q = 1 .. Len(q) /\ DOMAIN r = 1 .. Len(q) - 1
  BY <1>1, LenProperties
<1>3. ASSUME NEW i \in Queued(r, t)
      PROVE  i \in Nat /\ i + 1 \in Queued(q, t) /\ q[i + 1] = r[i]
  <2>1. i \in 1 .. Len(q) - 1 /\ r[i].topic = t
    BY <1>2 DEF Queued
  <2>2. i \in 1 .. Len(r) /\ i + 1 \in 1 .. Len(q)
    BY <1>1, <2>1
  <2>3. QED
    BY <1>1, <1>2, <2>1, <2>2 DEF Queued
<1>4. ASSUME NEW i \in Queued(q, t), i # 1
      PROVE  /\ i \in Nat /\ i - 1 \in Nat /\ (i - 1) + 1 = i
             /\ i - 1 \in Queued(r, t) /\ r[i - 1] = q[i]
  <2>1. i \in 1 .. Len(q) /\ q[i].topic = t
    BY <1>2 DEF Queued
  <2>2. i - 1 \in 1 .. Len(r) /\ (i - 1) + 1 = i
    BY <1>1, <1>4, <2>1
  <2>3. r[i - 1] = q[i]
    BY <1>1, <2>2
  <2>4. QED
    BY <1>1, <1>2, <2>1, <2>2, <2>3 DEF Queued
<1>5. CASE Queued(r, t) # {}
  <2>1. Queued(q, t) # {}
    BY <1>3, <1>5
  <2>2. ASSUME NEW v, NewestIn(q, t, v) PROVE NewestIn(r, t, v)
    <3>1. PICK i \in Queued(q, t) : q[i].ver = v /\ \A j \in Queued(q, t) : j <= i
      BY <2>2 DEF NewestIn
    <3>2. i # 1
      <4>1. PICK k \in Queued(r, t) : TRUE
        BY <1>5
      <4>2. k \in Nat /\ k + 1 <= i /\ k >= 1
        <5>1. k + 1 \in Queued(q, t)
          BY <1>3
        <5>2. k \in 1 .. Len(q) - 1
          BY <1>2 DEF Queued
        <5>3. QED
          BY <1>1, <3>1, <5>1, <5>2
      <4>3. QED
        BY <4>2
    <3>3. i \in Nat /\ i - 1 \in Queued(r, t) /\ r[i - 1].ver = v
      BY <1>4, <3>1, <3>2
    <3>4. ASSUME NEW j \in Queued(r, t) PROVE j <= i - 1
      <4>1. j \in Nat /\ j + 1 <= i
        BY <1>3, <3>1
      <4>2. QED
        BY <3>3, <4>1
    <3>5. QED
      BY <3>3, <3>4 DEF NewestIn
  <2>3. QED
    BY <1>0, <1>5, <2>1, <2>2
<1>6. CASE Queued(r, t) = {}
  <2>1. \A i \in Queued(q, t) : i = 1
    BY <1>4, <1>6
  <2>2. 1 \in DOMAIN q
    BY <1>1, <1>2
  <2>3. Head(q).topic = t <=> Queued(q, t) # {}
    BY <1>1, <2>1, <2>2 DEF Queued
  <2>4. \A v : NewestIn(q, t, v) => Head(q).ver = v
    BY <1>1, <2>1 DEF NewestIn
  <2>5. QED
    BY <1>0, <1>6, <2>3, <2>4
<1>7. QED
  BY <1>5, <1>6

LEMMA EmptyQueue ==
    /\ <<>> \in Seq(Frame) /\ Len(<<>>) <= Cap
    /\ \A t : Queued(<<>>, t) = {}
BY EmptySeq, SizeAssumption DEF Queued

-----------------------------------------------------------------------------
(* The hub.                                                                *)

\* What a step that leaves the render loop and the data alone must show.
LEMMA HubTyped ==
    ASSUME TypeOK, Built, UNCHANGED <<kick, frames, render, reqVars>>,
           clients' \subseteq Page, queue' \in [Page -> Seq(Frame)],
           \A c \in Page : Len(queue'[c]) <= Cap,
           conn' \in [Page -> ConnSet], screen' \in [Page -> ScreenSet],
           missed' \in [Page -> SUBSET Topic]
    PROVE  TypeOK' /\ Built'
BY DEF TypeOK, Built, ConnSet, ScreenSet, reqVars

LEMMA HubParts ==
    ASSUME TypeOK
    PROVE  /\ clients \subseteq Page /\ queue \in [Page -> Seq(Frame)]
           /\ \A c \in Page : Len(queue[c]) <= Cap
           /\ conn \in [Page -> ConnSet] /\ screen \in [Page -> ScreenSet]
           /\ missed \in [Page -> SUBSET Topic]
BY DEF TypeOK, ConnSet, ScreenSet

LEMMA FrameKinds ==
    /\ Stats \in Frame /\ Notice \in Frame
    /\ Stats.topic \notin Topic /\ Notice.topic \notin Topic
    /\ \A t \in Topic, v \in Version :
          [topic |-> t, ver |-> v] \in Frame
BY Names DEF Frame, Stats, Notice

\* A send leaves the hub typed, keeps what it does not concern, and puts the frame
\* last in the queue of every client that does not miss it.
LEMMA Sent ==
    ASSUME TypeOK, NEW f \in Frame, send(f)
    PROVE  /\ clients' \subseteq Page /\ queue' \in [Page -> Seq(Frame)]
           /\ \A c \in Page : Len(queue'[c]) <= Cap
           /\ missed' \in [Page -> SUBSET Topic]
           /\ \A c \in Page, t \in Topic :
                 \/ /\ f.topic # t \/ c \notin clients
                    /\ t \in missed'[c] <=> t \in missed[c]
                    /\ Queued(queue'[c], t) = Queued(queue[c], t)
                    /\ \A v : NewestIn(queue[c], t, v) => NewestIn(queue'[c], t, v)
                 \/ f.topic = t /\ t \in missed'[c]
                    /\ (Queued(queue'[c], t) = {} <=> Queued(queue[c], t) = {})
                 \/ /\ f.topic = t /\ Queued(queue'[c], t) # {}
                    /\ NewestIn(queue'[c], t, f.ver)
<1>1. /\ clients \subseteq Page /\ queue \in [Page -> Seq(Frame)]
      /\ \A c \in Page : Len(queue[c]) <= Cap
      /\ missed \in [Page -> SUBSET Topic] /\ Cap \in Nat
  BY HubParts, SizeAssumption
<1>2. clients' = clients
  BY DEF send
<1>3. ASSUME NEW c \in Page
      PROVE  /\ queue'[c] = IF c \in clients /\ HasRoom(c) THEN Append(queue[c], f)
                                                          ELSE queue[c]
             /\ missed'[c] = IF c \in clients /\ f.topic \in Topic
                               THEN IF HasRoom(c) THEN missed[c] \ {f.topic}
                                                  ELSE missed[c] \cup {f.topic}
                               ELSE missed[c]
  BY DEF send
<1>4. ASSUME NEW c \in Page
      PROVE  queue'[c] \in Seq(Frame) /\ Len(queue'[c]) <= Cap
  <2>1. queue[c] \in Seq(Frame) /\ Len(queue[c]) \in Nat /\ Len(queue[c]) <= Cap
    BY <1>1, LenProperties
  <2>2. CASE c \in clients /\ HasRoom(c)
    <3>1. queue'[c] = Append(queue[c], f)
      BY <1>3, <2>2
    <3>2. Append(queue[c], f) \in Seq(Frame) /\ Len(Append(queue[c], f)) = Len(queue[c]) + 1
      BY <2>1, AppendProperties
    <3>3. Len(queue[c]) < Cap
      BY <2>2 DEF HasRoom
    <3>4. QED
      BY <1>1, <2>1, <3>1, <3>2, <3>3
  <2>3. CASE ~(c \in clients /\ HasRoom(c))
    BY <1>3, <2>1, <2>3
  <2>4. QED
    BY <2>2, <2>3
<1>5. queue' \in [Page -> Seq(Frame)]
  BY <1>4 DEF send
<1>6. missed' \in [Page -> SUBSET Topic]
  <2>1. \A c \in Page : missed'[c] \subseteq Topic
    BY <1>1, <1>3
  <2>2. QED
    BY <2>1 DEF send
<1>7. ASSUME NEW c \in Page, NEW t \in Topic
      PROVE  \/ /\ f.topic # t \/ c \notin clients
                /\ t \in missed'[c] <=> t \in missed[c]
                /\ Queued(queue'[c], t) = Queued(queue[c], t)
                /\ \A v : NewestIn(queue[c], t, v) => NewestIn(queue'[c], t, v)
             \/ f.topic = t /\ t \in missed'[c]
                /\ (Queued(queue'[c], t) = {} <=> Queued(queue[c], t) = {})
             \/ /\ f.topic = t /\ Queued(queue'[c], t) # {}
                /\ NewestIn(queue'[c], t, f.ver)
  <2>1. queue[c] \in Seq(Frame) /\ missed[c] \subseteq Topic
    BY <1>1
  <2>2. CASE c \notin clients
    BY <1>3, <2>2
  <2>3. CASE c \in clients /\ ~HasRoom(c)
    BY <1>3, <2>1, <2>3
  <2>4. CASE c \in clients /\ HasRoom(c)
    <3>1. queue'[c] = Append(queue[c], f)
      BY <1>3, <2>4
    <3>2. CASE f.topic = t
      BY <2>1, <3>1, <3>2, QueueAppend
    <3>3. CASE f.topic # t
      <4>1. t \in missed'[c] <=> t \in missed[c]
        BY <1>3, <2>4, <3>3
      <4>2. /\ Queued(queue'[c], t) = Queued(queue[c], t)
            /\ \A v : NewestIn(queue[c], t, v) => NewestIn(queue'[c], t, v)
        BY <2>1, <3>1, <3>3, QueueAppend
      <4>3. QED
        BY <3>3, <4>1, <4>2
    <3>4. QED
      BY <3>2, <3>3
  <2>5. QED
    BY <2>2, <2>3, <2>4
<1>8. QED
  BY <1>1, <1>2, <1>4, <1>5, <1>6, <1>7

-----------------------------------------------------------------------------
\* The hub's clients are the attached pages.
Attached == \A c \in Page : c \in clients <=> conn[c].pc # "gone"

\* What is queued last, or else written last, is what is published.
Flows(c, t) ==
    conn[c].pc # "gone" /\ t \notin missed[c] =>
        /\ Queued(queue[c], t) # {} => NewestIn(queue[c], t, frames[t]) \/ ToBeSent(t)
        /\ Queued(queue[c], t) = {} /\ conn[c].pc \in {"greet", "relay"}
             => Written(c, t) = frames[t] \/ ToBeSent(t)

\* Before the first render of a topic there is nothing of it anywhere.
Starts(c, t) ==
    /\ frames[t] = 0 => Queued(queue[c], t) = {} /\ screen[c].got[t] = 0
    /\ conn[c].pc = "greet" =>
          /\ frames[t] = 0 => conn[c].greeting[t] = 0
          /\ conn[c].greeting[t] = 0 => screen[c].got[t] = 0

Flow == \A c \in Page, t \in Topic : Flows(c, t) /\ Starts(c, t)
SlipInv == TypeOK /\ Built /\ Attached /\ Flow

\* A step of the render loop that keeps the frames and what is to be sent, and the
\* steps that change no pipeline at all.
LEMMA FlowStays ==
    ASSUME SlipInv, UNCHANGED <<frames, queue, conn, missed>>,
           \A t \in Topic : ToBeSent(t) => ToBeSent(t)',
           \A c \in Page, t \in Topic : screen'[c].got[t] = screen[c].got[t]
    PROVE  Flow'
<1> SUFFICES ASSUME NEW c \in Page, NEW t \in Topic
             PROVE  Flows(c, t)' /\ Starts(c, t)'
  BY DEF Flow
<1>1. Flows(c, t) /\ Starts(c, t)
  BY DEF SlipInv, Flow
<1>2. Written(c, t)' = Written(c, t)
  BY DEF Written
<1>3. Flows(c, t)'
  BY <1>1, <1>2 DEF Flows, NewestIn, Queued
<1>4. Starts(c, t)'
  BY <1>1 DEF Starts, Queued
<1>5. QED
  BY <1>3, <1>4

LEMMA AttachedStays ==
    ASSUME SlipInv, UNCHANGED <<clients, conn>>
    PROVE  Attached'
BY DEF SlipInv, Attached

LEMMA SlipStart ==
    ASSUME SlipInv, StartRender \/ RenderBuild
    PROVE  SlipInv'
<1>1. TypeOK' /\ Built'
  BY StartTyped, BuildTyped DEF SlipInv
<1>2. UNCHANGED <<frames, queue, conn, missed, clients, screen>> /\ render.pc \in {"idle", "build"}
  BY DEF StartRender, RenderBuild, hubVars
<1>3. Attached'
  BY <1>2, AttachedStays
<1>4. Flow'
  BY <1>2, FlowStays DEF ToBeSent
<1>5. QED
  BY <1>1, <1>3, <1>4 DEF SlipInv

LEMMA SlipSwap ==
    ASSUME SlipInv, RenderSwap
    PROVE  SlipInv'
<1>1. /\ TypeOK' /\ Built' /\ render'.pc = "count"
      /\ \A t \in Topic : frames'[t] = frames[t]
             \/ (t \in ToSet(render'.todo) /\ t \in render'.moved)
  BY SwapTyped DEF SlipInv
<1>2. /\ UNCHANGED <<queue, conn, missed, clients, screen>>
      /\ render.pc = "swap" /\ frames' = render.built
  BY DEF RenderSwap, hubVars
<1>3. Attached'
  BY <1>2, AttachedStays
<1>4. ASSUME NEW c \in Page, NEW t \in Topic
      PROVE  Flows(c, t)' /\ Starts(c, t)'
  <2>1. Flows(c, t) /\ Starts(c, t) /\ ~ToBeSent(t) /\ frames'[t] # 0
    BY <1>2 DEF SlipInv, Flow, ToBeSent, Built
  <2>2. frames'[t] = frames[t] \/ ToBeSent(t)'
    BY <1>1 DEF ToBeSent
  <2>3. Written(c, t)' = Written(c, t)
    BY <1>2 DEF Written
  <2>4. Flows(c, t)'
    BY <1>2, <2>1, <2>2, <2>3 DEF Flows, NewestIn, Queued
  <2>5. Starts(c, t)'
    BY <1>2, <2>1 DEF Starts
  <2>6. QED
    BY <2>4, <2>5
<1>5. QED
  BY <1>1, <1>3, <1>4 DEF SlipInv, Flow

\* Without a client nothing is sent and nothing is waited for.
LEMMA SlipCount ==
    ASSUME SlipInv, RenderCount
    PROVE  SlipInv'
<1>1. /\ TypeOK' /\ Built'
      /\ \/ clients = {}
         \/ /\ render'.pc = "send" /\ render'.todo = render.todo
            /\ render'.moved = render.moved
  BY CountTyped DEF SlipInv
<1>2. UNCHANGED <<frames, queue, conn, missed, clients, screen>>
  BY DEF RenderCount, hubVars
<1>3. Attached'
  BY <1>2, AttachedStays
<1>4. CASE clients = {}
  <2>1. \A c \in Page : conn[c].pc = "gone"
    BY <1>4 DEF SlipInv, Attached
  <2>2. ASSUME NEW c \in Page, NEW t \in Topic
        PROVE  Flows(c, t)' /\ Starts(c, t)'
    <3>1. Starts(c, t)
      BY DEF SlipInv, Flow
    <3>2. Starts(c, t)'
      BY <1>2, <3>1 DEF Starts, Queued
    <3>3. Flows(c, t)'
      BY <1>2, <2>1 DEF Flows
    <3>4. QED
      BY <3>2, <3>3
  <2>3. QED
    BY <1>1, <1>3, <2>2 DEF SlipInv, Flow
<1>5. CASE clients # {}
  <2>1. Flow'
    BY <1>1, <1>2, <1>5, FlowStays DEF ToBeSent
  <2>2. QED
    BY <1>1, <1>3, <2>1 DEF SlipInv
<1>6. QED
  BY <1>4, <1>5

\* A frame of no topic changes no pipeline.
LEMMA SlipOther ==
    ASSUME SlipInv, NEW f \in Frame, f.topic \notin Topic, send(f),
           UNCHANGED <<frames, conn, screen>>,
           \A t \in Topic : ToBeSent(t) => ToBeSent(t)'
    PROVE  Flow' /\ Attached'
<1>1. \A c \in Page, t \in Topic :
         /\ t \in missed'[c] <=> t \in missed[c]
         /\ Queued(queue'[c], t) = Queued(queue[c], t)
         /\ \A v : NewestIn(queue[c], t, v) => NewestIn(queue'[c], t, v)
  BY Sent DEF SlipInv
<1>2. ASSUME NEW c \in Page, NEW t \in Topic
      PROVE  Flows(c, t)' /\ Starts(c, t)'
  <2>1. Flows(c, t) /\ Starts(c, t)
    BY DEF SlipInv, Flow
  <2>2. Written(c, t)' = Written(c, t)
    BY DEF Written
  <2>3. /\ t \in missed'[c] <=> t \in missed[c]
        /\ Queued(queue[c], t)' = Queued(queue[c], t)
        /\ NewestIn(queue[c], t, frames[t]) => NewestIn(queue[c], t, frames[t])'
    <3>1. Queued(queue[c], t)' = Queued(queue'[c], t)
      BY DEF Queued
    <3>2. NewestIn(queue[c], t, frames[t])' = NewestIn(queue'[c], t, frames[t])
      BY DEF NewestIn, Queued
    <3>3. QED
      BY <1>1, <3>1, <3>2
  <2>4. Flows(c, t)'
    BY <2>1, <2>2, <2>3 DEF Flows
  <2>5. Starts(c, t)'
    BY <2>1, <2>3 DEF Starts
  <2>6. QED
    BY <2>4, <2>5
<1>3. Attached'
  BY AttachedStays DEF send
<1>4. QED
  BY <1>2, <1>3 DEF Flow

\* A topic's frame takes its place in the pipeline of every client that has room.
LEMMA SlipTopic ==
    ASSUME SlipInv, NEW t \in Topic, t \in render.moved, render.pc = "send",
           send([topic |-> t, ver |-> render.built[t]]),
           UNCHANGED <<frames, conn, screen>>,
           \A u \in Topic \ {t} : ToBeSent(u) => ToBeSent(u)'
    PROVE  Flow' /\ Attached'
<1>1. PICK f : f = [topic |-> t, ver |-> render.built[t]]
  OBVIOUS
<1>2. /\ render.built[t] = frames[t] /\ render.built[t] \in Version
  <2>1. render.built[t] # 0 /\ frames = render.built
    BY DEF SlipInv, Built
  <2>2. render.built[t] \in {0} \cup Version
    BY RenderParts, FirstVersions DEF SlipInv
  <2>3. QED
    BY <2>1, <2>2
<1>3. f \in Frame /\ f.topic = t /\ f.ver = frames[t] /\ send(f)
  BY <1>1, <1>2, FrameKinds
<1>4. Attached'
  BY AttachedStays DEF send
<1>5. ASSUME NEW c \in Page, NEW u \in Topic
      PROVE  Flows(c, u)' /\ Starts(c, u)'
  <2>1. Flows(c, u) /\ Starts(c, u) /\ frames[t] # 0
    BY <1>2, FirstVersions DEF SlipInv, Flow
  <2>2. Written(c, u)' = Written(c, u)
    BY DEF Written
  <2>3. c \in clients <=> conn[c].pc # "gone"
    BY DEF SlipInv, Attached
  <2>4. /\ Queued(queue[c], u)' = Queued(queue'[c], u)
        /\ NewestIn(queue[c], u, frames[u])' = NewestIn(queue'[c], u, frames[u])
    BY DEF NewestIn, Queued
  <2>5. \/ /\ t # u \/ c \notin clients
           /\ u \in missed'[c] <=> u \in missed[c]
           /\ Queued(queue'[c], u) = Queued(queue[c], u)
           /\ \A v : NewestIn(queue[c], u, v) => NewestIn(queue'[c], u, v)
        \/ t = u /\ u \in missed'[c]
        \/ t = u /\ Queued(queue'[c], u) # {} /\ NewestIn(queue'[c], u, frames[t])
    <3>1. \/ /\ f.topic # u \/ c \notin clients
             /\ u \in missed'[c] <=> u \in missed[c]
             /\ Queued(queue'[c], u) = Queued(queue[c], u)
             /\ \A v : NewestIn(queue[c], u, v) => NewestIn(queue'[c], u, v)
          \/ f.topic = u /\ u \in missed'[c]
          \/ f.topic = u /\ Queued(queue'[c], u) # {} /\ NewestIn(queue'[c], u, f.ver)
      BY <1>3, Sent DEF SlipInv
    <3>2. QED
      BY <1>3, <3>1
  <2>6. Flows(c, u)'
    BY <2>1, <2>2, <2>3, <2>4, <2>5 DEF Flows
  <2>7. Starts(c, u)'
    BY <2>1, <2>4, <2>5 DEF Starts
  <2>8. QED
    BY <2>6, <2>7
<1>6. QED
  BY <1>4, <1>5 DEF Flow

LEMMA SlipSend ==
    ASSUME SlipInv, RenderSend
    PROVE  SlipInv'
<1>1. /\ render.pc = "send" /\ UNCHANGED <<kick, frames, reqVars, conn, screen>>
      /\ render.todo \in Seq(Todo) /\ render \in RenderSet
      /\ frames \in FrameSet /\ kick \in BOOLEAN
  BY RenderParts DEF SlipInv, RenderSend, TypeOK
<1>2. CASE render.todo = <<>>
  <2>1. render' = Done /\ UNCHANGED hubVars
    BY <1>2 DEF RenderSend
  <2>2. ToSet(render.todo) = {}
    BY <1>2 DEF ToSet
  <2>3. TypeOK' /\ Built'
    BY <1>1, <2>1, DoneTyped, RenderTyped DEF SlipInv, Built
  <2>4. Flow'
    BY <1>1, <2>1, <2>2, FlowStays DEF ToBeSent, hubVars
  <2>5. Attached'
    BY <1>1, <2>1, AttachedStays DEF hubVars
  <2>6. QED
    BY <2>3, <2>4, <2>5 DEF SlipInv
<1>3. CASE render.todo # <<>>
  <2>1. PICK t : t = Head(render.todo)
    OBVIOUS
  <2>2. /\ \/ t = "stats" /\ send(Stats)
           \/ t \in render.moved /\ send([topic |-> t, ver |-> render.built[t]])
           \/ t \notin render.moved \cup {"stats"} /\ UNCHANGED hubVars
        /\ render' = [render EXCEPT !.todo = Tail(render.todo)]
    BY <1>3, <2>1 DEF RenderSend
  <2>3. /\ t \in Todo /\ Tail(render.todo) \in Seq(Todo)
        /\ ToSet(render.todo) = {t} \cup ToSet(Tail(render.todo))
    BY <1>1, <1>3, <2>1, HeadOrTail
  <2>4. /\ render' \in RenderSet /\ render'.pc = "send" /\ render'.moved = render.moved
        /\ render'.built = render.built /\ render'.todo = Tail(render.todo)
    BY <1>1, <2>2, <2>3 DEF RenderSet
  <2>5. Built'
    BY <1>1, <2>4 DEF SlipInv, Built
  <2>6. /\ \A u : u # t /\ ToBeSent(u) => ToBeSent(u)'
        /\ \A u : u \notin render.moved => ~ToBeSent(u)
    BY <1>1, <2>3, <2>4 DEF ToBeSent
  <2>7. ASSUME NEW f \in Frame, send(f) PROVE TypeOK'
    BY <1>1, <2>4, <2>7, Sent DEF SlipInv, TypeOK, reqVars, RenderSet, Todo
  <2>8. CASE t = "stats" /\ send(Stats)
    <3>1. \A u \in Topic : ToBeSent(u) => ToBeSent(u)'
      BY <2>6, <2>8, Names
    <3>2. Flow' /\ Attached'
      BY <1>1, <2>8, <3>1, FrameKinds, SlipOther
    <3>3. QED
      BY <2>5, <2>7, <2>8, <3>2, FrameKinds DEF SlipInv
  <2>9. CASE t \in render.moved /\ send([topic |-> t, ver |-> render.built[t]])
    <3>1. t \in Topic
      BY <1>1, <2>9 DEF RenderSet
    <3>2. Flow' /\ Attached'
      BY <1>1, <2>6, <2>9, <3>1, SlipTopic
    <3>3. [topic |-> t, ver |-> render.built[t]] \in Frame
      <4>1. render.built[t] \in {0} \cup Version /\ render.built[t] # 0
        BY <1>1, <3>1, RenderParts, FirstVersions DEF SlipInv, Built
      <4>2. QED
        BY <3>1, <4>1, FrameKinds
    <3>4. QED
      BY <2>5, <2>7, <2>9, <3>2, <3>3 DEF SlipInv
  <2>10. CASE t \notin render.moved \cup {"stats"} /\ UNCHANGED hubVars
    <3>1. \A u \in Topic : ToBeSent(u) => ToBeSent(u)'
      BY <2>6, <2>10
    <3>2. Flow'
      BY <1>1, <2>10, <3>1, FlowStays DEF hubVars
    <3>3. Attached'
      BY <1>1, <2>10, AttachedStays DEF hubVars
    <3>4. TypeOK'
      BY <1>1, <2>4, <2>10, RenderTyped DEF SlipInv
    <3>5. QED
      BY <2>5, <3>2, <3>3, <3>4 DEF SlipInv
  <2>11. QED
    BY <2>2, <2>8, <2>9, <2>10
<1>4. QED
  BY <1>2, <1>3

LEMMA SlipBroadcast ==
    ASSUME SlipInv, Broadcast
    PROVE  SlipInv'
<1>1. send(Notice) /\ UNCHANGED <<kick, frames, render, reqVars, conn, screen>>
  BY DEF Broadcast
<1>2. TypeOK' /\ Built'
  BY <1>1, Sent, FrameKinds, HubTyped, HubParts DEF SlipInv
<1>3. Flow' /\ Attached'
  BY <1>1, FrameKinds, SlipOther DEF ToBeSent
<1>4. QED
  BY <1>2, <1>3 DEF SlipInv

\* The requests and the loops that change the data.
LEMMA SlipData ==
    ASSUME SlipInv,
           \/ \E t \in Topic : Change(t)
           \/ \E h \in Handler : KickRender(h) \/ \E t \in Topic : Mutate(h, t)
    PROVE  SlipInv'
<1>1. UNCHANGED <<frames, render, clients, queue, conn, screen, missed>>
  BY DEF Change, KickRender, Mutate
<1>2. data \in [Topic -> Version] /\ \A t \in Topic : data[t] < MaxVersion => data[t] + 1 \in Version
  BY SizeAssumption DEF SlipInv, TypeOK, Version
<1>3. ASSUME NEW t \in Topic, Change(t) PROVE TypeOK'
  <2>1. data' \in [Topic -> Version]
    BY <1>2, <1>3 DEF Change
  <2>2. QED
    BY <1>3, <2>1 DEF Change, SlipInv, TypeOK
<1>4. ASSUME NEW h \in Handler, NEW t \in Topic, Mutate(h, t) PROVE TypeOK'
  <2>1. data' \in [Topic -> Version] /\ data'[t] \in Version
    BY <1>2, <1>4 DEF Mutate
  <2>2. req' \in [Handler -> ReqSet]
    BY <1>4, <2>1 DEF Mutate, SlipInv, TypeOK, ReqSet
  <2>3. QED
    BY <1>4, <2>1, <2>2 DEF Mutate, SlipInv, TypeOK, ReqSet
<1>5. ASSUME NEW h \in Handler, KickRender(h) PROVE TypeOK'
  <2>1. req[h].topic \in Topic /\ req[h].ver \in Version
    BY <1>5 DEF KickRender, SlipInv, TypeOK
  <2>2. req[h].ver \in 0 .. MaxVersion
    BY <2>1, SizeAssumption DEF Version
  <2>3. promised' \in FrameSet
    BY <1>5, <2>1, <2>2 DEF KickRender, SlipInv, TypeOK, FrameSet
  <2>4. req' \in [Handler -> ReqSet]
    BY <1>5 DEF KickRender, SlipInv, TypeOK, ReqSet
  <2>5. QED
    BY <1>5, <2>3, <2>4 DEF KickRender, SlipInv, TypeOK, ReqSet
<1>6. TypeOK'
  BY <1>3, <1>4, <1>5
<1>7. Built'
  BY <1>1 DEF SlipInv, Built
<1>8. Flow' /\ Attached'
  BY <1>1, FlowStays, AttachedStays DEF ToBeSent
<1>9. QED
  BY <1>6, <1>7, <1>8 DEF SlipInv

-----------------------------------------------------------------------------
(* The connections and the pages.                                          *)

\* What a step of one connection or page must show.
LEMMA SlipPage ==
    ASSUME SlipInv, NEW p \in Page,
           UNCHANGED <<kick, frames, render, reqVars>>,
           clients' \subseteq Page, queue' \in [Page -> Seq(Frame)],
           Len(queue'[p]) <= Cap,
           conn' \in [Page -> ConnSet], screen' \in [Page -> ScreenSet],
           missed' \in [Page -> SUBSET Topic],
           \A c \in Page \ {p} :
              /\ c \in clients' <=> c \in clients
              /\ queue'[c] = queue[c] /\ missed'[c] = missed[c]
              /\ conn'[c] = conn[c] /\ screen'[c] = screen[c],
           p \in clients' <=> conn'[p].pc # "gone",
           \A t \in Topic : Flows(p, t)' /\ Starts(p, t)'
    PROVE  SlipInv'
<1>1. \A c \in Page : Len(queue'[c]) <= Cap
  BY HubParts DEF SlipInv
<1>2. TypeOK' /\ Built'
  BY <1>1, HubTyped DEF SlipInv
<1>3. Attached'
  BY DEF SlipInv, Attached
<1>4. ASSUME NEW c \in Page \ {p}, NEW t \in Topic
      PROVE  Flows(c, t)' /\ Starts(c, t)'
  <2>1. Flows(c, t) /\ Starts(c, t) /\ ToBeSent(t)' = ToBeSent(t)
    BY DEF SlipInv, Flow, ToBeSent
  <2>2. Flows(c, t)'
    <3>1. Written(c, t)' = Written(c, t)
      BY DEF Written
    <3>2. Queued(queue[c], t)' = Queued(queue[c], t)
      BY DEF Queued
    <3>3. NewestIn(queue[c], t, frames[t])' = NewestIn(queue[c], t, frames[t])
      BY DEF NewestIn, Queued
    <3>4. QED
      BY <2>1, <3>1, <3>2, <3>3 DEF Flows
  <2>3. Starts(c, t)'
    BY <2>1 DEF Starts, Queued
  <2>4. QED
    BY <2>2, <2>3
<1>5. QED
  BY <1>2, <1>3, <1>4 DEF SlipInv, Flow

LEMMA SlipAttach ==
    ASSUME SlipInv, NEW p \in Page, Attach(p) \/ Leave(p)
    PROVE  SlipInv'
<1>1. /\ UNCHANGED <<kick, frames, render, reqVars, screen>>
      /\ queue' = [queue EXCEPT ![p] = <<>>] /\ missed' = [missed EXCEPT ![p] = {}]
      /\ clients' \in {clients \cup {p}, clients \ {p}}
  BY DEF Attach, Leave
<1>2. queue' \in [Page -> Seq(Frame)] /\ queue'[p] = <<>> /\ missed' \in [Page -> SUBSET Topic]
      /\ screen' \in [Page -> ScreenSet] /\ clients' \subseteq Page
  BY <1>1, HubParts, EmptyQueue DEF SlipInv
<1>3. /\ conn' \in [Page -> ConnSet] /\ \A c \in Page \ {p} : conn'[c] = conn[c]
      /\ conn'[p].pc \notin {"greet", "relay"}
      /\ p \in clients' <=> conn'[p].pc # "gone"
  <2>1. conn \in [Page -> ConnSet]
    BY HubParts DEF SlipInv
  <2>2. CASE Attach(p)
    <3>1. conn' = [conn EXCEPT ![p].pc = "attached"] /\ clients' = clients \cup {p}
      BY <2>2 DEF Attach
    <3>2. QED
      BY <2>1, <3>1 DEF ConnSet
  <2>3. CASE Leave(p)
    <3>1. /\ conn' = [conn EXCEPT ![p].pc = "gone", ![p].greeting = NoFrames]
          /\ clients' = clients \ {p}
      BY <2>3 DEF Leave
    <3>2. QED
      BY <2>1, <3>1, FirstVersions DEF ConnSet
  <2>4. QED
    BY <2>2, <2>3
<1>4. ASSUME NEW t \in Topic PROVE Flows(p, t)' /\ Starts(p, t)'
  <2>1. Starts(p, t) /\ Queued(queue[p], t)' = {}
    <3>1. Queued(queue[p], t)' = Queued(queue'[p], t)
      BY DEF Queued
    <3>2. QED
      BY <1>2, <3>1, EmptyQueue DEF SlipInv, Flow
  <2>2. Flows(p, t)'
    BY <1>3, <2>1 DEF Flows
  <2>3. Starts(p, t)'
    BY <1>1, <1>3, <2>1 DEF Starts
  <2>4. QED
    BY <2>2, <2>3
<1>5. Len(queue'[p]) <= Cap
  BY <1>2, EmptyQueue
<1>6. \A c \in Page \ {p} :
         /\ c \in clients' <=> c \in clients
         /\ queue'[c] = queue[c] /\ missed'[c] = missed[c]
         /\ conn'[c] = conn[c] /\ screen'[c] = screen[c]
  BY <1>1, <1>3, HubParts DEF SlipInv
<1>7. QED
  BY <1>1, <1>2, <1>3, <1>4, <1>5, <1>6, SlipPage

LEMMA SlipLoad ==
    ASSUME SlipInv, NEW p \in Page, LoadGreeting(p)
    PROVE  SlipInv'
<1>1. /\ UNCHANGED <<kick, frames, render, clients, queue, missed, reqVars, screen>>
      /\ conn[p].pc = "attached"
      /\ conn' = [conn EXCEPT ![p].pc = "greet", ![p].greeting = frames]
  BY DEF LoadGreeting, hubVars
<1>2. conn \in [Page -> ConnSet] /\ frames \in FrameSet
  BY HubParts, RenderParts DEF SlipInv
<1>3. /\ conn' \in [Page -> ConnSet] /\ \A c \in Page \ {p} : conn'[c] = conn[c]
      /\ conn'[p].pc = "greet" /\ conn'[p].greeting = frames
  BY <1>1, <1>2 DEF ConnSet
<1>4. ASSUME NEW t \in Topic PROVE Flows(p, t)' /\ Starts(p, t)'
  <2>1. Flows(p, t) /\ Starts(p, t) /\ ToBeSent(t)' = ToBeSent(t)
    BY <1>1 DEF SlipInv, Flow, ToBeSent
  <2>2. Written(p, t)' = frames[t]
    BY <1>3 DEF Written
  <2>3. Flows(p, t)'
    BY <1>1, <1>3, <2>1, <2>2 DEF Flows, NewestIn, Queued
  <2>4. Starts(p, t)'
    BY <1>1, <1>3, <2>1 DEF Starts, Queued
  <2>5. QED
    BY <2>3, <2>4
<1>5. p \in clients' <=> conn'[p].pc # "gone"
  BY <1>1, <1>3 DEF SlipInv, Attached
<1>6. QED
  BY <1>1, <1>3, <1>4, <1>5, HubParts, SlipPage DEF SlipInv

\* A greeting leaves what is held alone and never takes a topic back to nothing.
LEMMA GreetedParts ==
    ASSUME NEW s \in ScreenSet, NEW g \in FrameSet
    PROVE  /\ Greeted(s, g) \in ScreenSet
           /\ \A t \in Topic : Greeted(s, g).got[t] = IF g[t] = 0 THEN s.got[t] ELSE g[t]
<1>1. PICK got : got = [t \in Topic |-> IF g[t] = 0 THEN s.got[t] ELSE g[t]]
  OBVIOUS
<1>2. PICK painted : painted = [t \in Topic |-> IF g[t] = 0 \/ t \in s.held
                                                THEN s.painted[t] ELSE g[t]]
  OBVIOUS
<1>3. Greeted(s, g) = [s EXCEPT !.got = got, !.painted = painted]
  BY <1>1, <1>2 DEF Greeted
<1>4. s.got \in FrameSet /\ s.painted \in FrameSet
  BY DEF ScreenSet
<1>5. got \in FrameSet /\ painted \in FrameSet
  BY <1>1, <1>2, <1>4 DEF FrameSet
<1>6. Greeted(s, g) \in ScreenSet /\ Greeted(s, g).got = got
  BY <1>3, <1>5 DEF ScreenSet
<1>7. QED
  BY <1>1, <1>6

LEMMA SlipGreet ==
    ASSUME SlipInv, NEW p \in Page, Greet(p)
    PROVE  SlipInv'
<1>1. /\ UNCHANGED <<kick, frames, render, clients, queue, missed, reqVars>>
      /\ conn[p].pc = "greet" /\ conn' = [conn EXCEPT ![p].pc = "relay"]
      /\ screen' = [screen EXCEPT ![p] = Greeted(screen[p], conn[p].greeting)]
  BY DEF Greet, hubVars
<1>2. /\ conn \in [Page -> ConnSet] /\ screen \in [Page -> ScreenSet]
      /\ conn[p].greeting \in FrameSet /\ screen[p] \in ScreenSet
  BY HubParts DEF SlipInv, ConnSet
<1>3. /\ conn' \in [Page -> ConnSet] /\ \A c \in Page \ {p} : conn'[c] = conn[c]
      /\ conn'[p].pc = "relay"
  BY <1>1, <1>2 DEF ConnSet
<1>4. /\ screen' \in [Page -> ScreenSet] /\ \A c \in Page \ {p} : screen'[c] = screen[c]
      /\ screen'[p] = Greeted(screen[p], conn[p].greeting)
  BY <1>1, <1>2, GreetedParts
<1>5. ASSUME NEW t \in Topic PROVE Flows(p, t)' /\ Starts(p, t)'
  <2>1. Flows(p, t) /\ Starts(p, t) /\ ToBeSent(t)' = ToBeSent(t)
    BY <1>1 DEF SlipInv, Flow, ToBeSent
  <2>2. screen'[p].got[t] = conn[p].greeting[t]
    BY <1>1, <1>2, <1>4, <2>1, GreetedParts DEF Starts
  <2>3. Written(p, t)' = Written(p, t)
    BY <1>1, <1>3, <2>2 DEF Written
  <2>4. Flows(p, t)'
    BY <1>1, <1>3, <2>1, <2>3 DEF Flows, NewestIn, Queued
  <2>5. Starts(p, t)'
    BY <1>1, <1>3, <2>1, <2>2 DEF Starts, Queued
  <2>6. QED
    BY <2>4, <2>5
<1>6. p \in clients' <=> conn'[p].pc # "gone"
  BY <1>1, <1>3 DEF SlipInv, Attached
<1>7. QED
  BY <1>1, <1>3, <1>4, <1>5, <1>6, HubParts, SlipPage DEF SlipInv

LEMMA ReceivedParts ==
    ASSUME NEW s \in ScreenSet, NEW t \in Topic, NEW v \in Version
    PROVE  /\ Received(s, t, v) \in ScreenSet
           /\ Received(s, t, v).got = [s.got EXCEPT ![t] = v]
<1>1. PICK w : w = IF t \in s.held THEN s.painted[t] ELSE v
  OBVIOUS
<1>2. s.got \in FrameSet /\ s.painted \in FrameSet
  BY DEF ScreenSet
<1>3. v \in {0} \cup Version /\ w \in {0} \cup Version
  BY <1>1, <1>2, FirstVersions
<1>4. [s.got EXCEPT ![t] = v] \in FrameSet /\ [s.painted EXCEPT ![t] = w] \in FrameSet
  BY <1>2, <1>3, FirstVersions
<1>5. Received(s, t, v) = [s EXCEPT !.got = [s.got EXCEPT ![t] = v],
                                   !.painted = [s.painted EXCEPT ![t] = w]]
  BY <1>1 DEF Received, ScreenSet
<1>6. QED
  BY <1>4, <1>5 DEF ScreenSet

LEMMA SlipRelay ==
    ASSUME SlipInv, NEW p \in Page, Relay(p)
    PROVE  SlipInv'
<1>0. PICK f : f = Head(queue[p])
  OBVIOUS
<1>1. /\ UNCHANGED <<kick, frames, render, clients, missed, reqVars, conn>>
      /\ conn[p].pc = "relay" /\ queue[p] # <<>>
      /\ queue' = [queue EXCEPT ![p] = Tail(queue[p])]
      /\ screen' = IF f.topic \in Topic
                     THEN [screen EXCEPT ![p] = Received(screen[p], f.topic, f.ver)]
                     ELSE screen
  BY <1>0 DEF Relay
<1>2. /\ queue \in [Page -> Seq(Frame)] /\ screen \in [Page -> ScreenSet]
      /\ queue[p] \in Seq(Frame) /\ screen[p] \in ScreenSet /\ screen[p].got \in FrameSet
      /\ Len(queue[p]) \in Nat /\ Len(queue[p]) <= Cap
  BY HubParts, LenProperties DEF SlipInv, ScreenSet
<1>3. /\ f \in Frame /\ Tail(queue[p]) \in Seq(Frame)
      /\ Len(Tail(queue[p])) = Len(queue[p]) - 1
  BY <1>0, <1>1, <1>2, HeadTailProperties
<1>4. f.topic \in Topic => f.ver \in Version
  BY <1>3, Names DEF Frame
<1>5. /\ queue' \in [Page -> Seq(Frame)] /\ queue'[p] = Tail(queue[p])
      /\ \A c \in Page \ {p} : queue'[c] = queue[c]
  BY <1>1, <1>2, <1>3
<1>6. Len(queue'[p]) <= Cap
  BY <1>2, <1>3, <1>5, SizeAssumption
<1>7. /\ screen' \in [Page -> ScreenSet] /\ \A c \in Page \ {p} : screen'[c] = screen[c]
      /\ f.topic \in Topic => screen'[p].got = [screen[p].got EXCEPT ![f.topic] = f.ver]
      /\ f.topic \notin Topic => screen'[p] = screen[p]
  BY <1>1, <1>2, <1>4, ReceivedParts
<1>8. ASSUME NEW t \in Topic PROVE Flows(p, t)' /\ Starts(p, t)'
  <2>1. /\ Flows(p, t) /\ Starts(p, t) /\ ToBeSent(t)' = ToBeSent(t)
    BY <1>1 DEF SlipInv, Flow, ToBeSent
  <2>2. screen'[p].got[t] = IF f.topic = t THEN f.ver ELSE screen[p].got[t]
    BY <1>2, <1>7 DEF FrameSet
  <2>3. Written(p, t)' = screen'[p].got[t] /\ Written(p, t) = screen[p].got[t]
    BY <1>1 DEF Written
  <2>4. /\ Queued(queue[p], t)' = Queued(Tail(queue[p]), t)
        /\ NewestIn(queue[p], t, frames[t])' = NewestIn(Tail(queue[p]), t, frames[t])
    BY <1>1, <1>5 DEF Queued, NewestIn
  <2>5. CASE Queued(Tail(queue[p]), t) # {}
    <3>1. /\ Queued(queue[p], t) # {}
          /\ NewestIn(queue[p], t, frames[t]) => NewestIn(Tail(queue[p]), t, frames[t])
      BY <1>1, <1>2, <2>5, QueueTail
    <3>2. Flows(p, t)'
      BY <1>1, <2>1, <2>4, <2>5, <3>1 DEF Flows
    <3>3. Starts(p, t)'
      BY <1>1, <2>1, <3>1 DEF Starts
    <3>4. QED
      BY <3>2, <3>3
  <2>6. CASE Queued(Tail(queue[p]), t) = {}
    <3>1. /\ f.topic = t <=> Queued(queue[p], t) # {}
          /\ NewestIn(queue[p], t, frames[t]) => f.ver = frames[t]
      BY <1>0, <1>1, <1>2, <2>6, QueueTail
    <3>2. Flows(p, t)'
      BY <1>1, <2>1, <2>2, <2>3, <2>4, <2>6, <3>1 DEF Flows
    <3>3. Starts(p, t)'
      BY <1>1, <2>1, <2>2, <2>4, <2>6, <3>1 DEF Starts
    <3>4. QED
      BY <3>2, <3>3
  <2>7. QED
    BY <2>5, <2>6
<1>9. p \in clients' <=> conn'[p].pc # "gone"
  BY <1>1 DEF SlipInv, Attached
<1>10. QED
  BY <1>1, <1>5, <1>6, <1>7, <1>8, <1>9, HubParts, SlipPage DEF SlipInv

\* What the user holds is the screen's own affair.
LEMMA SlipHold ==
    ASSUME SlipInv, NEW p \in Page, NEW t \in Holdable, Hold(p, t) \/ Release(p, t)
    PROVE  SlipInv'
<1>1. /\ UNCHANGED <<kick, frames, render, hubVars, reqVars, conn>> /\ t \in Topic
      /\ \E held \in {screen[p].held \cup {t}, screen[p].held \ {t}} :
            screen' = [screen EXCEPT ![p] = [screen[p] EXCEPT !.held = held]]
  BY HubParts DEF SlipInv, Hold, Release, Holdable
<1>2. screen \in [Page -> ScreenSet] /\ screen[p] \in ScreenSet
  BY HubParts DEF SlipInv
<1>3. PICK held : /\ held \in {screen[p].held \cup {t}, screen[p].held \ {t}}
                  /\ screen' = [screen EXCEPT ![p] = [screen[p] EXCEPT !.held = held]]
  BY <1>1
<1>4. held \in SUBSET Topic
  BY <1>1, <1>2, <1>3 DEF ScreenSet
<1>5. /\ [screen[p] EXCEPT !.held = held] \in ScreenSet
      /\ [screen[p] EXCEPT !.held = held].got = screen[p].got
  BY <1>2, <1>4 DEF ScreenSet
<1>6. /\ screen' \in [Page -> ScreenSet]
      /\ \A c \in Page, u \in Topic : screen'[c].got[u] = screen[c].got[u]
  BY <1>2, <1>3, <1>5
<1>7. TypeOK' /\ Built'
  BY <1>1, <1>6, HubParts, HubTyped DEF SlipInv, hubVars
<1>8. Flow' /\ Attached'
  BY <1>1, <1>6, FlowStays, AttachedStays DEF hubVars, ToBeSent
<1>9. QED
  BY <1>7, <1>8 DEF SlipInv

-----------------------------------------------------------------------------
LEMMA SlipInvInit == Init => SlipInv
<1> SUFFICES ASSUME Init PROVE SlipInv
  OBVIOUS
<1>1. /\ NoFrames \in FrameSet /\ Topics \in Seq(Todo) /\ 1 \in Version
      /\ \A t \in Topic : NoFrames[t] = 0
  BY FirstVersions, Names, SizeAssumption DEF Version, NoFrames
<1>2. render \in RenderSet /\ render.pc = "build" /\ render.todo = Topics
  BY <1>1 DEF Init, RenderSet
<1>3. /\ conn \in [Page -> ConnSet] /\ screen \in [Page -> ScreenSet]
      /\ \A c \in Page : conn[c].pc = "gone" /\ screen[c].got = NoFrames
  BY <1>1 DEF Init, ConnSet, ScreenSet
<1>4. /\ queue \in [Page -> Seq(Frame)] /\ clients \subseteq Page
      /\ \A c \in Page : Len(queue[c]) <= Cap
      /\ \A c \in Page, t \in Topic : Queued(queue[c], t) = {}
  BY EmptyQueue DEF Init
<1>5. TypeOK
  BY <1>1, <1>2, <1>3, <1>4 DEF Init, TypeOK, RenderSet, Todo, ConnSet, ScreenSet
<1>6. Built
  BY <1>2 DEF Built, Topic
<1>7. Attached
  BY <1>3 DEF Init, Attached
<1>8. Flow
  BY <1>1, <1>3, <1>4 DEF Init, Flow, Flows, Starts
<1>9. QED
  BY <1>5, <1>6, <1>7, <1>8 DEF SlipInv

LEMMA SlipInvStep == SlipInv /\ [Next]_vars => SlipInv'
<1> SUFFICES ASSUME SlipInv, [Next]_vars PROVE SlipInv'
  OBVIOUS
<1>1. CASE Render
  BY <1>1, SlipStart, SlipSwap, SlipCount, SlipSend DEF Render
<1>2. CASE Broadcast
  BY <1>2, SlipBroadcast
<1>3. CASE \/ \E t \in Topic : Change(t)
           \/ \E h \in Handler : KickRender(h) \/ \E t \in Topic : Mutate(h, t)
  BY <1>3, SlipData
<1>4. ASSUME NEW c \in Page, Serve(c) \/ Attach(c) \/ Leave(c) PROVE SlipInv'
  BY <1>4, SlipAttach, SlipLoad, SlipGreet, SlipRelay DEF Serve
<1>5. ASSUME NEW c \in Page, NEW t \in Holdable, Hold(c, t) \/ Release(c, t)
      PROVE  SlipInv'
  BY <1>5, SlipHold
<1>6. CASE UNCHANGED vars
  <2>1. TypeOK' /\ Built'
    BY <1>6, HubParts, HubTyped DEF SlipInv, vars, reqVars
  <2>2. Flow' /\ Attached'
    BY <1>6, FlowStays, AttachedStays DEF vars, ToBeSent
  <2>3. QED
    BY <2>1, <2>2 DEF SlipInv
<1>7. QED
  BY <1>1, <1>2, <1>3, <1>4, <1>5, <1>6 DEF Next

LEMMA SlipInvAlways == Spec => []SlipInv
BY SlipInvInit, SlipInvStep, PTL DEF Spec

\* Every queue stays within its channel's capacity and carries whole frames, and
\* no frame is ever built of nothing (Hub.send, render).
THEOREM StreamTypeCorrect == Spec => []TypeOK
<1>1. SlipInv => TypeOK
  BY DEF SlipInv
<1>2. QED
  BY <1>1, SlipInvAlways, PTL

\* Attaching before loading and swapping before sending leave no gap for a frame
\* to fall into, whatever the number of pages and the capacity (handleEvents,
\* render, Hub.send).
THEOREM NothingEverSlipsBetween == Spec => []NothingSlipsBetween
<1>1. SlipInv => NothingSlipsBetween
  BY DEF SlipInv, Flow, Flows, NothingSlipsBetween, Newest
<1>2. QED
  BY <1>1, SlipInvAlways, PTL

=============================================================================
