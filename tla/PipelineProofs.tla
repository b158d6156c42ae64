--------------------------- MODULE PipelineProofs ---------------------------
(***************************************************************************)
(* Proofs about the workers of a cluster and the model across them         *)
(* (Worker, Pipeline): a worker's place is one coordinator's at a time,    *)
(* and of frames no more are on their way than are waited for or came too  *)
(* late.                                                                   *)
(***************************************************************************)
EXTENDS Pipeline, Counting

\* What OnePlace needs to be kept by every step. A thread that loads has the
\* place, or what it loads would be nobody's; who has layers has the place.
PlacesType ==
    /\ task \in [Connections -> {"none", "listens", "loads", "gone"}]
    /\ ours \in [Connections -> BOOLEAN]
    /\ busy \in [Workers -> BOOLEAN]
    /\ stage = [c \in Connections |-> stage[c]]
TakenIsBusy == \A c \in Connections : ours[c] => busy[To(c)]
BusyIsTaken == \A w \in Workers : busy[w] => \E c \in Connections : To(c) = w /\ ours[c]
OneHasIt == \A c, d \in Connections : ours[c] /\ ours[d] /\ To(c) = To(d) => c = d
LayersAreHeld == \A c \in Connections : stage[c] # NoStage \/ task[c] = "loads" => ours[c]
Places == PlacesType /\ TakenIsBusy /\ BusyIsTaken /\ OneHasIt /\ LayersAreHeld

-----------------------------------------------------------------------------

\* A connection is to a worker.
LEMMA ToAWorker == \A c \in Connections : To(c) \in Workers
<1>1. Contested \subseteq Workers
  BY WorkerAssumption
<1> QED
  BY <1>1 DEF Connections, To

\* Nobody has a place in the beginning.
LEMMA PlacesInit == Init => Places
BY ToAWorker DEF Init, WorkerInit, Places, PlacesType, TakenIsBusy, BusyIsTaken, OneHasIt, LayersAreHeld

\* A step that changes none of a worker's threads, and none of its places,
\* keeps what holds of them.
LEMMA PlacesStay == Places /\ UNCHANGED workerVars => Places'
BY DEF Places, PlacesType, TakenIsBusy, BusyIsTaken, OneHasIt, LayersAreHeld, workerVars, To

\* A coordinator that opens connections takes no place with it.
LEMMA PlacesOpen == ASSUME NEW cs \in SUBSET Connections, Places, Opens(cs)
                    PROVE  Places'
<1>1. PlacesType'
  BY DEF Places, PlacesType, Opens
<1> QED
  BY <1>1 DEF Places, TakenIsBusy, BusyIsTaken, OneHasIt, LayersAreHeld, Opens, To

\* Held::release: the place is given back by the one who has it, if it has,
\* and no other thread's claim to it is touched.
LEMMA PlacesRelease ==
    ASSUME NEW c \in Connections, Places, Release(c),
           task' \in [Connections -> {"none", "listens", "loads", "gone"}],
           task'[c] # "loads", \A d \in Connections \ {c} : task'[d] = task[d]
    PROVE  Places'
<1> USE DEF Places
<1>1. To(c) \in Workers
  BY ToAWorker
<1>2. PlacesType'
  BY <1>1 DEF PlacesType, Release
<1>3. /\ ~ours'[c] /\ stage'[c] = NoStage
      /\ \A d \in Connections \ {c} : ours'[d] = ours[d] /\ stage'[d] = stage[d]
  BY DEF PlacesType, Release
<1>4. \A w \in Workers : busy'[w] = (busy[w] /\ ~(ours[c] /\ w = To(c)))
  BY <1>1 DEF PlacesType, Release
<1>5. TakenIsBusy'
  BY <1>3, <1>4, ToAWorker DEF PlacesType, TakenIsBusy, OneHasIt, To
<1>6. BusyIsTaken'
  <2> SUFFICES ASSUME NEW w \in Workers, busy'[w] PROVE \E d \in Connections : To(d) = w /\ ours'[d]
    BY DEF BusyIsTaken, To
  <2>1. PICK d \in Connections : To(d) = w /\ ours[d]
    BY <1>4 DEF BusyIsTaken
  <2>2. d # c
    BY <1>4, <2>1
  <2> QED
    BY <1>3, <2>1, <2>2
<1>7. OneHasIt'
  BY <1>3 DEF PlacesType, OneHasIt, To
<1>8. LayersAreHeld'
  BY <1>3 DEF PlacesType, LayersAreHeld
<1> QED
  BY <1>2, <1>5, <1>6, <1>7, <1>8

\* Load: the place is claimed by who has it, or when nobody does; the one who
\* is refused has nothing of before.
LEMMA PlacesTakeLoad == ASSUME NEW c \in Connections, Places, TakeLoad(c)
                        PROVE  Places'
<1>1. To(c) \in Workers
  BY ToAWorker
<1>2. CASE ours[c] \/ ~busy[To(c)]
  <2> USE DEF Places
  <2>1. PlacesType'
    BY <1>1, <1>2 DEF PlacesType, TakeLoad
  <2>2. /\ ours'[c] /\ stage'[c] = NoStage
        /\ \A d \in Connections \ {c} : ours'[d] = ours[d] /\ stage'[d] = stage[d] /\ task'[d] = task[d]
    BY <1>2 DEF PlacesType, TakeLoad
  <2>3. \A w \in Workers : busy'[w] = (busy[w] \/ w = To(c))
    BY <1>1, <1>2 DEF PlacesType, TakeLoad
  <2>4. TakenIsBusy'
    BY <2>2, <2>3, ToAWorker DEF TakenIsBusy, To
  <2>5. BusyIsTaken'
    <3> SUFFICES ASSUME NEW w \in Workers, busy'[w] PROVE \E d \in Connections : To(d) = w /\ ours'[d]
      BY DEF BusyIsTaken, To
    <3>1. CASE w = To(c)
      BY <2>2, <3>1
    <3>2. CASE w # To(c)
      <4>1. PICK d \in Connections : To(d) = w /\ ours[d]
        BY <2>3, <3>2 DEF BusyIsTaken
      <4> QED
        BY <2>2, <3>2, <4>1
    <3> QED
      BY <3>1, <3>2
  <2>6. \A d \in Connections : ours[d] /\ To(d) = To(c) => d = c
    BY <1>2 DEF TakenIsBusy, OneHasIt
  <2>7. OneHasIt'
    BY <2>2, <2>6 DEF OneHasIt, To
  <2>8. LayersAreHeld'
    BY <2>2 DEF LayersAreHeld
  <2> QED
    BY <2>1, <2>4, <2>5, <2>7, <2>8
<1>3. CASE ~(ours[c] \/ ~busy[To(c)])
  <2>1. Release(c) /\ task' = task /\ task[c] = "listens"
    BY <1>3 DEF TakeLoad, Asks
  <2> QED
    BY <2>1, PlacesRelease DEF Places, PlacesType
<1> QED
  BY <1>2, <1>3

\* The stage is made by a thread that has the place; or there is none, and
\* the place is given back.
LEMMA PlacesLoaded == ASSUME NEW c \in Connections, Places, Loaded(c)
                      PROVE  Places'
<1>1. /\ task' \in [Connections -> {"none", "listens", "loads", "gone"}]
      /\ task'[c] = "listens" /\ \A d \in Connections \ {c} : task'[d] = task[d]
  BY DEF Places, PlacesType, Loaded
<1>2. CASE Release(c)
  BY <1>1, <1>2, PlacesRelease
<1>3. CASE stage' = [stage EXCEPT ![c] = Empty] /\ UNCHANGED <<ours, busy>>
  <2>1. ours[c]
    BY DEF Places, LayersAreHeld, Loaded
  <2>2. PlacesType'
    BY <1>1, <1>3 DEF Places, PlacesType
  <2>3. LayersAreHeld'
    BY <1>1, <1>3, <2>1 DEF Places, PlacesType, LayersAreHeld
  <2> QED
    BY <1>3, <2>2, <2>3 DEF Places, TakenIsBusy, BusyIsTaken, OneHasIt, To
<1> QED
  BY <1>2, <1>3 DEF Loaded

\* A pass and a rewind change the layers of one who has some, and no place.
LEMMA PlacesRun == ASSUME NEW c \in Connections, Places, Forward(c) \/ Truncate(c) \/ Spend(c)
                   PROVE  Places'
<1>1. /\ UNCHANGED <<task, ours, busy>>
      /\ stage' = [d \in Connections |-> stage'[d]]
      /\ \A d \in Connections : stage[d] = NoStage => stage'[d] = NoStage
  <2>1. CASE Forward(c)
    <3>1. stage' = stage \/ (stage[c] # NoStage /\ \E held : stage' = [stage EXCEPT ![c] = held])
      BY <2>1 DEF Forward, Fits
    <3> QED
      BY <2>1, <3>1 DEF Forward, Places, PlacesType
  <2>2. CASE Truncate(c)
    <3>1. stage' = stage \/ (stage[c] # NoStage /\ \E held : stage' = [stage EXCEPT ![c] = held])
      BY <2>2 DEF Truncate
    <3> QED
      BY <2>2, <3>1 DEF Truncate, Places, PlacesType
  <2>3. CASE Spend(c)
    BY <2>3 DEF Spend, Places, PlacesType
  <2> QED
    BY <2>1, <2>2, <2>3
<1> QED
  BY <1>1 DEF Places, PlacesType, TakenIsBusy, BusyIsTaken, OneHasIt, LayersAreHeld, To

\* A connection that ends gives back what it has.
LEMMA PlacesEnds == ASSUME NEW c \in Connections, Places, Ends(c)
                    PROVE  Places'
<1>1. /\ task' \in [Connections -> {"none", "listens", "loads", "gone"}]
      /\ task'[c] = "gone" /\ \A d \in Connections \ {c} : task'[d] = task[d]
  BY DEF Places, PlacesType, Ends
<1> QED
  BY <1>1, PlacesRelease DEF Ends

\* What the session and the conversation do leaves the workers' threads as
\* they are: they hear of it by the frames alone.
LEMMA SessionLeavesWorkers == SessionStep \/ LlmStep \/ LoadMade => UNCHANGED workerVars
BY DEF SessionStep, LlmStep, LoadMade, AtTheWorkers, Piping, Calls,
       StartMend, Mend, CutNothing, StartCut, CutBack, NextSpend, Spent, StartPass, Pass,
       StartPipe, Feed, Drain, PipeEnds, Take, NoMore, HandBack, HandOn,
       Opened, Prefill, HaveRead, Step, Fed, Finish, Dropped

\* The loads are counted.
Counted == "gen" \in DOMAIN session /\ session.gen \in Nat
\* And stay so.
LEMMA CountedNext == Counted /\ [Next]_vars => Counted'
<1> SUFFICES ASSUME Counted, [Next]_vars PROVE Counted'
  OBVIOUS
<1>1. CASE UNCHANGED session
  BY <1>1 DEF Counted
<1>2. CASE Mend \/ CutBack \/ Pass \/ PipeEnds \/ LoadMade \/ Load
  <2>1. CASE Mend
    <3>1. session' = session \/ session' = [session EXCEPT !.torn = FALSE]
      BY <2>1 DEF Mend
    <3> QED
      BY <3>1 DEF Counted
  <2>2. CASE CutBack
    <3>1. session' = session \/ \E n : session' = [session EXCEPT !.len = n]
      BY <2>2 DEF CutBack
    <3> QED
      BY <3>1 DEF Counted
  <2>3. CASE Pass
    <3>1. session' = session \/ (\E b : session' = [session EXCEPT !.torn = b])
             \/ (\E n, b : session' = [session EXCEPT !.len = n, !.torn = b])
      BY <2>3 DEF Pass
    <3> QED
      BY <3>1 DEF Counted
  <2>4. CASE PipeEnds
    <3>1. \E n, b : session' = [session EXCEPT !.len = n, !.torn = b]
      BY <2>4 DEF PipeEnds
    <3> QED
      BY <3>1 DEF Counted
  <2>5. CASE LoadMade
    BY <2>5 DEF Counted, LoadMade
  <2>6. CASE Load
    <3>1. session' = [session EXCEPT !.at = "loading", !.gen = @ + 1]
      BY <2>6 DEF Load
    <3> QED
      BY <3>1 DEF Counted
  <2> QED
    BY <1>2, <2>1, <2>2, <2>3, <2>4, <2>5, <2>6
<1>3. CASE LoadFailed \/ Unload
  BY <1>3 DEF Counted, LoadFailed, Unload, NoSession
<1>4. CASE SessionStep \/ LlmStep
  BY <1>1, <1>2, <1>4
  DEF SessionStep, LlmStep, Piping, Calls, StartMend, CutNothing, StartCut, NextSpend, Spent, StartPass,
      StartPipe, Feed, Drain, Take, NoMore, HandBack, HandOn, Opened, Prefill, HaveRead, Step, Fed, Finish, Dropped
<1>5. CASE Stop \/ (\E p \in Prompts : Open(p)) \/ UNCHANGED vars \/ UNCHANGED callVars
  BY <1>1, <1>5 DEF Stop, Open, Calls, vars, callVars
<1> QED
  BY <1>2, <1>3, <1>4, <1>5 DEF Next, GoesOn

\* A step of any of them.
LEMMA PlacesNext == Places /\ Counted /\ [Next]_vars => Places'
<1> SUFFICES ASSUME Places, Counted, [Next]_vars
             PROVE  Places'
  OBVIOUS
<1>1. CASE SessionStep \/ LlmStep \/ LoadMade
  BY <1>1, SessionLeavesWorkers, PlacesStay
<1>2. ASSUME NEW c \in Connections, WorkerStep(c) PROVE Places'
  BY <1>2, PlacesTakeLoad, PlacesLoaded, PlacesRun, PlacesEnds DEF WorkerStep
<1>3. CASE LoadFailed \/ Unload
  BY <1>3, PlacesStay DEF LoadFailed, Unload, Leaves
<1>4. CASE Load
  <2>1. NewConns \in SUBSET Connections
    BY <1>4, WorkerAssumption DEF Counted, Load, NewConns, Connections
  <2> QED
    BY <1>4, <2>1, PlacesOpen DEF Load
<1>5. CASE Stop \/ (\E p \in Prompts : Open(p)) \/ UNCHANGED vars
  BY <1>5, PlacesStay DEF Stop, Open, Calls, vars
<1>6. CASE RivalStep
  <2>1. ASSUME NEW w \in Contested, RivalComes(w) PROVE Places'
    <3>1. {<<w, Rival>>} \in SUBSET Connections
      BY DEF Connections
    <3> QED
      BY <2>1, <3>1, PlacesOpen DEF RivalComes
  <2>2. ASSUME NEW w \in Contested, RivalGoes(w) PROVE Places'
    BY <2>2, PlacesStay DEF RivalGoes, Leaves
  <2> QED
    BY <1>6, <2>1, <2>2 DEF RivalStep
<1>7. ASSUME NEW s \in Workers, LinkCut(Conn(s)) PROVE Places'
  BY <1>7, PlacesStay DEF LinkCut
<1> QED
  BY <1>1, <1>2, <1>3, <1>4, <1>5, <1>6, <1>7 DEF Next, GoesOn, Machines

\* What holds of the places says that each is one coordinator's.
LEMMA PlacesAreOnes == Places => OnePlace
<1> SUFFICES ASSUME Places, NEW w \in Workers
             PROVE  LET holders == {c \in Connections : To(c) = w /\ ours[c]}
                    IN  /\ Cardinality(holders) = (IF busy[w] THEN 1 ELSE 0)
                        /\ \A c \in Connections : To(c) = w /\ stage[c] # NoStage => c \in holders
  BY DEF OnePlace
<1> DEFINE holders == {c \in Connections : To(c) = w /\ ours[c]}
<1>1. CASE busy[w]
  <2>1. PICK c \in Connections : To(c) = w /\ ours[c]
    BY <1>1 DEF Places, BusyIsTaken
  <2>2. holders = {c}
    BY <2>1 DEF Places, OneHasIt
  <2> QED
    BY <1>1, <2>2, FS_Singleton DEF Places, LayersAreHeld
<1>2. CASE ~busy[w]
  <2>1. holders = {}
    BY <1>2 DEF Places, TakenIsBusy
  <2> QED
    BY <1>2, <2>1, FS_EmptySet DEF Places, LayersAreHeld
<1> QED
  BY <1>1, <1>2

\* A worker's place is one coordinator's at a time, and taken exactly when one
\* has it: with any number of workers, loads and coordinators that come and
\* go, refusals, loads that fail, kernels that panic and links that are cut.
THEOREM PlaceIsOnes == Spec => []OnePlace
<1>1. Init => Places /\ Counted
  BY PlacesInit DEF Init, Counted, NoSession
<1>2. Places /\ Counted /\ [Next]_vars => Places' /\ Counted'
  BY PlacesNext, CountedNext
<1> QED
  BY <1>1, <1>2, PlacesAreOnes, PTL DEF Spec

-----------------------------------------------------------------------------
(***************************************************************************)
(* What everything is: frames, stages, calls                               *)
(***************************************************************************)

\* A frame with rows has one for each position up to its own.
Asked == {f \in [kind : {"load", "forward", "truncate", "spend"}, pos : Nat, row : Seq(Nat)] :
             f.kind = "forward" => Len(f.row) = f.pos + 1}
Answer == {f \in [kind : {"ready", "error", "hidden", "truncated", "spent"}, pos : Nat, row : Seq(Nat)] :
             f.kind = "hidden" => Len(f.row) = f.pos + 1}
Layers == {held \in [len : Int, rows : Seq(Nat)] :
             held.len <= Len(held.rows) /\ (held = NoStage \/ held.len >= 0)}
Sessions == [at : {"none", "loading", "loaded"}, gen : 0..MaxLoads, len : Nat, torn : BOOLEAN]
Ops == [is : {"none", "start", "mend", "cut", "pass", "pipe", "post", "spend", "done"},
        then : {"cut", "forward"}, n : Nat, s : 0..Last, row : Seq(Nat), ok : BOOLEAN]
Pieces == Seq(Nat) \ {<<>>}
Lanes == [at : {"over", "take", "ask", "send"}, row : Seq(Nat)]
Pipes == [next : Nat, ends : BOOLEAN, lane : [Workers -> Lanes], ch : [1..Last + 1 -> Seq(Pieces)],
          read : Nat, row : Seq(Nat), fault : BOOLEAN]
Llms == [at : {"rest", "open", "opened", "read", "ready", "feed", "drop"}, cached : Seq(Nat), ids : Seq(Nat),
         prompt : Nat, read : Nat, left : Nat, logits : Seq(Nat)]

WiresTyped ==
    /\ up \in [Connections -> Seq(Asked)] /\ down \in [Connections -> Seq(Answer)]
    /\ link \in [Connections -> {"none", "up", "cut", "left"}]
    /\ task \in [Connections -> {"none", "listens", "loads", "gone"}]
    /\ ours \in [Connections -> BOOLEAN] /\ busy \in [Workers -> BOOLEAN]
    /\ stage \in [Connections -> Layers]
    /\ spoilt \in BOOLEAN /\ mishaps \in 0..MaxMishaps
CallsTyped ==
    /\ session \in Sessions /\ op \in Ops /\ pipe \in Pipes /\ late \in [Workers -> Nat] /\ llm \in Llms
    /\ calls \in 0..MaxCalls
    /\ \A s \in Workers : pipe.lane[s].at \in {"ask", "send"} => pipe.lane[s].row # <<>>

\* Where the conversation and the session's call are, of each other.
CourseOfNone == session.at # "loaded" => ~session.torn /\ session.len = 0 /\ llm = NoLlm
CourseOfLoad == session.at # "none" => session.gen > 0
CourseOfPipe == op.is = "pipe" => pipe.next <= op.n
CourseOfOp ==
    /\ op.is = "none" <=> llm.at \in {"rest", "opened", "ready"}
    /\ op.is \in {"mend", "cut", "pass", "spend"} => op.s > 0
    /\ llm.at \in {"open", "drop"} =>
          /\ op.is \in {"start", "mend", "cut", "done"}
          /\ op.is # "done" => op.then = "cut"
          /\ op.is = "mend" => session.torn
          /\ op.is = "cut" => ~session.torn /\ op.n < session.len
          /\ op.is = "done" /\ op.ok => ~session.torn /\ op.n = session.len
    /\ llm.at \in {"read", "feed"} =>
          /\ op.is \in {"start", "pass", "pipe", "post", "spend", "done"}
          /\ op.is \in {"start", "pass", "pipe"} => op.then = "forward" /\ op.n <= Len(llm.ids) /\ ~session.torn
          /\ op.is = "pass" => op.n = session.len + 1
          /\ op.is = "pipe" => op.n > session.len + 1
          /\ op.is \in {"post", "spend", "done"} => (session.torn <=> ~op.ok) /\ (op.ok => op.n <= Len(llm.ids))
CourseOfLlm ==
    /\ llm.at \in {"rest", "open", "drop"} /\ session.torn => llm.cached = <<>>
    /\ llm.at \in {"opened", "ready"} => ~session.torn
    /\ llm.at \in {"open", "opened", "read"} => llm.prompt = Len(llm.ids)
    /\ llm.at = "opened" => llm.read = session.len
    /\ llm.at = "drop" => llm.cached = <<>> /\ (op.is # "done" => op.n = 0)
    /\ llm.at = "open" /\ op.is # "done" =>
          /\ op.n < llm.prompt /\ op.n <= Len(llm.cached)
          /\ SubSeq(llm.cached, 1, op.n) = SubSeq(llm.ids, 1, op.n)
    /\ llm.at = "feed" /\ (op.is \in {"post", "spend", "done"} => op.ok) => op.n = Len(llm.ids)
Course == CourseOfNone /\ CourseOfLoad /\ CourseOfPipe /\ CourseOfOp /\ CourseOfLlm
Typed == WiresTyped /\ CallsTyped /\ Course

-----------------------------------------------------------------------------

\* The workers are numbered from 1, and two at least.
LEMMA SomeWorkers == Last \in Nat /\ Last > 1 /\ Workers = 1..Last /\ Contested \subseteq Workers
BY WorkerAssumption, FS_CardinalityType DEF Last

\* The frames the session sends are such.
LEMMA SessionFrames ==
    /\ Plain("load") \in Asked /\ Plain("spend") \in Asked
    /\ \A n \in Nat : ToTruncate(n) \in Asked
    /\ \A row \in Pieces : Rows(row) \in Asked
<1>1. \A row \in Pieces : row \in Seq(Nat) /\ Len(row) \in Nat \ {0}
  BY EmptySeq, LenProperties, Zenon DEF Pieces
<1>2. \A row \in Pieces : Len(row) - 1 \in Nat /\ Len(row) = Len(row) - 1 + 1
  BY <1>1
<1>3. <<>> \in Seq(Nat)
  OBVIOUS
<1> QED
  BY <1>1, <1>2, <1>3 DEF Asked, Plain, Frame, ToTruncate, Rows

\* And those the workers do.
LEMMA WorkerFrames ==
    /\ Plain("ready") \in Answer /\ Plain("error") \in Answer /\ Plain("spent") \in Answer
    /\ \A n \in Nat : Frame("truncated", n, <<>>) \in Answer
    /\ \A n \in Nat, row \in Seq(Nat) : Len(row) = n + 1 => Frame("hidden", n, row) \in Answer
BY DEF Answer, Plain, Frame

\* The connections of this load are connections.
LEMMA OurConnections ==
    ASSUME CallsTyped, Course, session.at # "none"
    PROVE  /\ \A s \in Workers : Conn(s) \in Connections /\ To(Conn(s)) = s /\ Conn(s)[2] = session.gen
           /\ \A s, t \in Workers : s # t => Conn(s) # Conn(t)
           /\ OurConns \subseteq Connections
           /\ session.gen \in 1..MaxLoads
<1>1. session.gen \in 1..MaxLoads
  BY WorkerAssumption DEF CallsTyped, Sessions, Course, CourseOfLoad
<1> QED
  BY <1>1 DEF Conn, OurConns, Connections, To

\* What is asked is typed, and is asked of that stage alone.
LEMMA AskTyped ==
    ASSUME NEW s \in Workers, NEW f \in Asked, WiresTyped, Ask(s, f)
    PROVE  up' \in [Connections -> Seq(Asked)]
BY AppendProperties DEF WiresTyped, Ask

\* What comes is an answer, or none; what has come is no longer to come; and
\* only an answer that is not here in time is counted.
LEMMA ComesTyped ==
    ASSUME NEW s \in Workers, NEW a \in Answers(s), WiresTyped, CallsTyped, Course, session.at # "none", Comes(s, a)
    PROVE  /\ a \in Answer \/ a = NoAnswer
           /\ down' \in [Connections -> Seq(Answer)]
           /\ late' \in [Workers -> Nat]
           /\ mishaps' \in 0..MaxMishaps
<1>1. Conn(s) \in Connections
  BY OurConnections
<1>2. down[Conn(s)] \in Seq(Answer) /\ <<>> \in Seq(Answer)
  BY <1>1 DEF WiresTyped
<1>3. CASE down[Conn(s)] # <<>> /\ a = Head(down[Conn(s)]) /\ down' = [down EXCEPT ![Conn(s)] = Tail(@)]
           /\ UNCHANGED <<late, mishaps>>
  <2>1. a \in Answer /\ Tail(down[Conn(s)]) \in Seq(Answer)
    BY <1>2, <1>3, HeadTailProperties
  <2> QED
    BY <1>3, <2>1 DEF WiresTyped, CallsTyped
<1>4. CASE a = NoAnswer /\ down' = [down EXCEPT ![Conn(s)] = <<>>] /\ UNCHANGED <<late, mishaps>>
  BY <1>2, <1>4 DEF WiresTyped, CallsTyped
<1>5. CASE a = NoAnswer /\ AMishap /\ late' = [late EXCEPT ![s] = @ + 1] /\ UNCHANGED down
  BY <1>5, WorkerAssumption DEF WiresTyped, CallsTyped, AMishap
<1> QED
  BY <1>3, <1>4, <1>5 DEF Comes

-----------------------------------------------------------------------------
(***************************************************************************)
(* Everything stays what it is                                             *)
(***************************************************************************)

\* A call that fails, and one that is done.
LEMMA FailedTyped == Failed \in Ops /\ NoOp \in Ops /\ [Failed EXCEPT !.is = "post", !.s = 0] \in Ops
<1>1. 0 \in 0..Last /\ <<>> \in Seq(Nat)
  BY SomeWorkers
<1> QED
  BY <1>1 DEF Failed, Done, NoOp, Ops
LEMMA DoneTyped ==
    ASSUME NEW n \in Nat, NEW row \in Seq(Nat)
    PROVE  Done(TRUE, n, row) \in Ops /\ [Done(TRUE, n, row) EXCEPT !.is = "post", !.s = 0] \in Ops
<1>1. 0 \in 0..Last
  BY SomeWorkers
<1> QED
  BY <1>1 DEF Done, NoOp, Ops
LEMMA BeginsTyped ==
    ASSUME NEW then \in {"cut", "forward"}, NEW n \in Nat
    PROVE  Begins(then, n) \in Ops
<1>1. 0 \in 0..Last /\ <<>> \in Seq(Nat)
  BY SomeWorkers
<1> QED
  BY <1>1 DEF Begins, NoOp, Ops

\* A step that changes no more than the call, and what has come.
LEMMA CallsTypedOp ==
    ASSUME CallsTyped, op' \in Ops, UNCHANGED <<pipe, llm, calls>>,
           session' \in Sessions \/ session' = session, late' \in [Workers -> Nat] \/ late' = late
    PROVE  CallsTyped'
BY DEF CallsTyped

\* mend begins.
LEMMA TypedStartMend == Typed /\ StartMend => Typed'
<1> SUFFICES ASSUME Typed, StartMend PROVE Typed'
  OBVIOUS
<1>1. WiresTyped'
  <2>1. 1 \in Workers /\ ToTruncate(session.len) \in Asked
    BY SomeWorkers, SessionFrames DEF Typed, CallsTyped, Sessions
  <2>2. up' \in [Connections -> Seq(Asked)]
    BY <2>1, AskTyped DEF Typed, StartMend
  <2> QED
    BY <2>2 DEF Typed, WiresTyped, StartMend, AtTheWorkers, workerVars, Smoothly
<1>2. CallsTyped'
  <2>1. op' = [op EXCEPT !.is = "mend", !.s = 1] /\ op \in Ops /\ 1 \in 0..Last
    BY SomeWorkers DEF Typed, CallsTyped, StartMend
  <2>2. op' \in Ops
    BY <2>1 DEF Ops
  <2> QED
    BY <2>2, CallsTypedOp DEF Typed, StartMend
<1>3. Course'
  BY <1>2, SomeWorkers DEF Typed, CallsTyped, Ops, StartMend, Course, CourseOfNone, CourseOfLoad, CourseOfPipe, CourseOfOp, CourseOfLlm
<1> QED
  BY <1>1, <1>2, <1>3 DEF Typed

\* mend goes on.
LEMMA TypedMend == Typed /\ Mend => Typed'
<1> SUFFICES ASSUME Typed, Mend PROVE Typed'
  OBVIOUS
<1>1. op.s \in Workers /\ session.at # "none" /\ llm.at \in {"open", "drop"}
  BY SomeWorkers DEF Typed, CallsTyped, Ops, Mend, Course, CourseOfNone, CourseOfOp, Llms, NoLlm
<1>2. PICK a \in Answers(op.s) : Mend!2!(a)
  BY DEF Mend
<1>3. /\ a \in Answer \/ a = NoAnswer
      /\ down' \in [Connections -> Seq(Answer)] /\ late' \in [Workers -> Nat] /\ mishaps' \in 0..MaxMishaps
  BY <1>1, <1>2, ComesTyped DEF Typed
<1>4. UNCHANGED <<pipe, llm, calls, link, workerVars>>
  BY DEF Mend, AtTheWorkers
<1>5. CASE IsLength(a) /\ a.pos = session.len /\ op.s < Last
  <2>1. op.s + 1 \in Workers /\ ToTruncate(session.len) \in Asked
    BY <1>1, <1>5, SomeWorkers, SessionFrames DEF Typed, CallsTyped, Sessions
  <2>2. Ask(op.s + 1, ToTruncate(session.len)) /\ op' = [op EXCEPT !.s = @ + 1] /\ UNCHANGED session
    BY <1>2, <1>5
  <2>3. up' \in [Connections -> Seq(Asked)]
    BY <2>1, <2>2, AskTyped DEF Typed
  <2>4. WiresTyped'
    BY <1>3, <1>4, <2>3 DEF Typed, WiresTyped, workerVars
  <2>5. CallsTyped'
    <3>1. op \in Ops /\ op.s + 1 \in 0..Last
      BY <2>1, SomeWorkers DEF Typed, CallsTyped
    <3>2. op' \in Ops
      BY <2>2, <3>1 DEF Ops
    <3> QED
      BY <1>3, <1>4, <2>2, <3>2, CallsTypedOp DEF Typed
  <2>6. Course'
    BY <1>4, <2>1, <2>2, <2>5, SomeWorkers DEF Typed, CallsTyped, Ops, Course, CourseOfNone, CourseOfLoad, CourseOfPipe, CourseOfOp, CourseOfLlm
  <2> QED
    BY <2>4, <2>5, <2>6 DEF Typed
<1>6. CASE IsLength(a) /\ a.pos = session.len /\ ~(op.s < Last)
  <2>1. op' = [op EXCEPT !.is = "start"] /\ session' = [session EXCEPT !.torn = FALSE] /\ UNCHANGED up
    BY <1>2, <1>6
  <2>2. WiresTyped'
    BY <1>3, <1>4, <2>1 DEF Typed, WiresTyped, workerVars
  <2>3. CallsTyped'
    BY <1>3, <1>4, <2>1 DEF Typed, CallsTyped, Ops, Sessions
  <2>4. Course'
    BY <1>1, <1>4, <2>1, <2>3 DEF Typed, CallsTyped, Ops, Sessions, Mend, Course, CourseOfNone, CourseOfLoad, CourseOfPipe, CourseOfOp, CourseOfLlm
  <2> QED
    BY <2>2, <2>3, <2>4 DEF Typed
<1>7. CASE ~(IsLength(a) /\ a.pos = session.len)
  <2>1. op' = Failed /\ UNCHANGED <<up, session>>
    BY <1>2, <1>7
  <2>2. WiresTyped'
    BY <1>3, <1>4, <2>1 DEF Typed, WiresTyped, workerVars
  <2>3. CallsTyped'
    BY <1>3, <1>4, <2>1, FailedTyped, CallsTypedOp DEF Typed
  <2>4. Course'
    BY <1>1, <1>4, <2>1, <2>3 DEF Typed, CallsTyped, Mend, Failed, Done, NoOp, Course, CourseOfNone, CourseOfLoad, CourseOfPipe, CourseOfOp, CourseOfLlm
  <2> QED
    BY <2>2, <2>3, <2>4 DEF Typed
<1> QED
  BY <1>5, <1>6, <1>7

\* A step that leaves the machines and what is between.
LEMMA WiresTypedSame == WiresTyped /\ UNCHANGED <<wire, link, workerVars, mishaps>> => WiresTyped'
BY DEF WiresTyped, wire, workerVars

\* truncate, of nothing.
LEMMA TypedCutNothing == Typed /\ CutNothing => Typed'
<1> SUFFICES ASSUME Typed, CutNothing PROVE Typed'
  OBVIOUS
<1>1. WiresTyped'
  BY WiresTypedSame DEF Typed, CutNothing, AtTheWorkers, Smoothly
<1>2. CallsTyped'
  <2>1. op' \in Ops
    BY DoneTyped, EmptySeq DEF Typed, CallsTyped, Sessions, CutNothing
  <2> QED
    BY <2>1, CallsTypedOp DEF Typed, CutNothing
<1>3. Course'
  BY <1>2 DEF Typed, CallsTyped, Ops, CutNothing, Done, NoOp, Course, CourseOfNone, CourseOfLoad, CourseOfPipe, CourseOfOp, CourseOfLlm
<1> QED
  BY <1>1, <1>2, <1>3 DEF Typed

\* truncate begins.
LEMMA TypedStartCut == Typed /\ StartCut => Typed'
<1> SUFFICES ASSUME Typed, StartCut PROVE Typed'
  OBVIOUS
<1>1. WiresTyped'
  <2>1. 1 \in Workers /\ ToTruncate(op.n) \in Asked
    BY SomeWorkers, SessionFrames DEF Typed, CallsTyped, Ops
  <2>2. up' \in [Connections -> Seq(Asked)]
    BY <2>1, AskTyped DEF Typed, StartCut
  <2> QED
    BY <2>2 DEF Typed, WiresTyped, StartCut, AtTheWorkers, workerVars, Smoothly
<1>2. CallsTyped'
  <2>1. op' = [op EXCEPT !.is = "cut", !.s = 1] /\ op \in Ops /\ 1 \in 0..Last
    BY SomeWorkers DEF Typed, CallsTyped, StartCut
  <2>2. op' \in Ops
    BY <2>1 DEF Ops
  <2> QED
    BY <2>2, CallsTypedOp DEF Typed, StartCut
<1>3. Course'
  BY <1>2, SomeWorkers DEF Typed, CallsTyped, Ops, StartCut, Course, CourseOfNone, CourseOfLoad, CourseOfPipe, CourseOfOp, CourseOfLlm
<1> QED
  BY <1>1, <1>2, <1>3 DEF Typed

\* A call that waits for an answer is of a session that is loaded, and asks a
\* worker.
LEMMA WhoIsAsked ==
    ASSUME Typed, op.is \in {"mend", "cut", "pass", "spend"}
    PROVE  op.s \in Workers /\ session.at # "none" /\ session.at = "loaded"
BY SomeWorkers DEF Typed, CallsTyped, Ops, Course, CourseOfNone, CourseOfOp, Llms, NoLlm

\* truncate goes on.
LEMMA TypedCutBack == Typed /\ CutBack => Typed'
<1> SUFFICES ASSUME Typed, CutBack PROVE Typed'
  OBVIOUS
<1>1. op.s \in Workers /\ session.at # "none"
  BY WhoIsAsked DEF CutBack
<1>2. PICK a \in Answers(op.s) : CutBack!2!(a)
  BY DEF CutBack
<1>3. /\ a \in Answer \/ a = NoAnswer
      /\ down' \in [Connections -> Seq(Answer)] /\ late' \in [Workers -> Nat] /\ mishaps' \in 0..MaxMishaps
  BY <1>1, <1>2, ComesTyped DEF Typed
<1>4. UNCHANGED <<pipe, llm, calls, link, workerVars>> /\ op \in Ops /\ session \in Sessions
  BY DEF CutBack, AtTheWorkers, Typed, CallsTyped
<1>5. IsLength(a) => a.pos \in Nat
  BY <1>3 DEF IsLength, Answer, NoAnswer, Plain, Frame
<1>6. CASE IsLength(a) /\ (op.s = 1 \/ op.row = <<a.pos>>) /\ op.s < Last
  <2>1. op.s + 1 \in Workers /\ ToTruncate(op.n) \in Asked
    BY <1>1, <1>4, <1>6, SomeWorkers, SessionFrames DEF Ops
  <2>2. Ask(op.s + 1, ToTruncate(op.n)) /\ op' = [op EXCEPT !.s = @ + 1, !.row = <<a.pos>>] /\ UNCHANGED session
    BY <1>2, <1>6
  <2>3. up' \in [Connections -> Seq(Asked)]
    BY <2>1, <2>2, AskTyped DEF Typed
  <2>4. WiresTyped'
    BY <1>3, <1>4, <2>3 DEF Typed, WiresTyped, workerVars
  <2>5. CallsTyped'
    <3>1. op.s + 1 \in 0..Last /\ <<a.pos>> \in Seq(Nat)
      BY <1>5, <1>6, <2>1, SomeWorkers
    <3>2. op' \in Ops
      BY <1>4, <2>2, <3>1 DEF Ops
    <3> QED
      BY <1>3, <1>4, <2>2, <3>2, CallsTypedOp DEF Typed
  <2>6. Course'
    BY <1>4, <2>1, <2>2, <2>5, SomeWorkers DEF Typed, CallsTyped, Ops, Course, CourseOfNone, CourseOfLoad, CourseOfPipe, CourseOfOp, CourseOfLlm
  <2> QED
    BY <2>4, <2>5, <2>6 DEF Typed
<1>7. CASE IsLength(a) /\ (op.s = 1 \/ op.row = <<a.pos>>) /\ ~(op.s < Last)
  <2>1. op' = Done(TRUE, a.pos, <<>>) /\ session' = [session EXCEPT !.len = a.pos] /\ UNCHANGED up
    BY <1>2, <1>7
  <2>2. WiresTyped'
    BY <1>3, <1>4, <2>1 DEF Typed, WiresTyped, workerVars
  <2>3. CallsTyped'
    <3>1. session' \in Sessions
      BY <1>4, <1>5, <1>7, <2>1 DEF Sessions
    <3> QED
      BY <1>3, <1>4, <1>5, <1>7, <2>1, <3>1, DoneTyped, EmptySeq, CallsTypedOp DEF Typed
  <2>4. /\ op'.is = "done" /\ op'.ok /\ op'.n = a.pos
        /\ session'.at = session.at /\ session'.gen = session.gen /\ session'.len = a.pos /\ session'.torn = session.torn
    BY <1>4, <2>1 DEF Sessions, Done, NoOp
  <2>5. op.is = "cut" /\ session.at = "loaded" /\ llm.at \in {"open", "drop"}
    BY WhoIsAsked DEF Typed, CutBack, CallsTyped, Llms, Course, CourseOfOp
  <2>6. Course'
    BY <1>4, <2>4, <2>5 DEF Typed, Course, CourseOfNone, CourseOfLoad, CourseOfPipe, CourseOfOp, CourseOfLlm
  <2> QED
    BY <2>2, <2>3, <2>6 DEF Typed
<1>8. CASE ~(IsLength(a) /\ (op.s = 1 \/ op.row = <<a.pos>>))
  <2>1. op' = Failed /\ UNCHANGED <<up, session>>
    BY <1>2, <1>8
  <2>2. WiresTyped'
    BY <1>3, <1>4, <2>1 DEF Typed, WiresTyped, workerVars
  <2>3. CallsTyped'
    BY <1>3, <1>4, <2>1, FailedTyped, CallsTypedOp DEF Typed
  <2>4. Course'
    BY <1>1, <1>4, <2>1, <2>3 DEF Typed, CallsTyped, CutBack, Failed, Done, NoOp, Course, CourseOfNone, CourseOfLoad, CourseOfPipe, CourseOfOp, CourseOfLlm
  <2> QED
    BY <2>2, <2>3, <2>4 DEF Typed
<1> QED
  BY <1>6, <1>7, <1>8

\* post: the next is asked what it has spent, if there is one.
LEMMA TypedNextSpend == Typed /\ NextSpend => Typed'
<1> SUFFICES ASSUME Typed, NextSpend PROVE Typed'
  OBVIOUS
<1>1. UNCHANGED <<down, late, session, pipe, llm, calls, link, workerVars, mishaps>> /\ op \in Ops
  BY DEF NextSpend, AtTheWorkers, Smoothly, Typed, CallsTyped
<1>2. CASE op.s < Last
  <2>1. op.s + 1 \in Workers /\ Plain("spend") \in Asked
    BY <1>1, <1>2, SomeWorkers, SessionFrames DEF Ops
  <2>2. Ask(op.s + 1, Plain("spend")) /\ op' = [op EXCEPT !.is = "spend", !.s = @ + 1]
    BY <1>2 DEF NextSpend
  <2>3. up' \in [Connections -> Seq(Asked)]
    BY <2>1, <2>2, AskTyped DEF Typed
  <2>4. WiresTyped'
    BY <1>1, <2>3 DEF Typed, WiresTyped, workerVars
  <2>5. CallsTyped'
    <3>1. op.s + 1 \in 0..Last
      BY <2>1, SomeWorkers
    <3>2. op' \in Ops
      BY <1>1, <2>2, <3>1 DEF Ops
    <3> QED
      BY <1>1, <3>2, CallsTypedOp DEF Typed
  <2>6. Course'
    BY <1>1, <2>1, <2>2, <2>5, SomeWorkers DEF Typed, CallsTyped, Ops, NextSpend, Course, CourseOfNone, CourseOfLoad, CourseOfPipe, CourseOfOp, CourseOfLlm
  <2> QED
    BY <2>4, <2>5, <2>6 DEF Typed
<1>3. CASE ~(op.s < Last)
  <2>1. op' = [op EXCEPT !.is = "done", !.s = 0] /\ UNCHANGED up
    BY <1>3 DEF NextSpend
  <2>2. CallsTyped'
    <3>1. 0 \in 0..Last
      BY SomeWorkers
    <3>2. op' \in Ops
      BY <1>1, <2>1, <3>1 DEF Ops
    <3> QED
      BY <1>1, <3>2, CallsTypedOp DEF Typed
  <2>3. WiresTyped'
    BY <1>1, <2>1 DEF Typed, WiresTyped, workerVars
  <2>4. Course'
    BY <1>1, <2>1, <2>2, SomeWorkers DEF Typed, CallsTyped, Ops, NextSpend, Course, CourseOfNone, CourseOfLoad, CourseOfPipe, CourseOfOp, CourseOfLlm
  <2> QED
    BY <2>2, <2>3, <2>4 DEF Typed
<1> QED
  BY <1>2, <1>3

\* post: and what it says is let be.
LEMMA TypedSpent == Typed /\ Spent => Typed'
<1> SUFFICES ASSUME Typed, Spent PROVE Typed'
  OBVIOUS
<1>1. op.s \in Workers /\ session.at # "none"
  BY WhoIsAsked DEF Spent
<1>2. PICK a \in Answers(op.s) : Comes(op.s, a)
  BY DEF Spent
<1>3. down' \in [Connections -> Seq(Answer)] /\ late' \in [Workers -> Nat] /\ mishaps' \in 0..MaxMishaps
  BY <1>1, <1>2, ComesTyped DEF Typed
<1>4. UNCHANGED <<up, session, pipe, llm, calls, link, workerVars>> /\ op \in Ops /\ op' = [op EXCEPT !.is = "post"]
  BY DEF Spent, AtTheWorkers, Typed, CallsTyped
<1>5. WiresTyped'
  BY <1>3, <1>4 DEF Typed, WiresTyped, workerVars
<1>6. CallsTyped'
  <2>1. op' \in Ops
    BY <1>4 DEF Ops
  <2> QED
    BY <1>3, <1>4, <2>1, CallsTypedOp DEF Typed
<1>7. Course'
  BY <1>1, <1>4, <1>6 DEF Typed, CallsTyped, Ops, Spent, Course, CourseOfNone, CourseOfLoad, CourseOfPipe, CourseOfOp, CourseOfLlm
<1> QED
  BY <1>5, <1>6, <1>7 DEF Typed

-----------------------------------------------------------------------------

\* The first of a conversation, of so many tokens.
LEMMA RightTyped ==
    ASSUME NEW ids \in Seq(Nat), NEW n \in Nat, n <= Len(ids)
    PROVE  /\ SubSeq(ids, 1, n) \in Seq(Nat) /\ Len(SubSeq(ids, 1, n)) = n
           /\ n > 0 => SubSeq(ids, 1, n) \in Pieces
           /\ \A i \in 1..n : SubSeq(ids, 1, n)[i] = ids[i]
<1>1. SubSeq(ids, 1, n) \in Seq(Nat) /\ Len(SubSeq(ids, 1, n)) = n /\ \A i \in 1..n : SubSeq(ids, 1, n)[i] = ids[i]
  BY SubSeqProperties
<1>2. n > 0 => SubSeq(ids, 1, n) # <<>>
  BY <1>1
<1> QED
  BY <1>1, <1>2 DEF Pieces

\* forward begins, of one chunk.
LEMMA TypedStartPass == Typed /\ StartPass => Typed'
<1> SUFFICES ASSUME Typed, StartPass PROVE Typed'
  OBVIOUS
<1> DEFINE row == SubSeq(llm.ids, 1, session.len + 1)
<1>0. /\ op.n <= Len(llm.ids) /\ op.n = session.len + 1 /\ session.len \in Nat /\ llm.ids \in Seq(Nat)
      /\ op \in Ops /\ op.n \in Nat /\ llm.at \in {"read", "feed"}
  BY DEF Typed, CallsTyped, StartPass, Course, CourseOfOp, Ops, Llms, Sessions
<1>1. WiresTyped'
  <2>1. row \in Pieces
    BY <1>0, RightTyped
  <2>2. 1 \in Workers /\ Rows(row) \in Asked
    BY <2>1, SomeWorkers, SessionFrames
  <2>3. up' \in [Connections -> Seq(Asked)]
    BY <2>2, AskTyped DEF Typed, StartPass
  <2> QED
    BY <2>3 DEF Typed, WiresTyped, StartPass, AtTheWorkers, workerVars, Smoothly
<1>2. CallsTyped'
  <2>1. op' = [op EXCEPT !.is = "pass", !.s = 1] /\ op \in Ops /\ 1 \in 0..Last
    BY <1>0, SomeWorkers DEF StartPass
  <2>2. op' \in Ops
    BY <2>1 DEF Ops
  <2> QED
    BY <2>2, CallsTypedOp DEF Typed, StartPass
<1>3. Course'
  BY <1>0, <1>2, SomeWorkers DEF Typed, CallsTyped, Ops, StartPass, Course, CourseOfNone, CourseOfLoad, CourseOfPipe, CourseOfOp, CourseOfLlm
<1> QED
  BY <1>1, <1>2, <1>3 DEF Typed

\* forward goes on.
LEMMA TypedPass == Typed /\ Pass => Typed'
<1> SUFFICES ASSUME Typed, Pass PROVE Typed'
  OBVIOUS
<1>1. op.s \in Workers /\ session.at # "none" /\ session.at = "loaded" /\ op.is = "pass"
  BY WhoIsAsked DEF Pass
<1>2. PICK a \in Answers(op.s) : Pass!2!(a)
  BY DEF Pass
<1>3. /\ a \in Answer \/ a = NoAnswer
      /\ down' \in [Connections -> Seq(Answer)] /\ late' \in [Workers -> Nat] /\ mishaps' \in 0..MaxMishaps
  BY <1>1, <1>2, ComesTyped DEF Typed
<1>4. /\ UNCHANGED <<pipe, llm, calls, link, workerVars>> /\ op \in Ops /\ session \in Sessions /\ op.n \in Nat
      /\ session.len \in Nat
  BY DEF Pass, AtTheWorkers, Typed, CallsTyped, Ops, Sessions
<1>5. /\ llm.at \in {"read", "feed"} /\ op.n <= Len(llm.ids) /\ op.n = session.len + 1
      /\ llm.at = "feed" => op.n = Len(llm.ids)
  BY <1>1 DEF Typed, CallsTyped, Llms, Course, CourseOfOp, CourseOfLlm
<1>6. IsRows(a, session.len) => a.row \in Pieces
  <2>1. a \in Answer /\ a.kind = "hidden" => a.row \in Seq(Nat) /\ Len(a.row) = a.pos + 1 /\ a.pos \in Nat
    BY DEF Answer
  <2>2. a \in Answer /\ a.kind = "hidden" => a.row \in Pieces
    BY <2>1 DEF Pieces
  <2> QED
    BY <1>3, <2>2 DEF IsRows, NoAnswer, Plain, Frame
<1>7. CASE IsRows(a, session.len) /\ op.s < Last
  <2>1. op.s + 1 \in Workers /\ Rows(a.row) \in Asked
    BY <1>1, <1>6, <1>7, SomeWorkers, SessionFrames
  <2>2. Ask(op.s + 1, Rows(a.row)) /\ op' = [op EXCEPT !.s = @ + 1] /\ UNCHANGED session
    BY <1>2, <1>7
  <2>3. up' \in [Connections -> Seq(Asked)]
    BY <2>1, <2>2, AskTyped DEF Typed
  <2>4. WiresTyped'
    BY <1>3, <1>4, <2>3 DEF Typed, WiresTyped, workerVars
  <2>5. CallsTyped'
    <3>1. op.s + 1 \in 0..Last
      BY <2>1, SomeWorkers
    <3>2. op' \in Ops
      BY <1>4, <2>2, <3>1 DEF Ops
    <3> QED
      BY <1>3, <1>4, <2>2, <3>2, CallsTypedOp DEF Typed
  <2>6. Course'
    BY <1>4, <2>1, <2>2, <2>5, SomeWorkers DEF Typed, CallsTyped, Ops, Course, CourseOfNone, CourseOfLoad, CourseOfPipe, CourseOfOp, CourseOfLlm
  <2> QED
    BY <2>4, <2>5, <2>6 DEF Typed
<1>8. CASE IsRows(a, session.len) /\ ~(op.s < Last)
  <2>1. /\ op' = Done(TRUE, op.n, a.row) \/ op' = [Done(TRUE, op.n, a.row) EXCEPT !.is = "post", !.s = 0]
        /\ session' = [session EXCEPT !.len = @ + 1, !.torn = FALSE] /\ UNCHANGED up
    BY <1>2, <1>8 DEF Post, Torn
  <2>2. WiresTyped'
    BY <1>3, <1>4, <2>1 DEF Typed, WiresTyped, workerVars
  <2>3. CallsTyped'
    <3>1. session' \in Sessions
      <4>1. session' = [session EXCEPT !.len = session.len + 1, !.torn = FALSE] /\ session.len + 1 \in Nat
        BY <1>4, <2>1
      <4> QED
        BY <1>4, <4>1 DEF Sessions
    <3>2. a.row \in Seq(Nat)
      BY <1>6, <1>8 DEF Pieces
    <3>3. op' \in Ops
      BY <1>4, <2>1, <3>2, DoneTyped
    <3> QED
      BY <1>3, <1>4, <3>1, <3>3, CallsTypedOp DEF Typed
  <2>4. /\ op'.is \in {"done", "post"} /\ op'.ok /\ op'.n = op.n
        /\ session'.at = session.at /\ session'.gen = session.gen /\ session'.len = session.len + 1 /\ ~session'.torn
    BY <1>4, <2>1 DEF Sessions, Done, NoOp
  <2>5. Course'
    BY <1>1, <1>4, <1>5, <2>4 DEF Typed, Course, CourseOfNone, CourseOfLoad, CourseOfPipe, CourseOfOp, CourseOfLlm
  <2> QED
    BY <2>2, <2>3, <2>5 DEF Typed
<1>9. CASE ~IsRows(a, session.len)
  <2>1. /\ op' = Failed \/ op' = [Failed EXCEPT !.is = "post", !.s = 0]
        /\ session' = [session EXCEPT !.torn = TRUE] /\ UNCHANGED up
    BY <1>2, <1>9 DEF Post, Torn
  <2>2. WiresTyped'
    BY <1>3, <1>4, <2>1 DEF Typed, WiresTyped, workerVars
  <2>3. CallsTyped'
    <3>1. session' \in Sessions
      BY <1>4, <2>1 DEF Sessions
    <3> QED
      BY <1>3, <1>4, <2>1, <3>1, FailedTyped, CallsTypedOp DEF Typed
  <2>4. /\ op'.is \in {"done", "post"} /\ ~op'.ok
        /\ session'.at = session.at /\ session'.gen = session.gen /\ session'.len = session.len /\ session'.torn
    BY <1>4, <2>1 DEF Sessions, Failed, Done, NoOp
  <2>5. Course'
    BY <1>1, <1>4, <1>5, <2>4 DEF Typed, Course, CourseOfNone, CourseOfLoad, CourseOfPipe, CourseOfOp, CourseOfLlm
  <2> QED
    BY <2>2, <2>3, <2>5 DEF Typed
<1> QED
  BY <1>7, <1>8, <1>9

\* A step that changes no more than the threads of piped, and what is between
\* them and the workers.
LEMMA TypedPiping ==
    ASSUME Typed, UNCHANGED <<op, session, llm, calls, link, workerVars>>,
           up' \in [Connections -> Seq(Asked)], down' \in [Connections -> Seq(Answer)],
           late' \in [Workers -> Nat], mishaps' \in 0..MaxMishaps, pipe' \in Pipes, pipe'.next <= op.n \/ pipe'.next = pipe.next,
           \A s \in Workers : pipe'.lane[s].at \in {"ask", "send"} => pipe'.lane[s].row # <<>>
    PROVE  Typed'
<1>1. WiresTyped'
  BY DEF Typed, WiresTyped, workerVars
<1>2. CallsTyped'
  BY DEF Typed, CallsTyped
<1>3. Course'
  BY DEF Typed, Course, CourseOfNone, CourseOfLoad, CourseOfPipe, CourseOfOp, CourseOfLlm
<1> QED
  BY <1>1, <1>2, <1>3 DEF Typed

\* A step of piped that says nothing to the workers.
LEMMA TypedPipingQuietly ==
    ASSUME Typed, UNCHANGED <<op, session, llm, calls, link, workerVars>>, Quietly, pipe' \in Pipes, pipe'.next <= op.n \/ pipe'.next = pipe.next,
           \A s \in Workers : pipe'.lane[s].at \in {"ask", "send"} => pipe'.lane[s].row # <<>>
    PROVE  Typed'
<1>1. UNCHANGED <<up, down, late, mishaps>>
  BY DEF Quietly, wire, Smoothly
<1>2. /\ up' \in [Connections -> Seq(Asked)] /\ down' \in [Connections -> Seq(Answer)]
      /\ late' \in [Workers -> Nat] /\ mishaps' \in 0..MaxMishaps
  BY <1>1 DEF Typed, WiresTyped, CallsTyped
<1> QED
  BY <1>2, TypedPiping

\* piped begins.
LEMMA NoPipeTyped == NoPipe \in Pipes /\ \A s \in Workers : NoPipe.lane[s] = [at |-> "over", row |-> <<>>]
<1>1. <<>> \in Seq(Nat) /\ <<>> \in Seq(Pieces)
  OBVIOUS
<1>2. [s \in Workers |-> [at |-> "over", row |-> <<>>]] \in [Workers -> Lanes]
  BY <1>1 DEF Lanes
<1>3. [s \in 1..Last + 1 |-> <<>>] \in [1..Last + 1 -> Seq(Pieces)]
  BY <1>1
<1> QED
  BY <1>1, <1>2, <1>3 DEF NoPipe, Pipes
LEMMA TypedStartPipe == Typed /\ StartPipe => Typed'
<1> SUFFICES ASSUME Typed, StartPipe PROVE Typed'
  OBVIOUS
<1>1. WiresTyped'
  BY WiresTypedSame DEF Typed, StartPipe, AtTheWorkers, Smoothly
<1>2. op' = [op EXCEPT !.is = "pipe"] /\ op \in Ops /\ session \in Sessions /\ UNCHANGED <<late, session, llm, calls>>
  BY DEF StartPipe, Typed, CallsTyped
<1>3. op' \in Ops
  BY <1>2 DEF Ops
<1>4. pipe' \in Pipes /\ pipe'.next = session.len /\ \A s \in Workers : pipe'.lane[s].at = "take"
  <2>1. <<>> \in Seq(Nat) /\ session.len \in Nat
    BY <1>2 DEF Sessions
  <2>2. [s \in Workers |-> [at |-> "take", row |-> <<>>]] \in [Workers -> Lanes]
    BY <2>1 DEF Lanes
  <2>3. pipe' = [NoPipe EXCEPT !.next = session.len, !.lane = [s \in Workers |-> [at |-> "take", row |-> <<>>]]]
    BY DEF StartPipe
  <2> QED
    BY <2>1, <2>2, <2>3, NoPipeTyped DEF Pipes
<1>5. CallsTyped'
  BY <1>2, <1>3, <1>4 DEF Typed, CallsTyped
<1>6. Course'
  BY <1>2, <1>3, <1>4 DEF Typed, CallsTyped, Ops, Sessions, StartPipe, Course, CourseOfNone, CourseOfLoad, CourseOfPipe, CourseOfOp, CourseOfLlm
<1> QED
  BY <1>1, <1>5, <1>6 DEF Typed

-----------------------------------------------------------------------------

\* The channels and the lanes of the threads.
LEMMA PipeParts ==
    ASSUME Typed
    PROVE  /\ pipe \in Pipes /\ pipe.next \in Nat /\ pipe.read \in Nat /\ pipe.row \in Seq(Nat)
           /\ pipe.fault \in BOOLEAN /\ pipe.ends \in BOOLEAN
           /\ pipe.lane \in [Workers -> Lanes] /\ pipe.ch \in [1..Last + 1 -> Seq(Pieces)]
           /\ \A s \in 1..Last + 1 : pipe.ch[s] # <<>> => pipe.ch[s][1] \in Pieces
           /\ \A s \in Workers : pipe.lane[s].row \in Seq(Nat) /\ (pipe.lane[s].at \in {"ask", "send"} => pipe.lane[s].row \in Pieces)
<1>1. /\ pipe \in Pipes /\ pipe.next \in Nat /\ pipe.read \in Nat /\ pipe.row \in Seq(Nat)
      /\ pipe.fault \in BOOLEAN /\ pipe.ends \in BOOLEAN
      /\ pipe.lane \in [Workers -> Lanes] /\ pipe.ch \in [1..Last + 1 -> Seq(Pieces)]
  BY DEF Typed, CallsTyped, Pipes
<1>2. ASSUME NEW s \in 1..Last + 1, pipe.ch[s] # <<>> PROVE pipe.ch[s][1] \in Pieces
  <2>1. pipe.ch[s] \in Seq(Pieces)
    BY <1>1
  <2> QED
    BY <1>2, <2>1
<1>3. ASSUME NEW s \in Workers PROVE pipe.lane[s].row \in Seq(Nat) /\ (pipe.lane[s].at \in {"ask", "send"} => pipe.lane[s].row \in Pieces)
  BY <1>1 DEF Typed, CallsTyped, Lanes, Pieces
<1> QED
  BY <1>1, <1>2, <1>3

\* A step of one thread changes its lane, and the channels it has to do with.
LanesSet(s, lane, ch, fault) ==
    /\ pipe' \in Pipes /\ pipe'.lane = [pipe.lane EXCEPT ![s] = lane] /\ pipe'.ch = ch /\ pipe'.fault = fault
    /\ pipe'.next = pipe.next /\ pipe'.ends = pipe.ends /\ pipe'.read = pipe.read /\ pipe'.row = pipe.row

\* Feed, by field.
LEMMA FeedParts ==
    ASSUME Typed, Feed
    PROVE  /\ pipe' \in Pipes /\ pipe'.lane = pipe.lane /\ pipe'.fault = pipe.fault
           /\ pipe'.read = pipe.read /\ pipe'.row = pipe.row
           /\ ~SenderGone(1) /\ op.is = "pipe" /\ UNCHANGED <<op, session, llm, calls, link, workerVars>> /\ Quietly
           /\ \/ Over(1) /\ pipe'.ends = TRUE /\ pipe'.ch = pipe.ch /\ pipe'.next = pipe.next
              \/ /\ ~Over(1) /\ pipe.ch[1] = <<>> /\ pipe.next + 1 <= op.n /\ op.n <= Len(llm.ids)
                 /\ pipe'.ends = pipe.ends /\ pipe'.next = pipe.next + 1
                 /\ pipe'.ch = [pipe.ch EXCEPT ![1] = <<SubSeq(llm.ids, 1, pipe.next + 1)>>]
<1>1. 1 \in Workers /\ 1 \in 1..Last + 1 /\ 1 <= Last
  BY SomeWorkers
<1>2. ~SenderGone(1) /\ op.is = "pipe" /\ UNCHANGED <<op, session, llm, calls, link, workerVars>> /\ Quietly
  BY DEF Feed, Piping
<1>3. CASE ReceiverGone(1) /\ pipe' = [pipe EXCEPT !.ends = TRUE]
  BY <1>1, <1>2, <1>3, PipeParts DEF Pipes, ReceiverGone
<1>4. CASE /\ ~ReceiverGone(1) /\ HasRoom(1)
           /\ pipe' = [pipe EXCEPT !.next = @ + 1, !.ch[1] = <<SubSeq(llm.ids, 1, pipe.next + 1)>>]
  <2>1. op.n <= Len(llm.ids) /\ op.n \in Nat /\ llm.ids \in Seq(Nat) /\ pipe.next <= op.n
    BY <1>2 DEF Typed, CallsTyped, Llms, Ops, Course, CourseOfPipe, CourseOfOp
  <2>2. pipe.next + 1 \in Nat /\ pipe.next + 1 <= op.n
    BY <1>1, <1>2, <2>1, PipeParts DEF SenderGone
  <2>3. [pipe.ch EXCEPT ![1] = <<SubSeq(llm.ids, 1, pipe.next + 1)>>] \in [1..Last + 1 -> Seq(Pieces)]
    <3>1. SubSeq(llm.ids, 1, pipe.next + 1) \in Pieces
      BY <2>1, <2>2, PipeParts, RightTyped
    <3>2. <<SubSeq(llm.ids, 1, pipe.next + 1)>> \in Seq(Pieces)
      BY <3>1
    <3> QED
      BY <3>2, PipeParts
  <2> QED
    BY <1>1, <1>2, <1>4, <2>1, <2>2, <2>3, PipeParts DEF Pipes, ReceiverGone, HasRoom
<1> QED
  BY <1>2, <1>3, <1>4 DEF Feed

\* Take, by field.
LEMMA TakeParts ==
    ASSUME Typed, NEW s \in Workers, Take(s)
    PROVE  /\ op.is = "pipe" /\ UNCHANGED <<op, session, llm, calls, link, workerVars, down, late, mishaps>>
           /\ pipe.lane[s].at = "take" /\ pipe.ch[s] # <<>> /\ pipe.ch[s][1] \in Pieces /\ Ask(s, Rows(pipe.ch[s][1]))
           /\ LanesSet(s, [at |-> "ask", row |-> pipe.ch[s][1]], [pipe.ch EXCEPT ![s] = <<>>], pipe.fault)
<1>1. s \in 1..Last + 1
  BY SomeWorkers
<1>2. /\ op.is = "pipe" /\ UNCHANGED <<op, session, llm, calls, link, workerVars, down, late, mishaps>>
      /\ pipe.lane[s].at = "take" /\ pipe.ch[s] # <<>> /\ pipe.ch[s][1] \in Pieces /\ Ask(s, Rows(pipe.ch[s][1]))
  BY <1>1, PipeParts DEF Take, Piping, Smoothly
<1>3. [at |-> "ask", row |-> pipe.ch[s][1]] \in Lanes /\ [pipe.ch EXCEPT ![s] = <<>>] \in [1..Last + 1 -> Seq(Pieces)]
  <2>1. pipe.ch[s][1] \in Seq(Nat) /\ <<>> \in Seq(Pieces)
    BY <1>2 DEF Pieces
  <2> QED
    BY <2>1, PipeParts DEF Lanes
<1>4. pipe' = [pipe EXCEPT !.lane[s] = [at |-> "ask", row |-> pipe.ch[s][1]], !.ch[s] = <<>>]
  BY DEF Take
<1>5. LanesSet(s, [at |-> "ask", row |-> pipe.ch[s][1]], [pipe.ch EXCEPT ![s] = <<>>], pipe.fault)
  BY <1>3, <1>4, PipeParts DEF LanesSet, Pipes
<1> QED
  BY <1>2, <1>5

\* NoMore, by field.
LEMMA NoMoreParts ==
    ASSUME Typed, NEW s \in Workers, NoMore(s)
    PROVE  /\ op.is = "pipe" /\ UNCHANGED <<op, session, llm, calls, link, workerVars>> /\ Quietly
           /\ pipe.lane[s].at = "take" /\ pipe.ch[s] = <<>> /\ SenderGone(s)
           /\ LanesSet(s, [at |-> "over", row |-> pipe.lane[s].row], pipe.ch, pipe.fault)
<1>1. /\ op.is = "pipe" /\ UNCHANGED <<op, session, llm, calls, link, workerVars>> /\ Quietly
      /\ pipe.lane[s].at = "take" /\ pipe.ch[s] = <<>> /\ SenderGone(s)
      /\ pipe' = [pipe EXCEPT !.lane[s].at = "over"]
  BY DEF NoMore, Piping
<1>2. pipe.lane[s] \in Lanes
  BY PipeParts
<1>3. [pipe.lane[s] EXCEPT !.at = "over"] = [at |-> "over", row |-> pipe.lane[s].row]
  BY <1>2 DEF Lanes
<1>4. pipe' = [pipe EXCEPT !.lane = [pipe.lane EXCEPT ![s] = [at |-> "over", row |-> pipe.lane[s].row]]]
  BY <1>1, <1>3
<1>5. [at |-> "over", row |-> pipe.lane[s].row] \in Lanes
  BY <1>2 DEF Lanes
<1>6. LanesSet(s, [at |-> "over", row |-> pipe.lane[s].row], pipe.ch, pipe.fault)
  BY <1>4, <1>5, PipeParts DEF LanesSet, Pipes
<1> QED
  BY <1>1, <1>6

\* HandBack, by field.
LEMMA HandBackParts ==
    ASSUME Typed, NEW s \in Workers, HandBack(s)
    PROVE  /\ op.is = "pipe" /\ UNCHANGED <<op, session, llm, calls, link, workerVars, up>>
           /\ pipe.lane[s].at = "ask" /\ pipe.lane[s].row \in Pieces
           /\ \E a \in Answers(s) :
                 /\ Comes(s, a)
                 /\ \/ /\ IsRows(a, Len(pipe.lane[s].row) - 1) /\ a.row \in Pieces
                       /\ LanesSet(s, [at |-> "send", row |-> a.row], pipe.ch, pipe.fault)
                    \/ /\ ~IsRows(a, Len(pipe.lane[s].row) - 1)
                       /\ LanesSet(s, [at |-> "over", row |-> pipe.lane[s].row], [pipe.ch EXCEPT ![s] = <<>>], TRUE)
<1>1. /\ op.is = "pipe" /\ UNCHANGED <<op, session, llm, calls, link, workerVars, up>>
      /\ pipe.lane[s].at = "ask"
  BY DEF HandBack, Piping
<1>2. pipe.lane[s] \in Lanes /\ pipe.lane[s].row \in Pieces /\ s \in 1..Last + 1
  BY <1>1, PipeParts, SomeWorkers
<1>3. session.at # "none"
  BY <1>1 DEF Typed, CallsTyped, Llms, Course, CourseOfNone, CourseOfOp, NoLlm
<1>4. PICK a \in Answers(s) :
         /\ Comes(s, a)
         /\ pipe' = IF IsRows(a, Len(pipe.lane[s].row) - 1)
                    THEN [pipe EXCEPT !.lane[s] = [at |-> "send", row |-> a.row]]
                    ELSE [pipe EXCEPT !.lane[s].at = "over", !.ch[s] = <<>>, !.fault = TRUE]
  BY DEF HandBack
<1>5. a \in Answer \/ a = NoAnswer
  BY <1>3, <1>4, ComesTyped DEF Typed
<1>6. CASE IsRows(a, Len(pipe.lane[s].row) - 1)
  <2>1. a.kind = "hidden" /\ a.row \in Seq(Nat) /\ Len(a.row) = a.pos + 1 /\ a.pos \in Nat
    BY <1>5, <1>6 DEF IsRows, NoAnswer, Plain, Frame, Answer
  <2>2. a.row \in Pieces
    BY <2>1 DEF Pieces
  <2>3. [at |-> "send", row |-> a.row] \in Lanes
    BY <2>1 DEF Lanes
  <2>4. pipe' = [pipe EXCEPT !.lane[s] = [at |-> "send", row |-> a.row]]
    BY <1>4, <1>6
  <2>5. LanesSet(s, [at |-> "send", row |-> a.row], pipe.ch, pipe.fault)
    BY <2>3, <2>4, PipeParts DEF LanesSet, Pipes
  <2> QED
    BY <1>1, <1>2, <1>4, <1>6, <2>2, <2>5
<1>7. CASE ~IsRows(a, Len(pipe.lane[s].row) - 1)
  <2>1. [pipe.lane[s] EXCEPT !.at = "over"] = [at |-> "over", row |-> pipe.lane[s].row]
    BY <1>2 DEF Lanes
  <2>2. [at |-> "over", row |-> pipe.lane[s].row] \in Lanes /\ <<>> \in Seq(Pieces)
    BY <1>2 DEF Lanes
  <2>3. pipe' = [pipe EXCEPT !.lane[s].at = "over", !.ch[s] = <<>>, !.fault = TRUE]
    BY <1>4, <1>7
  <2>4. pipe' = [pipe EXCEPT !.lane = [pipe.lane EXCEPT ![s] = [at |-> "over", row |-> pipe.lane[s].row]],
                             !.ch = [pipe.ch EXCEPT ![s] = <<>>], !.fault = TRUE]
    BY <1>2, <2>1, <2>3, PipeParts DEF Pipes
  <2>5. [pipe.ch EXCEPT ![s] = <<>>] \in [1..Last + 1 -> Seq(Pieces)]
    BY <1>2, <2>2, PipeParts
  <2>6. LanesSet(s, [at |-> "over", row |-> pipe.lane[s].row], [pipe.ch EXCEPT ![s] = <<>>], TRUE)
    BY <2>2, <2>4, <2>5, PipeParts DEF LanesSet, Pipes
  <2> QED
    BY <1>1, <1>2, <1>4, <1>7, <2>6
<1> QED
  BY <1>6, <1>7

\* HandOn, by field.
LEMMA HandOnParts ==
    ASSUME Typed, NEW s \in Workers, HandOn(s)
    PROVE  /\ op.is = "pipe" /\ UNCHANGED <<op, session, llm, calls, link, workerVars>> /\ Quietly
           /\ pipe.lane[s].at = "send" /\ pipe.lane[s].row \in Pieces
           /\ \/ /\ ReceiverGone(s + 1)
                 /\ LanesSet(s, [at |-> "over", row |-> pipe.lane[s].row], [pipe.ch EXCEPT ![s] = <<>>], pipe.fault)
              \/ /\ ~ReceiverGone(s + 1) /\ pipe.ch[s + 1] = <<>>
                 /\ LanesSet(s, [at |-> "take", row |-> pipe.lane[s].row],
                             [pipe.ch EXCEPT ![s + 1] = <<pipe.lane[s].row>>], pipe.fault)
<1>1. /\ op.is = "pipe" /\ UNCHANGED <<op, session, llm, calls, link, workerVars>> /\ Quietly
      /\ pipe.lane[s].at = "send"
  BY DEF HandOn, Piping
<1>2. pipe.lane[s] \in Lanes /\ pipe.lane[s].row \in Pieces /\ s \in 1..Last + 1 /\ s + 1 \in 1..Last + 1
  BY <1>1, PipeParts, SomeWorkers
<1>3. CASE ReceiverGone(s + 1) /\ pipe' = [pipe EXCEPT !.lane[s].at = "over", !.ch[s] = <<>>]
  <2>1. [pipe.lane[s] EXCEPT !.at = "over"] = [at |-> "over", row |-> pipe.lane[s].row]
    BY <1>2 DEF Lanes
  <2>2. [at |-> "over", row |-> pipe.lane[s].row] \in Lanes /\ <<>> \in Seq(Pieces)
    BY <1>2 DEF Lanes
  <2>3. pipe' = [pipe EXCEPT !.lane = [pipe.lane EXCEPT ![s] = [at |-> "over", row |-> pipe.lane[s].row]],
                             !.ch = [pipe.ch EXCEPT ![s] = <<>>]]
    BY <1>2, <1>3, <2>1, PipeParts DEF Pipes
  <2>4. [pipe.ch EXCEPT ![s] = <<>>] \in [1..Last + 1 -> Seq(Pieces)]
    BY <1>2, <2>2, PipeParts
  <2>5. LanesSet(s, [at |-> "over", row |-> pipe.lane[s].row], [pipe.ch EXCEPT ![s] = <<>>], pipe.fault)
    BY <2>2, <2>3, <2>4, PipeParts DEF LanesSet, Pipes
  <2> QED
    BY <1>1, <1>2, <1>3, <2>5
<1>4. CASE /\ ~ReceiverGone(s + 1) /\ HasRoom(s + 1)
           /\ pipe' = [pipe EXCEPT !.lane[s].at = "take", !.ch[s + 1] = <<pipe.lane[s].row>>]
  <2>1. [pipe.lane[s] EXCEPT !.at = "take"] = [at |-> "take", row |-> pipe.lane[s].row]
    BY <1>2 DEF Lanes
  <2>2. [at |-> "take", row |-> pipe.lane[s].row] \in Lanes /\ <<pipe.lane[s].row>> \in Seq(Pieces)
    BY <1>2 DEF Lanes
  <2>3. pipe' = [pipe EXCEPT !.lane = [pipe.lane EXCEPT ![s] = [at |-> "take", row |-> pipe.lane[s].row]],
                             !.ch = [pipe.ch EXCEPT ![s + 1] = <<pipe.lane[s].row>>]]
    BY <1>2, <1>4, <2>1, PipeParts DEF Pipes
  <2>4. [pipe.ch EXCEPT ![s + 1] = <<pipe.lane[s].row>>] \in [1..Last + 1 -> Seq(Pieces)]
    BY <1>2, <2>2, PipeParts
  <2>5. LanesSet(s, [at |-> "take", row |-> pipe.lane[s].row], [pipe.ch EXCEPT ![s + 1] = <<pipe.lane[s].row>>], pipe.fault)
    BY <2>2, <2>3, <2>4, PipeParts DEF LanesSet, Pipes
  <2> QED
    BY <1>1, <1>2, <1>4, <2>5 DEF HasRoom
<1> QED
  BY <1>3, <1>4 DEF HandOn

\* Drain, by field.
LEMMA DrainParts ==
    ASSUME Typed, Drain
    PROVE  /\ op.is = "pipe" /\ UNCHANGED <<op, session, llm, calls, link, workerVars>> /\ Quietly
           /\ pipe.ch[Last + 1] # <<>> /\ pipe.ch[Last + 1][1] \in Pieces
           /\ pipe' \in Pipes /\ pipe'.lane = pipe.lane /\ pipe'.ch = [pipe.ch EXCEPT ![Last + 1] = <<>>]
           /\ pipe'.fault = pipe.fault /\ pipe'.next = pipe.next /\ pipe'.ends = pipe.ends
           /\ pipe'.read = pipe.read + 1 /\ pipe'.row = pipe.ch[Last + 1][1]
<1>1. /\ op.is = "pipe" /\ UNCHANGED <<op, session, llm, calls, link, workerVars>> /\ Quietly
      /\ pipe.ch[Last + 1] # <<>>
      /\ pipe' = [pipe EXCEPT !.read = @ + 1, !.row = pipe.ch[Last + 1][1], !.ch[Last + 1] = <<>>]
  BY DEF Drain, Piping
<1>2. Last + 1 \in 1..Last + 1 /\ pipe.ch[Last + 1][1] \in Pieces /\ pipe.ch[Last + 1][1] \in Seq(Nat) /\ pipe.read + 1 \in Nat
  BY <1>1, PipeParts, SomeWorkers DEF Pieces
<1>3. [pipe.ch EXCEPT ![Last + 1] = <<>>] \in [1..Last + 1 -> Seq(Pieces)]
  <2>1. <<>> \in Seq(Pieces)
    OBVIOUS
  <2> QED
    BY <1>2, <2>1, PipeParts
<1>4. pipe' = [pipe EXCEPT !.read = pipe.read + 1, !.row = pipe.ch[Last + 1][1], !.ch = [pipe.ch EXCEPT ![Last + 1] = <<>>]]
  BY <1>1, PipeParts DEF Pipes
<1> QED
  BY <1>1, <1>2, <1>3, <1>4, PipeParts DEF Pipes

-----------------------------------------------------------------------------

\* A lane that is set has a row, if it needs one.
LEMMA LanesTyped ==
    ASSUME Typed, NEW s \in Workers, NEW lane \in Lanes, NEW ch, NEW fault, LanesSet(s, lane, ch, fault),
           lane.at \in {"ask", "send"} => lane.row # <<>>
    PROVE  /\ pipe' \in Pipes /\ pipe'.next = pipe.next
           /\ \A t \in Workers : pipe'.lane[t] = IF t = s THEN lane ELSE pipe.lane[t]
           /\ \A t \in Workers : pipe'.lane[t].at \in {"ask", "send"} => pipe'.lane[t].row # <<>>
<1>1. \A t \in Workers : pipe'.lane[t] = IF t = s THEN lane ELSE pipe.lane[t]
  BY PipeParts DEF LanesSet
<1> QED
  BY <1>1 DEF LanesSet, Typed, CallsTyped

LEMMA TypedFeed == Typed /\ Feed => Typed'
BY FeedParts, TypedPipingQuietly DEF Typed, CallsTyped

LEMMA TypedTake == ASSUME Typed, NEW s \in Workers, Take(s) PROVE Typed'
<1> DEFINE row == pipe.ch[s][1]
<1> DEFINE lane == [at |-> "ask", row |-> row]
<1>1. row \in Pieces /\ Ask(s, Rows(row)) /\ LanesSet(s, lane, [pipe.ch EXCEPT ![s] = <<>>], pipe.fault)
      /\ UNCHANGED <<op, session, llm, calls, link, workerVars, down, late, mishaps>>
  BY TakeParts
<1>2. lane \in Lanes /\ lane.row # <<>>
  BY <1>1 DEF Lanes, Pieces
<1>3. /\ pipe' \in Pipes /\ pipe'.next = pipe.next
      /\ \A t \in Workers : pipe'.lane[t].at \in {"ask", "send"} => pipe'.lane[t].row # <<>>
  BY <1>1, <1>2, LanesTyped
<1>4. up' \in [Connections -> Seq(Asked)]
  BY <1>1, SessionFrames, AskTyped DEF Typed
<1>5. down' \in [Connections -> Seq(Answer)] /\ late' \in [Workers -> Nat] /\ mishaps' \in 0..MaxMishaps
  BY <1>1 DEF Typed, WiresTyped, CallsTyped
<1> QED
  BY <1>1, <1>3, <1>4, <1>5, TypedPiping

LEMMA TypedNoMore == ASSUME Typed, NEW s \in Workers, NoMore(s) PROVE Typed'
<1> DEFINE lane == [at |-> "over", row |-> pipe.lane[s].row]
<1>1. lane \in Lanes
  BY PipeParts DEF Lanes
<1>2. LanesSet(s, lane, pipe.ch, pipe.fault) /\ UNCHANGED <<op, session, llm, calls, link, workerVars>> /\ Quietly
  BY NoMoreParts
<1>3. /\ pipe' \in Pipes /\ pipe'.next = pipe.next
      /\ \A t \in Workers : pipe'.lane[t].at \in {"ask", "send"} => pipe'.lane[t].row # <<>>
  BY <1>1, <1>2, LanesTyped
<1> QED
  BY <1>2, <1>3, TypedPipingQuietly

LEMMA TypedHandBack == ASSUME Typed, NEW s \in Workers, HandBack(s) PROVE Typed'
<1>1. op.is = "pipe" /\ UNCHANGED <<op, session, llm, calls, link, workerVars, up>>
  BY HandBackParts
<1>2. PICK a \in Answers(s) :
         /\ Comes(s, a)
         /\ \/ /\ a.row \in Pieces
               /\ LanesSet(s, [at |-> "send", row |-> a.row], pipe.ch, pipe.fault)
            \/ LanesSet(s, [at |-> "over", row |-> pipe.lane[s].row], [pipe.ch EXCEPT ![s] = <<>>], TRUE)
  BY HandBackParts
<1>3. session.at # "none"
  BY <1>1 DEF Typed, CallsTyped, Llms, Course, CourseOfNone, CourseOfOp, NoLlm
<1>4. down' \in [Connections -> Seq(Answer)] /\ late' \in [Workers -> Nat] /\ mishaps' \in 0..MaxMishaps
  BY <1>2, <1>3, ComesTyped DEF Typed
<1>5. [at |-> "over", row |-> pipe.lane[s].row] \in Lanes /\ (a.row \in Pieces => [at |-> "send", row |-> a.row] \in Lanes)
  BY PipeParts DEF Lanes, Pieces
<1>6. /\ pipe' \in Pipes /\ pipe'.next = pipe.next
      /\ \A t \in Workers : pipe'.lane[t].at \in {"ask", "send"} => pipe'.lane[t].row # <<>>
  <2>1. CASE LanesSet(s, [at |-> "over", row |-> pipe.lane[s].row], [pipe.ch EXCEPT ![s] = <<>>], TRUE)
    BY <1>5, <2>1, LanesTyped
  <2>2. CASE a.row \in Pieces /\ LanesSet(s, [at |-> "send", row |-> a.row], pipe.ch, pipe.fault)
    BY <1>5, <2>2, LanesTyped DEF Pieces
  <2> QED
    BY <1>2, <2>1, <2>2
<1>7. up' \in [Connections -> Seq(Asked)]
  BY <1>1 DEF Typed, WiresTyped
<1> QED
  BY <1>1, <1>4, <1>6, <1>7, TypedPiping

LEMMA TypedHandOn == ASSUME Typed, NEW s \in Workers, HandOn(s) PROVE Typed'
<1>1. UNCHANGED <<op, session, llm, calls, link, workerVars>> /\ Quietly
  BY HandOnParts
<1>2. \E at \in {"over", "take"} : \E ch : LanesSet(s, [at |-> at, row |-> pipe.lane[s].row], ch, pipe.fault)
  BY HandOnParts
<1>3. PICK at \in {"over", "take"} : \E ch : LanesSet(s, [at |-> at, row |-> pipe.lane[s].row], ch, pipe.fault)
  BY <1>2
<1>4. PICK ch : LanesSet(s, [at |-> at, row |-> pipe.lane[s].row], ch, pipe.fault)
  BY <1>3
<1>5. [at |-> at, row |-> pipe.lane[s].row] \in Lanes
  BY PipeParts DEF Lanes
<1>6. /\ pipe' \in Pipes /\ pipe'.next = pipe.next
      /\ \A t \in Workers : pipe'.lane[t].at \in {"ask", "send"} => pipe'.lane[t].row # <<>>
  BY <1>4, <1>5, LanesTyped
<1> QED
  BY <1>1, <1>6, TypedPipingQuietly

LEMMA TypedDrain == Typed /\ Drain => Typed'
BY DrainParts, TypedPipingQuietly DEF Typed, CallsTyped

\* piped ends, by field.
LEMMA PipeEndsParts ==
    ASSUME Typed, PipeEnds
    PROVE  /\ op.is = "pipe" /\ SenderGone(1) /\ pipe.ch[Last + 1] = <<>> /\ \A s \in Workers : Over(s)
           /\ UNCHANGED <<wire, link, workerVars, mishaps, late, llm, calls>> /\ pipe' = NoPipe
           /\ op' \in Ops /\ op'.is \in {"done", "post"} /\ (op'.ok <=> ~pipe.fault)
           /\ op'.ok => op'.n = op.n /\ op'.row = pipe.row
           /\ session' \in Sessions /\ session'.at = session.at /\ session'.gen = session.gen
           /\ session'.len = session.len + pipe.read /\ (session'.torn <=> pipe.fault)
<1>1. /\ op.is = "pipe" /\ SenderGone(1) /\ pipe.ch[Last + 1] = <<>> /\ \A s \in Workers : Over(s)
      /\ UNCHANGED <<wire, link, workerVars, mishaps, late, llm, calls>> /\ pipe' = NoPipe
      /\ session' = [session EXCEPT !.len = @ + pipe.read, !.torn = pipe.fault]
      /\ Post(IF pipe.fault THEN Failed ELSE Done(TRUE, op.n, pipe.row))
  BY DEF PipeEnds, AtTheWorkers, Smoothly, Torn
<1>2. session \in Sessions /\ session.len + pipe.read \in Nat /\ pipe.fault \in BOOLEAN
  BY PipeParts DEF Typed, CallsTyped, Sessions
<1>3. op.n \in Nat /\ pipe.row \in Seq(Nat)
  BY PipeParts DEF Typed, CallsTyped, Ops
<1>4. /\ session' \in Sessions /\ session'.at = session.at /\ session'.gen = session.gen
      /\ session'.len = session.len + pipe.read /\ session'.torn = pipe.fault
  BY <1>1, <1>2 DEF Sessions
<1>5. CASE pipe.fault
  <2>1. op' = Failed \/ op' = [Failed EXCEPT !.is = "post", !.s = 0]
    BY <1>1, <1>5 DEF Post
  <2>2. op'.is \in {"done", "post"} /\ ~op'.ok
    BY <2>1 DEF Failed, Done, NoOp
  <2> QED
    BY <1>1, <1>4, <1>5, <2>1, <2>2, FailedTyped
<1>6. CASE ~pipe.fault
  <2>1. op' = Done(TRUE, op.n, pipe.row) \/ op' = [Done(TRUE, op.n, pipe.row) EXCEPT !.is = "post", !.s = 0]
    BY <1>1, <1>6 DEF Post
  <2>2. op'.is \in {"done", "post"} /\ op'.ok /\ op'.n = op.n /\ op'.row = pipe.row
    BY <2>1 DEF Done, NoOp
  <2> QED
    BY <1>1, <1>3, <1>4, <1>6, <2>1, <2>2, DoneTyped
<1> QED
  BY <1>5, <1>6

LEMMA TypedPipeEnds == Typed /\ PipeEnds => Typed'
<1> SUFFICES ASSUME Typed, PipeEnds PROVE Typed'
  OBVIOUS
<1>1. WiresTyped'
  BY PipeEndsParts, WiresTypedSame DEF Typed
<1>2. CallsTyped'
  BY PipeEndsParts, NoPipeTyped DEF Typed, CallsTyped
<1>3. Course'
  <2>1. /\ llm.at \in {"read", "feed"} /\ op.n <= Len(llm.ids) /\ session.at = "loaded"
        /\ llm.at = "feed" => op.n = Len(llm.ids)
    <3>1. op.is = "pipe"
      BY PipeEndsParts
    <3> QED
      BY <3>1 DEF Typed, CallsTyped, Llms, Course, CourseOfNone, CourseOfOp, CourseOfLlm, NoLlm
  <2>2. /\ op'.is \in {"done", "post"} /\ llm' = llm /\ session'.at = "loaded" /\ session'.gen = session.gen
        /\ session'.torn <=> ~op'.ok
        /\ op'.ok => op'.n = op.n
    <3>1. /\ op'.is \in {"done", "post"} /\ llm' = llm /\ session'.at = session.at /\ session'.gen = session.gen
          /\ op'.ok <=> ~pipe.fault
          /\ session'.torn <=> pipe.fault
          /\ op'.ok => op'.n = op.n
      BY PipeEndsParts
    <3>2. session'.torn <=> ~op'.ok
      BY <3>1, Zenon
    <3> QED
      BY <2>1, <3>1, <3>2
  <2>3. CourseOfNone' /\ CourseOfLoad' /\ CourseOfPipe'
    BY <2>1, <2>2 DEF Typed, Course, CourseOfNone, CourseOfLoad, CourseOfPipe
  <2>4. CourseOfOp'
    BY <2>1, <2>2 DEF CourseOfOp
  <2>5. CourseOfLlm'
    BY <2>1, <2>2 DEF Typed, Course, CourseOfLlm
  <2> QED
    BY <2>3, <2>4, <2>5 DEF Course
<1> QED
  BY <1>1, <1>2, <1>3 DEF Typed

-----------------------------------------------------------------------------

\* The least of some numbers.
LEMMA LeastIs ==
    ASSUME NEW S \in SUBSET Nat, S # {}
    PROVE  Least(S) \in S /\ \A m \in S : Least(S) <= m
BY HasLeast DEF Least

\* What two have in common is of both.
LEMMA CommonIsOfBoth ==
    ASSUME NEW a \in Seq(Nat), NEW b \in Seq(Nat)
    PROVE  /\ CommonPrefix(a, b) \in Nat /\ CommonPrefix(a, b) <= Len(a) /\ CommonPrefix(a, b) <= Len(b)
           /\ \A i \in 1..CommonPrefix(a, b) : a[i] = b[i]
<1> DEFINE S == {n \in 0..Len(a) : n = Len(a) \/ n = Len(b) \/ (n < Len(b) /\ a[n + 1] # b[n + 1])}
<1> DEFINE c == Least(S)
<1>0. Len(a) \in Nat /\ Len(b) \in Nat
  OBVIOUS
<1>1. S \in SUBSET Nat /\ Len(a) \in S
  BY <1>0
<1>2. c \in S /\ \A m \in S : c <= m
  BY <1>1, LeastIs
<1>3. CommonPrefix(a, b) = c
  BY DEF CommonPrefix
<1> HIDE DEF c
<1>4. c \in Nat /\ c <= Len(a)
  BY <1>0, <1>2
<1>5. ASSUME NEW m \in Nat, m < c PROVE m < Len(a) /\ m # Len(b) /\ (m < Len(b) => a[m + 1] = b[m + 1])
  <2>1. m \in 0..Len(a)
    BY <1>0, <1>4, <1>5
  <2>2. m \notin S
    BY <1>2, <1>4, <1>5
  <2> QED
    BY <1>0, <1>4, <1>5, <2>1, <2>2
<1>6. c <= Len(b)
  BY <1>0, <1>4, <1>5
<1>7. ASSUME NEW i \in 1..c PROVE a[i] = b[i]
  <2>1. i - 1 \in Nat /\ i - 1 < c /\ i - 1 < Len(b) /\ i - 1 + 1 = i
    BY <1>0, <1>4, <1>6
  <2> QED
    BY <1>5, <2>1
<1> QED
  BY <1>3, <1>4, <1>6, <1>7

\* What the session is asked to keep is less than the prompt, is of both, and
\* is no more than it has.
LEMMA WantedIs ==
    ASSUME NEW prompt \in Pieces, llm \in Llms, session \in Sessions
    PROVE  LET n == Wanted(prompt)
           IN  /\ n \in Nat /\ n < Len(prompt) /\ n <= Len(llm.cached) /\ n <= session.len
               /\ SubSeq(llm.cached, 1, n) = SubSeq(prompt, 1, n)
<1> DEFINE c == CommonPrefix(llm.cached, prompt)
<1> DEFINE S == {c, session.len, Len(prompt) - 1}
<1>1. llm.cached \in Seq(Nat) /\ prompt \in Seq(Nat) /\ Len(prompt) - 1 \in Nat /\ session.len \in Nat
  <2>1. prompt \in Seq(Nat) /\ prompt # <<>>
    BY DEF Pieces
  <2>2. Len(prompt) - 1 \in Nat
    BY <2>1
  <2> QED
    BY <2>1, <2>2 DEF Llms, Sessions
<1>2. /\ c \in Nat /\ c <= Len(llm.cached) /\ c <= Len(prompt)
      /\ \A i \in 1..c : llm.cached[i] = prompt[i]
  BY <1>1, CommonIsOfBoth
<1>3. S \in SUBSET Nat /\ S # {} /\ Wanted(prompt) = Least(S)
  BY <1>1, <1>2 DEF Wanted
<1> DEFINE n == Least(S)
<1> HIDE DEF c
<1>4. n \in Nat /\ n <= c /\ n <= session.len /\ n <= Len(prompt) - 1
  <2>1. n \in S /\ \A m \in S : n <= m
    BY <1>3, LeastIs
  <2> QED
    BY <1>1, <1>2, <2>1
<1> HIDE DEF n
<1>5. SubSeq(llm.cached, 1, n) = SubSeq(prompt, 1, n)
  <2>1. n <= Len(llm.cached) /\ n <= Len(prompt)
    BY <1>1, <1>2, <1>4
  <2>2. /\ SubSeq(llm.cached, 1, n) \in Seq(Nat) /\ Len(SubSeq(llm.cached, 1, n)) = n
        /\ \A i \in 1..n : SubSeq(llm.cached, 1, n)[i] = llm.cached[i]
    BY <1>1, <1>4, <2>1, RightTyped
  <2>3. /\ SubSeq(prompt, 1, n) \in Seq(Nat) /\ Len(SubSeq(prompt, 1, n)) = n
        /\ \A i \in 1..n : SubSeq(prompt, 1, n)[i] = prompt[i]
    BY <1>1, <1>4, <2>1, RightTyped
  <2> DEFINE kept == SubSeq(llm.cached, 1, n)
             asked == SubSeq(prompt, 1, n)
  <2>4. /\ kept \in Seq(Nat) /\ asked \in Seq(Nat) /\ Len(kept) = Len(asked)
        /\ \A i \in 1..Len(kept) : kept[i] = asked[i]
    BY <1>2, <1>4, <2>2, <2>3
  <2> HIDE DEF kept, asked
  <2>5. kept = asked
    BY <2>4, SeqEqual
  <2> QED
    BY <2>5 DEF kept, asked
<1>6. n < Len(prompt) /\ n <= Len(llm.cached)
  BY <1>1, <1>2, <1>4
<1> QED
  BY <1>3, <1>4, <1>5, <1>6 DEF n

\* A step that changes no more than the conversation and the call.
LEMMA TypedCalls ==
    ASSUME Typed, Calls, op' \in Ops, llm' \in Llms, calls' \in 0..MaxCalls
    PROVE  WiresTyped' /\ CallsTyped' /\ session.len \in Nat
           /\ UNCHANGED <<wire, link, workerVars, mishaps, session, pipe, late>>
<1>1. UNCHANGED <<wire, link, workerVars, mishaps, session, pipe, late>>
  BY DEF Calls
<1>2. CallsTyped' /\ session.len \in Nat
  BY <1>1 DEF Typed, CallsTyped, Sessions
<1>3. WiresTyped'
  BY <1>1, WiresTypedSame DEF Typed
<1> QED
  BY <1>1, <1>2, <1>3

LEMMA TypedOpen == ASSUME Typed, NEW prompt \in Prompts, Open(prompt)
                   PROVE  /\ Typed' /\ Calls /\ llm.at = "rest" /\ session.at = "loaded" /\ op.is = "none" /\ prompt \in Pieces
                          /\ op'.is = "start" /\ op'.then = "cut" /\ op'.n = Wanted(prompt)
                          /\ llm'.at = "open" /\ llm'.ids = prompt /\ llm'.prompt = Len(prompt) /\ llm'.cached = llm.cached
<1>1. prompt \in Pieces /\ prompt \in Seq(Nat) /\ Len(prompt) \in Nat
  <2>1. prompt \in Seq(Nat \ {0}) /\ prompt # <<>>
    BY PipelineAssumption
  <2>2. prompt \in Seq(Nat)
    BY <2>1
  <2> QED
    BY <2>1, <2>2 DEF Pieces
<1>2. /\ Calls /\ llm.at = "rest" /\ session.at = "loaded" /\ calls < MaxCalls /\ calls' = calls + 1
      /\ op' = Begins("cut", Wanted(prompt))
      /\ llm' = [llm EXCEPT !.at = "open", !.ids = prompt, !.prompt = Len(prompt), !.left = MaxReply]
  BY DEF Open
<1>3. llm \in Llms /\ session \in Sessions /\ op \in Ops /\ calls \in 0..MaxCalls
  BY DEF Typed, CallsTyped
<1>4. LET n == Wanted(prompt)
      IN  /\ n \in Nat /\ n < Len(prompt) /\ n <= Len(llm.cached) /\ n <= session.len
          /\ SubSeq(llm.cached, 1, n) = SubSeq(prompt, 1, n)
  BY <1>1, <1>3, WantedIs
<1>5. op' \in Ops /\ op'.is = "start" /\ op'.then = "cut" /\ op'.n = Wanted(prompt)
  BY <1>2, <1>4, BeginsTyped DEF Begins, NoOp
<1>6. llm' \in Llms /\ llm'.at = "open" /\ llm'.ids = prompt /\ llm'.prompt = Len(prompt) /\ llm'.cached = llm.cached
  BY <1>1, <1>2, <1>3, PipelineAssumption DEF Llms
<1>7. calls' \in 0..MaxCalls
  BY <1>2, <1>3, PipelineAssumption
<1>8. WiresTyped' /\ CallsTyped' /\ UNCHANGED session
  BY <1>2, <1>5, <1>6, <1>7, TypedCalls
<1>9. Course'
  <2>1. CourseOfNone' /\ CourseOfLoad' /\ CourseOfPipe' /\ CourseOfOp'
    BY <1>2, <1>5, <1>6, <1>8 DEF Typed, Course, CourseOfNone, CourseOfLoad, CourseOfPipe, CourseOfOp
  <2>2. CourseOfLlm'
    BY <1>2, <1>4, <1>5, <1>6, <1>8 DEF Typed, Course, CourseOfLlm
  <2> QED
    BY <2>1, <2>2 DEF Course
<1> QED
  BY <1>1, <1>2, <1>5, <1>6, <1>8, <1>9 DEF Typed, Course, CourseOfOp

-----------------------------------------------------------------------------

\* The conversation rests.
LEMMA RestsTyped ==
    ASSUME NEW cached \in Seq(Nat)
    PROVE  /\ Rests(cached) \in Llms /\ Rests(cached).at = "rest" /\ Rests(cached).cached = cached
           /\ [Rests(cached) EXCEPT !.at = "drop"] \in Llms
           /\ [Rests(cached) EXCEPT !.at = "drop"].at = "drop" /\ [Rests(cached) EXCEPT !.at = "drop"].cached = cached
<1>1. <<>> \in Seq(Nat)
  OBVIOUS
<1> QED
  BY <1>1 DEF Rests, NoLlm, Llms

\* What a step of the conversation finds.
LEMMA LlmFacts ==
    ASSUME Typed
    PROVE  /\ llm \in Llms /\ op \in Ops /\ calls \in 0..MaxCalls /\ llm.cached \in Seq(Nat) /\ llm.ids \in Seq(Nat)
           /\ llm.prompt \in Nat /\ llm.read \in Nat /\ llm.left \in Nat /\ op.n \in Nat /\ op.row \in Seq(Nat)
           /\ session.len \in Nat /\ Len(llm.ids) \in Nat
           /\ llm.at # "rest" => session.at = "loaded"
BY DEF Typed, CallsTyped, Llms, Ops, Sessions, Course, CourseOfNone, NoLlm

LEMMA TypedOpened ==
    ASSUME Typed, Opened
    PROVE  /\ Typed' /\ Calls /\ llm.at = "open" /\ op.is = "done" /\ op'.is = "none"
           /\ \/ op.ok /\ llm'.at \in {"ready", "opened"} /\ (llm'.at = "ready" <=> op.n = llm.prompt)
                 /\ llm'.ids = llm.ids /\ llm'.cached = llm.cached /\ llm'.prompt = llm.prompt /\ llm'.read = op.n
                 /\ op.n = session.len /\ llm'.logits = llm.logits
              \/ ~op.ok /\ llm'.at = "rest" /\ llm'.cached = llm.cached
<1>1. Calls /\ llm.at = "open" /\ op.is = "done" /\ op' = NoOp /\ UNCHANGED calls
  BY DEF Opened
<1>2. op' \in Ops /\ op'.is = "none"
  BY <1>1, FailedTyped DEF NoOp
<1>3. CASE op.ok
  <2>1. llm' = [llm EXCEPT !.at = IF op.n = llm.prompt THEN "ready" ELSE "opened", !.read = op.n]
    BY <1>3 DEF Opened
  <2>2. /\ llm' \in Llms /\ llm'.at \in {"ready", "opened"} /\ (llm'.at = "ready" <=> op.n = llm.prompt)
        /\ llm'.ids = llm.ids /\ llm'.cached = llm.cached /\ llm'.prompt = llm.prompt /\ llm'.read = op.n
        /\ llm'.logits = llm.logits
    BY <2>1, LlmFacts DEF Llms
  <2>3. WiresTyped' /\ CallsTyped' /\ UNCHANGED session
    BY <1>1, <1>2, <2>2, LlmFacts, TypedCalls
  <2>4. ~session.torn /\ session.at = "loaded" /\ session.gen > 0 /\ op.n = session.len /\ llm.prompt = Len(llm.ids)
    BY <1>1, <1>3, LlmFacts DEF Typed, Course, CourseOfLoad, CourseOfOp, CourseOfLlm
  <2>5. Course'
    BY <1>2, <2>2, <2>3, <2>4 DEF Course, CourseOfNone, CourseOfLoad, CourseOfPipe, CourseOfOp, CourseOfLlm
  <2> QED
    BY <1>1, <1>2, <1>3, <2>2, <2>3, <2>4, <2>5 DEF Typed
<1>4. CASE ~op.ok
  <2>1. llm' = Rests(llm.cached)
    BY <1>4 DEF Opened
  <2>2. llm' \in Llms /\ llm'.at = "rest" /\ llm'.cached = llm.cached
    BY <2>1, LlmFacts, RestsTyped
  <2>3. WiresTyped' /\ CallsTyped' /\ UNCHANGED session
    BY <1>1, <1>2, <2>2, LlmFacts, TypedCalls
  <2>4. (session.torn => llm.cached = <<>>) /\ session.at = "loaded" /\ session.gen > 0
    BY <1>1, <1>4, LlmFacts DEF Typed, Course, CourseOfLoad, CourseOfLlm
  <2>5. Course'
    BY <1>2, <2>2, <2>3, <2>4 DEF Course, CourseOfNone, CourseOfLoad, CourseOfPipe, CourseOfOp, CourseOfLlm
  <2> QED
    BY <1>1, <1>2, <1>4, <2>2, <2>3, <2>5 DEF Typed
<1> QED
  BY <1>3, <1>4

LEMMA TypedPrefill ==
    ASSUME Typed, Prefill
    PROVE  /\ Typed' /\ Calls /\ llm.at = "opened" /\ op.is = "none"
           /\ op'.is = "start" /\ op'.then = "forward"
           /\ llm'.at = "read" /\ llm'.ids = llm.ids /\ llm'.cached = llm.cached
<1>1. Calls /\ llm.at = "opened" /\ llm.read < llm.prompt /\ op' = Begins("forward", ReadTo(llm.read)) /\ UNCHANGED calls
      /\ llm' = [llm EXCEPT !.at = "read"]
  BY DEF Prefill
<1>2. ReadTo(llm.read) \in Nat /\ ReadTo(llm.read) <= llm.prompt
  BY <1>1, LlmFacts DEF ReadTo
<1>3. op' \in Ops /\ op'.is = "start" /\ op'.then = "forward" /\ op'.n = ReadTo(llm.read)
  BY <1>1, <1>2, BeginsTyped DEF Begins, NoOp
<1>4. llm' \in Llms /\ llm'.at = "read" /\ llm'.ids = llm.ids /\ llm'.cached = llm.cached /\ llm'.prompt = llm.prompt
  BY <1>1, LlmFacts DEF Llms
<1>5. WiresTyped' /\ CallsTyped' /\ UNCHANGED session
  BY <1>1, <1>3, <1>4, LlmFacts, TypedCalls
<1>6. ~session.torn /\ session.at = "loaded" /\ session.gen > 0 /\ llm.prompt = Len(llm.ids) /\ op.is = "none"
  BY <1>1, LlmFacts DEF Typed, Course, CourseOfLoad, CourseOfOp, CourseOfLlm
<1>7. Course'
  BY <1>2, <1>3, <1>4, <1>5, <1>6 DEF Course, CourseOfNone, CourseOfLoad, CourseOfPipe, CourseOfOp, CourseOfLlm
<1> QED
  BY <1>1, <1>3, <1>4, <1>5, <1>6, <1>7 DEF Typed

\* abandon, of what failed.
LEMMA TypedAbandon ==
    ASSUME Typed, Abandon, Calls, UNCHANGED calls, llm.at \in {"read", "feed"}, op.is = "done", ~op.ok
    PROVE  Typed' /\ op'.is = "start" /\ op'.then = "cut" /\ op'.n = 0 /\ llm'.at = "drop" /\ llm'.cached = <<>>
           /\ session.torn
<1>1. op' \in Ops /\ op'.is = "start" /\ op'.then = "cut" /\ op'.n = 0
  BY BeginsTyped DEF Abandon, Begins, NoOp
<1>2. llm' \in Llms /\ llm'.at = "drop" /\ llm'.cached = <<>>
  BY RestsTyped, EmptySeq DEF Abandon
<1>3. WiresTyped' /\ CallsTyped' /\ UNCHANGED session
  BY <1>1, <1>2, LlmFacts, TypedCalls
<1>4. session.at = "loaded" /\ session.gen > 0 /\ session.torn
  BY LlmFacts DEF Typed, Course, CourseOfLoad, CourseOfOp
<1>5. Course'
  BY <1>1, <1>2, <1>3, <1>4 DEF Course, CourseOfNone, CourseOfLoad, CourseOfPipe, CourseOfOp, CourseOfLlm
<1> QED
  BY <1>1, <1>2, <1>3, <1>4, <1>5 DEF Typed

LEMMA TypedHaveRead ==
    ASSUME Typed, HaveRead
    PROVE  /\ Typed' /\ Calls /\ llm.at = "read" /\ op.is = "done"
           /\ \/ ~op.ok /\ op'.is = "start" /\ op'.then = "cut" /\ op'.n = 0 /\ llm'.at = "drop" /\ llm'.cached = <<>>
                 /\ session.torn
              \/ op.ok /\ op'.is = "start" /\ op'.then = "forward" /\ op'.n = Len(llm.ids) /\ llm'.at = "read"
                 /\ llm'.ids = llm.ids /\ ~session.torn
              \/ op.ok /\ op'.is = "none" /\ op.n = Len(llm.ids) /\ llm'.at = "ready"
                 /\ llm'.ids = llm.ids /\ llm'.logits = op.row /\ ~session.torn
<1>1. Calls /\ llm.at = "read" /\ op.is = "done" /\ UNCHANGED calls
  BY DEF HaveRead
<1>2. /\ session.at = "loaded" /\ session.gen > 0 /\ llm.prompt = Len(llm.ids)
      /\ session.torn <=> ~op.ok
  BY <1>1, LlmFacts DEF Typed, Course, CourseOfLoad, CourseOfOp, CourseOfLlm
<1>3. CASE ~op.ok /\ Abandon
  BY <1>1, <1>3, TypedAbandon
<1>4. CASE op.ok /\ op' = Begins("forward", llm.prompt) /\ llm' = [llm EXCEPT !.read = op.n]
  <2>1. op' \in Ops /\ op'.is = "start" /\ op'.then = "forward" /\ op'.n = llm.prompt
    BY <1>4, LlmFacts, BeginsTyped DEF Begins, NoOp
  <2>2. llm' \in Llms /\ llm'.at = "read" /\ llm'.ids = llm.ids /\ llm'.prompt = llm.prompt
    BY <1>1, <1>4, LlmFacts DEF Llms
  <2>3. WiresTyped' /\ CallsTyped' /\ UNCHANGED session
    BY <1>1, <2>1, <2>2, LlmFacts, TypedCalls
  <2>4. Course'
    BY <1>2, <1>4, <2>1, <2>2, <2>3 DEF Course, CourseOfNone, CourseOfLoad, CourseOfPipe, CourseOfOp, CourseOfLlm
  <2> QED
    BY <1>1, <1>2, <1>4, <2>1, <2>2, <2>3, <2>4 DEF Typed
<1>5. CASE op.ok /\ op.n = llm.prompt /\ op' = NoOp /\ llm' = [llm EXCEPT !.at = "ready", !.read = op.n, !.logits = op.row]
  <2>1. op' \in Ops /\ op'.is = "none"
    BY <1>5, FailedTyped DEF NoOp
  <2>2. llm' \in Llms /\ llm'.at = "ready" /\ llm'.ids = llm.ids /\ llm'.prompt = llm.prompt /\ llm'.logits = op.row
    BY <1>1, <1>5, LlmFacts DEF Llms
  <2>3. WiresTyped' /\ CallsTyped' /\ UNCHANGED session
    BY <1>1, <2>1, <2>2, LlmFacts, TypedCalls
  <2>4. Course'
    BY <1>2, <1>5, <2>1, <2>2, <2>3 DEF Course, CourseOfNone, CourseOfLoad, CourseOfPipe, CourseOfOp, CourseOfLlm
  <2> QED
    BY <1>1, <1>2, <1>5, <2>1, <2>2, <2>3, <2>4 DEF Typed
<1> QED
  BY <1>3, <1>4, <1>5 DEF HaveRead

LEMMA TypedStep ==
    ASSUME Typed, Step
    PROVE  /\ Typed' /\ Calls /\ llm.at = "ready" /\ op.is = "none" /\ op'.is = "start" /\ op'.then = "forward"
           /\ llm'.at = "feed" /\ llm'.ids = Append(llm.ids, Token) /\ llm'.cached = llm.cached
<1>1. Calls /\ llm.at = "ready" /\ llm.left > 0 /\ UNCHANGED calls
      /\ llm' = [llm EXCEPT !.at = "feed", !.ids = Append(llm.ids, Token), !.left = @ - 1]
      /\ op' = Begins("forward", Len(Append(llm.ids, Token)))
  BY DEF Step
<1>2. Append(llm.ids, Token) \in Seq(Nat) /\ Len(Append(llm.ids, Token)) \in Nat /\ llm.left - 1 \in Nat
  BY <1>1, LlmFacts, PipelineAssumption
<1>3. op' \in Ops /\ op'.is = "start" /\ op'.then = "forward" /\ op'.n = Len(Append(llm.ids, Token))
  BY <1>1, <1>2, BeginsTyped DEF Begins, NoOp
<1>4. llm' \in Llms /\ llm'.at = "feed" /\ llm'.ids = Append(llm.ids, Token) /\ llm'.cached = llm.cached
  BY <1>1, <1>2, LlmFacts DEF Llms
<1>5. WiresTyped' /\ CallsTyped' /\ UNCHANGED session
  BY <1>1, <1>3, <1>4, LlmFacts, TypedCalls
<1>6. ~session.torn /\ session.at = "loaded" /\ session.gen > 0 /\ op.is = "none"
  BY <1>1, LlmFacts DEF Typed, Course, CourseOfLoad, CourseOfOp, CourseOfLlm
<1>7. Course'
  BY <1>2, <1>3, <1>4, <1>5, <1>6 DEF Course, CourseOfNone, CourseOfLoad, CourseOfPipe, CourseOfOp, CourseOfLlm
<1> QED
  BY <1>1, <1>3, <1>4, <1>5, <1>6, <1>7 DEF Typed

LEMMA TypedFed ==
    ASSUME Typed, Fed
    PROVE  /\ Typed' /\ Calls /\ llm.at = "feed" /\ op.is = "done"
           /\ \/ ~op.ok /\ op'.is = "start" /\ op'.then = "cut" /\ op'.n = 0 /\ llm'.at = "drop" /\ llm'.cached = <<>>
                 /\ session.torn
              \/ op.ok /\ op'.is = "none" /\ op.n = Len(llm.ids) /\ llm'.at = "ready"
                 /\ llm'.ids = llm.ids /\ llm'.logits = op.row /\ ~session.torn
<1>1. Calls /\ llm.at = "feed" /\ op.is = "done" /\ UNCHANGED calls
  BY DEF Fed
<1>2. /\ session.at = "loaded" /\ session.gen > 0
      /\ session.torn <=> ~op.ok
      /\ op.ok => op.n = Len(llm.ids)
  BY <1>1, LlmFacts DEF Typed, Course, CourseOfLoad, CourseOfOp, CourseOfLlm
<1>3. CASE ~op.ok /\ Abandon
  BY <1>1, <1>3, TypedAbandon
<1>4. CASE op.ok /\ op' = NoOp /\ llm' = [llm EXCEPT !.at = "ready", !.logits = op.row]
  <2>1. op' \in Ops /\ op'.is = "none"
    BY <1>4, FailedTyped DEF NoOp
  <2>2. llm' \in Llms /\ llm'.at = "ready" /\ llm'.ids = llm.ids /\ llm'.logits = op.row
    BY <1>1, <1>4, LlmFacts DEF Llms
  <2>3. WiresTyped' /\ CallsTyped' /\ UNCHANGED session
    BY <1>1, <2>1, <2>2, LlmFacts, TypedCalls
  <2>4. Course'
    BY <1>2, <1>4, <2>1, <2>2, <2>3 DEF Course, CourseOfNone, CourseOfLoad, CourseOfPipe, CourseOfOp, CourseOfLlm
  <2> QED
    BY <1>1, <1>2, <1>4, <2>1, <2>2, <2>3, <2>4 DEF Typed
<1> QED
  BY <1>3, <1>4 DEF Fed

\* A conversation that comes to rest, with nothing to mend.
LEMMA TypedRest ==
    ASSUME Typed, Calls, UNCHANGED <<op, calls>>, llm.at \in {"opened", "ready"}, NEW cached \in Seq(Nat), llm' = Rests(cached)
    PROVE  Typed' /\ llm'.at = "rest" /\ llm'.cached = cached /\ ~session.torn /\ op.is = "none" /\ session.at = "loaded"
<1>1. llm' \in Llms /\ llm'.at = "rest" /\ llm'.cached = cached
  BY RestsTyped
<1>2. WiresTyped' /\ CallsTyped' /\ UNCHANGED session
  BY <1>1, LlmFacts, TypedCalls
<1>3. ~session.torn /\ session.at = "loaded" /\ session.gen > 0 /\ op.is = "none"
  BY LlmFacts DEF Typed, Course, CourseOfLoad, CourseOfOp, CourseOfLlm
<1>4. Course'
  BY <1>1, <1>2, <1>3 DEF Course, CourseOfNone, CourseOfLoad, CourseOfPipe, CourseOfOp, CourseOfLlm
<1> QED
  BY <1>1, <1>2, <1>3, <1>4 DEF Typed

LEMMA TypedFinish ==
    ASSUME Typed, Finish
    PROVE  /\ Typed' /\ Calls /\ UNCHANGED op /\ llm.at = "ready" /\ op.is = "none" /\ ~session.torn
           /\ llm'.at = "rest" /\ llm'.cached = llm.ids /\ session.at = "loaded"
BY TypedRest, LlmFacts DEF Finish

LEMMA TypedStop ==
    ASSUME Typed, Stop
    PROVE  /\ Typed' /\ Calls /\ UNCHANGED op /\ llm.at \in {"opened", "ready"} /\ op.is = "none" /\ ~session.torn
           /\ llm'.at = "rest" /\ session.at = "loaded"
           /\ \/ llm'.cached = llm.ids
              \/ llm.at = "opened" /\ llm.read < llm.prompt /\ llm'.cached = SubSeq(llm.ids, 1, llm.read)
              \/ llm.at = "ready" /\ llm'.cached = Append(llm.ids, Token)
<1>1. Calls /\ UNCHANGED <<op, calls>> /\ llm.at \in {"opened", "ready"}
  BY DEF Stop
<1>2. CASE llm.at = "opened" /\ llm.read < llm.prompt /\ llm' = Rests(SubSeq(llm.ids, 1, llm.read))
  <2>1. llm.prompt = Len(llm.ids)
    BY <1>2 DEF Typed, Course, CourseOfLlm
  <2>2. SubSeq(llm.ids, 1, llm.read) \in Seq(Nat)
    BY <1>2, <2>1, LlmFacts, RightTyped
  <2> QED
    BY <1>1, <1>2, <2>2, TypedRest
<1>3. CASE llm.at = "opened" /\ llm' = Rests(llm.ids)
  BY <1>1, <1>3, LlmFacts, TypedRest
<1>4. CASE llm.at = "ready" /\ llm' = Rests(Append(llm.ids, Token))
  <2>1. Append(llm.ids, Token) \in Seq(Nat)
    BY LlmFacts, PipelineAssumption
  <2> QED
    BY <1>1, <1>4, <2>1, TypedRest
<1> QED
  BY <1>2, <1>3, <1>4 DEF Stop

LEMMA TypedDropped ==
    ASSUME Typed, Dropped
    PROVE  /\ Typed' /\ Calls /\ llm.at = "drop" /\ op.is = "done" /\ op'.is = "none"
           /\ llm'.at = "rest" /\ llm'.cached = <<>> /\ llm.cached = <<>>
<1>1. Calls /\ llm.at = "drop" /\ op.is = "done" /\ op' = NoOp /\ llm' = Rests(llm.cached) /\ UNCHANGED calls
  BY DEF Dropped
<1>2. op' \in Ops /\ op'.is = "none"
  BY <1>1, FailedTyped DEF NoOp
<1>3. llm' \in Llms /\ llm'.at = "rest" /\ llm'.cached = llm.cached
  BY <1>1, LlmFacts, RestsTyped
<1>4. WiresTyped' /\ CallsTyped' /\ UNCHANGED session
  BY <1>1, <1>2, <1>3, LlmFacts, TypedCalls
<1>5. llm.cached = <<>> /\ session.at = "loaded" /\ session.gen > 0
  BY <1>1, LlmFacts DEF Typed, Course, CourseOfLoad, CourseOfLlm
<1>6. Course'
  BY <1>2, <1>3, <1>4, <1>5 DEF Course, CourseOfNone, CourseOfLoad, CourseOfPipe, CourseOfOp, CourseOfLlm
<1> QED
  BY <1>1, <1>2, <1>3, <1>4, <1>5, <1>6 DEF Typed

-----------------------------------------------------------------------------

\* A row of nothing right.
LEMMA WrongTyped == ASSUME NEW n \in Nat PROVE Wrong(n) \in Seq(Nat) /\ Len(Wrong(n)) = n
BY DEF Wrong

\* What a stage keeps of a row, and what it gives.
LEMMA RunTyped ==
    ASSUME NEW held \in Layers, NEW row \in Pieces, held.len >= 0
    PROVE  /\ Ran(held, row) \in Layers /\ Ran(held, row).len = held.len + 1 /\ Ran(held, row).rows = Pushed(held, row)
           /\ Pushed(held, row) \in Seq(Nat) /\ Len(Pushed(held, row)) = Len(held.rows) + 1
           /\ Given(held, row) \in Seq(Nat) /\ Len(Given(held, row)) = Len(row)
<1>1. held.len \in Nat /\ held.rows \in Seq(Nat) /\ held.len <= Len(held.rows) /\ Len(held.rows) \in Nat
  BY DEF Layers
<1>2. row \in Seq(Nat) /\ Len(row) \in 1..Len(row) /\ Len(row) \in Nat
  BY DEF Pieces
<1>3. row[Len(row)] \in Nat
  BY <1>2
<1>4. /\ Pushed(held, row) \in Seq(Nat) /\ Len(Pushed(held, row)) = Len(held.rows) + 1
  BY <1>1, <1>3, AppendProperties DEF Pushed
<1>5. Ran(held, row) \in Layers /\ Ran(held, row).len = held.len + 1 /\ Ran(held, row).rows = Pushed(held, row)
  BY <1>1, <1>4 DEF Ran, Layers
<1>6. Given(held, row) \in Seq(Nat) /\ Len(Given(held, row)) = Len(row)
  BY <1>2, WrongTyped DEF Given
<1> QED
  BY <1>4, <1>5, <1>6

\* What is left of a stage that is cut.
LEMMA CutTyped ==
    ASSUME NEW held \in Layers, NEW len \in Nat, held.len >= 0
    PROVE  /\ Cut(held, len) \in Layers /\ Cut(held, len).len \in Nat
           /\ Cut(held, len).len = (IF len >= held.len THEN held.len ELSE len)
           /\ len < held.len => Len(Cut(held, len).rows) = len
           /\ \A i \in 1..Cut(held, len).len : Cut(held, len).rows[i] = held.rows[i]
<1>1. held.len \in Nat /\ held.rows \in Seq(Nat) /\ held.len <= Len(held.rows) /\ Len(held.rows) \in Nat
  BY DEF Layers
<1>2. CASE len >= held.len
  BY <1>1, <1>2 DEF Cut
<1>3. CASE len < held.len
  <2>1. /\ SubSeq(held.rows, 1, len) \in Seq(Nat) /\ Len(SubSeq(held.rows, 1, len)) = len
        /\ \A i \in 1..len : SubSeq(held.rows, 1, len)[i] = held.rows[i]
    BY <1>1, <1>3, RightTyped
  <2>2. Cut(held, len) = [len |-> len, rows |-> SubSeq(held.rows, 1, len)]
    BY <1>1, <1>3 DEF Cut
  <2> QED
    BY <1>1, <1>3, <2>1, <2>2 DEF Layers
<1> QED
  BY <1>1, <1>2, <1>3

\* A thread that has a frame to read: it is one that may be asked.
LEMMA AsksTyped ==
    ASSUME WiresTyped, NEW c \in Connections, NEW kind, Asks(c, kind), Taken(c)
    PROVE  /\ up' \in [Connections -> Seq(Asked)] /\ up'[c] = Tail(up[c]) /\ \A d \in Connections \ {c} : up'[d] = up[d]
           /\ up[c] # <<>> /\ Head(up[c]) \in Asked /\ Head(up[c]).kind = kind /\ task[c] = "listens"
           /\ Head(up[c]).pos \in Nat /\ Head(up[c]).row \in Seq(Nat)
           /\ kind = "forward" => Head(up[c]).row \in Pieces /\ Len(Head(up[c]).row) = Head(up[c]).pos + 1
<1>1. up[c] \in Seq(Asked) /\ up[c] # <<>>
  BY DEF WiresTyped, Asks
<1>2. Head(up[c]) \in Asked /\ Tail(up[c]) \in Seq(Asked)
  BY <1>1, HeadTailProperties
<1>3. Head(up[c]).kind = kind /\ task[c] = "listens" /\ up' = [up EXCEPT ![c] = Tail(@)]
  BY DEF Asks, Taken
<1>4. Head(up[c]).pos \in Nat /\ Head(up[c]).row \in Seq(Nat)
      /\ (kind = "forward" => Len(Head(up[c]).row) = Head(up[c]).pos + 1)
  BY <1>2, <1>3 DEF Asked
<1>5. kind = "forward" => Head(up[c]).row \in Pieces
  BY <1>4 DEF Pieces
<1> QED
  BY <1>1, <1>2, <1>3, <1>4, <1>5 DEF WiresTyped

\* What is said is an answer more, on a link that is up.
LEMMA SaysTyped ==
    ASSUME WiresTyped, NEW c \in Connections, NEW a \in Answer, Says(c, a)
    PROVE  /\ down' \in [Connections -> Seq(Answer)] /\ \A d \in Connections \ {c} : down'[d] = down[d]
           /\ down'[c] = IF link[c] = "up" THEN Append(down[c], a) ELSE down[c]
<1>1. down[c] \in Seq(Answer) /\ Append(down[c], a) \in Seq(Answer)
  BY DEF WiresTyped
<1> QED
  BY <1>1 DEF WiresTyped, Says

\* Held::release.
LEMMA ReleaseTyped ==
    ASSUME WiresTyped, NEW c \in Connections, Release(c)
    PROVE  /\ stage' \in [Connections -> Layers] /\ ours' \in [Connections -> BOOLEAN] /\ busy' \in [Workers -> BOOLEAN]
           /\ stage'[c] = NoStage /\ \A d \in Connections \ {c} : stage'[d] = stage[d]
<1>1. NoStage \in Layers
  <2>1. <<>> \in Seq(Nat) /\ Len(<<>>) = 0
    OBVIOUS
  <2> QED
    BY <2>1 DEF NoStage, Layers
<1> QED
  BY <1>1, ToAWorker DEF WiresTyped, Release

\* A step of a worker changes no call.
LEMMA TypedAside == Typed /\ WiresTyped' /\ UNCHANGED callVars => Typed'
BY DEF Typed, CallsTyped, Course, CourseOfNone, CourseOfLoad, CourseOfPipe, CourseOfOp, CourseOfLlm, callVars

\* Load, by part.
LEMMA TakeLoadParts ==
    ASSUME WiresTyped, NEW c \in Connections, TakeLoad(c)
    PROVE  /\ WiresTyped' /\ UNCHANGED <<link, spoilt, mishaps>> /\ task[c] = "listens"
           /\ up[c] # <<>> /\ Head(up[c]).kind = "load" /\ up'[c] = Tail(up[c])
           /\ stage'[c] = NoStage
           /\ \A d \in Connections \ {c} :
                up'[d] = up[d] /\ down'[d] = down[d] /\ task'[d] = task[d] /\ stage'[d] = stage[d]
           /\ \/ task'[c] = "loads" /\ down'[c] = down[c]
              \/ task'[c] = "listens" /\ down'[c] = IF link[c] = "up" THEN Append(down[c], Plain("error")) ELSE down[c]
<1>1. /\ up' \in [Connections -> Seq(Asked)] /\ up'[c] = Tail(up[c]) /\ \A d \in Connections \ {c} : up'[d] = up[d]
      /\ up[c] # <<>> /\ Head(up[c]).kind = "load" /\ task[c] = "listens"
  BY AsksTyped DEF TakeLoad
<1>2. UNCHANGED <<link, spoilt, mishaps>>
  BY DEF TakeLoad, Smoothly
<1>3. CASE ours[c] \/ ~busy[To(c)]
  <2>1. NoStage \in Layers
    <3>1. <<>> \in Seq(Nat) /\ Len(<<>>) = 0
      OBVIOUS
    <3> QED
      BY <3>1 DEF NoStage, Layers
  <2>2. /\ ours' = [ours EXCEPT ![c] = TRUE] /\ busy' = [busy EXCEPT ![To(c)] = TRUE]
        /\ stage' = [stage EXCEPT ![c] = NoStage] /\ task' = [task EXCEPT ![c] = "loads"] /\ UNCHANGED down
    BY <1>3 DEF TakeLoad
  <2>3. WiresTyped'
    BY <1>1, <1>2, <2>1, <2>2, ToAWorker DEF WiresTyped
  <2> QED
    BY <1>1, <1>2, <2>2, <2>3 DEF WiresTyped
<1>4. CASE ~(ours[c] \/ ~busy[To(c)])
  <2>1. Release(c) /\ Says(c, Plain("error")) /\ UNCHANGED task
    BY <1>4 DEF TakeLoad
  <2>2. /\ down' \in [Connections -> Seq(Answer)] /\ \A d \in Connections \ {c} : down'[d] = down[d]
        /\ down'[c] = IF link[c] = "up" THEN Append(down[c], Plain("error")) ELSE down[c]
    BY <2>1, SaysTyped, WorkerFrames
  <2>3. WiresTyped'
    BY <1>1, <1>2, <2>1, <2>2, ReleaseTyped DEF WiresTyped
  <2> QED
    BY <1>1, <1>2, <2>1, <2>2, <2>3, ReleaseTyped
<1> QED
  BY <1>3, <1>4

-----------------------------------------------------------------------------

\* A stage with other rows.
LEMMA WithRows ==
    ASSUME NEW held \in [len : Int, rows : Seq(Nat)], NEW rows
    PROVE  [held EXCEPT !.rows = rows] = [len |-> held.len, rows |-> rows]
<1>1. held = [len |-> held.len, rows |-> held.rows]
  OBVIOUS
<1> DEFINE after == [held EXCEPT !.rows = rows]
<1>2. after = [i \in DOMAIN held |-> IF i = "rows" THEN rows ELSE held[i]]
  OBVIOUS
<1>3. DOMAIN held = {"len", "rows"}
  OBVIOUS
<1> QED
  BY <1>2, <1>3

\* What is loaded, by part.
LEMMA LoadedParts ==
    ASSUME WiresTyped, NEW c \in Connections, Loaded(c)
    PROVE  /\ WiresTyped' /\ UNCHANGED <<up, link, spoilt>> /\ task[c] = "loads" /\ task'[c] = "listens"
           /\ mishaps' \in {mishaps, mishaps + 1}
           /\ \A d \in Connections \ {c} : down'[d] = down[d] /\ task'[d] = task[d] /\ stage'[d] = stage[d]
           /\ \E kind \in {"ready", "error"} :
                 /\ down'[c] = IF link[c] = "up" THEN Append(down[c], Plain(kind)) ELSE down[c]
                 /\ stage'[c] = IF kind = "ready" THEN Empty ELSE NoStage
<1>1. UNCHANGED <<up, link, spoilt>> /\ task[c] = "loads" /\ task' = [task EXCEPT ![c] = "listens"]
  BY DEF Loaded
<1>2. CASE stage' = [stage EXCEPT ![c] = Empty] /\ Says(c, Plain("ready")) /\ UNCHANGED <<ours, busy>> /\ Smoothly
  <2>1. Empty \in Layers
    <3>1. <<>> \in Seq(Nat) /\ Len(<<>>) = 0
      OBVIOUS
    <3> QED
      BY <3>1 DEF Empty, Layers
  <2>2. /\ down' \in [Connections -> Seq(Answer)] /\ \A d \in Connections \ {c} : down'[d] = down[d]
        /\ down'[c] = IF link[c] = "up" THEN Append(down[c], Plain("ready")) ELSE down[c]
    BY <1>2, SaysTyped, WorkerFrames
  <2>3. WiresTyped'
    BY <1>1, <1>2, <2>1, <2>2 DEF WiresTyped, Smoothly
  <2>4. stage'[c] = Empty /\ \A d \in Connections \ {c} : task'[d] = task[d] /\ stage'[d] = stage[d]
    BY <1>1, <1>2 DEF WiresTyped
  <2> QED
    BY <1>1, <1>2, <2>2, <2>3, <2>4 DEF Smoothly, WiresTyped
<1>3. CASE AMishap /\ Release(c) /\ Says(c, Plain("error"))
  <2>1. /\ down' \in [Connections -> Seq(Answer)] /\ \A d \in Connections \ {c} : down'[d] = down[d]
        /\ down'[c] = IF link[c] = "up" THEN Append(down[c], Plain("error")) ELSE down[c]
    BY <1>3, SaysTyped, WorkerFrames
  <2>2. mishaps' = mishaps + 1 /\ mishaps' \in 0..MaxMishaps
    BY <1>3, WorkerAssumption DEF AMishap, WiresTyped
  <2>3. WiresTyped'
    BY <1>1, <1>3, <2>1, <2>2, ReleaseTyped DEF WiresTyped
  <2>4. stage'[c] = NoStage /\ \A d \in Connections \ {c} : task'[d] = task[d] /\ stage'[d] = stage[d]
    BY <1>1, <1>3, ReleaseTyped DEF WiresTyped
  <2> QED
    BY <1>1, <2>1, <2>2, <2>3, <2>4 DEF WiresTyped
<1> QED
  BY <1>2, <1>3 DEF Loaded

\* A pass, by part: the rows are run, are not for where the cache is, or a
\* kernel panics at them.
LEMMA ForwardParts ==
    ASSUME WiresTyped, NEW c \in Connections, Forward(c)
    PROVE  LET frame == Head(up[c])
               held == stage[c]
           IN  /\ WiresTyped' /\ UNCHANGED <<link, task>> /\ task[c] = "listens"
               /\ up[c] # <<>> /\ frame.kind = "forward" /\ frame.row \in Pieces /\ Len(frame.row) = frame.pos + 1
               /\ frame.pos \in Nat
               /\ up'[c] = Tail(up[c])
               /\ \A d \in Connections \ {c} : up'[d] = up[d] /\ down'[d] = down[d] /\ stage'[d] = stage[d]
               /\ mishaps' \in {mishaps, mishaps + 1} /\ (spoilt => spoilt')
               /\ \E a \in Answer :
                    /\ down'[c] = IF link[c] = "up" THEN Append(down[c], a) ELSE down[c]
                    /\ \/ /\ held # NoStage /\ held.len = frame.pos /\ a = Frame("hidden", frame.pos, Given(held, frame.row))
                          /\ stage'[c] = Ran(held, frame.row)
                       \/ /\ a = Plain("error") /\ stage'[c] = held
                          /\ ~(held # NoStage /\ held.len = frame.pos) \/ mishaps' = mishaps + 1
                       \/ /\ a = Plain("error") /\ held # NoStage /\ held.len = frame.pos /\ mishaps' = mishaps + 1
                          /\ stage'[c] # NoStage /\ stage'[c].len = held.len /\ (held.len = 0 => spoilt')
<1> DEFINE frame == Head(up[c])
           held == stage[c]
<1>1. /\ up' \in [Connections -> Seq(Asked)] /\ up'[c] = Tail(up[c]) /\ \A d \in Connections \ {c} : up'[d] = up[d]
      /\ up[c] # <<>> /\ frame.kind = "forward" /\ task[c] = "listens"
      /\ frame.pos \in Nat /\ frame.row \in Seq(Nat) /\ frame.row \in Pieces /\ Len(frame.row) = frame.pos + 1
  BY AsksTyped DEF Forward
<1>2. UNCHANGED <<link, task, ours, busy>>
  BY DEF Forward
<1>3. held \in Layers /\ (held # NoStage => held.len >= 0)
  BY DEF WiresTyped, Layers
<1>4. CASE /\ Fits(held, frame)
           /\ stage' = [stage EXCEPT ![c] = Ran(held, frame.row)]
           /\ Says(c, Frame("hidden", frame.pos, Given(held, frame.row)))
           /\ UNCHANGED spoilt /\ Smoothly
  <2> DEFINE a == Frame("hidden", frame.pos, Given(held, frame.row))
  <2>1. held # NoStage /\ held.len = frame.pos /\ held.len >= 0
    BY <1>3, <1>4 DEF Fits
  <2>2. Ran(held, frame.row) \in Layers /\ Given(held, frame.row) \in Seq(Nat) /\ Len(Given(held, frame.row)) = frame.pos + 1
    BY <1>1, <1>3, <2>1, RunTyped
  <2>3. a \in Answer
    BY <1>1, <2>2, WorkerFrames
  <2>4. /\ down' \in [Connections -> Seq(Answer)] /\ \A d \in Connections \ {c} : down'[d] = down[d]
        /\ down'[c] = IF link[c] = "up" THEN Append(down[c], a) ELSE down[c]
    BY <1>4, <2>3, SaysTyped
  <2>5. /\ stage' \in [Connections -> Layers] /\ stage'[c] = Ran(held, frame.row)
        /\ \A d \in Connections \ {c} : stage'[d] = stage[d]
    BY <1>4, <2>2 DEF WiresTyped
  <2>6. UNCHANGED <<spoilt, mishaps>>
    BY <1>4 DEF Smoothly
  <2>7. WiresTyped'
    BY <1>1, <1>2, <2>4, <2>5, <2>6 DEF WiresTyped
  <2> HIDE DEF frame, held, a
  <2>8. \E b \in Answer :
           /\ down'[c] = IF link[c] = "up" THEN Append(down[c], b) ELSE down[c]
           /\ held # NoStage /\ held.len = frame.pos /\ b = Frame("hidden", frame.pos, Given(held, frame.row))
           /\ stage'[c] = Ran(held, frame.row)
    BY <2>1, <2>3, <2>4, <2>5 DEF a
  <2> QED
    BY <1>1, <1>2, <2>4, <2>5, <2>6, <2>7, <2>8 DEF frame, held
<1>5. CASE ~Fits(held, frame) /\ Says(c, Plain("error")) /\ UNCHANGED <<stage, spoilt>> /\ Smoothly
  <2>1. /\ down' \in [Connections -> Seq(Answer)] /\ \A d \in Connections \ {c} : down'[d] = down[d]
        /\ down'[c] = IF link[c] = "up" THEN Append(down[c], Plain("error")) ELSE down[c]
    BY <1>5, SaysTyped, WorkerFrames
  <2>2. UNCHANGED <<stage, spoilt, mishaps>> /\ ~(held # NoStage /\ held.len = frame.pos)
    BY <1>5 DEF Smoothly, Fits
  <2>3. WiresTyped'
    BY <1>1, <1>2, <2>1, <2>2 DEF WiresTyped
  <2> HIDE DEF frame, held
  <2> QED
    BY <1>1, <1>2, <2>1, <2>2, <2>3, WorkerFrames DEF frame, held
<1>6. CASE /\ Fits(held, frame) /\ AMishap
           /\ \E pushed \in BOOLEAN :
                 /\ stage' = IF pushed THEN [stage EXCEPT ![c].rows = Append(@, 0)] ELSE stage
                 /\ spoilt' = (spoilt \/ (pushed /\ held.len = 0))
           /\ Says(c, Plain("error"))
  <2>1. /\ down' \in [Connections -> Seq(Answer)] /\ \A d \in Connections \ {c} : down'[d] = down[d]
        /\ down'[c] = IF link[c] = "up" THEN Append(down[c], Plain("error")) ELSE down[c]
    BY <1>6, SaysTyped, WorkerFrames
  <2>2. mishaps' = mishaps + 1 /\ mishaps' \in 0..MaxMishaps
    BY <1>6, WorkerAssumption DEF AMishap, WiresTyped
  <2>3. PICK pushed \in BOOLEAN :
           /\ stage' = IF pushed THEN [stage EXCEPT ![c].rows = Append(@, 0)] ELSE stage
           /\ spoilt' = (spoilt \/ (pushed /\ held.len = 0))
    BY <1>6
  <2>4. held # NoStage /\ held.len = frame.pos /\ held.len >= 0
    BY <1>3, <1>6 DEF Fits
  <2>5. spoilt' \in BOOLEAN /\ (spoilt => spoilt')
    BY <2>3
  <2>6. CASE pushed
    <3>1. Append(held.rows, 0) \in Seq(Nat) /\ Len(Append(held.rows, 0)) = Len(held.rows) + 1 /\ Len(held.rows) \in Nat
      BY <1>3 DEF Layers
    <3>2. [held EXCEPT !.rows = Append(held.rows, 0)] \in Layers
      <4> DEFINE more == [len |-> held.len, rows |-> Append(held.rows, 0)]
      <4>1. [held EXCEPT !.rows = Append(held.rows, 0)] = more
        <5>1. held \in [len : Int, rows : Seq(Nat)]
          BY <1>3 DEF Layers
        <5> QED
          BY <5>1, WithRows
      <4>2. held.len \in Int /\ held.len <= Len(held.rows) + 1
        BY <1>3, <3>1 DEF Layers
      <4>3. more \in Layers
        BY <2>4, <3>1, <4>2 DEF Layers
      <4> QED
        BY <4>1, <4>3
    <3>3. stage' = [stage EXCEPT ![c] = [held EXCEPT !.rows = Append(held.rows, 0)]]
      BY <2>3, <2>6
    <3>4. /\ stage' \in [Connections -> Layers] /\ \A d \in Connections \ {c} : stage'[d] = stage[d]
          /\ stage'[c] = [held EXCEPT !.rows = Append(held.rows, 0)]
      BY <3>2, <3>3 DEF WiresTyped
    <3>5. stage'[c].len = held.len /\ stage'[c].rows = Append(held.rows, 0)
      BY <1>3, <3>4 DEF Layers
    <3>6. stage'[c] # NoStage
      BY <2>4, <3>5 DEF NoStage
    <3>7. WiresTyped'
      BY <1>1, <1>2, <2>1, <2>2, <2>5, <3>4 DEF WiresTyped
    <3>8. held.len = 0 => spoilt'
      BY <2>3, <2>6
    <3> HIDE DEF frame, held
    <3> QED
      BY <1>1, <1>2, <2>1, <2>2, <2>4, <2>5, <3>4, <3>5, <3>6, <3>7, <3>8, WorkerFrames DEF frame, held
  <2>7. CASE ~pushed
    <3>1. UNCHANGED stage
      BY <2>3, <2>7
    <3>2. WiresTyped'
      BY <1>1, <1>2, <2>1, <2>2, <2>5, <3>1 DEF WiresTyped
    <3> HIDE DEF frame, held
    <3> QED
      BY <1>1, <1>2, <2>1, <2>2, <2>5, <3>1, <3>2, WorkerFrames DEF frame, held
  <2> QED
    BY <2>6, <2>7
<1> QED
  BY <1>4, <1>5, <1>6 DEF Forward

\* A rewind, by part.
LEMMA TruncateParts ==
    ASSUME WiresTyped, NEW c \in Connections, Truncate(c)
    PROVE  LET frame == Head(up[c])
               held == stage[c]
           IN  /\ WiresTyped' /\ UNCHANGED <<link, task, spoilt, mishaps>> /\ task[c] = "listens"
               /\ up[c] # <<>> /\ frame.kind = "truncate" /\ frame.pos \in Nat /\ up'[c] = Tail(up[c])
               /\ \A d \in Connections \ {c} : up'[d] = up[d] /\ down'[d] = down[d] /\ stage'[d] = stage[d]
               /\ \E n \in Nat :
                    /\ down'[c] = IF link[c] = "up" THEN Append(down[c], Frame("truncated", n, <<>>)) ELSE down[c]
                    /\ n <= frame.pos
                    /\ held = NoStage => stage'[c] = held
                    /\ held # NoStage => stage'[c] = Cut(held, frame.pos) /\ n = stage'[c].len
<1> DEFINE frame == Head(up[c])
           held == stage[c]
<1>1. /\ up' \in [Connections -> Seq(Asked)] /\ up'[c] = Tail(up[c]) /\ \A d \in Connections \ {c} : up'[d] = up[d]
      /\ up[c] # <<>> /\ frame.kind = "truncate" /\ task[c] = "listens" /\ frame.pos \in Nat
  BY AsksTyped DEF Truncate
<1>2. UNCHANGED <<link, task, ours, busy, spoilt, mishaps>>
  BY DEF Truncate, Smoothly
<1>3. held \in Layers /\ (held # NoStage => held.len >= 0)
  BY DEF WiresTyped, Layers
<1>4. CASE held = NoStage
  <2>1. Says(c, Frame("truncated", 0, <<>>)) /\ UNCHANGED stage
    BY <1>4 DEF Truncate
  <2>2. /\ down' \in [Connections -> Seq(Answer)] /\ \A d \in Connections \ {c} : down'[d] = down[d]
        /\ down'[c] = IF link[c] = "up" THEN Append(down[c], Frame("truncated", 0, <<>>)) ELSE down[c]
    BY <2>1, SaysTyped, WorkerFrames
  <2>3. WiresTyped'
    BY <1>1, <1>2, <2>1, <2>2 DEF WiresTyped
  <2> HIDE DEF frame, held
  <2>4. /\ 0 \in Nat /\ 0 <= frame.pos
        /\ held = NoStage => stage'[c] = held
        /\ held # NoStage => stage'[c] = Cut(held, frame.pos) /\ 0 = stage'[c].len
    BY <1>1, <1>4, <2>1 DEF held
  <2> QED
    BY <1>1, <1>2, <2>1, <2>2, <2>3, <2>4 DEF frame, held
<1>5. CASE held # NoStage
  <2> DEFINE cut == Cut(held, frame.pos)
  <2>1. stage' = [stage EXCEPT ![c] = cut] /\ Says(c, Frame("truncated", cut.len, <<>>))
    BY <1>5 DEF Truncate
  <2>2. cut \in Layers /\ cut.len \in Nat /\ cut.len <= frame.pos
    <3>1. cut \in Layers /\ cut.len \in Nat /\ cut.len = (IF frame.pos >= held.len THEN held.len ELSE frame.pos)
      BY <1>1, <1>3, <1>5, CutTyped
    <3>2. held.len \in Int
      BY <1>3 DEF Layers
    <3> QED
      BY <1>1, <3>1, <3>2
  <2>3. /\ down' \in [Connections -> Seq(Answer)] /\ \A d \in Connections \ {c} : down'[d] = down[d]
        /\ down'[c] = IF link[c] = "up" THEN Append(down[c], Frame("truncated", cut.len, <<>>)) ELSE down[c]
    BY <2>1, <2>2, SaysTyped, WorkerFrames
  <2>4. stage' \in [Connections -> Layers] /\ stage'[c] = cut /\ \A d \in Connections \ {c} : stage'[d] = stage[d]
    BY <2>1, <2>2 DEF WiresTyped
  <2>5. WiresTyped'
    BY <1>1, <1>2, <2>3, <2>4 DEF WiresTyped
  <2> HIDE DEF cut
  <2>6. /\ cut.len \in Nat /\ cut.len <= frame.pos
        /\ held = NoStage => stage'[c] = held
        /\ held # NoStage => stage'[c] = Cut(held, frame.pos) /\ cut.len = stage'[c].len
    BY <1>5, <2>2, <2>4 DEF cut
  <2> HIDE DEF frame, held
  <2> QED
    BY <1>1, <1>2, <2>3, <2>4, <2>5, <2>6 DEF frame, held
<1> QED
  BY <1>4, <1>5

\* What is spent, by part.
LEMMA SpendParts ==
    ASSUME WiresTyped, NEW c \in Connections, Spend(c)
    PROVE  /\ WiresTyped' /\ UNCHANGED <<link, task, stage, spoilt, mishaps>> /\ task[c] = "listens"
           /\ up[c] # <<>> /\ Head(up[c]).kind = "spend" /\ up'[c] = Tail(up[c])
           /\ \A d \in Connections \ {c} : up'[d] = up[d] /\ down'[d] = down[d]
           /\ down'[c] = IF link[c] = "up" THEN Append(down[c], Plain("spent")) ELSE down[c]
<1>1. /\ up' \in [Connections -> Seq(Asked)] /\ up'[c] = Tail(up[c]) /\ \A d \in Connections \ {c} : up'[d] = up[d]
      /\ up[c] # <<>> /\ Head(up[c]).kind = "spend" /\ task[c] = "listens"
  BY AsksTyped DEF Spend
<1>2. UNCHANGED <<link, task, ours, stage, busy, spoilt, mishaps>>
  BY DEF Spend, Smoothly
<1>3. /\ down' \in [Connections -> Seq(Answer)] /\ \A d \in Connections \ {c} : down'[d] = down[d]
      /\ down'[c] = IF link[c] = "up" THEN Append(down[c], Plain("spent")) ELSE down[c]
  BY SaysTyped, WorkerFrames DEF Spend
<1>4. WiresTyped'
  BY <1>1, <1>2, <1>3 DEF WiresTyped
<1> QED
  BY <1>1, <1>2, <1>3, <1>4

\* The end of a connection, by part.
LEMMA EndsParts ==
    ASSUME WiresTyped, NEW c \in Connections, Ends(c)
    PROVE  /\ WiresTyped' /\ UNCHANGED <<down, link, spoilt, mishaps>> /\ link[c] # "up" /\ task[c] = "listens" /\ task'[c] = "gone"
           /\ up'[c] = <<>> /\ stage'[c] = NoStage
           /\ \A d \in Connections \ {c} : up'[d] = up[d] /\ task'[d] = task[d] /\ stage'[d] = stage[d]
<1>1. UNCHANGED <<down, link, spoilt, mishaps>> /\ link[c] # "up" /\ task[c] = "listens"
      /\ task' = [task EXCEPT ![c] = "gone"] /\ up' = [up EXCEPT ![c] = <<>>]
  BY DEF Ends, Smoothly
<1>2. Release(c)
  BY DEF Ends
<1>3. <<>> \in Seq(Asked)
  OBVIOUS
<1>4. WiresTyped'
  BY <1>1, <1>2, <1>3, ReleaseTyped DEF WiresTyped
<1> QED
  BY <1>1, <1>2, <1>4, ReleaseTyped DEF WiresTyped

-----------------------------------------------------------------------------

\* Coordinators that greet their workers, by part.
LEMMA OpensParts ==
    ASSUME WiresTyped, NEW cs \in SUBSET Connections, Opens(cs), Smoothly
    PROVE  /\ WiresTyped' /\ UNCHANGED <<down, stage, spoilt, mishaps>>
           /\ \A c \in cs : link'[c] = "up" /\ task'[c] = "listens" /\ up'[c] = <<Plain("load")>>
           /\ \A c \in Connections \ cs : link'[c] = link[c] /\ task'[c] = task[c] /\ up'[c] = up[c]
<1>1. <<Plain("load")>> \in Seq(Asked)
  BY SessionFrames
<1>2. /\ link' \in [Connections -> {"none", "up", "cut", "left"}]
      /\ task' \in [Connections -> {"none", "listens", "loads", "gone"}]
  BY DEF Opens, WiresTyped
<1>3. up' \in [Connections -> Seq(Asked)]
  BY <1>1 DEF Opens, WiresTyped
<1>4. UNCHANGED <<down, ours, stage, busy, spoilt, mishaps>>
  BY DEF Opens, Smoothly
<1>5. WiresTyped'
  BY <1>2, <1>3, <1>4 DEF WiresTyped
<1>6. /\ \A c \in cs : link'[c] = "up" /\ task'[c] = "listens" /\ up'[c] = <<Plain("load")>>
      /\ \A c \in Connections \ cs : link'[c] = link[c] /\ task'[c] = task[c] /\ up'[c] = up[c]
  BY DEF Opens
<1> QED
  BY <1>4, <1>5, <1>6

\* And that leave them.
LEMMA LeavesParts ==
    ASSUME WiresTyped, NEW cs \in SUBSET Connections, Leaves(cs), Smoothly
    PROVE  /\ WiresTyped' /\ UNCHANGED <<up, task, stage, spoilt, mishaps>>
           /\ \A c \in cs : link'[c] = "left" /\ down'[c] = <<>>
           /\ \A c \in Connections \ cs : link'[c] = link[c] /\ down'[c] = down[c]
<1>1. <<>> \in Seq(Answer)
  OBVIOUS
<1>2. /\ link' \in [Connections -> {"none", "up", "cut", "left"}]
      /\ down' \in [Connections -> Seq(Answer)]
  BY <1>1 DEF Leaves, WiresTyped
<1>3. UNCHANGED <<up, task, ours, stage, busy, spoilt, mishaps>>
  BY DEF Leaves, Smoothly, workerVars
<1>4. WiresTyped'
  BY <1>2, <1>3 DEF WiresTyped
<1>5. /\ \A c \in cs : link'[c] = "left" /\ down'[c] = <<>>
      /\ \A c \in Connections \ cs : link'[c] = link[c] /\ down'[c] = down[c]
  BY DEF Leaves
<1> QED
  BY <1>3, <1>4, <1>5

\* The other coordinator's connection.
LEMMA RivalsConnection ==
    ASSUME NEW w \in Contested
    PROVE  <<w, Rival>> \in Connections /\ {<<w, Rival>>} \in SUBSET Connections
BY DEF Connections

\* A link that goes, by part.
LEMMA LinkCutParts ==
    ASSUME WiresTyped, NEW c \in Connections, LinkCut(c)
    PROVE  /\ WiresTyped' /\ UNCHANGED <<up, down, task, stage, spoilt>> /\ mishaps' = mishaps + 1
           /\ link[c] = "up" /\ link'[c] = "cut" /\ \A d \in Connections \ {c} : link'[d] = link[d]
<1>1. UNCHANGED <<up, down, task, ours, stage, busy, spoilt>>
  BY DEF LinkCut, wire, workerVars
<1>2. mishaps' = mishaps + 1 /\ mishaps' \in 0..MaxMishaps
  BY WorkerAssumption DEF LinkCut, AMishap, WiresTyped
<1>3. /\ link' \in [Connections -> {"none", "up", "cut", "left"}]
      /\ link[c] = "up" /\ link'[c] = "cut" /\ \A d \in Connections \ {c} : link'[d] = link[d]
  BY DEF LinkCut, WiresTyped
<1>4. WiresTyped'
  BY <1>1, <1>2, <1>3 DEF WiresTyped
<1> QED
  BY <1>1, <1>2, <1>3, <1>4

\* The new load's connections are connections that nobody has.
LEMMA NewConnections ==
    ASSUME CallsTyped, session.gen < MaxLoads
    PROVE  /\ NewConns \in SUBSET Connections
           /\ \A c \in Connections : c \in NewConns <=> c[2] = session.gen + 1
           /\ session.gen \in Nat /\ session.gen + 1 \in 1..MaxLoads
<1>1. session.gen \in Nat /\ session.gen + 1 \in 1..MaxLoads /\ session.gen + 1 # Rival
  BY WorkerAssumption DEF CallsTyped, Sessions, Rival
<1> QED
  BY <1>1, SomeWorkers DEF NewConns, Connections

\* A load begins, by part.
LEMMA LoadParts ==
    ASSUME Typed, Load
    PROVE  /\ Typed' /\ UNCHANGED <<down, stage, spoilt, mishaps, op, pipe, late, llm, calls>>
           /\ session.at = "none" /\ session'.at = "loading" /\ session'.gen = session.gen + 1
           /\ session'.len = 0 /\ ~session'.torn
           /\ \A c \in Connections :
                IF c[2] = session.gen + 1
                THEN link'[c] = "up" /\ task'[c] = "listens" /\ up'[c] = <<Plain("load")>>
                ELSE link'[c] = link[c] /\ task'[c] = task[c] /\ up'[c] = up[c]
           /\ session.gen \in Nat
<1>1. session.at = "none" /\ session.gen < MaxLoads /\ Opens(NewConns) /\ Smoothly
      /\ session' = [session EXCEPT !.at = "loading", !.gen = @ + 1] /\ UNCHANGED <<op, pipe, late, llm, calls>>
  BY DEF Load
<1>2. /\ NewConns \in SUBSET Connections
      /\ \A c \in Connections : c \in NewConns <=> c[2] = session.gen + 1
      /\ session.gen \in Nat /\ session.gen + 1 \in 1..MaxLoads
  BY <1>1, NewConnections DEF Typed
<1>3. /\ WiresTyped' /\ UNCHANGED <<down, stage, spoilt, mishaps>>
      /\ \A c \in NewConns : link'[c] = "up" /\ task'[c] = "listens" /\ up'[c] = <<Plain("load")>>
      /\ \A c \in Connections \ NewConns : link'[c] = link[c] /\ task'[c] = task[c] /\ up'[c] = up[c]
  BY <1>1, <1>2, OpensParts DEF Typed
<1>4. session.len = 0 /\ ~session.torn /\ llm = NoLlm
  BY <1>1 DEF Typed, Course, CourseOfNone
<1>5. session' \in Sessions /\ session'.at = "loading" /\ session'.gen = session.gen + 1 /\ session'.len = 0 /\ ~session'.torn
  <2>1. session \in Sessions
    BY DEF Typed, CallsTyped
  <2>2. session' = [session EXCEPT !.at = "loading", !.gen = session.gen + 1]
    BY <1>1
  <2>3. session.gen + 1 \in 0..MaxLoads
    BY <1>2
  <2> QED
    BY <1>4, <2>1, <2>2, <2>3 DEF Sessions
<1>6. CallsTyped'
  BY <1>1, <1>5 DEF Typed, CallsTyped
<1>7. Course'
  <2>1. CourseOfNone' /\ CourseOfLoad'
    BY <1>1, <1>2, <1>4, <1>5 DEF CourseOfNone, CourseOfLoad
  <2>2. llm.at = "rest" /\ op.is = "none"
    BY <1>4 DEF NoLlm, Typed, Course, CourseOfOp
  <2>3. op'.is = "none" /\ llm'.at = "rest" /\ ~session'.torn
    <3>1. op' = op /\ llm' = llm
      BY <1>1
    <3> QED
      BY <1>5, <2>2, <3>1
  <2>4. CourseOfPipe' /\ CourseOfOp'
    BY <2>3 DEF CourseOfPipe, CourseOfOp
  <2>5. CourseOfLlm'
    BY <2>3 DEF CourseOfLlm
  <2> QED
    BY <2>1, <2>4, <2>5 DEF Course
<1> QED
  BY <1>1, <1>2, <1>3, <1>5, <1>6, <1>7 DEF Typed

\* A load is made, by part.
LEMMA LoadMadeParts ==
    ASSUME Typed, LoadMade
    PROVE  /\ Typed' /\ UNCHANGED <<up, link, task, stage, spoilt, mishaps, op, pipe, late, llm, calls>>
           /\ session.at = "loading" /\ session'.at = "loaded" /\ session'.gen = session.gen
           /\ session'.len = session.len /\ session'.torn = session.torn
           /\ \A s \in Workers : /\ down[Conn(s)] # <<>> /\ Head(down[Conn(s)]).kind = "ready"
                                 /\ down'[Conn(s)] = Tail(down[Conn(s)])
           /\ \A c \in Connections : c \notin OurConns => down'[c] = down[c]
<1>1. /\ session.at = "loading" /\ session' = [session EXCEPT !.at = "loaded"]
      /\ UNCHANGED <<up, link, task, ours, stage, busy, spoilt, mishaps, op, pipe, late, llm, calls>>
      /\ \A c \in OurConns : HasSaid(c, "ready")
      /\ down' = [c \in Connections |-> IF c \in OurConns THEN Tail(down[c]) ELSE down[c]]
  BY DEF LoadMade, AtTheWorkers, workerVars, Smoothly
<1>2. OurConns \subseteq Connections /\ \A s \in Workers : Conn(s) \in OurConns /\ Conn(s) \in Connections
  BY <1>1, OurConnections DEF Typed, OurConns
<1>3. \A c \in OurConns : down[c] # <<>> /\ Head(down[c]).kind = "ready" /\ down[c] \in Seq(Answer) /\ Tail(down[c]) \in Seq(Answer)
  <2> SUFFICES ASSUME NEW c \in OurConns
               PROVE  down[c] # <<>> /\ Head(down[c]).kind = "ready" /\ down[c] \in Seq(Answer) /\ Tail(down[c]) \in Seq(Answer)
    OBVIOUS
  <2>1. down[c] # <<>> /\ Head(down[c]).kind = "ready"
    BY <1>1 DEF HasSaid
  <2>2. down[c] \in Seq(Answer)
    BY <1>2 DEF Typed, WiresTyped
  <2> QED
    BY <2>1, <2>2, HeadTailProperties
<1>4. down' \in [Connections -> Seq(Answer)]
  BY <1>1, <1>3 DEF Typed, WiresTyped
<1>5. WiresTyped'
  BY <1>1, <1>4 DEF Typed, WiresTyped
<1>6. session' \in Sessions /\ session'.at = "loaded" /\ session'.gen = session.gen /\ session'.len = session.len
      /\ session'.torn = session.torn
  BY <1>1 DEF Typed, CallsTyped, Sessions
<1>7. CallsTyped'
  BY <1>1, <1>6 DEF Typed, CallsTyped
<1>8. Course'
  <2>1. CourseOfNone' /\ CourseOfLoad'
    BY <1>1, <1>6 DEF CourseOfNone, CourseOfLoad, Typed, Course
  <2>2. CourseOfPipe' /\ CourseOfOp' /\ CourseOfLlm'
    BY <1>1, <1>6 DEF CourseOfPipe, CourseOfOp, CourseOfLlm, Typed, Course
  <2> QED
    BY <2>1, <2>2 DEF Course
<1> QED
  BY <1>1, <1>2, <1>3, <1>5, <1>6, <1>7, <1>8 DEF Typed

\* The session goes, by part: a load that failed, or one that is given up.
LEMMA GoneParts ==
    ASSUME Typed, LoadFailed \/ Unload
    PROVE  /\ Typed' /\ UNCHANGED <<up, task, stage, spoilt, mishaps, op, pipe, calls>>
           /\ session.at # "none" /\ session'.at = "none" /\ session'.gen = session.gen
           /\ llm.at = "rest" /\ op.is = "none" /\ llm' = NoLlm
           /\ late' = NoneLate \/ (LoadFailed /\ session.at = "loading" /\ late' = late)
           /\ \A s \in Workers : link'[Conn(s)] = "left" /\ down'[Conn(s)] = <<>>
           /\ \A c \in Connections : c \notin OurConns => link'[c] = link[c] /\ down'[c] = down[c]
<1>1. /\ session.at # "none" /\ Leaves(OurConns) /\ Smoothly /\ session' = NoSession(session.gen)
      /\ UNCHANGED <<op, pipe, calls>>
      /\ late' = NoneLate \/ (LoadFailed /\ session.at = "loading" /\ late' = late)
      /\ llm' = NoLlm \/ (session.at = "loading" /\ llm' = llm)
      /\ session.at = "loaded" => llm.at = "rest"
  BY DEF LoadFailed, Unload
<1>2. OurConns \subseteq Connections /\ \A s \in Workers : Conn(s) \in OurConns
  BY <1>1, OurConnections DEF Typed, OurConns
<1>3. /\ WiresTyped' /\ UNCHANGED <<up, task, stage, spoilt, mishaps>>
      /\ \A c \in OurConns : link'[c] = "left" /\ down'[c] = <<>>
      /\ \A c \in Connections \ OurConns : link'[c] = link[c] /\ down'[c] = down[c]
  BY <1>1, <1>2, LeavesParts DEF Typed
<1>4. session' \in Sessions /\ session'.at = "none" /\ session'.gen = session.gen /\ session'.len = 0 /\ ~session'.torn
  BY <1>1 DEF Typed, CallsTyped, Sessions, NoSession
<1>5. llm' = NoLlm /\ llm.at = "rest" /\ op.is = "none"
  <2>1. session.at \in {"loading", "loaded"}
    BY <1>1 DEF Typed, CallsTyped, Sessions
  <2>2. session.at = "loading" => llm = NoLlm
    BY DEF Typed, Course, CourseOfNone
  <2>3. NoLlm.at = "rest"
    BY DEF NoLlm
  <2> QED
    BY <1>1, <2>1, <2>2, <2>3 DEF Typed, Course, CourseOfOp
<1>6. NoLlm \in Llms /\ NoneLate \in [Workers -> Nat]
  BY DEF NoLlm, Llms, NoneLate
<1>7. CallsTyped'
  BY <1>1, <1>4, <1>5, <1>6 DEF Typed, CallsTyped
<1>8. Course'
  <2>1. CourseOfNone' /\ CourseOfLoad' /\ CourseOfPipe'
    BY <1>1, <1>4, <1>5 DEF CourseOfNone, CourseOfLoad, CourseOfPipe
  <2>2. llm'.at = "rest" /\ llm'.cached = <<>>
    BY <1>5 DEF NoLlm
  <2>3. CourseOfOp' /\ CourseOfLlm'
    BY <1>1, <1>4, <1>5, <2>2 DEF CourseOfOp, CourseOfLlm
  <2> QED
    BY <2>1, <2>3 DEF Course
<1> QED
  BY <1>1, <1>2, <1>3, <1>4, <1>5, <1>7, <1>8 DEF Typed

\* A step of the workers and of the rest.
LEMMA TypedWorkers == ASSUME Typed, NEW c \in Connections, WorkerStep(c), UNCHANGED callVars PROVE Typed'
<1>1. WiresTyped
  BY DEF Typed
<1>2. WiresTyped'
  <2>1. CASE TakeLoad(c)
    BY <1>1, <2>1, TakeLoadParts
  <2>2. CASE Loaded(c)
    BY <1>1, <2>2, LoadedParts
  <2>3. CASE Forward(c)
    BY <1>1, <2>3, ForwardParts
  <2>4. CASE Truncate(c)
    BY <1>1, <2>4, TruncateParts
  <2>5. CASE Spend(c)
    BY <1>1, <2>5, SpendParts
  <2>6. CASE Ends(c)
    BY <1>1, <2>6, EndsParts
  <2> QED
    BY <2>1, <2>2, <2>3, <2>4, <2>5, <2>6 DEF WorkerStep
<1> QED
  BY <1>2, TypedAside

\* A link of this load that goes.
LEMMA OursIsCut ==
    ASSUME Typed, NEW s \in Workers, session.gen > 0, LinkCut(Conn(s)), UNCHANGED callVars
    PROVE  Typed' /\ Conn(s) \in Connections
<1>1. Conn(s) \in Connections
  <2>1. session.gen \in 1..MaxLoads
    BY WorkerAssumption DEF Typed, CallsTyped, Sessions
  <2> QED
    BY <2>1 DEF Conn, Connections
<1> QED
  BY <1>1, LinkCutParts, TypedAside DEF Typed

\* The other coordinators.
LEMMA TypedRival == ASSUME Typed, RivalStep, UNCHANGED callVars PROVE Typed'
<1>1. WiresTyped
  BY DEF Typed
<1>2. PICK w \in Contested : RivalComes(w) \/ RivalGoes(w)
  BY DEF RivalStep
<1>3. {<<w, Rival>>} \in SUBSET Connections
  BY RivalsConnection
<1>4. WiresTyped'
  BY <1>1, <1>2, <1>3, OpensParts, LeavesParts DEF RivalComes, RivalGoes
<1> QED
  BY <1>4, TypedAside

\* In the beginning there is nothing.
LEMMA TypedInit == Init => Typed
<1> SUFFICES ASSUME Init PROVE Typed
  OBVIOUS
<1>1. WiresTyped
  <2>1. NoStage \in Layers
    <3>1. <<>> \in Seq(Nat) /\ Len(<<>>) = 0
      OBVIOUS
    <3> QED
      BY <3>1 DEF NoStage, Layers
  <2>2. 0 \in 0..MaxMishaps /\ mishaps = 0 /\ spoilt = FALSE
    BY WorkerAssumption DEF Init, WorkerInit
  <2>3. up \in [Connections -> Seq(Asked)] /\ down \in [Connections -> Seq(Answer)]
    <3>1. <<>> \in Seq(Asked) /\ <<>> \in Seq(Answer)
      OBVIOUS
    <3>2. up = [c \in Connections |-> <<>>] /\ down = up
      BY DEF Init, WorkerInit
    <3> QED
      BY <3>1, <3>2
  <2>4. /\ link \in [Connections -> {"none", "up", "cut", "left"}]
        /\ task \in [Connections -> {"none", "listens", "loads", "gone"}]
        /\ ours \in [Connections -> BOOLEAN] /\ busy \in [Workers -> BOOLEAN]
    BY DEF Init, WorkerInit
  <2>5. stage \in [Connections -> Layers]
    BY <2>1 DEF Init, WorkerInit
  <2> QED
    BY <2>2, <2>3, <2>4, <2>5 DEF WiresTyped
<1>2. /\ session = NoSession(0) /\ op = NoOp /\ pipe = NoPipe /\ late = NoneLate /\ llm = NoLlm /\ calls = 0
  BY DEF Init
<1>3. CallsTyped
  <2>1. NoSession(0) \in Sessions /\ 0 \in 0..MaxCalls
    BY WorkerAssumption, PipelineAssumption DEF NoSession, Sessions
  <2>2. NoLlm \in Llms /\ NoneLate \in [Workers -> Nat]
    BY DEF NoLlm, Llms, NoneLate
  <2> QED
    BY <1>2, <2>1, <2>2, FailedTyped, NoPipeTyped DEF CallsTyped
<1>4. Course
  <2>1. op.is = "none" /\ llm.at = "rest" /\ llm.cached = <<>> /\ session.at = "none" /\ session.len = 0 /\ ~session.torn
    BY <1>2 DEF NoOp, NoLlm, NoSession
  <2> QED
    BY <1>2, <2>1 DEF Course, CourseOfNone, CourseOfLoad, CourseOfPipe, CourseOfOp, CourseOfLlm
<1> QED
  BY <1>1, <1>3, <1>4 DEF Typed

\* What each step of the session keeps typed.
LEMMA TypedSession == Typed /\ SessionStep => Typed'
BY TypedStartMend, TypedMend, TypedCutNothing, TypedStartCut, TypedCutBack, TypedNextSpend, TypedSpent, TypedStartPass,
   TypedPass, TypedStartPipe, TypedFeed, TypedDrain, TypedPipeEnds, TypedTake, TypedNoMore, TypedHandBack, TypedHandOn
DEF SessionStep

\* And each of the conversation.
LEMMA TypedLlm == Typed /\ (LlmStep \/ Stop \/ \E p \in Prompts : Open(p)) => Typed'
BY TypedOpened, TypedPrefill, TypedHaveRead, TypedStep, TypedFed, TypedFinish, TypedDropped, TypedStop, TypedOpen
DEF LlmStep

\* A step that changes nothing.
LEMMA TypedStutter == Typed /\ UNCHANGED vars => Typed'
<1> SUFFICES ASSUME Typed, UNCHANGED vars PROVE Typed'
  OBVIOUS
<1>1. UNCHANGED <<wire, link, workerVars, mishaps>> /\ UNCHANGED callVars
  BY DEF vars, callVars
<1> QED
  BY <1>1, WiresTypedSame, TypedAside DEF Typed

\* Every step keeps the types.
LEMMA TypedNext == Typed /\ [Next]_vars => Typed'
<1> SUFFICES ASSUME Typed, [Next]_vars PROVE Typed'
  OBVIOUS
<1>1. CASE SessionStep \/ LlmStep \/ Stop \/ \E p \in Prompts : Open(p)
  BY <1>1, TypedSession, TypedLlm
<1>2. CASE LoadMade \/ LoadFailed \/ Load \/ Unload
  BY <1>2, LoadMadeParts, LoadParts, GoneParts
<1>3. CASE Machines /\ UNCHANGED callVars
  BY <1>3, TypedWorkers DEF Machines
<1>4. CASE (RivalStep \/ (\E s \in Workers : session.gen > 0 /\ LinkCut(Conn(s)))) /\ UNCHANGED callVars
  BY <1>4, TypedRival, OursIsCut
<1>5. CASE UNCHANGED vars
  BY <1>5, TypedStutter
<1> QED
  BY <1>1, <1>2, <1>3, <1>4, <1>5 DEF Next, GoesOn

-----------------------------------------------------------------------------
(***************************************************************************)
(* What is between the session and a stage: no more than is waited for,    *)
(* and what came too late                                                  *)
(***************************************************************************)

\* An answer of the stage is waited for.
Waits(s) ==
    \/ op.is \in {"mend", "cut", "pass", "spend"} /\ op.s = s
    \/ op.is = "pipe" /\ pipe.lane[s].at = "ask"
Up(s) == link[Conn(s)] = "up"
Held(s) == stage[Conn(s)]

\* What a call does to what is between: it asks a stage, hears of one, or
\* neither.
Same(s) == up'[Conn(s)] = up[Conn(s)] /\ down'[Conn(s)] = down[Conn(s)] /\ late'[s] = late[s]
Sent(s, f) ==
    /\ up'[Conn(s)] = IF Up(s) THEN Append(up[Conn(s)], f) ELSE up[Conn(s)]
    /\ down'[Conn(s)] = down[Conn(s)] /\ late'[s] = late[s]
Got(s, a) ==
    /\ up'[Conn(s)] = up[Conn(s)]
    /\ \/ /\ down[Conn(s)] # <<>> /\ a = Head(down[Conn(s)]) /\ a \in Answer
          /\ down'[Conn(s)] = Tail(down[Conn(s)]) /\ late'[s] = late[s] /\ mishaps' = mishaps
       \/ /\ ~Up(s) /\ a = NoAnswer
          /\ down'[Conn(s)] = <<>> /\ late'[s] = late[s] /\ mishaps' = mishaps
       \/ /\ Up(s) /\ a = NoAnswer /\ down[Conn(s)] = <<>>
          /\ down'[Conn(s)] = <<>> /\ late'[s] = late[s] + 1 /\ mishaps' = mishaps + 1
Elsewhere == \A c \in Connections : c \notin OurConns => up'[c] = up[c] /\ down'[c] = down[c]
Others(ss) == (\A t \in Workers : t \notin ss => Same(t)) /\ Elsewhere

\* To a stage something is said.
LEMMA AskAt ==
    ASSUME Typed, session.at = "loaded", NEW s \in Workers, NEW f \in Asked, Ask(s, f)
    PROVE  /\ up'[Conn(s)] = IF Up(s) THEN Append(up[Conn(s)], f) ELSE up[Conn(s)]
           /\ \A t \in Workers \ {s} : up'[Conn(t)] = up[Conn(t)]
           /\ \A c \in Connections : c \notin OurConns => up'[c] = up[c]
<1>1. /\ \A t \in Workers : Conn(t) \in Connections /\ (t # s => Conn(t) # Conn(s))
      /\ Conn(s) \in OurConns
  BY OurConnections DEF Typed, OurConns
<1>2. up \in [Connections -> Seq(Asked)]
  BY DEF Typed, WiresTyped
<1> QED
  BY <1>1, <1>2 DEF Ask, Up

\* Of a stage something is heard.
LEMMA ComesAt ==
    ASSUME Typed, session.at = "loaded", NEW s \in Workers, NEW a \in Answers(s), Comes(s, a)
    PROVE  /\ \/ /\ down[Conn(s)] # <<>> /\ a = Head(down[Conn(s)]) /\ a \in Answer
                 /\ down'[Conn(s)] = Tail(down[Conn(s)]) /\ late'[s] = late[s] /\ mishaps' = mishaps
              \/ /\ ~Up(s) /\ a = NoAnswer
                 /\ down'[Conn(s)] = <<>> /\ late'[s] = late[s] /\ mishaps' = mishaps
              \/ /\ Up(s) /\ a = NoAnswer /\ down[Conn(s)] = <<>>
                 /\ down'[Conn(s)] = <<>> /\ late'[s] = late[s] + 1 /\ mishaps' = mishaps + 1
           /\ \A t \in Workers \ {s} : down'[Conn(t)] = down[Conn(t)] /\ late'[t] = late[t]
           /\ \A c \in Connections : c \notin OurConns => down'[c] = down[c]
<1>1. /\ \A t \in Workers : Conn(t) \in Connections /\ (t # s => Conn(t) # Conn(s))
      /\ Conn(s) \in OurConns
  BY OurConnections DEF Typed, OurConns
<1>2. down \in [Connections -> Seq(Answer)] /\ late \in [Workers -> Nat]
  BY DEF Typed, WiresTyped, CallsTyped
<1>3. down[Conn(s)] \in Seq(Answer)
  BY <1>1, <1>2
<1>4. CASE down[Conn(s)] # <<>> /\ a = Head(down[Conn(s)]) /\ down' = [down EXCEPT ![Conn(s)] = Tail(@)]
           /\ UNCHANGED <<late, mishaps>>
  <2>1. a \in Answer
    BY <1>3, <1>4, HeadTailProperties
  <2> QED
    BY <1>1, <1>2, <1>4, <2>1
<1>5. CASE link[Conn(s)] # "up" /\ a = NoAnswer /\ down' = [down EXCEPT ![Conn(s)] = <<>>] /\ UNCHANGED <<late, mishaps>>
  BY <1>1, <1>2, <1>5 DEF Up
<1>6. CASE /\ down[Conn(s)] = <<>> /\ link[Conn(s)] = "up" /\ a = NoAnswer
           /\ AMishap
           /\ late' = [late EXCEPT ![s] = @ + 1]
           /\ UNCHANGED down
  BY <1>1, <1>2, <1>6 DEF Up, AMishap
<1> QED
  BY <1>4, <1>5, <1>6 DEF Comes

\* A stage is asked, and no more.
LEMMA Asks1 ==
    ASSUME Typed, session.at = "loaded", NEW s \in Workers, NEW f \in Asked, Ask(s, f), UNCHANGED <<down, late>>
    PROVE  Sent(s, f) /\ Others({s})
BY AskAt DEF Sent, Others, Elsewhere, Same

\* A stage is heard of, and no more.
LEMMA Hears1 ==
    ASSUME Typed, session.at = "loaded", NEW s \in Workers, NEW a \in Answers(s), Comes(s, a), UNCHANGED up
    PROVE  Got(s, a) /\ Others({s}) /\ mishaps' \in {mishaps, mishaps + 1}
BY ComesAt DEF Got, Others, Elsewhere, Same

\* A stage is heard of, and another is asked.
LEMMA HearsAndAsks ==
    ASSUME Typed, session.at = "loaded", NEW s \in Workers, NEW a \in Answers(s), Comes(s, a),
           NEW t \in Workers, s # t, NEW f \in Asked, Ask(t, f)
    PROVE  Got(s, a) /\ Sent(t, f) /\ Others({s, t}) /\ mishaps' \in {mishaps, mishaps + 1}
<1>1. /\ up'[Conn(t)] = IF Up(t) THEN Append(up[Conn(t)], f) ELSE up[Conn(t)]
      /\ \A v \in Workers \ {t} : up'[Conn(v)] = up[Conn(v)]
      /\ \A c \in Connections : c \notin OurConns => up'[c] = up[c]
  BY AskAt
<1> QED
  BY <1>1, ComesAt DEF Got, Sent, Others, Elsewhere, Same

\* What the steps of a call leave, but those of the pipe.
Beside == UNCHANGED <<link, task, stage, spoilt, pipe, llm, calls>>
Stays == Beside /\ UNCHANGED session

\* In a call the session is loaded.
LEMMA InACall == ASSUME Typed, op.is # "none" PROVE session.at = "loaded" /\ session.len \in Nat /\ op \in Ops /\ session \in Sessions
<1>1. llm.at # "rest"
  BY DEF Typed, Course, CourseOfOp
<1>2. NoLlm.at = "rest"
  BY DEF NoLlm
<1> QED
  BY <1>1, <1>2 DEF Typed, CallsTyped, Sessions, Course, CourseOfNone

LEMMA StartMendParts ==
    ASSUME Typed, StartMend
    PROVE  /\ Stays /\ session.at = "loaded" /\ op.is = "start" /\ session.torn /\ UNCHANGED mishaps
           /\ op' \in Ops /\ op'.is = "mend" /\ op'.s = 1 /\ op'.n = op.n /\ op'.row = op.row
           /\ Sent(1, ToTruncate(session.len)) /\ Others({1})
<1>1. /\ op.is = "start" /\ session.torn /\ Ask(1, ToTruncate(session.len)) /\ op' = [op EXCEPT !.is = "mend", !.s = 1]
      /\ UNCHANGED <<link, task, stage, spoilt, down, late, session, pipe, llm, calls, mishaps>>
  BY DEF StartMend, AtTheWorkers, workerVars, Smoothly
<1>2. session.at = "loaded" /\ session.len \in Nat /\ op \in Ops
  BY <1>1, InACall
<1>3. 1 \in Workers /\ 1 \in 0..Last /\ ToTruncate(session.len) \in Asked
  BY <1>2, SomeWorkers, SessionFrames
<1>4. op' \in Ops /\ op'.is = "mend" /\ op'.s = 1 /\ op'.n = op.n /\ op'.row = op.row
  BY <1>1, <1>2, <1>3 DEF Ops
<1>5. Sent(1, ToTruncate(session.len)) /\ Others({1})
  BY <1>1, <1>2, <1>3, Asks1
<1> QED
  BY <1>1, <1>2, <1>4, <1>5 DEF Stays, Beside

LEMMA MendParts ==
    ASSUME Typed, Mend
    PROVE  /\ Beside /\ session.at = "loaded" /\ op.is = "mend" /\ op.s \in Workers /\ mishaps' \in {mishaps, mishaps + 1}
           /\ \E a \in Answers(op.s) :
                /\ Got(op.s, a)
                /\ \/ /\ IsLength(a) /\ a.pos = session.len /\ op.s + 1 \in Workers /\ UNCHANGED session
                      /\ op' \in Ops /\ op'.is = "mend" /\ op'.s = op.s + 1 /\ op'.n = op.n /\ op'.row = op.row
                      /\ Sent(op.s + 1, ToTruncate(session.len)) /\ Others({op.s, op.s + 1})
                   \/ /\ IsLength(a) /\ a.pos = session.len /\ op.s = Last
                      /\ op' \in Ops /\ op'.is = "start" /\ op'.n = op.n /\ op'.row = op.row
                      /\ session'.at = "loaded" /\ session'.gen = session.gen /\ session'.len = session.len /\ ~session'.torn
                      /\ Others({op.s})
                   \/ /\ op' = Failed /\ UNCHANGED session /\ Others({op.s})
<1>1. op.is = "mend" /\ UNCHANGED <<link, task, stage, spoilt, pipe, llm, calls>>
  BY DEF Mend, AtTheWorkers, workerVars
<1>2. op.s \in Workers /\ session.at = "loaded" /\ session.len \in Nat /\ op \in Ops /\ session \in Sessions
  BY <1>1, WhoIsAsked, InACall
<1>3. PICK a \in Answers(op.s) :
           /\ Comes(op.s, a)
           /\ IF IsLength(a) /\ a.pos = session.len
              THEN IF op.s < Last
                   THEN /\ Ask(op.s + 1, ToTruncate(session.len))
                        /\ op' = [op EXCEPT !.s = @ + 1]
                        /\ UNCHANGED session
                   ELSE /\ op' = [op EXCEPT !.is = "start"]
                        /\ session' = [session EXCEPT !.torn = FALSE]
                        /\ UNCHANGED up
              ELSE op' = Failed /\ UNCHANGED <<up, session>>
  BY DEF Mend
<1>4. op.s \in 1..Last /\ Last \in Nat
  BY <1>2, SomeWorkers
<1>5. CASE IsLength(a) /\ a.pos = session.len /\ op.s < Last
  <2>1. op.s + 1 \in Workers /\ op.s # op.s + 1 /\ op.s + 1 \in 0..Last
    BY <1>4, <1>5, SomeWorkers
  <2>2. Ask(op.s + 1, ToTruncate(session.len)) /\ UNCHANGED session /\ op' = [op EXCEPT !.s = op.s + 1]
    BY <1>3, <1>5
  <2>3. Got(op.s, a) /\ Sent(op.s + 1, ToTruncate(session.len)) /\ Others({op.s, op.s + 1}) /\ mishaps' \in {mishaps, mishaps + 1}
    BY <1>2, <1>3, <2>1, <2>2, HearsAndAsks, SessionFrames
  <2>4. op' \in Ops /\ op'.is = "mend" /\ op'.s = op.s + 1 /\ op'.n = op.n /\ op'.row = op.row
    BY <1>1, <1>2, <2>1, <2>2 DEF Ops
  <2> QED
    BY <1>1, <1>2, <1>5, <2>1, <2>2, <2>3, <2>4 DEF Beside
<1>6. CASE IsLength(a) /\ a.pos = session.len /\ ~(op.s < Last)
  <2>1. op.s = Last
    BY <1>4, <1>6
  <2>2. op' = [op EXCEPT !.is = "start"] /\ session' = [session EXCEPT !.torn = FALSE] /\ UNCHANGED up
    BY <1>3, <1>6
  <2>3. Got(op.s, a) /\ Others({op.s}) /\ mishaps' \in {mishaps, mishaps + 1}
    BY <1>2, <1>3, <2>2, Hears1
  <2>4. op' \in Ops /\ op'.is = "start" /\ op'.n = op.n /\ op'.row = op.row
    BY <1>2, <2>2 DEF Ops
  <2>5. session'.at = "loaded" /\ session'.gen = session.gen /\ session'.len = session.len /\ ~session'.torn
    BY <1>2, <2>2 DEF Sessions
  <2> QED
    BY <1>1, <1>2, <1>6, <2>1, <2>3, <2>4, <2>5 DEF Beside
<1>7. CASE ~(IsLength(a) /\ a.pos = session.len)
  <2>1. op' = Failed /\ UNCHANGED <<up, session>>
    BY <1>3, <1>7
  <2>2. Got(op.s, a) /\ Others({op.s}) /\ mishaps' \in {mishaps, mishaps + 1}
    BY <1>2, <1>3, <2>1, Hears1
  <2> QED
    BY <1>1, <1>2, <2>1, <2>2 DEF Beside
<1> QED
  BY <1>5, <1>6, <1>7

LEMMA StartCutParts ==
    ASSUME Typed, StartCut
    PROVE  /\ Stays /\ session.at = "loaded" /\ op.is = "start" /\ ~session.torn /\ UNCHANGED mishaps
           /\ op.then = "cut" /\ op.n < session.len
           /\ op' \in Ops /\ op'.is = "cut" /\ op'.s = 1 /\ op'.n = op.n
           /\ Sent(1, ToTruncate(op.n)) /\ Others({1})
<1>1. /\ op.is = "start" /\ ~session.torn /\ Ask(1, ToTruncate(op.n)) /\ op' = [op EXCEPT !.is = "cut", !.s = 1]
      /\ op.then = "cut" /\ op.n < session.len
      /\ UNCHANGED <<link, task, stage, spoilt, down, late, session, pipe, llm, calls, mishaps>>
  BY DEF StartCut, AtTheWorkers, workerVars, Smoothly
<1>2. session.at = "loaded" /\ op \in Ops
  BY <1>1, InACall
<1>3. 1 \in Workers /\ 1 \in 0..Last /\ ToTruncate(op.n) \in Asked
  BY <1>2, SomeWorkers, SessionFrames DEF Ops
<1>4. op' \in Ops /\ op'.is = "cut" /\ op'.s = 1 /\ op'.n = op.n
  BY <1>1, <1>2, <1>3 DEF Ops
<1>5. Sent(1, ToTruncate(op.n)) /\ Others({1})
  BY <1>1, <1>2, <1>3, Asks1
<1> QED
  BY <1>1, <1>2, <1>4, <1>5 DEF Stays, Beside

LEMMA CutNothingParts ==
    ASSUME Typed, CutNothing
    PROVE  /\ Stays /\ session.at = "loaded" /\ op.is = "start" /\ ~session.torn /\ UNCHANGED <<up, down, late, mishaps>>
           /\ op.then = "cut" /\ op.n >= session.len /\ op' = Done(TRUE, session.len, <<>>) /\ Others({})
<1>1. /\ op.is = "start" /\ ~session.torn /\ op.then = "cut" /\ op.n >= session.len
      /\ op' = Done(TRUE, session.len, <<>>)
      /\ UNCHANGED <<link, task, stage, spoilt, up, down, late, session, pipe, llm, calls, mishaps>>
  BY DEF CutNothing, AtTheWorkers, workerVars, wire, Smoothly
<1> QED
  BY <1>1, InACall DEF Stays, Beside, Others, Elsewhere, Same

LEMMA CutBackParts ==
    ASSUME Typed, CutBack
    PROVE  /\ Beside /\ session.at = "loaded" /\ op.is = "cut" /\ op.s \in Workers /\ mishaps' \in {mishaps, mishaps + 1}
           /\ \E a \in Answers(op.s) :
                /\ Got(op.s, a)
                /\ \/ /\ IsLength(a) /\ a.pos \in Nat /\ (op.s = 1 \/ op.row = <<a.pos>>) /\ op.s + 1 \in Workers /\ UNCHANGED session
                      /\ op' \in Ops /\ op'.is = "cut" /\ op'.s = op.s + 1 /\ op'.n = op.n /\ op'.row = <<a.pos>>
                      /\ Sent(op.s + 1, ToTruncate(op.n)) /\ Others({op.s, op.s + 1})
                   \/ /\ IsLength(a) /\ a.pos \in Nat /\ (op.s = 1 \/ op.row = <<a.pos>>) /\ op.s = Last
                      /\ op' = Done(TRUE, a.pos, <<>>)
                      /\ session'.at = "loaded" /\ session'.gen = session.gen /\ session'.len = a.pos
                      /\ session'.torn = session.torn
                      /\ Others({op.s})
                   \/ /\ op' = Failed /\ UNCHANGED session /\ Others({op.s})
<1>1. op.is = "cut" /\ UNCHANGED <<link, task, stage, spoilt, pipe, llm, calls>>
  BY DEF CutBack, AtTheWorkers, workerVars
<1>2. op.s \in Workers /\ session.at = "loaded" /\ op.n \in Nat /\ op \in Ops /\ session \in Sessions
  BY <1>1, WhoIsAsked, InACall DEF Ops
<1>3. PICK a \in Answers(op.s) :
           /\ Comes(op.s, a)
           /\ IF IsLength(a) /\ (op.s = 1 \/ op.row = <<a.pos>>)
              THEN IF op.s < Last
                   THEN /\ Ask(op.s + 1, ToTruncate(op.n))
                        /\ op' = [op EXCEPT !.s = @ + 1, !.row = <<a.pos>>]
                        /\ UNCHANGED session
                   ELSE /\ op' = Done(TRUE, a.pos, <<>>)
                        /\ session' = [session EXCEPT !.len = a.pos]
                        /\ UNCHANGED up
              ELSE op' = Failed /\ UNCHANGED <<up, session>>
  BY DEF CutBack
<1>4. op.s \in 1..Last /\ Last \in Nat
  BY <1>2, SomeWorkers
<1>5. a.pos \in Nat
  <2>1. a \in Answer \/ a = NoAnswer
    BY <1>2, <1>3, ComesTyped DEF Typed
  <2> QED
    BY <2>1 DEF Answer, NoAnswer, Plain, Frame
<1>6. CASE IsLength(a) /\ (op.s = 1 \/ op.row = <<a.pos>>) /\ op.s < Last
  <2>1. op.s + 1 \in Workers /\ op.s # op.s + 1 /\ op.s + 1 \in 0..Last
    BY <1>4, <1>6, SomeWorkers
  <2>2. Ask(op.s + 1, ToTruncate(op.n)) /\ UNCHANGED session /\ op' = [op EXCEPT !.s = op.s + 1, !.row = <<a.pos>>]
    BY <1>3, <1>6
  <2>3. Got(op.s, a) /\ Sent(op.s + 1, ToTruncate(op.n)) /\ Others({op.s, op.s + 1}) /\ mishaps' \in {mishaps, mishaps + 1}
    BY <1>2, <1>3, <2>1, <2>2, HearsAndAsks, SessionFrames
  <2>4. op' \in Ops /\ op'.is = "cut" /\ op'.s = op.s + 1 /\ op'.n = op.n /\ op'.row = <<a.pos>>
    <3>1. op' = [op EXCEPT !.s = op.s + 1, !.row = <<a.pos>>] /\ op \in Ops /\ op.is = "cut"
      BY <1>1, <1>2, <2>2
    <3>2. <<a.pos>> \in Seq(Nat)
      BY <1>5
    <3> QED
      BY <2>1, <3>1, <3>2 DEF Ops
  <2> QED
    BY <1>1, <1>2, <1>5, <1>6, <2>1, <2>2, <2>3, <2>4 DEF Beside
<1>7. CASE IsLength(a) /\ (op.s = 1 \/ op.row = <<a.pos>>) /\ ~(op.s < Last)
  <2>1. op.s = Last
    BY <1>4, <1>7
  <2>2. op' = Done(TRUE, a.pos, <<>>) /\ session' = [session EXCEPT !.len = a.pos] /\ UNCHANGED up
    BY <1>3, <1>7
  <2>3. Got(op.s, a) /\ Others({op.s}) /\ mishaps' \in {mishaps, mishaps + 1}
    BY <1>2, <1>3, <2>2, Hears1
  <2>4. session'.at = "loaded" /\ session'.gen = session.gen /\ session'.len = a.pos /\ session'.torn = session.torn
    BY <1>2, <2>2 DEF Sessions
  <2> QED
    BY <1>1, <1>2, <1>5, <1>7, <2>1, <2>2, <2>3, <2>4 DEF Beside
<1>8. CASE ~(IsLength(a) /\ (op.s = 1 \/ op.row = <<a.pos>>))
  <2>1. op' = Failed /\ UNCHANGED <<up, session>>
    BY <1>3, <1>8
  <2>2. Got(op.s, a) /\ Others({op.s}) /\ mishaps' \in {mishaps, mishaps + 1}
    BY <1>2, <1>3, <2>1, Hears1
  <2> QED
    BY <1>1, <1>2, <2>1, <2>2 DEF Beside
<1> QED
  BY <1>6, <1>7, <1>8

LEMMA NextSpendParts ==
    ASSUME Typed, NextSpend
    PROVE  /\ Stays /\ session.at = "loaded" /\ op.is = "post" /\ UNCHANGED mishaps
           /\ op' \in Ops /\ op'.n = op.n /\ op'.row = op.row /\ op'.ok = op.ok
           /\ \/ op'.is = "spend" /\ op'.s \in Workers /\ Sent(op'.s, Plain("spend")) /\ Others({op'.s})
              \/ op'.is = "done" /\ Others({})
<1>1. /\ op.is = "post"
      /\ IF op.s < Last
         THEN Ask(op.s + 1, Plain("spend")) /\ op' = [op EXCEPT !.is = "spend", !.s = op.s + 1]
         ELSE op' = [op EXCEPT !.is = "done", !.s = 0] /\ UNCHANGED up
      /\ UNCHANGED <<link, task, stage, spoilt, down, late, session, pipe, llm, calls, mishaps>>
  BY DEF NextSpend, AtTheWorkers, workerVars, Smoothly
<1>2. session.at = "loaded" /\ op \in Ops
  BY <1>1, InACall
<1>3. op.s \in 0..Last /\ Last \in Nat
  BY <1>2, SomeWorkers DEF Ops
<1>4. CASE op.s < Last
  <2>1. op.s + 1 \in Workers /\ op.s + 1 \in 0..Last
    BY <1>3, <1>4, SomeWorkers
  <2>2. op' \in Ops /\ op'.n = op.n /\ op'.row = op.row /\ op'.ok = op.ok /\ op'.is = "spend" /\ op'.s = op.s + 1
    BY <1>1, <1>2, <1>4, <2>1 DEF Ops
  <2>3. Sent(op.s + 1, Plain("spend")) /\ Others({op.s + 1})
    BY <1>1, <1>2, <1>4, <2>1, Asks1, SessionFrames
  <2> QED
    BY <1>1, <1>2, <2>1, <2>2, <2>3 DEF Stays, Beside
<1>5. CASE ~(op.s < Last)
  <2>1. op' \in Ops /\ op'.n = op.n /\ op'.row = op.row /\ op'.ok = op.ok /\ op'.is = "done"
    <3>1. op' = [op EXCEPT !.is = "done", !.s = 0] /\ op \in Ops /\ 0 \in 0..Last
      BY <1>1, <1>2, <1>3, <1>5
    <3> QED
      BY <3>1 DEF Ops
  <2> QED
    BY <1>1, <1>2, <1>5, <2>1 DEF Stays, Beside, Others, Elsewhere, Same
<1> QED
  BY <1>4, <1>5

LEMMA SpentParts ==
    ASSUME Typed, Spent
    PROVE  /\ Stays /\ session.at = "loaded" /\ op.is = "spend" /\ op.s \in Workers /\ mishaps' \in {mishaps, mishaps + 1}
           /\ op' \in Ops /\ op'.n = op.n /\ op'.row = op.row /\ op'.ok = op.ok /\ op'.is = "post"
           /\ \E a \in Answers(op.s) : Got(op.s, a) /\ Others({op.s})
<1>1. op.is = "spend" /\ UNCHANGED <<link, task, stage, spoilt, up, session, pipe, llm, calls>> /\ op' = [op EXCEPT !.is = "post"]
  BY DEF Spent, AtTheWorkers, workerVars
<1>2. op.s \in Workers /\ session.at = "loaded" /\ op \in Ops
  BY <1>1, WhoIsAsked, InACall
<1>3. PICK a \in Answers(op.s) : Comes(op.s, a)
  BY DEF Spent
<1>4. Got(op.s, a) /\ Others({op.s}) /\ mishaps' \in {mishaps, mishaps + 1}
  BY <1>1, <1>2, <1>3, Hears1
<1>5. op' \in Ops /\ op'.n = op.n /\ op'.row = op.row /\ op'.ok = op.ok /\ op'.is = "post"
  BY <1>1, <1>2 DEF Ops
<1> QED
  BY <1>1, <1>2, <1>4, <1>5 DEF Stays, Beside

LEMMA StartPassParts ==
    ASSUME Typed, StartPass
    PROVE  /\ Stays /\ session.at = "loaded" /\ op.is = "start" /\ ~session.torn /\ UNCHANGED mishaps
           /\ op.then = "forward" /\ op.n = session.len + 1 /\ op.n <= Len(llm.ids)
           /\ op' \in Ops /\ op'.is = "pass" /\ op'.s = 1 /\ op'.n = op.n
           /\ Rows(SubSeq(llm.ids, 1, session.len + 1)) \in Asked
           /\ Sent(1, Rows(SubSeq(llm.ids, 1, session.len + 1))) /\ Others({1})
<1> DEFINE row == SubSeq(llm.ids, 1, session.len + 1)
<1>1. /\ op.is = "start" /\ ~session.torn /\ Ask(1, Rows(row)) /\ op' = [op EXCEPT !.is = "pass", !.s = 1]
      /\ op.then = "forward" /\ op.n - session.len = 1
      /\ UNCHANGED <<link, task, stage, spoilt, down, late, session, pipe, llm, calls, mishaps>>
  BY DEF StartPass, AtTheWorkers, workerVars, Smoothly
<1>2. session.at = "loaded" /\ op \in Ops /\ session.len \in Nat
  BY <1>1, InACall
<1>3. op.n = session.len + 1
  BY <1>1, <1>2 DEF Ops
<1>4. op.n <= Len(llm.ids) /\ llm.ids \in Seq(Nat)
  <2>1. llm.at \in {"read", "feed"}
    BY <1>1, LlmFacts DEF Typed, Course, CourseOfOp, Llms
  <2> QED
    BY <1>1, <2>1, LlmFacts DEF Typed, Course, CourseOfOp
<1>5. Rows(row) \in Asked
  BY <1>2, <1>3, <1>4, RightTyped, SessionFrames
<1>6. 1 \in Workers /\ 1 \in 0..Last
  BY SomeWorkers
<1>7. op' \in Ops /\ op'.is = "pass" /\ op'.s = 1 /\ op'.n = op.n
  BY <1>1, <1>2, <1>6 DEF Ops
<1>8. Sent(1, Rows(row)) /\ Others({1})
  BY <1>1, <1>2, <1>5, <1>6, Asks1
<1> QED
  BY <1>1, <1>2, <1>3, <1>4, <1>5, <1>7, <1>8 DEF Stays, Beside

\* A call of forward that fails, at once or after what was spent is asked.
LEMMA PostOf ==
    ASSUME NEW result \in Ops, result.is = "done", Post(result)
    PROVE  /\ op' \in Ops /\ op'.is \in {"done", "post"} /\ op'.ok = result.ok /\ op'.n = result.n /\ op'.row = result.row
<1>1. 0 \in 0..Last
  BY SomeWorkers
<1> QED
  BY <1>1 DEF Post, Ops

LEMMA PassParts ==
    ASSUME Typed, Pass
    PROVE  /\ Beside /\ session.at = "loaded" /\ op.is = "pass" /\ op.s \in Workers /\ mishaps' \in {mishaps, mishaps + 1}
           /\ \E a \in Answers(op.s) :
                /\ Got(op.s, a)
                /\ \/ /\ IsRows(a, session.len) /\ op.s + 1 \in Workers /\ UNCHANGED session
                      /\ op' \in Ops /\ op'.is = "pass" /\ op'.s = op.s + 1 /\ op'.n = op.n
                      /\ a.row \in Pieces /\ Rows(a.row) \in Asked /\ Sent(op.s + 1, Rows(a.row)) /\ Others({op.s, op.s + 1})
                   \/ /\ IsRows(a, session.len) /\ op.s = Last
                      /\ op' \in Ops /\ op'.is \in {"done", "post"} /\ op'.ok /\ op'.n = op.n /\ op'.row = a.row
                      /\ session'.at = "loaded" /\ session'.gen = session.gen /\ session'.len = session.len + 1
                      /\ ~session'.torn
                      /\ Others({op.s})
                   \/ /\ ~IsRows(a, session.len)
                      /\ op' \in Ops /\ op'.is \in {"done", "post"} /\ ~op'.ok
                      /\ session'.at = "loaded" /\ session'.gen = session.gen /\ session'.len = session.len
                      /\ session'.torn
                      /\ Others({op.s})
<1>1. op.is = "pass" /\ UNCHANGED <<link, task, stage, spoilt, pipe, llm, calls>>
  BY DEF Pass, AtTheWorkers, workerVars
<1>2. op.s \in Workers /\ session.at = "loaded" /\ op.n \in Nat /\ op \in Ops /\ session \in Sessions /\ session.len \in Nat
  BY <1>1, WhoIsAsked, InACall DEF Ops
<1>3. PICK a \in Answers(op.s) :
           /\ Comes(op.s, a)
           /\ IF IsRows(a, session.len)
              THEN IF op.s < Last
                   THEN /\ Ask(op.s + 1, Rows(a.row))
                        /\ op' = [op EXCEPT !.s = @ + 1]
                        /\ UNCHANGED session
                   ELSE /\ Post(Done(TRUE, op.n, a.row))
                        /\ session' = [session EXCEPT !.len = @ + 1, !.torn = Torn(FALSE)]
                        /\ UNCHANGED up
              ELSE /\ Post(Failed)
                   /\ session' = [session EXCEPT !.torn = Torn(TRUE)]
                   /\ UNCHANGED up
  BY DEF Pass
<1>4. op.s \in 1..Last /\ Last \in Nat
  BY <1>2, SomeWorkers
<1>5. a \in Answer \/ a = NoAnswer
  BY <1>2, <1>3, ComesTyped DEF Typed
<1>6. ASSUME IsRows(a, session.len) PROVE a.row \in Pieces /\ a.row \in Seq(Nat) /\ Rows(a.row) \in Asked
  <2>1. a \in Answer /\ a.kind = "hidden" /\ a.pos = session.len
    BY <1>5, <1>6 DEF IsRows, NoAnswer, Plain, Frame
  <2>2. a.row \in Seq(Nat) /\ Len(a.row) = session.len + 1
    BY <2>1 DEF Answer
  <2>3. a.row # <<>>
    BY <1>2, <2>2
  <2> QED
    BY <2>2, <2>3, SessionFrames DEF Pieces
<1>7. CASE IsRows(a, session.len) /\ op.s < Last
  <2>1. op.s + 1 \in Workers /\ op.s # op.s + 1 /\ op.s + 1 \in 0..Last
    BY <1>4, <1>7, SomeWorkers
  <2>2. Ask(op.s + 1, Rows(a.row)) /\ UNCHANGED session /\ op' = [op EXCEPT !.s = op.s + 1]
    BY <1>3, <1>7
  <2>3. Got(op.s, a) /\ Sent(op.s + 1, Rows(a.row)) /\ Others({op.s, op.s + 1}) /\ mishaps' \in {mishaps, mishaps + 1}
    BY <1>2, <1>3, <1>6, <1>7, <2>1, <2>2, HearsAndAsks
  <2>4. op' \in Ops /\ op'.is = "pass" /\ op'.s = op.s + 1 /\ op'.n = op.n
    BY <1>1, <1>2, <2>1, <2>2 DEF Ops
  <2> QED
    BY <1>1, <1>2, <1>6, <1>7, <2>1, <2>2, <2>3, <2>4 DEF Beside
<1>8. CASE IsRows(a, session.len) /\ ~(op.s < Last)
  <2>1. op.s = Last
    BY <1>4, <1>8
  <2>2. Post(Done(TRUE, op.n, a.row)) /\ session' = [session EXCEPT !.len = session.len + 1, !.torn = FALSE] /\ UNCHANGED up
    BY <1>3, <1>8 DEF Torn
  <2>3. Got(op.s, a) /\ Others({op.s}) /\ mishaps' \in {mishaps, mishaps + 1}
    BY <1>2, <1>3, <2>2, Hears1
  <2>4. session'.at = "loaded" /\ session'.gen = session.gen /\ session'.len = session.len + 1 /\ ~session'.torn
    BY <1>2, <2>2 DEF Sessions
  <2>5. op' \in Ops /\ op'.is \in {"done", "post"} /\ op'.ok = TRUE /\ op'.n = op.n /\ op'.row = a.row
    <3>1. Done(TRUE, op.n, a.row) \in Ops
      BY <1>2, <1>6, <1>8, DoneTyped
    <3>2. /\ Done(TRUE, op.n, a.row).is = "done" /\ Done(TRUE, op.n, a.row).ok = TRUE
          /\ Done(TRUE, op.n, a.row).n = op.n /\ Done(TRUE, op.n, a.row).row = a.row
      BY DEF Done, NoOp
    <3> QED
      BY <2>2, <3>1, <3>2, PostOf
  <2> QED
    BY <1>1, <1>2, <1>8, <2>1, <2>3, <2>4, <2>5 DEF Beside
<1>9. CASE ~IsRows(a, session.len)
  <2>1. Post(Failed) /\ session' = [session EXCEPT !.torn = TRUE] /\ UNCHANGED up
    BY <1>3, <1>9 DEF Torn
  <2>2. Got(op.s, a) /\ Others({op.s}) /\ mishaps' \in {mishaps, mishaps + 1}
    BY <1>2, <1>3, <2>1, Hears1
  <2>3. session'.at = "loaded" /\ session'.gen = session.gen /\ session'.len = session.len /\ session'.torn
    BY <1>2, <2>1 DEF Sessions
  <2>4. op' \in Ops /\ op'.is \in {"done", "post"} /\ op'.ok = FALSE
    <3>1. Failed.is = "done" /\ Failed.ok = FALSE
      BY DEF Failed, Done, NoOp
    <3> QED
      BY <2>1, <3>1, FailedTyped, PostOf
  <2> QED
    BY <1>1, <1>2, <1>9, <2>2, <2>3, <2>4 DEF Beside
<1> QED
  BY <1>7, <1>8, <1>9

-----------------------------------------------------------------------------

\* Answers that may be on their way: of what is asked now, and those of before
\* that came too late.
Due(s) == late[s] + (IF Waits(s) THEN 1 ELSE 0)

\* A worker that is asked for layers, once.
Greets(c) ==
    \/ task[c] = "listens" /\ up[c] = <<Plain("load")>> /\ down[c] = <<>>
    \/ task[c] = "loads" /\ up[c] = <<>> /\ down[c] = <<>>
    \/ task[c] = "listens" /\ up[c] = <<>> /\ down[c] = <<Plain("ready")>> /\ stage[c] = Empty
    \/ task[c] = "listens" /\ up[c] = <<>> /\ down[c] = <<Plain("error")>>

\* What is between the session and each of its stages.
Line(s) ==
    /\ late[s] <= mishaps
    /\ session.at # "none" => link[Conn(s)] \in {"up", "cut"}
    /\ session.at # "loaded" => late[s] = 0
    /\ session.at = "loading" => Len(down[Conn(s)]) <= 1 /\ (Up(s) => Greets(Conn(s)))
    /\ session.at = "loaded" =>
          /\ Len(down[Conn(s)]) <= Due(s)
          /\ Up(s) => /\ Len(down[Conn(s)]) + Len(up[Conn(s)]) = Due(s)
                      /\ task[Conn(s)] = "listens" /\ Held(s) # NoStage
                      /\ \A i \in DOMAIN up[Conn(s)] : up[Conn(s)][i].kind # "load"

\* A connection that nobody has had.
Untouched(c) == link[c] = "none" /\ up[c] = <<>> /\ down[c] = <<>> /\ task[c] = "none"
\* And on each connection, those of other loads and of the other coordinator
\* among them.
Wire(c) ==
    /\ Len(up[c]) <= 1 + mishaps /\ Len(down[c]) <= 1 + mishaps
    /\ c[2] > session.gen => Untouched(c)
    /\ c[2] = Rival => /\ link[c] = "none" => Untouched(c)
                       /\ Len(up[c]) + Len(down[c]) + (IF task[c] = "loads" THEN 1 ELSE 0) <= 1
    /\ c[2] \in 1..session.gen /\ (c[2] < session.gen \/ session.at = "none") => link[c] = "left"
Lined == (\A s \in Workers : Line(s)) /\ (\A c \in Connections : Wire(c))

-----------------------------------------------------------------------------

\* What a queue loses and gains.
LEMMA Lengths ==
    /\ \A S, q : q \in Seq(S) => Len(q) \in Nat /\ (q # <<>> => Len(q) > 0 /\ Len(Tail(q)) = Len(q) - 1)
    /\ \A S, q, f : q \in Seq(S) /\ f \in S => Append(q, f) \in Seq(S) /\ Len(Append(q, f)) = Len(q) + 1
    /\ Len(<<>>) = 0
BY EmptySeq, LenProperties, HeadTailProperties, AppendProperties

\* A connection is of the load there is, of one before it or after, or the
\* other coordinator's.
LEMMA WhoseConnection ==
    ASSUME Typed, NEW c \in Connections
    PROVE  /\ c[2] \in Nat /\ session.gen \in Nat /\ Rival = 0
           /\ c[2] = Rival => c[2] # session.gen \/ session.gen = 0
           /\ c[2] # Rival => c[2] \in 1..MaxLoads
           /\ c[2] # Rival /\ c[2] = session.gen => \E s \in Workers : c = Conn(s)
           /\ session.at # "none" => session.gen > 0 /\ (c[2] = session.gen <=> c \in OurConns)
<1>1. session.gen \in Nat /\ (session.at # "none" => session.gen > 0)
  BY WorkerAssumption DEF Typed, CallsTyped, Sessions, Course, CourseOfLoad
<1>2. CASE c \in Workers \X (1..MaxLoads)
  BY <1>1, <1>2, WorkerAssumption DEF Rival, Conn, OurConns
<1>3. CASE c \in Contested \X {Rival}
  BY <1>1, <1>3 DEF Rival, Conn, OurConns
<1> QED
  BY <1>2, <1>3 DEF Connections

\* A stage that is asked, heard of, or let be, by a call.
Moves(s) ==
    \/ Same(s) /\ (Waits(s)' <=> Waits(s))
    \/ ~Waits(s) /\ Waits(s)' /\ \E f \in Asked : f.kind # "load" /\ Sent(s, f)
    \/ Waits(s) /\ ~Waits(s)' /\ \E a : Got(s, a)

\* What a step of the session does on a stage's connection keeps its line: what is
\* asked makes an answer due, and an answer given up comes late.
LEMMA LineMoves ==
    ASSUME Typed, Typed', Lined, session.at = "loaded", session'.at = "loaded", session'.gen = session.gen,
           mishaps' \in {mishaps, mishaps + 1}, UNCHANGED <<link, task, stage>>,
           NEW s \in Workers, Moves(s)
    PROVE  /\ Line(s)' /\ (~Up(s) => up'[Conn(s)] = up[Conn(s)])
<1> DEFINE c == Conn(s)
<1>1. /\ c \in Connections /\ up[c] \in Seq(Asked) /\ down[c] \in Seq(Answer) /\ late[s] \in Nat /\ mishaps \in Nat
      /\ Conn(s)' = c
      /\ up \in [Connections -> Seq(Asked)] /\ up' \in [Connections -> Seq(Asked)]
      /\ down \in [Connections -> Seq(Answer)] /\ down' \in [Connections -> Seq(Answer)]
  BY OurConnections DEF Typed, WiresTyped, CallsTyped, Conn
<1>2. Line(s)
  BY DEF Lined
<1>3. /\ link[c] \in {"up", "cut"} /\ late[s] <= mishaps /\ Len(down[c]) <= Due(s)
      /\ Up(s) => Len(down[c]) + Len(up[c]) = Due(s) /\ task[c] = "listens" /\ stage[c] # NoStage
                    /\ \A i \in DOMAIN up[c] : up[c][i].kind # "load"
  BY <1>2 DEF Line, Held
<1>4. /\ Waits(s) => Due(s) = late[s] + 1
      /\ ~Waits(s) => Due(s) = late[s]
      /\ Waits(s)' => Due(s)' = late'[s] + 1
      /\ ~Waits(s)' => Due(s)' = late'[s]
      /\ Due(s) \in Nat /\ Due(s)' \in Nat
  <2>1. late[s] \in Nat /\ late'[s] \in Nat
    BY DEF Typed, CallsTyped
  <2> QED
    BY <2>1 DEF Due
<1>5. Up(s)' <=> Up(s)
  BY <1>1 DEF Up
<1>6. Len(up[c]) \in Nat /\ Len(down[c]) \in Nat
  BY <1>1, Lengths
<1> SUFFICES /\ late'[s] <= mishaps' /\ Len(down'[c]) <= Due(s)'
             /\ Up(s) => Len(down'[c]) + Len(up'[c]) = Due(s)' /\ \A i \in DOMAIN up'[c] : up'[c][i].kind # "load"
             /\ ~Up(s) => up'[c] = up[c]
  BY <1>1, <1>3, <1>5 DEF Line, Held
<1> HIDE DEF c
<1>7. CASE Same(s) /\ (Waits(s)' <=> Waits(s))
  <2>1. up'[c] = up[c] /\ down'[c] = down[c] /\ late'[s] = late[s]
    BY <1>7 DEF Same, c
  <2>2. Due(s)' = Due(s)
    BY <1>4, <1>7, <2>1
  <2>3. late'[s] <= mishaps'
    BY <1>1, <1>3, <2>1
  <2> QED
    BY <1>3, <2>1, <2>2, <2>3
<1>8. ASSUME ~Waits(s), Waits(s)', NEW f \in Asked, f.kind # "load", Sent(s, f)
      PROVE  /\ late'[s] <= mishaps' /\ Len(down'[c]) <= Due(s)'
             /\ Up(s) => Len(down'[c]) + Len(up'[c]) = Due(s)' /\ \A i \in DOMAIN up'[c] : up'[c][i].kind # "load"
             /\ ~Up(s) => up'[c] = up[c]
  <2>1. /\ up'[c] = IF Up(s) THEN Append(up[c], f) ELSE up[c]
        /\ down'[c] = down[c] /\ late'[s] = late[s]
    BY <1>8 DEF Sent, c
  <2>2. Len(Append(up[c], f)) = Len(up[c]) + 1
    BY <1>1, Lengths
  <2>3. (\A i \in DOMAIN up[c] : up[c][i].kind # "load") => \A i \in DOMAIN Append(up[c], f) : Append(up[c], f)[i].kind # "load"
    <3>1. DOMAIN Append(up[c], f) = 1..(Len(up[c]) + 1) /\ DOMAIN up[c] = 1..Len(up[c])
      BY <1>1
    <3>2. \A i \in 1..Len(up[c]) : Append(up[c], f)[i] = up[c][i]
      BY <1>1
    <3>3. Append(up[c], f)[Len(up[c]) + 1] = f
      BY <1>1
    <3> QED
      BY <1>6, <1>8, <3>1, <3>2, <3>3
  <2>4. Due(s) = late[s] /\ Due(s)' = late[s] + 1
    BY <1>4, <1>8, <2>1
  <2>5. late'[s] <= mishaps' /\ Len(down'[c]) <= Due(s)'
    BY <1>1, <1>3, <1>6, <2>1, <2>4
  <2>6. CASE Up(s)
    BY <1>1, <1>3, <1>4, <1>6, <2>1, <2>2, <2>3, <2>4, <2>5, <2>6
  <2>7. CASE ~Up(s)
    BY <2>1, <2>5, <2>7
  <2> QED
    BY <2>6, <2>7
<1>9. ASSUME Waits(s), ~Waits(s)', NEW a, Got(s, a)
      PROVE  /\ late'[s] <= mishaps' /\ Len(down'[c]) <= Due(s)'
             /\ Up(s) => Len(down'[c]) + Len(up'[c]) = Due(s)' /\ \A i \in DOMAIN up'[c] : up'[c][i].kind # "load"
             /\ ~Up(s) => up'[c] = up[c]
  <2>1. /\ up'[c] = up[c]
        /\ \/ /\ down[c] # <<>> /\ down'[c] = Tail(down[c]) /\ late'[s] = late[s] /\ mishaps' = mishaps
           \/ /\ ~Up(s) /\ down'[c] = <<>> /\ late'[s] = late[s] /\ mishaps' = mishaps
           \/ /\ Up(s) /\ down[c] = <<>> /\ down'[c] = <<>> /\ late'[s] = late[s] + 1 /\ mishaps' = mishaps + 1
    BY <1>9 DEF Got, c
  <2>2. down[c] # <<>> => Len(Tail(down[c])) = Len(down[c]) - 1
    BY <1>1, Lengths
  <2>3. Len(<<>>) = 0
    OBVIOUS
  <2>4. Due(s) = late[s] + 1 /\ Due(s)' = late'[s]
    BY <1>4, <1>9
  <2>5. CASE down[c] # <<>> /\ down'[c] = Tail(down[c]) /\ late'[s] = late[s] /\ mishaps' = mishaps
    <3>1. late'[s] <= mishaps' /\ Len(down'[c]) <= Due(s)'
      BY <1>1, <1>3, <1>6, <2>2, <2>4, <2>5
    <3>2. Up(s) => Len(down'[c]) + Len(up'[c]) = Due(s)'
      <4>1. Len(down'[c]) = Len(down[c]) - 1 /\ Len(up'[c]) = Len(up[c])
        BY <2>1, <2>2, <2>5
      <4>2. Due(s)' = Due(s) - 1 /\ Due(s) \in Nat
        BY <1>1, <1>4, <2>4, <2>5
      <4>3. Up(s) => Len(down[c]) + Len(up[c]) = Due(s)
        BY <1>3
      <4>4. \A m, n, d, x, y, z : /\ m \in Nat /\ n \in Nat /\ d \in Nat /\ x = m - 1 /\ y = n /\ z = d - 1 /\ m + n = d
                                   => x + y = z
        OBVIOUS
      <4>5. Up(s) => Len(down'[c]) + Len(up'[c]) = Due(s)'
        <5> DEFINE x == Len(down'[c])
                   y == Len(up'[c])
                   z == Due(s)'
                   m == Len(down[c])
                   n == Len(up[c])
                   d == Due(s)
        <5>1. m \in Nat /\ n \in Nat /\ d \in Nat /\ x = m - 1 /\ y = n /\ z = d - 1 /\ (Up(s) => m + n = d)
          BY <1>6, <4>1, <4>2, <4>3
        <5>2. Up(s) => x + y = z
          <6> HIDE DEF x, y, z, m, n, d
          <6> QED
            BY <4>4, <5>1
        <5> QED
          BY <5>2
      <4> QED
        BY <4>5
    <3> QED
      BY <1>3, <2>1, <3>1, <3>2
  <2>6. CASE ~Up(s) /\ down'[c] = <<>> /\ late'[s] = late[s] /\ mishaps' = mishaps
    BY <1>1, <1>3, <2>1, <2>3, <2>4, <2>6
  <2>7. CASE Up(s) /\ down[c] = <<>> /\ down'[c] = <<>> /\ late'[s] = late[s] + 1 /\ mishaps' = mishaps + 1
    <3>1. late'[s] <= mishaps' /\ Len(down'[c]) <= Due(s)'
      BY <1>1, <1>3, <2>3, <2>4, <2>7
    <3>2. Len(down'[c]) + Len(up'[c]) = Due(s)'
      BY <1>1, <1>3, <1>6, <2>1, <2>3, <2>4, <2>7
    <3> QED
      BY <1>3, <2>1, <2>7, <3>1, <3>2
  <2> QED
    BY <2>1, <2>5, <2>6, <2>7
<1> QED
  BY <1>7, <1>8, <1>9 DEF Moves

\* A step of a call keeps what is between.
LEMMA LinedMoves ==
    ASSUME Typed, Typed', Lined, session.at = "loaded", session'.at = "loaded", session'.gen = session.gen,
           mishaps' \in {mishaps, mishaps + 1}, UNCHANGED <<link, task, stage>>, Elsewhere,
           \A s \in Workers : Moves(s)
    PROVE  Lined'
<1>1. \A s \in Workers : Line(s)' /\ (~Up(s) => up'[Conn(s)] = up[Conn(s)])
  BY LineMoves
<1>2. ASSUME NEW c \in Connections PROVE Wire(c)'
  <2>1. /\ Wire(c) /\ mishaps \in Nat
        /\ up \in [Connections -> Seq(Asked)] /\ up' \in [Connections -> Seq(Asked)]
        /\ down \in [Connections -> Seq(Answer)] /\ down' \in [Connections -> Seq(Answer)]
    BY DEF Lined, Typed, WiresTyped
  <2>2. CASE c \notin OurConns
    <3>1. up'[c] = up[c] /\ down'[c] = down[c]
      BY <2>2 DEF Elsewhere
    <3>2. Len(up[c]) \in Nat /\ Len(down[c]) \in Nat
      BY Lengths DEF Typed, WiresTyped
    <3>3. UNCHANGED <<link, task>> /\ session'.gen = session.gen /\ session.at = session'.at
      OBVIOUS
    <3> QED
      BY <2>1, <3>1, <3>2, <3>3 DEF Wire, Untouched
  <2>3. CASE c \in OurConns
    <3>1. PICK s \in Workers : c = Conn(s)
      BY <2>3 DEF OurConns
    <3>2. Line(s)' /\ Conn(s)' = c /\ (link[c] # "up" => up'[c] = up[c])
      BY <1>1, <3>1 DEF Conn, Up
    <3>3. /\ Len(down'[c]) <= Due(s)' /\ late'[s] <= mishaps'
          /\ link'[c] = "up" => Len(down'[c]) + Len(up'[c]) = Due(s)'
      BY <3>2 DEF Line, Up
    <3>4. Due(s)' <= 1 + mishaps'
      <4>1. late'[s] \in Nat /\ mishaps' \in Nat
        BY DEF Typed, CallsTyped, WiresTyped
      <4> QED
        BY <3>3, <4>1 DEF Due
    <3>5. Len(up'[c]) \in Nat /\ Len(down'[c]) \in Nat /\ Len(up[c]) \in Nat /\ mishaps' \in Nat /\ mishaps' >= mishaps /\ Due(s)' \in Nat
      <4>1. Due(s)' \in Nat
        BY DEF Due, Typed, CallsTyped
      <4>2. mishaps \in Nat
        BY DEF Typed, WiresTyped
      <4> QED
        BY <4>1, <4>2, Lengths DEF Typed, WiresTyped
    <3>6. Len(up'[c]) <= 1 + mishaps' /\ Len(down'[c]) <= 1 + mishaps'
      <4>1. CASE link[c] = "up"
        BY <2>1, <3>3, <3>4, <3>5, <4>1
      <4>2. CASE link[c] # "up"
        <5>1. up'[c] = up[c] /\ Len(up[c]) <= 1 + mishaps
          BY <2>1, <3>2, <4>2 DEF Wire
        <5> QED
          BY <2>1, <3>3, <3>4, <3>5, <5>1
      <4> QED
        BY <4>1, <4>2
    <3>7. c[2] = session'.gen /\ session'.gen > 0 /\ session'.gen \in Nat /\ c[2] # Rival
      BY <2>3, WhoseConnection
    <3> QED
      BY <2>1, <3>6, <3>7 DEF Wire
  <2> QED
    BY <2>2, <2>3
<1> QED
  BY <1>1, <1>2 DEF Lined

-----------------------------------------------------------------------------

\* A step of a call, as the stages see it.
Moved ==
    /\ session.at = "loaded" /\ session'.at = "loaded" /\ session'.gen = session.gen
    /\ mishaps' \in {mishaps, mishaps + 1} /\ UNCHANGED <<link, task, stage>>
    /\ Elsewhere /\ \A s \in Workers : Moves(s)

\* What is asked of a stage that is loaded is never to load.
LEMMA Kinds ==
    /\ \A n \in Nat : ToTruncate(n).kind = "truncate" /\ ToTruncate(n).pos = n
    /\ \A row \in Pieces : Rows(row).kind = "forward" /\ Rows(row).pos = Len(row) - 1 /\ Rows(row).row = row
    /\ Plain("spend").kind = "spend"
BY DEF ToTruncate, Rows, Plain, Frame

LEMMA MovedStartMend == Typed /\ StartMend => Moved
<1> SUFFICES ASSUME Typed, StartMend PROVE Moved
  OBVIOUS
<1>1. /\ Stays /\ session.at = "loaded" /\ op.is = "start" /\ UNCHANGED mishaps
      /\ op'.is = "mend" /\ op'.s = 1 /\ Sent(1, ToTruncate(session.len)) /\ Others({1})
  BY StartMendParts
<1>2. ToTruncate(session.len) \in Asked /\ ToTruncate(session.len).kind # "load"
  BY <1>1, InACall, SessionFrames, Kinds
<1>3. ASSUME NEW s \in Workers PROVE Moves(s)
  <2>1. ~Waits(s) /\ (Waits(s)' <=> s = 1)
    BY <1>1 DEF Waits
  <2>2. CASE s = 1
    BY <1>1, <1>2, <2>1, <2>2 DEF Moves
  <2>3. CASE s # 1
    BY <1>1, <2>1, <2>3 DEF Moves, Others
  <2> QED
    BY <2>2, <2>3
<1> QED
  BY <1>1, <1>3 DEF Moved, Stays, Beside, Others

LEMMA MovedMend == Typed /\ Mend => Moved
<1> SUFFICES ASSUME Typed, Mend PROVE Moved
  OBVIOUS
<1>1. Beside /\ session.at = "loaded" /\ op.is = "mend" /\ op.s \in Workers /\ mishaps' \in {mishaps, mishaps + 1}
  BY MendParts
<1>2. PICK a \in Answers(op.s) :
        /\ Got(op.s, a)
        /\ \/ /\ IsLength(a) /\ a.pos = session.len /\ op.s + 1 \in Workers /\ UNCHANGED session
              /\ op' \in Ops /\ op'.is = "mend" /\ op'.s = op.s + 1 /\ op'.n = op.n /\ op'.row = op.row
              /\ Sent(op.s + 1, ToTruncate(session.len)) /\ Others({op.s, op.s + 1})
           \/ /\ IsLength(a) /\ a.pos = session.len /\ op.s = Last
              /\ op' \in Ops /\ op'.is = "start" /\ op'.n = op.n /\ op'.row = op.row
              /\ session'.at = "loaded" /\ session'.gen = session.gen /\ session'.len = session.len /\ ~session'.torn
              /\ Others({op.s})
           \/ /\ op' = Failed /\ UNCHANGED session /\ Others({op.s})
  BY MendParts
<1>3. ToTruncate(session.len) \in Asked /\ ToTruncate(session.len).kind # "load"
  BY <1>1, InACall, SessionFrames, Kinds
<1>4. Failed.is = "done"
  BY DEF Failed, Done, NoOp
<1>5. ASSUME NEW s \in Workers PROVE Moves(s)
  <2>1. Waits(s) <=> s = op.s
    BY <1>1 DEF Waits
  <2>2. CASE op'.is = "mend" /\ op'.s = op.s + 1 /\ Sent(op.s + 1, ToTruncate(session.len)) /\ Others({op.s, op.s + 1})
    <3>1. Waits(s)' <=> s = op.s + 1
      BY <2>2 DEF Waits
    <3>2. op.s # op.s + 1
      BY <1>1, SomeWorkers
    <3> QED
      BY <1>2, <1>3, <2>1, <2>2, <3>1, <3>2 DEF Moves, Others
  <2>3. CASE op'.is \in {"start", "done"} /\ Others({op.s})
    <3>1. ~Waits(s)'
      BY <2>3 DEF Waits
    <3> QED
      BY <1>2, <2>1, <2>3, <3>1 DEF Moves, Others
  <2> QED
    BY <1>2, <1>4, <2>2, <2>3
<1>6. Elsewhere /\ session'.at = "loaded" /\ session'.gen = session.gen
  BY <1>1, <1>2 DEF Others
<1> QED
  BY <1>1, <1>5, <1>6 DEF Moved, Beside

LEMMA MovedStartCut == Typed /\ StartCut => Moved
<1> SUFFICES ASSUME Typed, StartCut PROVE Moved
  OBVIOUS
<1>1. /\ Stays /\ session.at = "loaded" /\ op.is = "start" /\ UNCHANGED mishaps
      /\ op'.is = "cut" /\ op'.s = 1 /\ Sent(1, ToTruncate(op.n)) /\ Others({1})
  BY StartCutParts
<1>2. ToTruncate(op.n) \in Asked /\ ToTruncate(op.n).kind # "load"
  BY LlmFacts, SessionFrames, Kinds
<1>3. ASSUME NEW s \in Workers PROVE Moves(s)
  <2>1. ~Waits(s) /\ (Waits(s)' <=> s = 1)
    BY <1>1 DEF Waits
  <2>2. CASE s = 1
    BY <1>1, <1>2, <2>1, <2>2 DEF Moves
  <2>3. CASE s # 1
    BY <1>1, <2>1, <2>3 DEF Moves, Others
  <2> QED
    BY <2>2, <2>3
<1> QED
  BY <1>1, <1>3 DEF Moved, Stays, Beside, Others

LEMMA MovedCutNothing == Typed /\ CutNothing => Moved
<1> SUFFICES ASSUME Typed, CutNothing PROVE Moved
  OBVIOUS
<1>1. /\ Stays /\ session.at = "loaded" /\ op.is = "start" /\ UNCHANGED mishaps
      /\ op' = Done(TRUE, session.len, <<>>) /\ Others({})
  BY CutNothingParts
<1>2. op'.is = "done"
  BY <1>1 DEF Done, NoOp
<1>3. ASSUME NEW s \in Workers PROVE Moves(s)
  <2>1. ~Waits(s) /\ ~Waits(s)'
    BY <1>1, <1>2 DEF Waits
  <2> QED
    BY <1>1, <2>1 DEF Moves, Others
<1> QED
  BY <1>1, <1>3 DEF Moved, Stays, Beside, Others

LEMMA MovedCutBack == Typed /\ CutBack => Moved
<1> SUFFICES ASSUME Typed, CutBack PROVE Moved
  OBVIOUS
<1>1. Beside /\ session.at = "loaded" /\ op.is = "cut" /\ op.s \in Workers /\ mishaps' \in {mishaps, mishaps + 1}
  BY CutBackParts
<1>2. PICK a \in Answers(op.s) :
        /\ Got(op.s, a)
        /\ \/ /\ IsLength(a) /\ a.pos \in Nat /\ (op.s = 1 \/ op.row = <<a.pos>>) /\ op.s + 1 \in Workers /\ UNCHANGED session
              /\ op' \in Ops /\ op'.is = "cut" /\ op'.s = op.s + 1 /\ op'.n = op.n /\ op'.row = <<a.pos>>
              /\ Sent(op.s + 1, ToTruncate(op.n)) /\ Others({op.s, op.s + 1})
           \/ /\ IsLength(a) /\ a.pos \in Nat /\ (op.s = 1 \/ op.row = <<a.pos>>) /\ op.s = Last
              /\ op' = Done(TRUE, a.pos, <<>>)
              /\ session'.at = "loaded" /\ session'.gen = session.gen /\ session'.len = a.pos
              /\ session'.torn = session.torn
              /\ Others({op.s})
           \/ /\ op' = Failed /\ UNCHANGED session /\ Others({op.s})
  BY CutBackParts
<1>3. ToTruncate(op.n) \in Asked /\ ToTruncate(op.n).kind # "load"
  BY LlmFacts, SessionFrames, Kinds
<1>4. Failed.is = "done" /\ \A n : Done(TRUE, n, <<>>).is = "done"
  BY DEF Failed, Done, NoOp
<1>5. ASSUME NEW s \in Workers PROVE Moves(s)
  <2>1. Waits(s) <=> s = op.s
    BY <1>1 DEF Waits
  <2>2. CASE op'.is = "cut" /\ op'.s = op.s + 1 /\ Sent(op.s + 1, ToTruncate(op.n)) /\ Others({op.s, op.s + 1})
    <3>1. Waits(s)' <=> s = op.s + 1
      BY <2>2 DEF Waits
    <3>2. op.s # op.s + 1
      BY <1>1, SomeWorkers
    <3> QED
      BY <1>2, <1>3, <2>1, <2>2, <3>1, <3>2 DEF Moves, Others
  <2>3. CASE op'.is = "done" /\ Others({op.s})
    <3>1. ~Waits(s)'
      BY <2>3 DEF Waits
    <3> QED
      BY <1>2, <2>1, <2>3, <3>1 DEF Moves, Others
  <2> QED
    BY <1>2, <1>4, <2>2, <2>3
<1>6. Elsewhere /\ session'.at = "loaded" /\ session'.gen = session.gen
  BY <1>1, <1>2 DEF Others
<1> QED
  BY <1>1, <1>5, <1>6 DEF Moved, Beside

LEMMA MovedNextSpend == Typed /\ NextSpend => Moved
<1> SUFFICES ASSUME Typed, NextSpend PROVE Moved
  OBVIOUS
<1>1. /\ Stays /\ session.at = "loaded" /\ op.is = "post" /\ UNCHANGED mishaps
      /\ \/ op'.is = "spend" /\ op'.s \in Workers /\ Sent(op'.s, Plain("spend")) /\ Others({op'.s})
         \/ op'.is = "done" /\ Others({})
  BY NextSpendParts
<1>2. Plain("spend") \in Asked /\ Plain("spend").kind # "load"
  BY SessionFrames, Kinds
<1>3. ASSUME NEW s \in Workers PROVE Moves(s)
  <2>1. ~Waits(s)
    BY <1>1 DEF Waits
  <2>2. CASE op'.is = "spend" /\ Sent(op'.s, Plain("spend")) /\ Others({op'.s})
    <3>1. Waits(s)' <=> s = op'.s
      BY <2>2 DEF Waits
    <3> QED
      BY <1>2, <2>1, <2>2, <3>1 DEF Moves, Others
  <2>3. CASE op'.is = "done" /\ Others({})
    <3>1. ~Waits(s)'
      BY <2>3 DEF Waits
    <3> QED
      BY <2>1, <2>3, <3>1 DEF Moves, Others
  <2> QED
    BY <1>1, <2>2, <2>3
<1> QED
  BY <1>1, <1>3 DEF Moved, Stays, Beside, Others

LEMMA MovedSpent == Typed /\ Spent => Moved
<1> SUFFICES ASSUME Typed, Spent PROVE Moved
  OBVIOUS
<1>1. /\ Stays /\ session.at = "loaded" /\ op.is = "spend" /\ mishaps' \in {mishaps, mishaps + 1} /\ op'.is = "post"
      /\ \E a \in Answers(op.s) : Got(op.s, a) /\ Others({op.s})
  BY SpentParts
<1>2. ASSUME NEW s \in Workers PROVE Moves(s)
  <2>1. (Waits(s) <=> s = op.s) /\ ~Waits(s)'
    BY <1>1 DEF Waits
  <2> QED
    BY <1>1, <2>1 DEF Moves, Others
<1> QED
  BY <1>1, <1>2 DEF Moved, Stays, Beside, Others

LEMMA MovedStartPass == Typed /\ StartPass => Moved
<1> SUFFICES ASSUME Typed, StartPass PROVE Moved
  OBVIOUS
<1> DEFINE row == SubSeq(llm.ids, 1, session.len + 1)
<1>1. /\ Stays /\ session.at = "loaded" /\ op.is = "start" /\ UNCHANGED mishaps
      /\ op'.is = "pass" /\ op'.s = 1 /\ Rows(row) \in Asked /\ Sent(1, Rows(row)) /\ Others({1})
  BY StartPassParts
<1>2. Rows(row).kind # "load"
  BY DEF Rows, Frame
<1>3. ASSUME NEW s \in Workers PROVE Moves(s)
  <2>1. ~Waits(s) /\ (Waits(s)' <=> s = 1)
    BY <1>1 DEF Waits
  <2>2. CASE s = 1
    BY <1>1, <1>2, <2>1, <2>2 DEF Moves
  <2>3. CASE s # 1
    BY <1>1, <2>1, <2>3 DEF Moves, Others
  <2> QED
    BY <2>2, <2>3
<1> QED
  BY <1>1, <1>3 DEF Moved, Stays, Beside, Others

LEMMA MovedPass == Typed /\ Pass => Moved
<1> SUFFICES ASSUME Typed, Pass PROVE Moved
  OBVIOUS
<1>1. Beside /\ session.at = "loaded" /\ op.is = "pass" /\ op.s \in Workers /\ mishaps' \in {mishaps, mishaps + 1}
  BY PassParts
<1>2. PICK a \in Answers(op.s) :
        /\ Got(op.s, a) /\ session'.at = "loaded" /\ session'.gen = session.gen
        /\ \/ /\ op'.is = "pass" /\ op'.s = op.s + 1
              /\ Rows(a.row) \in Asked /\ Sent(op.s + 1, Rows(a.row)) /\ Others({op.s, op.s + 1})
           \/ op'.is \in {"done", "post"} /\ Others({op.s})
  BY <1>1, PassParts
<1>3. Rows(a.row).kind # "load"
  BY DEF Rows, Frame
<1>4. ASSUME NEW s \in Workers PROVE Moves(s)
  <2>1. Waits(s) <=> s = op.s
    BY <1>1 DEF Waits
  <2>2. CASE op'.is = "pass" /\ op'.s = op.s + 1 /\ Rows(a.row) \in Asked /\ Sent(op.s + 1, Rows(a.row)) /\ Others({op.s, op.s + 1})
    <3>1. Waits(s)' <=> s = op.s + 1
      BY <2>2 DEF Waits
    <3>2. op.s # op.s + 1
      BY <1>1, SomeWorkers
    <3> QED
      BY <1>2, <1>3, <2>1, <2>2, <3>1, <3>2 DEF Moves, Others
  <2>3. CASE op'.is \in {"done", "post"} /\ Others({op.s})
    <3>1. ~Waits(s)'
      BY <2>3 DEF Waits
    <3> QED
      BY <1>2, <2>1, <2>3, <3>1 DEF Moves, Others
  <2> QED
    BY <1>2, <2>2, <2>3
<1>5. Elsewhere
  BY <1>2 DEF Others
<1> QED
  BY <1>1, <1>2, <1>4, <1>5 DEF Moved, Beside

-----------------------------------------------------------------------------

\* A step of the pipe that says nothing to the workers, and after which the
\* same lanes wait.
LEMMA MovedQuietly ==
    ASSUME Typed, op.is = "pipe", Quietly, UNCHANGED <<link, workerVars>>,
           session'.at = session.at, session'.gen = session.gen,
           \A s \in Workers : Waits(s)' <=> Waits(s)
    PROVE  Moved
<1>1. session.at = "loaded"
  BY InACall
<1>2. UNCHANGED <<link, task, stage, up, down, late, mishaps>>
  BY DEF Quietly, workerVars, wire, Smoothly
<1> QED
  BY <1>1, <1>2 DEF Moved, Moves, Same, Elsewhere

\* What a lane does to who waits.
LEMMA WaitsOfLane ==
    ASSUME Typed, op.is = "pipe", NEW s \in Workers, NEW lane \in Lanes, NEW ch, NEW fault, LanesSet(s, lane, ch, fault), op' = op
    PROVE  \A t \in Workers : /\ Waits(t) <=> pipe.lane[t].at = "ask"
                              /\ Waits(t)' <=> IF t = s THEN lane.at = "ask" ELSE Waits(t)
<1>1. pipe.lane \in [Workers -> Lanes]
  BY PipeParts
<1>2. \A t \in Workers : pipe'.lane[t] = IF t = s THEN lane ELSE pipe.lane[t]
  BY <1>1 DEF LanesSet
<1> QED
  BY <1>2 DEF Waits

LEMMA MovedStartPipe == Typed /\ StartPipe => Moved
<1> SUFFICES ASSUME Typed, StartPipe PROVE Moved
  OBVIOUS
<1>1. /\ op.is = "start" /\ op' = [op EXCEPT !.is = "pipe"]
      /\ pipe'.lane = [s \in Workers |-> [at |-> "take", row |-> <<>>]]
      /\ UNCHANGED <<link, task, stage, up, down, late, mishaps, session>>
  BY DEF StartPipe, AtTheWorkers, workerVars, wire, Smoothly, NoPipe
<1>2. session.at = "loaded" /\ op \in Ops
  BY <1>1, InACall
<1>3. op'.is = "pipe"
  BY <1>1, <1>2 DEF Ops
<1>4. \A s \in Workers : ~Waits(s) /\ ~Waits(s)'
  BY <1>1, <1>3 DEF Waits
<1> QED
  BY <1>1, <1>2, <1>4 DEF Moved, Moves, Same, Elsewhere

LEMMA MovedFeed == Typed /\ (Feed \/ Drain) => Moved
<1> SUFFICES ASSUME Typed, Feed \/ Drain PROVE Moved
  OBVIOUS
<1>1. pipe'.lane = pipe.lane /\ op.is = "pipe" /\ UNCHANGED <<op, session, link, workerVars>> /\ Quietly
  BY FeedParts, DrainParts
<1>2. \A s \in Workers : Waits(s)' <=> Waits(s)
  BY <1>1 DEF Waits
<1> QED
  BY <1>1, <1>2, MovedQuietly

LEMMA MovedTake == ASSUME Typed, NEW s \in Workers, Take(s) PROVE Moved
<1> DEFINE row == pipe.ch[s][1]
           lane == [at |-> "ask", row |-> row]
<1>1. /\ op.is = "pipe" /\ UNCHANGED <<op, session, link, workerVars, down, late, mishaps>>
      /\ pipe.lane[s].at = "take" /\ row \in Pieces /\ Ask(s, Rows(row))
      /\ LanesSet(s, lane, [pipe.ch EXCEPT ![s] = <<>>], pipe.fault)
  BY TakeParts
<1>2. session.at = "loaded"
  BY <1>1, InACall
<1>3. Rows(row) \in Asked /\ Rows(row).kind # "load"
  BY <1>1, SessionFrames, Kinds
<1>4. Sent(s, Rows(row)) /\ Others({s})
  BY <1>1, <1>2, <1>3, Asks1
<1>5. lane \in Lanes /\ lane.at = "ask"
  BY <1>1 DEF Lanes, Pieces
<1> HIDE DEF row, lane
<1>6. \A t \in Workers : /\ Waits(t) <=> pipe.lane[t].at = "ask"
                         /\ Waits(t)' <=> IF t = s THEN lane.at = "ask" ELSE Waits(t)
  BY <1>1, <1>5, WaitsOfLane
<1>7. ~Waits(s) /\ Waits(s)'
  BY <1>1, <1>5, <1>6
<1>8. \A t \in Workers : Moves(t)
  BY <1>3, <1>4, <1>6, <1>7 DEF Moves, Others
<1>9. UNCHANGED <<link, task, stage, mishaps>> /\ session'.at = "loaded" /\ session'.gen = session.gen
  BY <1>1, <1>2 DEF workerVars
<1> QED
  BY <1>2, <1>4, <1>8, <1>9 DEF Moved, Others

LEMMA MovedNoMore == ASSUME Typed, NEW s \in Workers, NoMore(s) PROVE Moved
<1> DEFINE lane == [at |-> "over", row |-> pipe.lane[s].row]
<1>1. /\ op.is = "pipe" /\ UNCHANGED <<op, session, link, workerVars>> /\ Quietly
      /\ pipe.lane[s].at = "take" /\ LanesSet(s, lane, pipe.ch, pipe.fault)
  BY NoMoreParts
<1>2. lane \in Lanes /\ lane.at = "over"
  BY PipeParts DEF Lanes
<1> HIDE DEF lane
<1>3. \A t \in Workers : /\ Waits(t) <=> pipe.lane[t].at = "ask"
                         /\ Waits(t)' <=> IF t = s THEN lane.at = "ask" ELSE Waits(t)
  BY <1>1, <1>2, WaitsOfLane
<1>4. \A t \in Workers : Waits(t)' <=> Waits(t)
  BY <1>1, <1>2, <1>3
<1> QED
  BY <1>1, <1>4, MovedQuietly

LEMMA MovedHandOn == ASSUME Typed, NEW s \in Workers, HandOn(s) PROVE Moved
<1>1. /\ op.is = "pipe" /\ UNCHANGED <<op, session, link, workerVars>> /\ Quietly
      /\ pipe.lane[s].at = "send"
      /\ \E at \in {"over", "take"} : \E ch : LanesSet(s, [at |-> at, row |-> pipe.lane[s].row], ch, pipe.fault)
  BY HandOnParts
<1>2. PICK at \in {"over", "take"} : \E ch : LanesSet(s, [at |-> at, row |-> pipe.lane[s].row], ch, pipe.fault)
  BY <1>1
<1>3. PICK ch : LanesSet(s, [at |-> at, row |-> pipe.lane[s].row], ch, pipe.fault)
  BY <1>2
<1> DEFINE lane == [at |-> at, row |-> pipe.lane[s].row]
<1>4. lane \in Lanes /\ lane.at # "ask" /\ LanesSet(s, lane, ch, pipe.fault)
  BY <1>3, PipeParts DEF Lanes
<1> HIDE DEF lane
<1>5. \A t \in Workers : /\ Waits(t) <=> pipe.lane[t].at = "ask"
                         /\ Waits(t)' <=> IF t = s THEN lane.at = "ask" ELSE Waits(t)
  BY <1>1, <1>4, WaitsOfLane
<1>6. \A t \in Workers : Waits(t)' <=> Waits(t)
  BY <1>1, <1>4, <1>5
<1> QED
  BY <1>1, <1>6, MovedQuietly

LEMMA MovedHandBack == ASSUME Typed, NEW s \in Workers, HandBack(s) PROVE Moved
<1>1. /\ op.is = "pipe" /\ UNCHANGED <<op, session, link, workerVars, up>> /\ pipe.lane[s].at = "ask"
  BY HandBackParts
<1>2. PICK a \in Answers(s) :
        /\ Comes(s, a)
        /\ \/ /\ IsRows(a, Len(pipe.lane[s].row) - 1) /\ a.row \in Pieces
              /\ LanesSet(s, [at |-> "send", row |-> a.row], pipe.ch, pipe.fault)
           \/ /\ ~IsRows(a, Len(pipe.lane[s].row) - 1)
              /\ LanesSet(s, [at |-> "over", row |-> pipe.lane[s].row], [pipe.ch EXCEPT ![s] = <<>>], TRUE)
  BY HandBackParts
<1>3. session.at = "loaded"
  BY <1>1, InACall
<1>4. Got(s, a) /\ Others({s}) /\ mishaps' \in {mishaps, mishaps + 1}
  BY <1>1, <1>2, <1>3, Hears1
<1>5. \E lane \in Lanes : \E ch, fault : LanesSet(s, lane, ch, fault) /\ lane.at # "ask"
  <2>1. ASSUME a.row \in Pieces, LanesSet(s, [at |-> "send", row |-> a.row], pipe.ch, pipe.fault)
        PROVE  \E lane \in Lanes : \E ch, fault : LanesSet(s, lane, ch, fault) /\ lane.at # "ask"
    <3>1. [at |-> "send", row |-> a.row] \in Lanes
      BY <2>1 DEF Lanes, Pieces
    <3> QED
      BY <2>1, <3>1
  <2>2. ASSUME LanesSet(s, [at |-> "over", row |-> pipe.lane[s].row], [pipe.ch EXCEPT ![s] = <<>>], TRUE)
        PROVE  \E lane \in Lanes : \E ch, fault : LanesSet(s, lane, ch, fault) /\ lane.at # "ask"
    <3>1. [at |-> "over", row |-> pipe.lane[s].row] \in Lanes
      BY PipeParts DEF Lanes
    <3> QED
      BY <2>2, <3>1
  <2> QED
    BY <1>2, <2>1, <2>2
<1>6. PICK lane \in Lanes : \E ch, fault : LanesSet(s, lane, ch, fault) /\ lane.at # "ask"
  BY <1>5
<1>7. PICK ch, fault : LanesSet(s, lane, ch, fault) /\ lane.at # "ask"
  BY <1>6
<1>8. \A t \in Workers : /\ Waits(t) <=> pipe.lane[t].at = "ask"
                         /\ Waits(t)' <=> IF t = s THEN lane.at = "ask" ELSE Waits(t)
  BY <1>1, <1>7, WaitsOfLane
<1>9. Waits(s) /\ ~Waits(s)'
  BY <1>1, <1>7, <1>8
<1>10. \A t \in Workers : Moves(t)
  BY <1>4, <1>8, <1>9 DEF Moves, Others
<1>11. UNCHANGED <<link, task, stage>> /\ session'.at = "loaded" /\ session'.gen = session.gen
  BY <1>1, <1>3 DEF workerVars
<1> QED
  BY <1>3, <1>4, <1>10, <1>11 DEF Moved, Others

LEMMA MovedPipeEnds == Typed /\ PipeEnds => Moved
<1> SUFFICES ASSUME Typed, PipeEnds PROVE Moved
  OBVIOUS
<1>1. /\ op.is = "pipe" /\ \A s \in Workers : Over(s)
      /\ UNCHANGED <<wire, link, workerVars, mishaps, late>> /\ op'.is \in {"done", "post"}
      /\ session'.at = session.at /\ session'.gen = session.gen
  BY PipeEndsParts
<1>2. \A s \in Workers : ~Waits(s) /\ ~Waits(s)'
  BY <1>1 DEF Waits, Over
<1> QED
  BY <1>1, <1>2, MovedQuietly DEF Quietly, Smoothly

\* Any step of the session is one of these.
LEMMA SessionMoves == Typed /\ SessionStep => Moved
BY MovedStartMend, MovedMend, MovedCutNothing, MovedStartCut, MovedCutBack, MovedNextSpend, MovedSpent, MovedStartPass,
   MovedPass, MovedStartPipe, MovedFeed, MovedPipeEnds, MovedTake, MovedNoMore, MovedHandBack, MovedHandOn
DEF SessionStep

\* The session's steps, all of which move.
LEMMA LinedSession == Typed /\ Lined /\ SessionStep => Lined'
BY SessionMoves, TypedSession, LinedMoves DEF Moved

-----------------------------------------------------------------------------

\* A step that leaves the machines, what is between, and who waits.
LEMMA LinedAside ==
    ASSUME Lined, UNCHANGED <<up, down, link, task, stage, mishaps, late, session>>,
           \A s \in Workers : Waits(s)' <=> Waits(s)
    PROVE  Lined'
<1>1. ASSUME NEW s \in Workers PROVE Line(s)'
  <2>1. Line(s) /\ Conn(s)' = Conn(s) /\ (Up(s)' <=> Up(s)) /\ Held(s)' = Held(s) /\ Due(s)' = Due(s)
    BY DEF Lined, Conn, Up, Held, Due
  <2>2. Greets(Conn(s))' <=> Greets(Conn(s))
    BY <2>1 DEF Greets
  <2> QED
    BY <2>1, <2>2 DEF Line
<1>2. ASSUME NEW c \in Connections PROVE Wire(c)'
  BY DEF Lined, Wire, Untouched
<1> QED
  BY <1>1, <1>2 DEF Lined

\* Between calls, and when they begin and end, nobody waits.
LEMMA NobodyWaits == op.is \in {"none", "start", "post", "done"} => \A s \in Workers : ~Waits(s)
BY DEF Waits

LEMMA LinedLlm == Typed /\ Lined /\ (LlmStep \/ Stop \/ \E p \in Prompts : Open(p)) => Lined'
<1> SUFFICES ASSUME Typed, Lined, LlmStep \/ Stop \/ \E p \in Prompts : Open(p) PROVE Lined'
  OBVIOUS
<1>1. UNCHANGED <<up, down, link, task, stage, mishaps, late, session>>
  BY DEF LlmStep, Opened, Prefill, HaveRead, Step, Fed, Finish, Dropped, Stop, Open, Calls, wire, workerVars
<1>2. UNCHANGED <<op, pipe>> \/ (op.is \in {"none", "done"} /\ op'.is \in {"none", "start"})
  BY TypedOpened, TypedPrefill, TypedHaveRead, TypedStep, TypedFed, TypedFinish, TypedDropped, TypedStop, TypedOpen
  DEF LlmStep, Calls
<1>3. \A s \in Workers : Waits(s)' <=> Waits(s)
  BY <1>2 DEF Waits
<1> QED
  BY <1>1, <1>3, LinedAside

-----------------------------------------------------------------------------

\* What a worker does to its connection: a frame is read, and something said of
\* it or layers loaded for it; what was loaded is said; or it ends.
Works(c) ==
    \/ /\ task[c] = "listens" /\ up[c] # <<>> /\ up'[c] = Tail(up[c])
       /\ \/ /\ Head(up[c]).kind = "load"
             /\ \/ task'[c] = "loads" /\ down'[c] = down[c]
                \/ task'[c] = "listens" /\ down'[c] = IF link[c] = "up" THEN Append(down[c], Plain("error")) ELSE down[c]
          \/ /\ Head(up[c]).kind # "load" /\ task'[c] = task[c] /\ (stage[c] # NoStage => stage'[c] # NoStage)
             /\ \E a \in Answer : down'[c] = IF link[c] = "up" THEN Append(down[c], a) ELSE down[c]
    \/ /\ task[c] = "loads" /\ task'[c] = "listens" /\ up'[c] = up[c]
       /\ \E kind \in {"ready", "error"} :
             /\ down'[c] = IF link[c] = "up" THEN Append(down[c], Plain(kind)) ELSE down[c]
             /\ kind = "ready" => stage'[c] = Empty
    \/ link[c] # "up" /\ task[c] = "listens" /\ task'[c] = "gone" /\ up'[c] = <<>> /\ down'[c] = down[c]
Beyond(c) == \A d \in Connections \ {c} : up'[d] = up[d] /\ down'[d] = down[d] /\ task'[d] = task[d] /\ stage'[d] = stage[d]

LEMMA NotNoStage ==
    /\ \A held : held.len >= 0 => held # NoStage
    /\ \A held \in Layers : held # NoStage => held.len \in Nat
    /\ Empty # NoStage /\ Empty.len = 0 /\ Empty.rows = <<>> /\ NoStage.len = -1
BY DEF NoStage, Layers, Empty

\* What a worker's threads do with a connection, whoever has it.
LEMMA WorkerWorks ==
    ASSUME Typed, NEW c \in Connections, WorkerStep(c)
    PROVE  Works(c) /\ Beyond(c) /\ UNCHANGED link /\ mishaps' \in {mishaps, mishaps + 1}
<1>1. WiresTyped
  BY DEF Typed
<1>2. CASE TakeLoad(c)
  BY <1>1, <1>2, TakeLoadParts DEF Works, Beyond
<1>3. CASE Loaded(c)
  BY <1>1, <1>3, LoadedParts DEF Works, Beyond
<1>4. CASE Forward(c)
  <2> DEFINE frame == Head(up[c])
             held == stage[c]
  <2>1. /\ UNCHANGED <<link, task>> /\ task[c] = "listens" /\ mishaps' \in {mishaps, mishaps + 1}
        /\ up[c] # <<>> /\ frame.kind = "forward" /\ frame.row \in Pieces /\ up'[c] = Tail(up[c])
        /\ \A d \in Connections \ {c} : up'[d] = up[d] /\ down'[d] = down[d] /\ stage'[d] = stage[d]
    BY <1>1, <1>4, ForwardParts
  <2>2. PICK a \in Answer :
          /\ down'[c] = IF link[c] = "up" THEN Append(down[c], a) ELSE down[c]
          /\ \/ /\ held # NoStage /\ held.len = frame.pos /\ a = Frame("hidden", frame.pos, Given(held, frame.row))
                /\ stage'[c] = Ran(held, frame.row)
             \/ /\ a = Plain("error") /\ stage'[c] = held
             \/ stage'[c] # NoStage
    BY <1>1, <1>4, ForwardParts
  <2>3. stage[c] # NoStage => stage'[c] # NoStage
    <3>1. CASE held # NoStage /\ stage'[c] = Ran(held, frame.row)
      <4>1. held \in Layers /\ held.len \in Nat
        BY <1>1, <3>1, NotNoStage DEF WiresTyped
      <4>2. stage'[c].len = held.len + 1
        BY <2>1, <3>1, <4>1, RunTyped
      <4> QED
        BY <4>1, <4>2, NotNoStage
    <3> QED
      BY <2>2, <3>1
  <2> HIDE DEF frame, held
  <2>4. Works(c)
    BY <2>1, <2>2, <2>3 DEF Works, frame
  <2> QED
    BY <2>1, <2>4 DEF Beyond
<1>5. CASE Truncate(c)
  <2> DEFINE frame == Head(up[c])
             held == stage[c]
  <2>1. /\ UNCHANGED <<link, task, mishaps>> /\ task[c] = "listens"
        /\ up[c] # <<>> /\ frame.kind = "truncate" /\ frame.pos \in Nat /\ up'[c] = Tail(up[c])
        /\ \A d \in Connections \ {c} : up'[d] = up[d] /\ down'[d] = down[d] /\ stage'[d] = stage[d]
    BY <1>1, <1>5, TruncateParts
  <2>2. PICK n \in Nat :
          /\ down'[c] = IF link[c] = "up" THEN Append(down[c], Frame("truncated", n, <<>>)) ELSE down[c]
          /\ held # NoStage => stage'[c] = Cut(held, frame.pos)
    BY <1>1, <1>5, TruncateParts
  <2>3. stage[c] # NoStage => stage'[c] # NoStage
    <3> SUFFICES ASSUME held # NoStage PROVE stage'[c] # NoStage
      OBVIOUS
    <3>1. held \in Layers /\ held.len \in Nat
      BY <1>1, NotNoStage DEF WiresTyped
    <3>2. stage'[c].len \in Nat
      BY <2>1, <2>2, <3>1, CutTyped
    <3> QED
      BY <3>2, NotNoStage
  <2>4. Frame("truncated", n, <<>>) \in Answer
    BY WorkerFrames
  <2> HIDE DEF frame, held
  <2>5. Works(c)
    BY <2>1, <2>2, <2>3, <2>4 DEF Works, frame
  <2> QED
    BY <2>1, <2>5 DEF Beyond
<1>6. CASE Spend(c)
  BY <1>1, <1>6, SpendParts, WorkerFrames DEF Works, Beyond
<1>7. CASE Ends(c)
  BY <1>1, <1>7, EndsParts DEF Works, Beyond
<1> QED
  BY <1>2, <1>3, <1>4, <1>5, <1>6, <1>7 DEF WorkerStep

\* What a worker's step does to how much there is on its connection.
LEMMA WorksLengths ==
    ASSUME WiresTyped, WiresTyped', NEW c \in Connections, Works(c)
    PROVE  /\ Len(up[c]) \in Nat /\ Len(down[c]) \in Nat /\ Len(up'[c]) \in Nat /\ Len(down'[c]) \in Nat
           /\ Len(up'[c]) <= Len(up[c])
           /\ link[c] # "up" => down'[c] = down[c]
           /\ Len(up'[c]) + Len(down'[c]) + (IF task'[c] = "loads" THEN 1 ELSE 0)
                <= Len(up[c]) + Len(down[c]) + (IF task[c] = "loads" THEN 1 ELSE 0)
           /\ task[c] \in {"listens", "loads"}
<1>1. /\ up \in [Connections -> Seq(Asked)] /\ up' \in [Connections -> Seq(Asked)]
      /\ down \in [Connections -> Seq(Answer)] /\ down' \in [Connections -> Seq(Answer)]
  BY DEF WiresTyped
<1>2. /\ Len(up[c]) \in Nat /\ Len(down[c]) \in Nat /\ Len(up'[c]) \in Nat /\ Len(down'[c]) \in Nat
      /\ up[c] # <<>> => Len(up[c]) > 0 /\ Len(Tail(up[c])) = Len(up[c]) - 1
      /\ \A a \in Answer : Len(Append(down[c], a)) = Len(down[c]) + 1
      /\ Len(<<>>) = 0
  BY <1>1, Lengths
<1>3. CASE /\ task[c] = "listens" /\ up[c] # <<>> /\ up'[c] = Tail(up[c])
           /\ \/ task'[c] = "loads" /\ down'[c] = down[c]
              \/ task'[c] = "listens" /\ \E a \in Answer : down'[c] = IF link[c] = "up" THEN Append(down[c], a) ELSE down[c]
  BY <1>1, <1>2, <1>3
<1>4. CASE /\ task[c] = "loads" /\ task'[c] = "listens" /\ up'[c] = up[c]
           /\ \E a \in Answer : down'[c] = IF link[c] = "up" THEN Append(down[c], a) ELSE down[c]
  BY <1>1, <1>2, <1>4
<1>5. CASE link[c] # "up" /\ task[c] = "listens" /\ task'[c] = "gone" /\ up'[c] = <<>> /\ down'[c] = down[c]
  BY <1>1, <1>2, <1>5
<1> QED
  BY <1>3, <1>4, <1>5, WorkerFrames DEF Works

\* One answer at most.
LEMMA OneLong == Len(<<>>) <= 1 /\ \A x : Len(<<x>>) <= 1
OBVIOUS

\* What is greeted has been asked, or has answered.
LEMMA GreetsShort == \A c : (Greets(c) => Len(up[c]) <= 1 /\ Len(down[c]) <= 1)
                            /\ (Greets(c)' => Len(up'[c]) <= 1 /\ Len(down'[c]) <= 1)
<1> SUFFICES ASSUME NEW c PROVE (Greets(c) => Len(up[c]) <= 1 /\ Len(down[c]) <= 1)
                                /\ (Greets(c)' => Len(up'[c]) <= 1 /\ Len(down'[c]) <= 1)
  OBVIOUS
<1>1. Greets(c) => up[c] \in {<<>>, <<Plain("load")>>} /\ down[c] \in {<<>>, <<Plain("ready")>>, <<Plain("error")>>}
  BY DEF Greets
<1>2. Greets(c)' => up'[c] \in {<<>>, <<Plain("load")>>} /\ down'[c] \in {<<>>, <<Plain("ready")>>, <<Plain("error")>>}
  BY DEF Greets
<1> QED
  BY <1>1, <1>2, OneLong, Zenon

\* A stage's own worker keeps to what is asked of it.
LEMMA LineWorks ==
    ASSUME Typed, Typed', Lined, UNCHANGED <<link, callVars>>, mishaps' \in {mishaps, mishaps + 1},
           NEW s \in Workers, NEW c \in Connections, Works(c), Beyond(c)
    PROVE  Line(s)'
<1>1. Line(s)
  BY DEF Lined
<1>2. /\ UNCHANGED <<session, op, pipe, late>> /\ Conn(s)' = Conn(s) /\ (Up(s)' <=> Up(s)) /\ Due(s)' = Due(s)
      /\ (Waits(s)' <=> Waits(s))
  BY DEF callVars, Conn, Up, Due, Waits
<1>3. late[s] <= mishaps' /\ late'[s] = late[s]
  <2>1. late[s] \in Nat /\ mishaps \in Nat
    BY DEF Typed, CallsTyped, WiresTyped
  <2> QED
    BY <1>1, <1>2, <2>1 DEF Line
<1>4. CASE session.at = "none"
  BY <1>1, <1>2, <1>3, <1>4 DEF Line
<1>5. CASE session.at # "none" /\ Conn(s) # c
  <2>1. Conn(s) \in Connections
    BY <1>5, OurConnections DEF Typed
  <2>2. up'[Conn(s)] = up[Conn(s)] /\ down'[Conn(s)] = down[Conn(s)] /\ task'[Conn(s)] = task[Conn(s)] /\ stage'[Conn(s)] = stage[Conn(s)]
    BY <1>5, <2>1 DEF Beyond
  <2>3. Greets(Conn(s))' <=> Greets(Conn(s))
    BY <1>2, <2>2 DEF Greets
  <2> QED
    BY <1>1, <1>2, <1>3, <2>2, <2>3 DEF Line, Held
<1>6. CASE session.at = "loading" /\ Conn(s) = c
  <2>1. link'[c] = link[c] /\ link[c] \in {"up", "cut"} /\ late[s] = 0 /\ Len(down[c]) <= 1 /\ (link[c] = "up" => Greets(c))
    BY <1>1, <1>6 DEF Line, Up
  <2>2. CASE link[c] # "up"
    <3>1. down'[c] = down[c]
      BY <2>2, WorksLengths DEF Typed
    <3> QED
      BY <1>2, <1>3, <1>6, <2>1, <2>2, <3>1 DEF Line, Up
  <2>3. CASE link[c] = "up"
    <3>1. Greets(c)
      BY <2>1, <2>3
    <3>2. Head(<<Plain("load")>>) = Plain("load") /\ Plain("load").kind = "load" /\ Tail(<<Plain("load")>>) = <<>>
      BY DEF Plain, Frame
    <3>3. \A a : Append(<<>>, a) = <<a>> /\ Len(<<a>>) = 1
      OBVIOUS
    <3>4. Greets(c)'
      <4>1. CASE task[c] = "listens" /\ up[c] = <<Plain("load")>> /\ down[c] = <<>>
        <5>1. up'[c] = <<>> /\ (\/ task'[c] = "loads" /\ down'[c] = <<>>
                                \/ task'[c] = "listens" /\ down'[c] = <<Plain("error")>>)
          BY <2>3, <3>2, <3>3, <4>1 DEF Works
        <5> QED
          BY <5>1 DEF Greets
      <4>2. CASE task[c] = "loads" /\ up[c] = <<>> /\ down[c] = <<>>
        <5>1. /\ task'[c] = "listens" /\ up'[c] = <<>>
              /\ \/ down'[c] = <<Plain("ready")>> /\ stage'[c] = Empty
                 \/ down'[c] = <<Plain("error")>>
          BY <2>3, <3>3, <4>2 DEF Works
        <5> QED
          BY <5>1 DEF Greets
      <4>3. CASE task[c] = "listens" /\ up[c] = <<>>
        BY <2>3, <4>3 DEF Works
      <4> QED
        BY <3>1, <4>1, <4>2, <4>3 DEF Greets
    <3>5. Len(down'[c]) <= 1
      BY <3>4, GreetsShort
    <3> QED
      BY <1>2, <1>3, <1>6, <2>1, <2>3, <3>4, <3>5 DEF Line
  <2> QED
    BY <2>2, <2>3
<1>7. CASE session.at = "loaded" /\ Conn(s) = c
  <2>1. /\ link'[c] = link[c] /\ link[c] \in {"up", "cut"} /\ Len(down[c]) <= Due(s)
        /\ link[c] = "up" => /\ Len(down[c]) + Len(up[c]) = Due(s) /\ task[c] = "listens" /\ stage[c] # NoStage
                             /\ \A i \in DOMAIN up[c] : up[c][i].kind # "load"
    BY <1>1, <1>7 DEF Line, Up, Held
  <2>2. CASE link[c] # "up"
    <3>1. down'[c] = down[c]
      BY <2>2, WorksLengths DEF Typed
    <3> QED
      BY <1>2, <1>3, <1>7, <2>1, <2>2, <3>1 DEF Line, Up
  <2>3. CASE link[c] = "up"
    <3>1. up \in [Connections -> Seq(Asked)] /\ up' \in [Connections -> Seq(Asked)] /\ up[c] \in Seq(Asked)
          /\ down \in [Connections -> Seq(Answer)] /\ down' \in [Connections -> Seq(Answer)] /\ down[c] \in Seq(Answer)
      BY DEF Typed, WiresTyped
    <3>2. up[c] # <<>> => 1 \in DOMAIN up[c] /\ Head(up[c]) = up[c][1]
      BY <3>1
    <3>3. /\ up[c] # <<>> /\ up'[c] = Tail(up[c]) /\ task'[c] = "listens" /\ stage'[c] # NoStage
          /\ \E a \in Answer : down'[c] = Append(down[c], a)
      BY <2>1, <2>3, <3>2 DEF Works
    <3>4. Len(up'[c]) = Len(up[c]) - 1 /\ Len(down'[c]) = Len(down[c]) + 1 /\ Len(up[c]) \in Nat /\ Len(down[c]) \in Nat
          /\ Len(up[c]) > 0
      BY <3>1, <3>3, Lengths
    <3>5. \A i \in DOMAIN up'[c] : up'[c][i].kind # "load"
      <4>1. \A i \in 1..(Len(up[c]) - 1) : Tail(up[c])[i] = up[c][i + 1] /\ i + 1 \in DOMAIN up[c]
        BY <3>1, <3>3
      <4>2. DOMAIN up'[c] = 1..(Len(up[c]) - 1)
        BY <3>1, <3>3
      <4> QED
        BY <2>1, <2>3, <3>3, <4>1, <4>2
    <3>6. Len(down'[c]) <= Due(s) /\ Len(down'[c]) + Len(up'[c]) = Due(s)
      BY <2>1, <2>3, <3>1, <3>4
    <3> QED
      BY <1>2, <1>3, <1>7, <2>1, <2>3, <3>3, <3>5, <3>6 DEF Line, Held
  <2> QED
    BY <2>2, <2>3
<1>8. session.at \in {"none", "loading", "loaded"}
  BY DEF Typed, CallsTyped, Sessions
<1> QED
  BY <1>4, <1>5, <1>6, <1>7, <1>8

\* And every other.
LEMMA LinedWorkers ==
    ASSUME Typed, Lined, NEW c \in Connections, WorkerStep(c), UNCHANGED callVars
    PROVE  Lined'
<1>1. Works(c) /\ Beyond(c) /\ UNCHANGED link /\ mishaps' \in {mishaps, mishaps + 1} /\ Typed'
  BY WorkerWorks, TypedWorkers
<1>2. \A s \in Workers : Line(s)'
  BY <1>1, LineWorks
<1>3. UNCHANGED <<session, op, pipe, late>> /\ mishaps \in Nat
  BY DEF callVars, Typed, WiresTyped
<1>4. ASSUME NEW d \in Connections, d # c PROVE Wire(d)'
  <2>1. up'[d] = up[d] /\ down'[d] = down[d] /\ task'[d] = task[d] /\ link'[d] = link[d]
    BY <1>1, <1>4 DEF Beyond
  <2>2. Wire(d) /\ Len(up[d]) \in Nat /\ Len(down[d]) \in Nat
    BY Lengths DEF Lined, Typed, WiresTyped
  <2>3. up \in [Connections -> Seq(Asked)] /\ down \in [Connections -> Seq(Answer)]
    BY DEF Typed, WiresTyped
  <2> QED
    BY <1>1, <1>3, <2>1, <2>2, <2>3 DEF Wire, Untouched
<1>5. Wire(c)'
  <2>1. Wire(c) /\ link'[c] = link[c]
    BY <1>1 DEF Lined
  <2>2. /\ Len(up[c]) \in Nat /\ Len(down[c]) \in Nat /\ Len(up'[c]) \in Nat /\ Len(down'[c]) \in Nat
        /\ Len(up'[c]) <= Len(up[c])
        /\ link[c] # "up" => down'[c] = down[c]
        /\ Len(up'[c]) + Len(down'[c]) + (IF task'[c] = "loads" THEN 1 ELSE 0)
             <= Len(up[c]) + Len(down[c]) + (IF task[c] = "loads" THEN 1 ELSE 0)
        /\ task[c] \in {"listens", "loads"}
    BY <1>1, WorksLengths DEF Typed
  <2>3. /\ up \in [Connections -> Seq(Asked)] /\ up' \in [Connections -> Seq(Asked)]
        /\ down \in [Connections -> Seq(Answer)] /\ down' \in [Connections -> Seq(Answer)] /\ mishaps' \in Nat /\ mishaps' >= mishaps
    BY <1>1, <1>3 DEF Typed, WiresTyped
  <2>4. ~Untouched(c)
    BY <2>2 DEF Untouched
  <2>5. Len(up'[c]) <= 1 + mishaps' /\ Len(down'[c]) <= 1 + mishaps'
    <3>1. CASE link[c] # "up"
      BY <1>3, <2>1, <2>2, <2>3, <3>1 DEF Wire
    <3>2. CASE c[2] = Rival
      <4>1. Len(up[c]) + Len(down[c]) + (IF task[c] = "loads" THEN 1 ELSE 0) <= 1
        BY <2>1, <3>2 DEF Wire
      <4> QED
        BY <1>3, <2>2, <2>3, <4>1
    <3>3. CASE link[c] = "up" /\ c[2] # Rival
      <4>1. c[2] \in 1..session.gen /\ ~(c[2] < session.gen \/ session.at = "none")
        BY <2>1, <2>4, <3>3, WhoseConnection DEF Wire
      <4>2. c[2] = session.gen /\ session.at # "none"
        BY <4>1, WhoseConnection
      <4>3. PICK s \in Workers : c = Conn(s)
        BY <3>3, <4>2, WhoseConnection
      <4>4. Line(s)' /\ Conn(s)' = c /\ Up(s)' /\ session'.at = session.at
        BY <1>2, <1>3, <2>1, <3>3, <4>3 DEF Conn, Up
      <4>5. CASE session.at = "loaded"
        <5>1. Len(down'[c]) + Len(up'[c]) = Due(s)' /\ late'[s] <= mishaps' /\ late'[s] \in Nat
          BY <1>1, <4>4, <4>5 DEF Line, Typed, CallsTyped
        <5>2. Due(s)' <= 1 + mishaps' /\ Due(s)' \in Nat
          BY <2>3, <5>1 DEF Due
        <5> QED
          BY <2>2, <2>3, <5>1, <5>2
      <4>6. CASE session.at = "loading"
        <5>1. Greets(c)'
          BY <4>4, <4>6 DEF Line
        <5>3. Len(up'[c]) <= 1 /\ Len(down'[c]) <= 1
          BY <5>1, GreetsShort
        <5> QED
          BY <2>2, <2>3, <5>3
      <4> QED
        BY <4>2, <4>5, <4>6 DEF Typed, CallsTyped, Sessions
    <3> QED
      BY <3>1, <3>2, <3>3
  <2>6. c[2] = Rival => Len(up'[c]) + Len(down'[c]) + (IF task'[c] = "loads" THEN 1 ELSE 0) <= 1
    <3> SUFFICES ASSUME c[2] = Rival PROVE Len(up'[c]) + Len(down'[c]) + (IF task'[c] = "loads" THEN 1 ELSE 0) <= 1
      OBVIOUS
    <3>1. Len(up[c]) + Len(down[c]) + (IF task[c] = "loads" THEN 1 ELSE 0) <= 1
      BY <2>1 DEF Wire
    <3> QED
      BY <2>2, <2>3, <3>1
  <2>7. /\ ~(c[2] > session.gen) /\ (c[2] = Rival => link[c] # "none")
        /\ c[2] \in 1..session.gen /\ (c[2] < session.gen \/ session.at = "none") => link[c] = "left"
    BY <2>1, <2>4 DEF Wire
  <2> QED
    BY <1>3, <2>1, <2>5, <2>6, <2>7 DEF Wire
<1> QED
  BY <1>2, <1>4, <1>5 DEF Lined

-----------------------------------------------------------------------------

\* A session that is not loaded has no call.
LEMMA NoCall == ASSUME Typed, session.at # "loaded" PROVE op.is = "none" /\ \A s \in Workers : ~Waits(s)
<1>1. llm.at = "rest"
  BY DEF Typed, Course, CourseOfNone, NoLlm
<1> QED
  BY <1>1, NobodyWaits DEF Typed, Course, CourseOfOp

LEMMA LinedLoad == Typed /\ Lined /\ Load => Lined'
<1> SUFFICES ASSUME Typed, Lined, Load PROVE Lined'
  OBVIOUS
<1>1. /\ UNCHANGED <<down, stage, mishaps, late>>
      /\ session.at = "none" /\ session'.at = "loading" /\ session'.gen = session.gen + 1
      /\ \A c \in Connections :
            IF c[2] = session.gen + 1
            THEN link'[c] = "up" /\ task'[c] = "listens" /\ up'[c] = <<Plain("load")>>
            ELSE link'[c] = link[c] /\ task'[c] = task[c] /\ up'[c] = up[c]
      /\ session.gen \in Nat /\ Typed'
  BY LoadParts
<1>2. ASSUME NEW c \in Connections, c[2] = session.gen + 1
      PROVE  down'[c] = <<>> /\ Greets(c)' /\ link'[c] = "up"
  <2>1. down[c] = <<>>
    <3>1. c[2] > session.gen
      BY <1>1, <1>2
    <3> QED
      BY <3>1 DEF Lined, Wire, Untouched
  <2> QED
    BY <1>1, <1>2, <2>1 DEF Greets
<1>3. ASSUME NEW s \in Workers PROVE Line(s)'
  <2>1. Conn(s)' \in Connections /\ Conn(s)'[2] = session.gen + 1
    <3>1. Conn(s)' = <<s, session.gen + 1>> /\ session.gen + 1 \in 1..MaxLoads
      BY <1>1, WorkerAssumption DEF Conn, Typed, CallsTyped, Sessions
    <3> QED
      BY <3>1 DEF Connections
  <2>2. late[s] = 0 /\ late[s] <= mishaps
    BY <1>1 DEF Lined, Line
  <2>3. Greets(Conn(s))' /\ link'[Conn(s)'] = "up" /\ Len(down'[Conn(s)']) <= 1
    <3>1. down'[Conn(s)'] = <<>> /\ link'[Conn(s)'] = "up"
      BY <1>2, <2>1
    <3>2. Greets(Conn(s))'
      <4> DEFINE c == Conn(s)'
      <4>1. \A d \in Connections : d[2] = session.gen + 1 => task'[d] = "listens" /\ up'[d] = <<Plain("load")>> /\ down'[d] = <<>>
        BY <1>1, <1>2
      <4> QED
        BY <2>1, <4>1 DEF Greets
    <3> QED
      BY <3>1, <3>2, OneLong
  <2> QED
    BY <1>1, <2>2, <2>3 DEF Line
<1>4. ASSUME NEW c \in Connections PROVE Wire(c)'
  <2>1. Wire(c) /\ mishaps \in Nat
    BY DEF Lined, Typed, WiresTyped
  <2>2. CASE c[2] = session.gen + 1
    <3>1. /\ Len(up'[c]) <= 1 /\ Len(down'[c]) <= 1 /\ Len(up'[c]) \in Nat /\ Len(down'[c]) \in Nat
      BY <1>1, <1>2, <2>2, GreetsShort, Lengths DEF Typed, WiresTyped
    <3>2. up' \in [Connections -> Seq(Asked)] /\ down' \in [Connections -> Seq(Answer)]
      BY <1>1 DEF Typed, WiresTyped
    <3>3. Len(up'[c]) <= 1 + mishaps' /\ Len(down'[c]) <= 1 + mishaps'
      BY <1>1, <2>1, <3>1, <3>2
    <3>4. c[2] # Rival /\ ~(c[2] > session'.gen) /\ ~(c[2] < session'.gen) /\ session'.at # "none"
      BY <1>1, <2>2 DEF Rival
    <3> QED
      BY <3>3, <3>4 DEF Wire
  <2>3. CASE c[2] # session.gen + 1
    <3>1. link'[c] = link[c] /\ task'[c] = task[c] /\ up'[c] = up[c] /\ down'[c] = down[c]
      BY <1>1, <2>3
    <3>2. c[2] \in Nat /\ (c[2] > session'.gen => c[2] > session.gen) /\ session'.gen \in Nat /\ c[2] # session'.gen
      BY <1>1, <2>3, WhoseConnection
    <3>3. c[2] \in 1..session'.gen => c[2] \in 1..session.gen /\ link[c] = "left"
      <4>1. c[2] \in 1..session'.gen => c[2] \in 1..session.gen
        BY <1>1, <3>2
      <4> QED
        BY <1>1, <2>1, <4>1 DEF Wire
    <3> QED
      BY <1>1, <2>1, <3>1, <3>2, <3>3 DEF Wire, Untouched
  <2> QED
    BY <2>2, <2>3
<1> QED
  BY <1>3, <1>4 DEF Lined

LEMMA LinedLoadMade == Typed /\ Lined /\ LoadMade => Lined'
<1> SUFFICES ASSUME Typed, Lined, LoadMade PROVE Lined'
  OBVIOUS
<1>1. /\ UNCHANGED <<up, link, task, stage, mishaps, op, pipe, late>> /\ Typed'
      /\ session.at = "loading" /\ session'.at = "loaded" /\ session'.gen = session.gen
      /\ \A s \in Workers : /\ down[Conn(s)] # <<>> /\ Head(down[Conn(s)]).kind = "ready"
                            /\ down'[Conn(s)] = Tail(down[Conn(s)])
      /\ \A c \in Connections : c \notin OurConns => down'[c] = down[c]
  BY LoadMadeParts
<1>2. /\ down \in [Connections -> Seq(Answer)] /\ down' \in [Connections -> Seq(Answer)]
      /\ up \in [Connections -> Seq(Asked)] /\ mishaps \in Nat
  BY <1>1 DEF Typed, WiresTyped
<1>3. ASSUME NEW s \in Workers
      PROVE  /\ Conn(s) \in Connections /\ Len(down'[Conn(s)]) = 0 /\ late[s] = 0
             /\ Up(s) => task[Conn(s)] = "listens" /\ up[Conn(s)] = <<>> /\ stage[Conn(s)] = Empty
             /\ link[Conn(s)] \in {"up", "cut"}
  <2>1. Conn(s) \in Connections
    BY <1>1, OurConnections DEF Typed
  <2>2. late[s] = 0 /\ link[Conn(s)] \in {"up", "cut"} /\ Len(down[Conn(s)]) <= 1 /\ (Up(s) => Greets(Conn(s)))
    BY <1>1 DEF Lined, Line
  <2>3. Len(down'[Conn(s)]) = 0
    <3>1. down[Conn(s)] \in Seq(Answer)
      BY <1>2, <2>1
    <3>2. Len(down[Conn(s)]) > 0 /\ Len(Tail(down[Conn(s)])) = Len(down[Conn(s)]) - 1 /\ Len(down[Conn(s)]) \in Nat
      BY <1>1, <3>1, Lengths
    <3> DEFINE n == Len(down[Conn(s)])
    <3>3. n <= 1 /\ n > 0 /\ n \in Nat /\ Len(Tail(down[Conn(s)])) = n - 1
      BY <2>2, <3>2
    <3> HIDE DEF n
    <3>4. n = 1
      BY <3>3
    <3>5. Len(Tail(down[Conn(s)])) = 0
      BY <3>3, <3>4
    <3> QED
      BY <1>1, <3>5
  <2>4. ASSUME Greets(Conn(s)) PROVE task[Conn(s)] = "listens" /\ up[Conn(s)] = <<>> /\ stage[Conn(s)] = Empty
    <3>1. down[Conn(s)] # <<>> /\ Head(down[Conn(s)]).kind = "ready"
      BY <1>1
    <3>2. Head(<<Plain("error")>>).kind = "error"
      BY DEF Plain, Frame
    <3> QED
      BY <2>4, <3>1, <3>2 DEF Greets
  <2> QED
    BY <2>1, <2>2, <2>3, <2>4
<1>4. \A s \in Workers : ~Waits(s)' /\ Due(s)' = 0
  <2>1. op.is = "none"
    BY <1>1, NoCall
  <2>2. \A s \in Workers : ~Waits(s)' /\ late'[s] = 0
    BY <1>1, <1>3, <2>1 DEF Waits
  <2> QED
    BY <2>2 DEF Due
<1>5. ASSUME NEW s \in Workers PROVE Line(s)'
  <2>1. Conn(s)' = Conn(s)
    BY <1>1 DEF Conn
  <2>2. late'[s] = 0 /\ late'[s] <= mishaps'
    BY <1>1, <1>2, <1>3
  <2>3. CASE Up(s)
    <3>1. task[Conn(s)] = "listens" /\ up'[Conn(s)] = <<>> /\ stage[Conn(s)] # NoStage
      BY <1>1, <1>3, <2>3, NotNoStage
    <3>2. Len(up'[Conn(s)]) = 0 /\ DOMAIN up'[Conn(s)] = {}
      BY <3>1
    <3>3. Len(down'[Conn(s)]) + Len(up'[Conn(s)]) = 0 /\ Len(down'[Conn(s)]) <= 0
      BY <1>1, <1>2, <1>3, <3>2
    <3> QED
      BY <1>1, <1>3, <1>4, <2>1, <2>2, <3>1, <3>2, <3>3 DEF Line, Held
  <2>4. CASE ~Up(s)
    <3>1. Len(down'[Conn(s)]) <= 0
      BY <1>1, <1>2, <1>3
    <3> QED
      BY <1>1, <1>3, <1>4, <2>1, <2>2, <2>4, <3>1 DEF Line, Up
  <2> QED
    BY <2>3, <2>4
<1>6. ASSUME NEW c \in Connections PROVE Wire(c)'
  <2>1. Wire(c)
    BY DEF Lined
  <2>2. CASE c \notin OurConns
    BY <1>1, <2>1, <2>2 DEF Wire, Untouched
  <2>3. CASE c \in OurConns
    <3>1. PICK s \in Workers : c = Conn(s)
      BY <2>3 DEF OurConns
    <3>2. Len(down'[c]) = 0
      BY <1>3, <3>1
    <3>3. c[2] = session.gen /\ session.gen > 0 /\ session.gen \in Nat /\ c[2] # Rival
      BY <1>1, <2>3, WhoseConnection
    <3>4. Len(down'[c]) <= 1 + mishaps' /\ Len(up'[c]) <= 1 + mishaps'
      BY <1>1, <1>2, <2>1, <3>2 DEF Wire
    <3>5. ~(c[2] > session'.gen) /\ ~(c[2] < session'.gen) /\ session'.at # "none"
      BY <1>1, <3>3
    <3> QED
      BY <3>3, <3>4, <3>5 DEF Wire
  <2> QED
    BY <2>2, <2>3
<1> QED
  BY <1>5, <1>6 DEF Lined

LEMMA LinedGone == Typed /\ Lined /\ (LoadFailed \/ Unload) => Lined'
<1> SUFFICES ASSUME Typed, Lined, LoadFailed \/ Unload PROVE Lined'
  OBVIOUS
<1>1. /\ UNCHANGED <<up, task, stage, mishaps, op, pipe>> /\ Typed'
      /\ session.at # "none" /\ session'.at = "none" /\ session'.gen = session.gen
      /\ late' = NoneLate \/ (session.at = "loading" /\ late' = late)
      /\ \A s \in Workers : link'[Conn(s)] = "left" /\ down'[Conn(s)] = <<>>
      /\ \A c \in Connections : c \notin OurConns => link'[c] = link[c] /\ down'[c] = down[c]
  BY GoneParts
<1>2. mishaps \in Nat
  BY DEF Typed, WiresTyped
<1>3. \A s \in Workers : late'[s] = 0
  BY <1>1 DEF NoneLate, Lined, Line
<1>4. \A s \in Workers : Line(s)'
  BY <1>1, <1>2, <1>3 DEF Line
<1>5. ASSUME NEW c \in Connections PROVE Wire(c)'
  <2>1. Wire(c)
    BY DEF Lined
  <2>2. CASE c \notin OurConns
    <3>1. link'[c] = link[c] /\ down'[c] = down[c] /\ up'[c] = up[c] /\ task'[c] = task[c]
      BY <1>1, <2>2
    <3>2. c[2] \in Nat /\ session.gen \in Nat /\ c[2] # session.gen /\ session.gen > 0
      BY <1>1, <2>2, WhoseConnection
    <3>3. c[2] \in 1..session.gen => c[2] < session.gen
      BY <3>2
    <3> QED
      BY <1>1, <2>1, <3>1, <3>2, <3>3 DEF Wire, Untouched
  <2>3. CASE c \in OurConns
    <3>1. PICK s \in Workers : c = Conn(s)
      BY <2>3 DEF OurConns
    <3>2. link'[c] = "left" /\ down'[c] = <<>> /\ up'[c] = up[c]
      BY <1>1, <3>1
    <3>3. Len(down'[c]) <= 1 + mishaps' /\ Len(up'[c]) <= 1 + mishaps'
      <4>1. Len(<<>>) <= 1 + mishaps
        BY <1>2
      <4> QED
        BY <1>1, <2>1, <3>2, <4>1 DEF Wire
    <3>4. c[2] = session.gen /\ session.gen > 0 /\ session.gen \in Nat /\ c[2] # Rival
      BY <1>1, <2>3, WhoseConnection
    <3>5. ~(c[2] > session'.gen)
      BY <1>1, <3>4
    <3> QED
      BY <3>2, <3>3, <3>4, <3>5 DEF Wire
  <2> QED
    BY <2>2, <2>3
<1> QED
  BY <1>4, <1>5 DEF Lined

\* A connection of the other coordinator's is no stage's.
LEMMA RivalIsNotOurs ==
    ASSUME Typed, NEW w \in Workers, NEW s \in Workers, session.at # "none"
    PROVE  Conn(s) # <<w, Rival>>
<1>1. session.gen > 0
  BY OurConnections DEF Typed
<1> QED
  BY <1>1 DEF Conn, Rival

\* A step on a connection that is no stage's.
LEMMA LinesApart ==
    ASSUME Typed, Lined, NEW w \in Workers, UNCHANGED <<callVars, stage, mishaps>>,
           \A c \in Connections \ {<<w, Rival>>} : up'[c] = up[c] /\ down'[c] = down[c] /\ link'[c] = link[c] /\ task'[c] = task[c]
    PROVE  (\A s \in Workers : Line(s)') /\ (\A c \in Connections \ {<<w, Rival>>} : Wire(c)')
<1>1. UNCHANGED <<session, op, pipe, late>>
  BY DEF callVars
<1>2. ASSUME NEW s \in Workers PROVE Line(s)'
  <2>1. Line(s) /\ Conn(s)' = Conn(s) /\ Due(s)' = Due(s)
    BY <1>1 DEF Lined, Conn, Due, Waits
  <2>2. CASE session.at = "none"
    BY <1>1, <2>1, <2>2 DEF Line
  <2>3. CASE session.at # "none"
    <3>1. Conn(s) \in Connections /\ Conn(s) # <<w, Rival>>
      BY <2>3, OurConnections, RivalIsNotOurs DEF Typed
    <3>2. up'[Conn(s)] = up[Conn(s)] /\ down'[Conn(s)] = down[Conn(s)] /\ link'[Conn(s)] = link[Conn(s)] /\ task'[Conn(s)] = task[Conn(s)]
      BY <3>1
    <3>3. (Greets(Conn(s))' <=> Greets(Conn(s))) /\ (Up(s)' <=> Up(s)) /\ Held(s)' = Held(s)
      BY <2>1, <3>2 DEF Greets, Up, Held
    <3> QED
      BY <1>1, <2>1, <3>2, <3>3 DEF Line
  <2> QED
    BY <2>2, <2>3
<1>3. ASSUME NEW c \in Connections \ {<<w, Rival>>} PROVE Wire(c)'
  BY <1>1, <1>3 DEF Lined, Wire, Untouched
<1> QED
  BY <1>2, <1>3

LEMMA LinedRival == ASSUME Typed, Lined, RivalStep, UNCHANGED callVars PROVE Lined'
<1>1. PICK w \in Contested : RivalComes(w) \/ RivalGoes(w)
  BY DEF RivalStep
<1> DEFINE c == <<w, Rival>>
<1>2. c \in Connections /\ {c} \in SUBSET Connections /\ w \in Workers /\ WiresTyped /\ c[2] = Rival
  BY RivalsConnection, SomeWorkers DEF Typed
<1>3. UNCHANGED session /\ mishaps \in Nat /\ session.gen \in Nat
  BY WorkerAssumption DEF callVars, Typed, WiresTyped, CallsTyped, Sessions
<1>4. Wire(c) /\ Len(up[c]) \in Nat /\ up \in [Connections -> Seq(Asked)] /\ down \in [Connections -> Seq(Answer)]
  BY <1>2, Lengths DEF Lined, WiresTyped
<1>5. CASE RivalComes(w)
  <2>1. /\ UNCHANGED <<down, stage, spoilt, mishaps>>
        /\ link'[c] = "up" /\ task'[c] = "listens" /\ up'[c] = <<Plain("load")>> /\ link[c] = "none"
        /\ \A d \in Connections \ {c} : link'[d] = link[d] /\ task'[d] = task[d] /\ up'[d] = up[d]
    BY <1>2, <1>5, OpensParts DEF RivalComes
  <2>2. (\A s \in Workers : Line(s)') /\ (\A d \in Connections \ {c} : Wire(d)')
    BY <1>2, <2>1, LinesApart
  <2>3. down[c] = <<>>
    BY <1>2, <1>4, <2>1 DEF Wire, Untouched
  <2>4. Len(<<Plain("load")>>) = 1 /\ Len(<<>>) = 0
    OBVIOUS
  <2>5. Wire(c)'
    <3>1. Len(up'[c]) = 1 /\ Len(down'[c]) = 0
      BY <2>1, <2>3, <2>4
    <3>2. up' \in [Connections -> Seq(Asked)] /\ down' \in [Connections -> Seq(Answer)]
      BY <1>2, <1>5, OpensParts DEF RivalComes, WiresTyped
    <3>3. Len(up'[c]) <= 1 + mishaps' /\ Len(down'[c]) <= 1 + mishaps' /\ Len(up'[c]) + Len(down'[c]) + 0 <= 1
      BY <1>2, <1>3, <2>1, <3>1, <3>2
    <3>4. ~(c[2] > session'.gen) /\ ~(c[2] \in 1..session'.gen) /\ link'[c] # "none" /\ task'[c] # "loads"
      BY <1>2, <1>3, <2>1 DEF Rival
    <3> HIDE DEF c
    <3> QED
      BY <3>3, <3>4 DEF Wire
  <2> QED
    BY <2>2, <2>5 DEF Lined
<1>6. CASE RivalGoes(w)
  <2>1. /\ UNCHANGED <<up, task, stage, spoilt, mishaps>>
        /\ link'[c] = "left" /\ down'[c] = <<>>
        /\ \A d \in Connections \ {c} : link'[d] = link[d] /\ down'[d] = down[d]
    BY <1>2, <1>6, LeavesParts DEF RivalGoes
  <2>2. (\A s \in Workers : Line(s)') /\ (\A d \in Connections \ {c} : Wire(d)')
    BY <1>2, <2>1, LinesApart
  <2>3. Wire(c)'
    <3>1. Len(down'[c]) = 0 /\ up'[c] = up[c] /\ task'[c] = task[c] /\ Len(down[c]) \in Nat
      BY <1>2, <1>4, <2>1, Lengths
    <3>2. up' \in [Connections -> Seq(Asked)] /\ down' \in [Connections -> Seq(Answer)]
      BY <1>2, <1>6, LeavesParts DEF RivalGoes, WiresTyped
    <3>3. Len(up[c]) + Len(down[c]) + (IF task[c] = "loads" THEN 1 ELSE 0) <= 1 /\ Len(up[c]) <= 1 + mishaps
      BY <1>2, <1>4 DEF Wire
    <3>4. Len(up'[c]) <= 1 + mishaps' /\ Len(down'[c]) <= 1 + mishaps'
          /\ Len(up'[c]) + Len(down'[c]) + (IF task'[c] = "loads" THEN 1 ELSE 0) <= 1
      BY <1>2, <1>3, <1>4, <2>1, <3>1, <3>2, <3>3
    <3>5. ~(c[2] > session'.gen) /\ ~(c[2] \in 1..session'.gen) /\ link'[c] # "none"
      BY <1>2, <1>3, <2>1 DEF Rival
    <3> HIDE DEF c
    <3> QED
      BY <3>4, <3>5 DEF Wire
  <2> QED
    BY <2>2, <2>3 DEF Lined
<1> QED
  BY <1>1, <1>5, <1>6

LEMMA LinedCut ==
    ASSUME Typed, Lined, NEW s \in Workers, session.gen > 0, LinkCut(Conn(s)), UNCHANGED callVars
    PROVE  Lined'
<1> DEFINE c == Conn(s)
<1>1. Typed' /\ c \in Connections
  BY OursIsCut
<1>2. /\ UNCHANGED <<up, down, task, stage>> /\ mishaps' = mishaps + 1
      /\ link[c] = "up" /\ link'[c] = "cut" /\ \A d \in Connections \ {c} : link'[d] = link[d]
  BY <1>1, LinkCutParts DEF Typed
<1>3. UNCHANGED <<session, op, pipe, late>>
  BY DEF callVars
<1>4. c[2] = session.gen /\ session.gen \in Nat /\ session.at # "none"
  <2>1. c[2] = session.gen /\ session.gen \in Nat
    BY WorkerAssumption DEF Conn, Typed, CallsTyped, Sessions
  <2>2. Wire(c)
    BY <1>1 DEF Lined
  <2> QED
    BY <1>2, <2>1, <2>2 DEF Wire
<1>5. ASSUME NEW t \in Workers PROVE Line(t)'
  <2>1. Line(t) /\ Conn(t)' = Conn(t) /\ Due(t)' = Due(t) /\ Held(t)' = Held(t) /\ late'[t] <= mishaps'
    <3>1. late[t] \in Nat /\ mishaps \in Nat
      BY DEF Typed, CallsTyped, WiresTyped
    <3>2. Line(t) /\ late[t] <= mishaps
      BY DEF Lined, Line
    <3> QED
      BY <1>2, <1>3, <3>1, <3>2 DEF Conn, Due, Waits, Held
  <2>2. CASE t = s
    <3>1. ~Up(t)' /\ link'[Conn(t)] = "cut"
      BY <1>2, <2>1, <2>2 DEF Up
    <3> QED
      BY <1>2, <1>3, <2>1, <3>1 DEF Line
  <2>3. CASE t # s
    <3>1. Conn(t) \in Connections \ {c}
      BY <1>4, <2>3, OurConnections DEF Typed
    <3>2. link'[Conn(t)] = link[Conn(t)] /\ (Up(t)' <=> Up(t)) /\ (Greets(Conn(t))' <=> Greets(Conn(t)))
      BY <1>2, <2>1, <3>1 DEF Up, Greets
    <3> QED
      BY <1>2, <1>3, <2>1, <3>2 DEF Line
  <2> QED
    BY <2>2, <2>3
<1>6. ASSUME NEW d \in Connections PROVE Wire(d)'
  <2>1. Wire(d) /\ Len(up[d]) \in Nat /\ Len(down[d]) \in Nat /\ mishaps \in Nat
    BY Lengths DEF Lined, Typed, WiresTyped
  <2>2. up \in [Connections -> Seq(Asked)] /\ down \in [Connections -> Seq(Answer)]
    BY DEF Typed, WiresTyped
  <2>3. Len(up'[d]) <= 1 + mishaps' /\ Len(down'[d]) <= 1 + mishaps'
    BY <1>2, <2>1, <2>2 DEF Wire
  <2>4. CASE d = c
    BY <1>2, <1>3, <1>4, <2>1, <2>3, <2>4 DEF Wire, Untouched, Rival
  <2>5. CASE d # c
    BY <1>2, <1>3, <2>1, <2>3, <2>5 DEF Wire, Untouched
  <2> QED
    BY <2>4, <2>5
<1> QED
  BY <1>5, <1>6 DEF Lined

LEMMA LinedInit == Init => Lined
<1> SUFFICES ASSUME Init PROVE Lined
  OBVIOUS
<1>1. /\ up = [c \in Connections |-> <<>>] /\ down = up /\ link = [c \in Connections |-> "none"]
      /\ task = [c \in Connections |-> "none"] /\ mishaps = 0 /\ session = NoSession(0) /\ late = NoneLate
  BY DEF Init, WorkerInit
<1>2. session.at = "none" /\ session.gen = 0
  BY <1>1 DEF NoSession
<1>3. \A s \in Workers : Line(s)
  BY <1>1, <1>2 DEF Line, NoneLate
<1>4. ASSUME NEW c \in Connections PROVE Wire(c)
  <2>1. up[c] = <<>> /\ down[c] = <<>> /\ link[c] = "none" /\ task[c] = "none" /\ Len(<<>>) = 0
    BY <1>1
  <2>2. ~(c[2] \in 1..session.gen)
    BY <1>2
  <2> QED
    BY <1>1, <2>1, <2>2 DEF Wire, Untouched
<1> QED
  BY <1>3, <1>4 DEF Lined

\* Every step keeps the lines and the wires.
LEMMA LinedNext == Typed /\ Lined /\ [Next]_vars => Lined'
<1> SUFFICES ASSUME Typed, Lined, [Next]_vars PROVE Lined'
  OBVIOUS
<1>1. CASE SessionStep \/ LlmStep \/ Stop \/ \E p \in Prompts : Open(p)
  BY <1>1, LinedSession, LinedLlm
<1>2. CASE LoadMade \/ LoadFailed \/ Load \/ Unload
  BY <1>2, LinedLoadMade, LinedLoad, LinedGone
<1>3. CASE Machines /\ UNCHANGED callVars
  BY <1>3, LinedWorkers DEF Machines
<1>4. CASE (RivalStep \/ (\E s \in Workers : session.gen > 0 /\ LinkCut(Conn(s)))) /\ UNCHANGED callVars
  BY <1>4, LinedRival, LinedCut
<1>5. CASE UNCHANGED vars
  <2>1. UNCHANGED <<up, down, link, task, stage, mishaps, late, session, op, pipe>>
    BY <1>5 DEF vars, wire, workerVars
  <2>2. \A s \in Workers : Waits(s)' <=> Waits(s)
    BY <2>1 DEF Waits
  <2> QED
    BY <2>1, <2>2, LinedAside
<1> QED
  BY <1>1, <1>2, <1>3, <1>4, <1>5 DEF Next, GoesOn

\* What is typed, and what is between, says that every variable has its type.
LEMMA TypedIsTypeOK == Typed /\ Lined => TypeOK
<1> SUFFICES ASSUME Typed, Lined PROVE TypeOK
  OBVIOUS
<1>1. WorkerTypeOK
  <2>1. \A c \in Connections : Len(up[c]) <= 1 + mishaps /\ Len(down[c]) <= 1 + mishaps
    BY DEF Lined, Wire
  <2>2. \A c \in Connections : stage[c].len <= Len(stage[c].rows)
    BY DEF Typed, WiresTyped, Layers
  <2> QED
    BY <2>1, <2>2 DEF Typed, WiresTyped, WorkerTypeOK
<1>2. late \in [Workers -> 0..MaxMishaps]
  <2>1. \A s \in Workers : late[s] \in 0..MaxMishaps
    <3> SUFFICES ASSUME NEW s \in Workers PROVE late[s] \in 0..MaxMishaps
      OBVIOUS
    <3>1. late[s] \in Nat /\ late[s] <= mishaps /\ mishaps \in 0..MaxMishaps /\ MaxMishaps \in Nat
      BY WorkerAssumption DEF Typed, CallsTyped, WiresTyped, Lined, Line
    <3> QED
      BY <3>1
  <2>2. late \in [Workers -> Nat]
    BY DEF Typed, CallsTyped
  <2> QED
    BY <2>1, <2>2
<1>3. session \in Sessions /\ op \in Ops /\ llm \in Llms /\ calls \in 0..MaxCalls
  BY DEF Typed, CallsTyped
<1> QED
  BY <1>1, <1>2, <1>3 DEF TypeOK, Sessions, Ops, Llms

\* Every variable of the cluster has its type, and of frames no more are on
\* their way than are waited for or came too late: with any number of workers,
\* loads, mishaps and other coordinators.
THEOREM FramesAreCounted == Spec => []TypeOK
<1>1. Init => Typed /\ Lined
  BY TypedInit, LinedInit
<1>2. Typed /\ Lined /\ [Next]_vars => Typed' /\ Lined'
  BY TypedNext, LinedNext
<1> QED
  BY <1>1, <1>2, TypedIsTypeOK, PTL DEF Spec

=============================================================================
