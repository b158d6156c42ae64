------------------------------ MODULE Pipeline ------------------------------
(***************************************************************************)
(* A model across machines, as one session (crates/llm/src/cluster/        *)
(* session.rs, remote.rs), with the one conversation that is held in it    *)
(* (runtime.rs, as service.rs drives it). The ends are here, a stage is on *)
(* each worker, and each keeps the cache for its own layers; what keeps    *)
(* the caches in step is that every stage is told the same.                *)
(*                                                                         *)
(* A chunk of a prompt is one token here, so a pass of one chunk goes      *)
(* through the stages in turn, and a prompt of more is piped.              *)
(***************************************************************************)
EXTENDS Worker

CONSTANTS
    Prompts,   \* what may be asked, in tokens
    Token,     \* the token that is sampled
    MaxReply,  \* tokens in a reply
    MaxCalls   \* bound: generations asked for

ASSUME PipelineAssumption ==
    /\ Token \in Nat \ {0}
    /\ Prompts \subseteq Seq(Nat \ {0}) \ {<<>>}
    /\ MaxReply \in Nat /\ MaxCalls \in Nat

VARIABLES
    session,  \* PipelineSession: which load it is, `len`, `torn`
    op,       \* the call of the session under way
    pipe,     \* the threads of `piped`, and their channels
    late,     \* answers that came too late, of each stage
    llm,      \* Llm, and the one Run on it
    calls

vars == <<wire, link, workerVars, mishaps, session, op, pipe, late, llm, calls>>
callVars == <<session, op, pipe, late, llm, calls>>

Last == Cardinality(Workers)
Conn(s) == <<s, session.gen>>
OurConns == {Conn(s) : s \in Workers}

NoOp == [is |-> "none", then |-> "cut", n |-> 0, s |-> 0, row |-> <<>>, ok |-> TRUE]
NoPipe == [next |-> 0, ends |-> FALSE, lane |-> [s \in Workers |-> [at |-> "over", row |-> <<>>]],
           ch |-> [s \in 1..Last + 1 |-> <<>>], read |-> 0, row |-> <<>>, fault |-> FALSE]
NoSession(gen) == [at |-> "none", gen |-> gen, len |-> 0, torn |-> FALSE]
NoLlm == [at |-> "rest", cached |-> <<>>, ids |-> <<>>, prompt |-> 0, read |-> 0, left |-> 0, logits |-> <<>>]
NoneLate == [s \in Workers |-> 0]

Init ==
    /\ WorkerInit
    /\ session = NoSession(0) /\ op = NoOp /\ pipe = NoPipe /\ late = NoneLate /\ llm = NoLlm
    /\ calls = 0

(***************************************************************************)
(* RemoteStage: one frame out and the answer to it                         *)
(***************************************************************************)

\* A link that has gone takes frames as well, and gives no answer.
Ask(s, frame) ==
    up' = IF link[Conn(s)] = "up" THEN [up EXCEPT ![Conn(s)] = Append(@, frame)] ELSE up

\* What comes of it: the next answer there is, whatever it is an answer to;
\* or none, since the link has gone, with what was on it; or since it is not
\* here in PATIENCE. Then it is the next to be read.
NoAnswer == Plain("gone")
Comes(s, a) ==
    \/ /\ down[Conn(s)] # <<>> /\ a = Head(down[Conn(s)])
       /\ down' = [down EXCEPT ![Conn(s)] = Tail(@)]
       /\ UNCHANGED <<late, mishaps>>
    \/ /\ link[Conn(s)] # "up" /\ a = NoAnswer
       /\ down' = [down EXCEPT ![Conn(s)] = <<>>]
       /\ UNCHANGED <<late, mishaps>>
    \/ /\ down[Conn(s)] = <<>> /\ link[Conn(s)] = "up" /\ a = NoAnswer
       /\ AMishap
       /\ late' = [late EXCEPT ![s] = @ + 1]
       /\ UNCHANGED down
Answers(s) == {NoAnswer} \cup {down[Conn(s)][n] : n \in DOMAIN down[Conn(s)] \cap {1}}

\* RemoteStage::run and truncate: what is taken for an answer.
IsRows(a, pos) == a.kind = "hidden" /\ a.pos = pos
IsLength(a) == a.kind = "truncated"

ToTruncate(len) == Frame("truncate", len, <<>>)
Rows(row) == Frame("forward", Len(row) - 1, row)
AtTheWorkers == UNCHANGED <<link, workerVars>>

(***************************************************************************)
(* PipelineSession                                                         *)
(***************************************************************************)

Begins(then, n) == [NoOp EXCEPT !.is = "start", !.then = then, !.n = n]
Done(ok, n, row) == [NoOp EXCEPT !.is = "done", !.ok = ok, !.n = n, !.row = row]
Failed == Done(FALSE, 0, <<>>)

\* mend: after a pass that failed part way, every stage is told to hold
\* `len`, which some do.
StartMend ==
    /\ op.is = "start" /\ session.torn
    /\ Ask(1, ToTruncate(session.len))
    /\ op' = [op EXCEPT !.is = "mend", !.s = 1]
    /\ AtTheWorkers /\ UNCHANGED <<down, late, session, pipe, llm, calls>> /\ Smoothly
Mend ==
    /\ op.is = "mend"
    /\ \E a \in Answers(op.s) :
        /\ Comes(op.s, a)
        /\ IF IsLength(a) /\ a.pos = session.len
           THEN IF op.s < Last
                THEN /\ Ask(op.s + 1, ToTruncate(session.len))
                     /\ op' = [op EXCEPT !.s = @ + 1]
                     /\ UNCHANGED session
                ELSE /\ op' = [op EXCEPT !.is = "start"]
                     /\ session' = [session EXCEPT !.torn = FALSE]
                     /\ UNCHANGED up
           ELSE op' = Failed /\ UNCHANGED <<up, session>>
    /\ AtTheWorkers /\ UNCHANGED <<pipe, llm, calls>>

\* truncate: every stage is told, and has to say what the one before it did.
CutNothing ==
    /\ op.is = "start" /\ ~session.torn /\ op.then = "cut" /\ op.n >= session.len
    /\ op' = Done(TRUE, session.len, <<>>)
    /\ AtTheWorkers /\ UNCHANGED <<wire, late, session, pipe, llm, calls>> /\ Smoothly
StartCut ==
    /\ op.is = "start" /\ ~session.torn /\ op.then = "cut" /\ op.n < session.len
    /\ Ask(1, ToTruncate(op.n))
    /\ op' = [op EXCEPT !.is = "cut", !.s = 1]
    /\ AtTheWorkers /\ UNCHANGED <<down, late, session, pipe, llm, calls>> /\ Smoothly
CutBack ==
    /\ op.is = "cut"
    /\ \E a \in Answers(op.s) :
        /\ Comes(op.s, a)
        /\ IF IsLength(a) /\ (op.s = 1 \/ op.row = <<a.pos>>)
           THEN IF op.s < Last
                THEN /\ Ask(op.s + 1, ToTruncate(op.n))
                     /\ op' = [op EXCEPT !.s = @ + 1, !.row = <<a.pos>>]
                     /\ UNCHANGED session
                ELSE /\ op' = Done(TRUE, a.pos, <<>>)
                     /\ session' = [session EXCEPT !.len = a.pos]
                     /\ UNCHANGED up
           ELSE op' = Failed /\ UNCHANGED <<up, session>>
    /\ AtTheWorkers /\ UNCHANGED <<pipe, llm, calls>>

\* post: after a pass, the workers are sometimes asked what they spent, and
\* what comes of that is nobody's failure.
Post(result) ==
    \/ op' = result
    \/ op' = [result EXCEPT !.is = "post", !.s = 0]
NextSpend ==
    /\ op.is = "post"
    /\ IF op.s < Last
       THEN Ask(op.s + 1, Plain("spend")) /\ op' = [op EXCEPT !.is = "spend", !.s = @ + 1]
       ELSE op' = [op EXCEPT !.is = "done", !.s = 0] /\ UNCHANGED up
    /\ AtTheWorkers /\ UNCHANGED <<down, late, session, pipe, llm, calls>> /\ Smoothly
Spent ==
    /\ op.is = "spend"
    /\ \E a \in Answers(op.s) : Comes(op.s, a)
    /\ op' = [op EXCEPT !.is = "post"]
    /\ AtTheWorkers /\ UNCHANGED <<up, session, pipe, llm, calls>>

\* forward, of one chunk: through every stage and back. (Mistaken: what one
\* failed at is not remembered.)
StaysWhole(fault) == FALSE
Torn(fault) == fault
StartPass ==
    /\ op.is = "start" /\ ~session.torn /\ op.then = "forward" /\ op.n - session.len = 1
    /\ Ask(1, Rows(SubSeq(llm.ids, 1, session.len + 1)))
    /\ op' = [op EXCEPT !.is = "pass", !.s = 1]
    /\ AtTheWorkers /\ UNCHANGED <<down, late, session, pipe, llm, calls>> /\ Smoothly
Pass ==
    /\ op.is = "pass"
    /\ \E a \in Answers(op.s) :
        /\ Comes(op.s, a)
        /\ IF IsRows(a, session.len)
           THEN IF op.s < Last
                THEN /\ Ask(op.s + 1, Rows(a.row))
                     /\ op' = [op EXCEPT !.s = @ + 1]
                     /\ UNCHANGED session
                ELSE /\ Post(Done(TRUE, op.n, a.row))
                     /\ session' = [session EXCEPT !.len = @ + 1, !.torn = Torn(FALSE)]
                     /\ UNCHANGED up
           ELSE /\ Post(Failed)
                /\ session' = [session EXCEPT !.torn = Torn(TRUE)]
                /\ UNCHANGED up
    /\ AtTheWorkers /\ UNCHANGED <<pipe, llm, calls>>

(***************************************************************************)
(* piped: a thread for each stage, room for one chunk between them         *)
(***************************************************************************)

StartPipe ==
    /\ op.is = "start" /\ ~session.torn /\ op.then = "forward" /\ op.n - session.len > 1
    /\ op' = [op EXCEPT !.is = "pipe"]
    /\ pipe' = [NoPipe EXCEPT !.next = session.len,
                              !.lane = [s \in Workers |-> [at |-> "take", row |-> <<>>]]]
    /\ AtTheWorkers /\ UNCHANGED <<wire, late, session, llm, calls>> /\ Smoothly

Over(s) == pipe.lane[s].at = "over"
SenderGone(s) == IF s = 1 THEN pipe.ends \/ pipe.next = op.n ELSE Over(s - 1)
\* What a channel's receiver does when its thread ends. (Mistaken: it is
\* kept.)
ReceiverKept(s) == FALSE
ReceiverGone(s) == s <= Last /\ Over(s)
HasRoom(s) == pipe.ch[s] = <<>>

Piping == op.is = "pipe" /\ UNCHANGED <<link, workerVars, session, llm, calls>>
Quietly == UNCHANGED <<wire, late>> /\ Smoothly

\* The chunks, embedded as there is room.
Feed ==
    /\ Piping /\ ~SenderGone(1)
    /\ \/ ReceiverGone(1) /\ pipe' = [pipe EXCEPT !.ends = TRUE]
       \/ /\ ~ReceiverGone(1) /\ HasRoom(1)
          /\ pipe' = [pipe EXCEPT !.next = @ + 1, !.ch[1] = <<SubSeq(llm.ids, 1, pipe.next + 1)>>]
    /\ UNCHANGED op /\ Quietly

Take(s) ==
    /\ Piping /\ pipe.lane[s].at = "take" /\ pipe.ch[s] # <<>>
    /\ Ask(s, Rows(pipe.ch[s][1]))
    /\ pipe' = [pipe EXCEPT !.lane[s] = [at |-> "ask", row |-> pipe.ch[s][1]], !.ch[s] = <<>>]
    /\ UNCHANGED <<op, down, late>> /\ Smoothly
NoMore(s) ==
    /\ Piping /\ pipe.lane[s].at = "take" /\ pipe.ch[s] = <<>> /\ SenderGone(s)
    /\ pipe' = [pipe EXCEPT !.lane[s].at = "over"]
    /\ UNCHANGED op /\ Quietly
HandBack(s) ==
    /\ Piping /\ pipe.lane[s].at = "ask"
    /\ \E a \in Answers(s) :
        /\ Comes(s, a)
        /\ pipe' = IF IsRows(a, Len(pipe.lane[s].row) - 1)
                   THEN [pipe EXCEPT !.lane[s] = [at |-> "send", row |-> a.row]]
                   ELSE [pipe EXCEPT !.lane[s].at = "over", !.ch[s] = <<>>, !.fault = TRUE]
    /\ UNCHANGED <<op, up>>
HandOn(s) ==
    /\ Piping /\ pipe.lane[s].at = "send"
    /\ \/ ReceiverGone(s + 1) /\ pipe' = [pipe EXCEPT !.lane[s].at = "over", !.ch[s] = <<>>]
       \/ /\ ~ReceiverGone(s + 1) /\ HasRoom(s + 1)
          /\ pipe' = [pipe EXCEPT !.lane[s].at = "take", !.ch[s + 1] = <<pipe.lane[s].row>>]
    /\ UNCHANGED op /\ Quietly

\* What comes out of the last is held by every stage.
Drain ==
    /\ Piping /\ pipe.ch[Last + 1] # <<>>
    /\ pipe' = [pipe EXCEPT !.read = @ + 1, !.row = pipe.ch[Last + 1][1], !.ch[Last + 1] = <<>>]
    /\ UNCHANGED op /\ Quietly
PipeEnds ==
    /\ op.is = "pipe" /\ SenderGone(1) /\ pipe.ch[Last + 1] = <<>>
    /\ \A s \in Workers : Over(s)
    /\ session' = [session EXCEPT !.len = @ + pipe.read, !.torn = Torn(pipe.fault)]
    /\ Post(IF pipe.fault THEN Failed ELSE Done(TRUE, op.n, pipe.row))
    /\ pipe' = NoPipe
    /\ AtTheWorkers /\ UNCHANGED <<wire, late, llm, calls>> /\ Smoothly

(***************************************************************************)
(* Llm, alone on its engine: the session keeps one conversation            *)
(***************************************************************************)

Calls == UNCHANGED <<wire, link, workerVars, mishaps, session, pipe, late>>
Least(S) == CHOOSE n \in S : \A m \in S : n <= m
CommonPrefix(a, b) == Least({n \in 0..Len(a) :
    n = Len(a) \/ n = Len(b) \/ (n < Len(b) /\ a[n + 1] # b[n + 1])})

\* open: what the cache may keep, and at least one token to read.
Wanted(prompt) == Least({CommonPrefix(llm.cached, prompt), session.len, Len(prompt) - 1})
Open(prompt) ==
    /\ llm.at = "rest" /\ session.at = "loaded" /\ calls < MaxCalls
    /\ calls' = calls + 1
    /\ op' = Begins("cut", Wanted(prompt))
    /\ llm' = [llm EXCEPT !.at = "open", !.ids = prompt, !.prompt = Len(prompt), !.left = MaxReply]
    /\ Calls

Rests(cached) == [NoLlm EXCEPT !.cached = cached]
Opened ==
    /\ llm.at = "open" /\ op.is = "done"
    /\ op' = NoOp
    /\ llm' = IF op.ok
              THEN [llm EXCEPT !.at = IF op.n = llm.prompt THEN "ready" ELSE "opened", !.read = op.n]
              ELSE Rests(llm.cached)
    /\ Calls /\ UNCHANGED calls

\* prefill: all there is but the last token, then that. Of a prompt that is
\* shorter than what it is said to share with the cache nothing is read, and
\* it is never ready.
ReadTo(read) == IF llm.prompt - read > 1 THEN llm.prompt - 1 ELSE llm.prompt
Prefill ==
    /\ llm.at = "opened" /\ llm.read < llm.prompt
    /\ op' = Begins("forward", ReadTo(llm.read))
    /\ llm' = [llm EXCEPT !.at = "read"]
    /\ Calls /\ UNCHANGED calls
\* abandon: of a generation that failed nothing is kept, and how far the
\* stages got is tried to be undone.
Abandon == op' = Begins("cut", 0) /\ llm' = [Rests(<<>>) EXCEPT !.at = "drop"]
HaveRead ==
    /\ llm.at = "read" /\ op.is = "done"
    /\ \/ ~op.ok /\ Abandon
       \/ /\ op.ok /\ op.n < llm.prompt
          /\ op' = Begins("forward", llm.prompt) /\ llm' = [llm EXCEPT !.read = op.n]
       \/ /\ op.ok /\ op.n = llm.prompt
          /\ op' = NoOp
          /\ llm' = [llm EXCEPT !.at = "ready", !.read = op.n, !.logits = op.row]
    /\ Calls /\ UNCHANGED calls
\* step: a token from the logits there are; then it is read, if there is a
\* next step.
Step ==
    /\ llm.at = "ready" /\ llm.left > 0
    /\ LET ids == Append(llm.ids, Token)
       IN  /\ llm' = [llm EXCEPT !.at = "feed", !.ids = ids, !.left = @ - 1]
           /\ op' = Begins("forward", Len(ids))
    /\ Calls /\ UNCHANGED calls
Fed ==
    /\ llm.at = "feed" /\ op.is = "done"
    /\ \/ ~op.ok /\ Abandon
       \/ op.ok /\ op' = NoOp /\ llm' = [llm EXCEPT !.at = "ready", !.logits = op.row]
    /\ Calls /\ UNCHANGED calls
\* finish: over, at the end of the budget or an end-of-sequence token; or
\* stopped, before the prompt is read or with a token that will not be.
Finish ==
    /\ llm.at = "ready" /\ llm' = Rests(llm.ids)
    /\ Calls /\ UNCHANGED <<op, calls>>
Stop ==
    /\ \/ llm.at = "opened"
          /\ llm' = Rests(IF llm.read < llm.prompt THEN SubSeq(llm.ids, 1, llm.read) ELSE llm.ids)
       \/ llm.at = "ready" /\ llm.left > 0 /\ llm' = Rests(Append(llm.ids, Token))
    /\ Calls /\ UNCHANGED <<op, calls>>
Dropped ==
    /\ llm.at = "drop" /\ op.is = "done"
    /\ op' = NoOp /\ llm' = Rests(llm.cached)
    /\ Calls /\ UNCHANGED calls

(***************************************************************************)
(* staged: loading, on all machines at once                                *)
(***************************************************************************)

NewConns == {<<w, session.gen + 1>> : w \in Workers}
Load ==
    /\ session.at = "none" /\ session.gen < MaxLoads
    /\ Opens(NewConns)
    /\ session' = [session EXCEPT !.at = "loading", !.gen = @ + 1]
    /\ UNCHANGED <<op, pipe, late, llm, calls>> /\ Smoothly
HasSaid(c, kind) == down[c] # <<>> /\ Head(down[c]).kind = kind
LoadMade ==
    /\ session.at = "loading"
    /\ \A c \in OurConns : HasSaid(c, "ready")
    /\ down' = [c \in Connections |-> IF c \in OurConns THEN Tail(down[c]) ELSE down[c]]
    /\ session' = [session EXCEPT !.at = "loaded"]
    /\ UNCHANGED <<up, op, pipe, late, llm, calls>> /\ AtTheWorkers /\ Smoothly
LoadFailed ==
    /\ session.at = "loading"
    /\ \A c \in OurConns : down[c] # <<>> \/ link[c] # "up"
    /\ \E c \in OurConns : HasSaid(c, "error") \/ link[c] # "up"
    /\ Leaves(OurConns)
    /\ session' = NoSession(session.gen)
    /\ UNCHANGED <<op, pipe, late, llm, calls>> /\ Smoothly
Unload ==
    /\ session.at = "loaded" /\ llm.at = "rest"
    /\ Leaves(OurConns)
    /\ session' = NoSession(session.gen) /\ late' = NoneLate /\ llm' = NoLlm
    /\ UNCHANGED <<op, pipe, calls>> /\ Smoothly

SessionStep ==
    \/ StartMend \/ Mend \/ CutNothing \/ StartCut \/ CutBack \/ NextSpend \/ Spent \/ StartPass \/ Pass
    \/ StartPipe \/ Feed \/ Drain \/ PipeEnds
    \/ \E s \in Workers : Take(s) \/ NoMore(s) \/ HandBack(s) \/ HandOn(s)
LlmStep == Opened \/ Prefill \/ HaveRead \/ Step \/ Fed \/ Finish \/ Dropped
Machines == \E c \in Connections : WorkerStep(c)

GoesOn == SessionStep \/ LlmStep \/ LoadMade \/ LoadFailed \/ (Machines /\ UNCHANGED callVars)
Next ==
    \/ GoesOn
    \/ Load \/ Unload \/ Stop \/ (\E p \in Prompts : Open(p))
    \/ (RivalStep \/ (\E s \in Workers : session.gen > 0 /\ LinkCut(Conn(s)))) /\ UNCHANGED callVars

Spec == Init /\ [][Next]_vars

\* The machines' threads and this one's run, and an answer is waited for no
\* longer than PATIENCE. Nobody need ask for anything, and nothing need go
\* wrong.
FairSpec == Spec /\ WF_vars(GoesOn)

(***************************************************************************)
(* Properties                                                              *)
(***************************************************************************)

\* Every variable has its type.
TypeOK ==
    /\ WorkerTypeOK
    /\ session.at \in {"none", "loading", "loaded"} /\ session.gen \in 0..MaxLoads
    /\ session.torn \in BOOLEAN /\ session.len \in Nat
    /\ op.is \in {"none", "start", "mend", "cut", "pass", "pipe", "post", "spend", "done"}
    /\ late \in [Workers -> 0..MaxMishaps]
    /\ llm.at \in {"rest", "open", "opened", "read", "ready", "feed", "drop"}
    /\ calls \in 0..MaxCalls

\* A worker's place is one coordinator's at a time, and taken exactly when
\* one has it: through refusals, loads that fail, links that go and are found
\* out later than the coordinator is back. Only who has the place has layers.
OnePlace ==
    \A w \in Workers :
        LET holders == {c \in Connections : To(c) = w /\ ours[c]}
        IN  /\ Cardinality(holders) = (IF busy[w] THEN 1 ELSE 0)
            /\ \A c \in Connections : To(c) = w /\ stage[c] # NoStage => c \in holders

\* A token is sampled from logits of exactly the tokens before it, whatever
\* was read, cut back, stopped, lost or failed before. Two exceptions are the
\* code's: a second late answer, after which an answer for other tokens at the
\* same position is taken, and that to an earlier rewind; and a kernel that
\* panicked in an empty cache and left keys that no rewind drops.
LateAgain == Cardinality({sn \in Workers \X (1..MaxMishaps) : sn[2] <= late[sn[1]]}) > 1
RepliesAreTheirs == llm.at = "ready" => llm.logits = llm.ids \/ spoilt \/ LateAgain

\* Between generations, with nothing to mend, every stage is as long as the
\* session says, and has the conversation the next prompt is compared with,
\* as far as both go. (Of stages that have gone, or that answer late for good,
\* there is nothing to say.)
Sound == /\ session.at = "loaded" /\ ~session.torn /\ ~spoilt
         /\ \A s \in Workers : link[Conn(s)] = "up" /\ late[s] = 0
InStep ==
    Sound /\ llm.at = "rest" => \A s \in Workers :
        LET held == stage[Conn(s)]
            shared == Least({session.len, Len(llm.cached)})
        IN  held.len = session.len /\ SubSeq(held.rows, 1, shared) = SubSeq(llm.cached, 1, shared)

\* Every generation ends, with a reply or an error: whichever stage fails, at
\* whichever chunk, no thread of the pipeline waits for one that has gone. One
\* exception is the code's: after two late answers a rewind may be answered
\* with the length of an earlier one, and a prompt shorter than that is never
\* ready.
CallsEnd == llm.at # "rest" ~> llm.at = "rest" \/ llm.read > llm.prompt
=============================================================================
