------------------------------- MODULE Engine -------------------------------
(***************************************************************************)
(* The engines: one worker thread per resident, each with a channel of     *)
(* commands in, a channel of events out and an interrupt flag of its own   *)
(* (`Engine` and `worker` of crates/llm/src/service.rs).                   *)
(*                                                                         *)
(* A reply is sent to run beside others, has a stop flag of its own and    *)
(* answers under its id. An image, a video and a transcription run alone,  *)
(* are stopped by the engine's flag, and answer under no id: `for` is what *)
(* the model knows and the channel does not carry.                         *)
(*                                                                         *)
(* A command the worker has received and cannot start yet (`held`) is here *)
(* still the head of its inbox: nothing behind it is looked at before it   *)
(* either way. A prompt is read in one pass.                               *)
(***************************************************************************)
EXTENDS Integers, Sequences, SequencesExt

CONSTANTS
    Key,        \* the residents there can be: a model at a backend
    Ids,        \* the jobs there can be
    MaxSteps,   \* bound: tokens of a reply, steps of an image
    MaxPanics   \* bound: worker threads that die at work

ASSUME EngineAssumption == MaxSteps \in Nat /\ MaxPanics \in Nat

VARIABLES
    status,     \* an engine is "off", "up" or "dead": its thread has panicked
    inbox,      \* Cmd, sent and not started
    outbox,     \* Evt, sent and not received
    flag,       \* Engine::cancel
    reading,    \* replies whose prompt is still to read
    writing,    \* replies that are written, a token each every step
    alone,      \* the image, video or transcription being made
    steps,      \* what each job may still take: max_tokens
    stop,       \* Ticket::stop, which a reply takes to the engine with it
    panics,     \* history: threads that died
    interrupted \* history: what an engine ended because of a flag

engineVars == <<status, inbox, outbox, flag, reading, writing, alone, steps, panics, interrupted>>

Nothing == [for |-> 0, at |-> "rest"]

Commands == [op : {"load", "unload", "ask", "alone", "beside"}, for : Ids]
Events   == [what : {"step", "done", "failed"}, for : Ids, tagged : BOOLEAN]

EngineTypeOK ==
    /\ status \in [Key -> {"off", "up", "dead"}]
    /\ inbox \in [Key -> Seq(Commands)]
    /\ outbox \in [Key -> Seq(Events)]
    /\ flag \in [Key -> BOOLEAN]
    /\ reading \in [Key -> SUBSET Ids]
    /\ writing \in [Key -> SUBSET Ids]
    /\ alone \in [Key -> {Nothing} \cup [for : Ids, at : {"work", "check"}]]
    /\ steps \in [Ids -> 0..MaxSteps]
    /\ stop \in [Ids -> BOOLEAN]
    /\ panics \in 0..MaxPanics
    /\ interrupted \subseteq Ids

EngineInit(up) ==
    /\ status = [k \in Key |-> IF k \in up THEN "up" ELSE "off"]
    /\ inbox = [k \in Key |-> <<>>]
    /\ outbox = [k \in Key |-> <<>>]
    /\ flag = [k \in Key |-> FALSE]
    /\ reading = [k \in Key |-> {}]
    /\ writing = [k \in Key |-> {}]
    /\ alone = [k \in Key |-> Nothing]
    /\ steps = [i \in Ids |-> MaxSteps]
    /\ stop = [i \in Ids |-> FALSE]
    /\ panics = 0
    /\ interrupted = {}

Under(k) == reading[k] \cup writing[k]
Idle(k) == Under(k) = {} /\ alone[k] = Nothing

\* An engine has been given something it has not finished.
AtWork(k) == status[k] = "up" /\ (inbox[k] # <<>> \/ ~Idle(k))

Event(what, id, tagged) == [what |-> what, for |-> id, tagged |-> tagged]

(***************************************************************************)
(* The handle: what the scheduler's thread does to an engine               *)
(***************************************************************************)

\* Engine::send. A command sent to a thread that has died is lost.
Sent(k, op, id) ==
    IF status[k] = "up"
    THEN [inbox EXCEPT ![k] = Append(@, [op |-> op, for |-> id])] ELSE inbox

\* Nothing more will ever be received from it. (Mistaken: a thread that has
\* panicked is not missed.)
Unloaded(k) == status[k] = "off" /\ outbox[k] = <<>>
Disconnected(k) == status[k] # "up" /\ outbox[k] = <<>>

(***************************************************************************)
(* The worker                                                              *)
(***************************************************************************)

Say(k, events) == outbox' = [outbox EXCEPT ![k] = @ \o events]

\* Cmd::Beside: begin, or the prompt could not be encoded or opened, or the
\* model is not one that writes.
StartBeside(k, id) ==
    /\ \/ reading' = [reading EXCEPT ![k] = @ \cup {id}] /\ UNCHANGED outbox
       \/ Say(k, <<Event("failed", id, TRUE)>>) /\ UNCHANGED reading
    /\ UNCHANGED <<flag, alone>>

\* The flag, when something starts alone. (Mistaken: as it was left.)
FlagAsLeft(k) == flag
FlagCleared(k) == [flag EXCEPT ![k] = FALSE]

\* Cmd::Paint, Cmd::Film, Cmd::Transcribe: whatever was left in the flag is
\* not about this one. A model of another kind refuses before that.
StartAlone(k, id) ==
    /\ \/ /\ flag' = FlagCleared(k)
          /\ alone' = [alone EXCEPT ![k] = [for |-> id, at |-> "work"]]
          /\ UNCHANGED outbox
       \/ /\ Say(k, <<Event("failed", id, FALSE)>>)
          /\ UNCHANGED <<flag, alone>>
    /\ UNCHANGED reading

\* Cmd::Load, Cmd::Unload, Cmd::Tokenize, Cmd::Perplexity, Cmd::Listen: one
\* answer. Unloading does not fail, and a perplexity clears the flag.
AnswerOnce(k, op, id) ==
    /\ \E what \in IF op = "unload" THEN {"done"} ELSE {"done", "failed"} :
            Say(k, <<Event(what, id, FALSE)>>)
    /\ flag' = flag \/ (op = "ask" /\ flag' = FlagCleared(k))
    /\ UNCHANGED <<reading, alone>>

\* The next command, once nothing is under way.
Receive(k) ==
    /\ status[k] = "up"
    /\ Idle(k)
    /\ inbox[k] # <<>>
    /\ inbox' = [inbox EXCEPT ![k] = Tail(@)]
    /\ LET cmd == Head(inbox[k])
       IN  \/ cmd.op = "beside" /\ StartBeside(k, cmd.for)
           \/ cmd.op = "alone" /\ StartAlone(k, cmd.for)
           \/ cmd.op \notin {"beside", "alone"} /\ AnswerOnce(k, cmd.op, cmd.for)
    /\ UNCHANGED <<status, writing, steps, stop, panics, interrupted>>

\* can_join: a reply starts beside the others between two steps, once none of
\* them has a prompt left to read. Whether the backend can set a conversation
\* aside is its own affair, so this may never happen.
JoinIn(k) ==
    /\ status[k] = "up"
    /\ writing[k] # {}
    /\ reading[k] = {}
    /\ inbox[k] # <<>>
    /\ Head(inbox[k]).op = "beside"
    /\ inbox' = [inbox EXCEPT ![k] = Tail(@)]
    /\ StartBeside(k, Head(inbox[k]).for)
    /\ UNCHANGED <<status, writing, steps, stop, panics, interrupted>>

\* How one step of a reply may come out: a token and more to come, or its
\* end, which it is at the latest when it may take no more. One that was
\* asked to stop ends whatever it chose.
Outcomes(id) ==
    IF stop[id] \/ steps[id] = 0 THEN {"done"} ELSE {"step", "done"}

\* advance: a prompt is read, or given up if its reply was stopped; and every
\* reply that was being written goes one token further, or all of them fail.
Advance(k) ==
    /\ status[k] = "up"
    /\ Under(k) # {}
    /\ \E read \in [reading[k] -> {"read", "failed"}] :
       \E wrote \in [writing[k] -> {"step", "done", "failed"}] :
        /\ \/ \A id \in writing[k] : wrote[id] \in Outcomes(id)
           \/ \A id \in writing[k] : wrote[id] = "failed"
        /\ \A id \in reading[k] : stop[id] => read[id] = "read"
        /\ LET ready == {id \in reading[k] : ~stop[id] /\ read[id] = "read"}
               given == {id \in reading[k] : stop[id]}
               those == SetToSeq(Under(k) \ ready)
               came(id) == IF id \in writing[k] THEN wrote[id]
                           ELSE IF id \in given THEN "done" ELSE "failed"
           IN  /\ Say(k, [i \in DOMAIN those |-> Event(came(those[i]), those[i], TRUE)])
               /\ reading' = [reading EXCEPT ![k] = {}]
               /\ writing' = [writing EXCEPT ![k] =
                                ready \cup {id \in @ : wrote[id] = "step"}]
               /\ steps' = [id \in Ids |->
                                IF id \in writing[k] /\ wrote[id] = "step"
                                THEN steps[id] - 1 ELSE steps[id]]
               /\ interrupted' = interrupted \cup given
                    \cup {id \in writing[k] : stop[id] /\ wrote[id] = "done"}
    /\ UNCHANGED <<status, inbox, flag, alone, stop, panics>>

\* One made alone reports a step, or ends.
StepAlone(k) ==
    /\ status[k] = "up"
    /\ alone[k].at = "work"
    /\ LET id == alone[k].for
       IN  \/ /\ steps[id] > 0
              /\ Say(k, <<Event("step", id, FALSE)>>)
              /\ alone' = [alone EXCEPT ![k].at = "check"]
              /\ steps' = [steps EXCEPT ![id] = @ - 1]
           \/ /\ \E what \in {"done", "failed"} : Say(k, <<Event(what, id, FALSE)>>)
              /\ alone' = [alone EXCEPT ![k] = Nothing]
              /\ UNCHANGED steps
    /\ UNCHANGED <<status, inbox, flag, reading, writing, stop, panics, interrupted>>

\* Having reported a step, it looks at the flag, and only then.
CheckAlone(k) ==
    /\ status[k] = "up"
    /\ alone[k].at = "check"
    /\ IF flag[k]
       THEN /\ Say(k, <<Event("failed", alone[k].for, FALSE)>>)
            /\ interrupted' = interrupted \cup {alone[k].for}
            /\ alone' = [alone EXCEPT ![k] = Nothing]
       ELSE /\ alone' = [alone EXCEPT ![k].at = "work"]
            /\ UNCHANGED <<outbox, interrupted>>
    /\ UNCHANGED <<status, inbox, flag, reading, writing, steps, stop, panics>>

\* The worker's thread panics at work. What it had said can still be heard.
Panic(k) ==
    /\ AtWork(k)
    /\ panics < MaxPanics
    /\ panics' = panics + 1
    /\ status' = [status EXCEPT ![k] = "dead"]
    /\ inbox' = [inbox EXCEPT ![k] = <<>>]
    /\ reading' = [reading EXCEPT ![k] = {}]
    /\ writing' = [writing EXCEPT ![k] = {}]
    /\ alone' = [alone EXCEPT ![k] = Nothing]
    /\ UNCHANGED <<outbox, flag, steps, stop, interrupted>>

Work(k) ==
    \/ Receive(k)
    \/ JoinIn(k)
    \/ Advance(k)
    \/ StepAlone(k)
    \/ CheckAlone(k)
=============================================================================
