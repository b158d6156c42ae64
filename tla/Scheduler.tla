----------------------------- MODULE Scheduler -----------------------------
(***************************************************************************)
(* The scheduler of kvad-serve (crates/serve/src/scheduler.rs): the queue, *)
(* the books, the one thread that takes jobs and talks to the engines, and *)
(* the handlers that submit, stop, read and hang up while it does.         *)
(*                                                                         *)
(* A step of the thread, or of a cancellation, is what it does between two *)
(* looks at what others may change: the queue and the books (each under    *)
(* its lock), the counters, a stop flag, a channel. The rate is FairQueue's*)
(* and off here; what fits in memory is Admission's, and a load here is    *)
(* refused or goes ahead as it may.                                        *)
(***************************************************************************)
EXTENDS Turns, Orders, Engine

CONSTANTS
    Asked,        \* who may ask: the owners this instance has
    Menu,         \* what may be asked for: [kind, on] records
    Batch,        \* replies that run together on one resident
    Capacity,     \* pieces a caller's channel holds
    MaxArrivals,  \* bound: jobs ever submitted
    MaxCancels,   \* bound: calls of cancel
    MaxLeavers,   \* bound: callers that hang up
    MayClose,     \* bound: whether the scheduler may be dropped
    Resident      \* the engines that are up to begin with

\* chat and complete with and without a cache; paint; film and transcribe,
\* which differ in nothing here; load; unload; tokenize, score and listen.
Texts == {"text", "fresh"}
Alones == {"paint", "film"}
Kinds == Texts \cup Alones \cup {"load", "unload", "ask"}
Everywhere == "all"

ASSUME SchedulerAssumption ==
    /\ Asked \subseteq Owners
    /\ Everywhere \notin Key
    /\ Menu \subseteq [kind : Kinds, on : Key \cup {Everywhere}]
    /\ \A item \in Menu : item.kind # "unload" => item.on \in Key
    /\ Batch \in Nat \ {0}
    /\ Capacity \in Nat \ {0}
    /\ MaxArrivals \in Nat /\ Ids = 1..MaxArrivals
    /\ MaxCancels \in Nat
    /\ MaxLeavers \in Nat
    /\ MayClose \in BOOLEAN
    /\ Resident \subseteq Key /\ IsFiniteSet(Resident)

VARIABLES
    \* the queue, and Shared
    jobs, closed, served, turn,
    waiting,    \* Shared::waiting
    busy,       \* Shared::busy
    books,      \* Shared::live: the generations submitted and not finished
    begun,      \* Live::engine: whose flag interrupts a generation
    \* the thread
    pc,         \* where it is
    cur,        \* the job it has taken
    slots,      \* the residents it has an engine of
    batch,      \* Batch: what it is on, whether alone, and its streams
    ended,      \* streams over and not yet dropped
    holding,    \* the event just received, or the answer not yet handed over
    going,      \* residents being unloaded
    \* the callers' ends
    chan,       \* pieces sent and not read
    backlog,    \* Stream::backlog, and what a thread of its own still sends
    trailing,   \* replies whose rest has a thread of its own
    sender,     \* the scheduler still holds the sending end
    reader,     \* the caller still holds the receiving end
    heard,      \* the last thing a caller has read
    \* a call of cancel
    stopping,
    \* counts and history
    submitted,  \* every job there ever was
    cancels, leavers,
    told        \* generations a cancel stopped

queueVars   == <<jobs, closed, served, turn, submitted>>
callerVars  == <<chan, backlog, trailing, sender, reader, heard, leavers>>
threadVars  == <<pc, cur, slots, batch, ended, holding, going>>
cancelVars  == <<stopping, cancels, told>>
sharedVars  == <<waiting, busy, books, begun>>
vars == <<queueVars, callerVars, threadVars, cancelVars, sharedVars, engineVars, stop>>

NoJob == [n |-> 0, who |-> NoTicket, kind |-> "none", on |-> Everywhere]
NoBatch == [on |-> Everywhere, private |-> FALSE, streams |-> {}]
Silence == [what |-> "none", for |-> 0]
NoCancel == [at |-> "rest", who |-> NoTicket, id |-> 0, gone |-> {}]

Endings == {"done", "failed", "cancelled"}

Init ==
    /\ jobs = {} /\ closed = FALSE
    /\ served = [o \in Owners |-> 0] /\ turn = 0
    /\ submitted = {}
    /\ waiting = 0 /\ busy = FALSE
    /\ books = {} /\ begun = [i \in Ids |-> {}]
    /\ pc = "next" /\ cur = NoJob
    /\ slots = Resident
    /\ batch = NoBatch /\ ended = {} /\ holding = Silence /\ going = <<>>
    /\ chan = [i \in Ids |-> <<>>]
    /\ backlog = [i \in Ids |-> <<>>]
    /\ trailing = {}
    /\ sender = {} /\ reader = Ids
    /\ heard = [i \in Ids |-> "nothing"]
    /\ stopping = NoCancel
    /\ cancels = 0 /\ leavers = 0 /\ told = {}
    /\ EngineInit(Resident)

(***************************************************************************)
(* The handlers                                                            *)
(***************************************************************************)

IsText(j) == j.kind \in Texts
Told(js) == {j.n : j \in js}

\* Shared::finish, for one or several. (Mistaken: the entry stays.)
NotFinished(js) == books
Finished(js) == books \ js

\* Submitted and not yet dropped: somebody may be waiting for its end.
Open(j) == j.n \in sender \cup trailing

\* generate and submit: under the queue's lock, counted, entered in the books
\* if it is a generation, and queued.
Submit(who, item) ==
    LET n == Cardinality(submitted) + 1
        j == [n |-> n, who |-> who, kind |-> item.kind, on |-> item.on]
    IN  /\ ~closed
        /\ n <= MaxArrivals
        /\ IF item.kind \in Texts \cup Alones
           THEN who \in Asked /\ HasRoom(jobs, who) /\ books' = books \cup {j}
           ELSE who = NoTicket /\ UNCHANGED books
        /\ jobs' = jobs \cup {j}
        /\ submitted' = submitted \cup {j}
        /\ waiting' = waiting + 1
        /\ sender' = sender \cup {n}
        /\ UNCHANGED <<closed, served, turn, busy, begun, chan, backlog, trailing, reader,
                       heard, leavers, threadVars, cancelVars, engineVars, stop>>

\* cancel, first: what waits of theirs leaves the queue, under its lock.
CancelWaiting(who, id) ==
    LET gone == {j \in jobs : j.who = who /\ id \in {0, j.n}}
    IN  /\ stopping = NoCancel
        /\ cancels < MaxCancels
        /\ cancels' = cancels + 1
        /\ jobs' = jobs \ gone
        /\ stopping' = [at |-> "count", who |-> who, id |-> id, gone |-> gone]
        /\ told' = told \cup Told(gone)
        /\ UNCHANGED <<closed, served, turn, submitted, sharedVars, callerVars, threadVars,
                       engineVars, stop>>

\* Then it is counted out.
CancelCount ==
    /\ stopping.at = "count"
    /\ waiting' = waiting - Cardinality(stopping.gone)
    /\ stopping' = [stopping EXCEPT !.at = "end"]
    /\ UNCHANGED <<queueVars, callerVars, threadVars, engineVars, stop, busy, books, begun,
                   cancels, told>>

\* Then it leaves the books, and its caller is told and let go.
CancelEnd ==
    LET gone == Told(stopping.gone)
    IN  /\ stopping.at = "end"
        /\ books' = Finished(stopping.gone)
        /\ chan' = [i \in Ids |-> IF i \in gone \cap reader
                                  THEN Append(chan[i], "cancelled") ELSE chan[i]]
        /\ sender' = sender \ gone
        /\ stopping' = [stopping EXCEPT !.at = "mark"]
        /\ UNCHANGED <<queueVars, threadVars, engineVars, stop, waiting, busy, begun, backlog,
                       trailing, reader, heard, leavers, cancels, told>>

\* Last, under the books' lock: whatever is left of theirs is told to stop,
\* and so is the engine that has begun it.
CancelMark ==
    LET live == {j \in books : j.who = stopping.who /\ stopping.id \in {0, j.n}}
    IN  /\ stopping.at = "mark"
        /\ stop' = [i \in Ids |-> stop[i] \/ i \in Told(live)]
        /\ flag' = [k \in Key |-> flag[k] \/ \E j \in live : k \in begun[j.n]]
        /\ told' = told \cup Told(live)
        /\ stopping' = NoCancel
        /\ UNCHANGED <<queueVars, callerVars, threadVars, sharedVars, cancels, status, inbox,
                       outbox, reading, writing, alone, steps, panics, interrupted>>

\* A caller reads a piece.
Read(i) ==
    /\ i \in reader
    /\ chan[i] # <<>>
    /\ heard' = [heard EXCEPT ![i] = IF @ \in Endings \cup {"more"} THEN "more" ELSE Head(chan[i])]
    /\ chan' = [chan EXCEPT ![i] = Tail(@)]
    /\ UNCHANGED <<queueVars, threadVars, cancelVars, sharedVars, engineVars, stop, backlog,
                   trailing, sender, reader, leavers>>

\* A caller hangs up: what was sent to it goes with it.
Leave(i) ==
    /\ i \in reader /\ i \in sender
    /\ leavers < MaxLeavers
    /\ leavers' = leavers + 1
    /\ reader' = reader \ {i}
    /\ chan' = [chan EXCEPT ![i] = <<>>]
    /\ UNCHANGED <<queueVars, threadVars, cancelVars, sharedVars, engineVars, stop, backlog,
                   trailing, sender, heard>>

\* The thread a finished reply's rest was left to, in Stream::end.
Trail(i) ==
    /\ i \in trailing
    /\ i \in reader => Len(chan[i]) < Capacity
    /\ LET rest == IF i \in reader THEN Tail(backlog[i]) ELSE <<>>
       IN  /\ backlog' = [backlog EXCEPT ![i] = rest]
           /\ trailing' = IF rest = <<>> THEN trailing \ {i} ELSE trailing
           /\ chan' = IF i \in reader
                      THEN [chan EXCEPT ![i] = Append(@, Head(backlog[i]))] ELSE chan
    /\ UNCHANGED <<queueVars, threadVars, cancelVars, sharedVars, engineVars, stop, sender,
                   reader, heard, leavers>>

\* Scheduler::drop, by Queue::close: the jobs waiting are dropped, and their
\* callers hear of it by their channels.
Close ==
    /\ MayClose
    /\ ~closed
    /\ closed' = TRUE
    /\ jobs' = {}
    /\ sender' = sender \ Told(jobs)
    /\ UNCHANGED <<served, turn, submitted, sharedVars, threadVars, cancelVars, engineVars, stop,
                   chan, backlog, trailing, reader, heard, leavers>>

(***************************************************************************)
(* The thread: taking a job                                                *)
(***************************************************************************)

\* Waiting::take_if. (Mistaken: the turn is not noted.)
TakeUnnoted(j) ==
    /\ ~closed
    /\ IsTurn(jobs, served, j)
    /\ jobs' = jobs \ {j}
    /\ cur' = j
    /\ UNCHANGED <<closed, submitted, served, turn>>
TakeJob(j) ==
    /\ ~closed
    /\ IsTurn(jobs, served, j)
    /\ jobs' = jobs \ {j}
    /\ cur' = j
    /\ IF IsGeneration(j)
       THEN turn' = turn + 1 /\ served' = [served EXCEPT ![j.who] = turn + 1]
       ELSE UNCHANGED <<served, turn>>
    /\ UNCHANGED <<closed, submitted>>

\* Queue::next.
TakeNext(j) ==
    /\ pc = "next"
    /\ TakeJob(j)
    /\ pc' = "busy"
    /\ UNCHANGED <<slots, batch, ended, holding, going, callerVars, cancelVars, sharedVars,
                   engineVars, stop>>

\* Busy before the job leaves the waiting count.
MarkBusy ==
    /\ pc = "busy"
    /\ busy' = TRUE
    /\ pc' = "count"
    /\ UNCHANGED <<queueVars, cur, slots, batch, ended, holding, going, callerVars, cancelVars,
                   waiting, books, begun, engineVars, stop>>

CountOut ==
    /\ pc = "count"
    /\ waiting' = waiting - 1
    /\ pc' = IF IsText(cur) THEN "admit" ELSE IF cur.kind \in Alones THEN "enter" ELSE cur.kind
    /\ UNCHANGED <<queueVars, cur, slots, batch, ended, holding, going, callerVars, cancelVars,
                   busy, books, begun, engineVars, stop>>

\* The queue is closed: the thread ends, and its engines with it.
End ==
    /\ pc = "next"
    /\ closed
    /\ pc' = "over"
    /\ slots' = {}
    /\ status' = [k \in Key |-> "off"]
    /\ UNCHANGED <<queueVars, cur, batch, ended, holding, going, callerVars, cancelVars, sharedVars,
                   inbox, outbox, flag, reading, writing, alone, steps, panics, interrupted, stop>>

(***************************************************************************)
(* The thread: replies, which run together                                 *)
(***************************************************************************)

Sending(i, piece) ==
    chan' = IF i \in reader THEN [chan EXCEPT ![i] = Append(@, piece)] ELSE chan

\* Batch::admit, and Job::refused for a reply the engine never hears of: one
\* for a model that is not loaded, or stopped while it waited. A channel that
\* nothing was sent on has room.
AdmitReply ==
    LET first == batch = NoBatch
        b == IF first THEN [on |-> cur.on, private |-> cur.kind = "fresh", streams |-> {}]
             ELSE batch
        refuse == b.on \notin slots \/ stop[cur.n]
    IN  /\ pc = "admit"
        /\ IF refuse
           THEN /\ Sending(cur.n, IF b.on \in slots THEN "cancelled" ELSE "failed")
                /\ books' = Finished({cur})
                /\ ended' = ended \cup {cur.n}
                /\ UNCHANGED <<batch, inbox>>
           ELSE /\ inbox' = Sent(b.on, "beside", cur.n)
                /\ batch' = [b EXCEPT !.streams = @ \cup {cur.n}]
                /\ UNCHANGED <<chan, books, ended>>
        /\ cur' = NoJob
        /\ pc' = IF first /\ refuse THEN "settle" ELSE "join"
        /\ UNCHANGED <<queueVars, slots, holding, going, backlog, trailing, sender, reader, heard,
                       leavers, cancelVars, waiting, busy, begun, status, outbox, flag, reading,
                       writing, alone, steps, panics, interrupted, stop>>

\* Who may join: the one whose turn it is, if it is a reply of this resident
\* that can share it and there is a place. Nobody is looked for past it.
\* (Mistaken: it may be more than a reply.)
FitsWhatever(j) ==
    /\ ~batch.private
    /\ Cardinality(batch.streams) < Batch
    /\ j.on = batch.on
Fits(j) ==
    /\ ~batch.private
    /\ Cardinality(batch.streams) < Batch
    /\ j.kind = "text"
    /\ j.on = batch.on

\* Queue::joining, with somebody to join.
Join(j) ==
    /\ pc = "join"
    /\ Fits(j)
    /\ TakeJob(j)
    /\ pc' = "count"
    /\ UNCHANGED <<slots, batch, ended, holding, going, callerVars, cancelVars, sharedVars,
                   engineVars, stop>>

JoinNobody ==
    /\ pc = "join"
    /\ closed \/ \A j \in jobs : IsTurn(jobs, served, j) => ~Fits(j)
    /\ pc' = "pump"
    /\ UNCHANGED <<queueVars, cur, slots, batch, ended, holding, going, callerVars, cancelVars,
                   sharedVars, engineVars, stop>>

\* The room there is in a reader's channel. (Mistaken: one piece too many.)
RoomAndOne(i) == Capacity + 1 - Len(chan[i])
RoomFor(i) == Capacity - Len(chan[i])

\* Of the replies that are over, those with something their reader has not
\* taken. (Mistaken: the rest is dropped with them.)
NoneUnread(over, rest) == {}
Unread(over, rest) == {i \in over : rest[i] # <<>>}

\* What the engine has said of one reply since, or that it will say no more.
Said(i) ==
    LET box == outbox[batch.on]
        mine == InOrder({n \in DOMAIN box : box[n].tagged /\ box[n].for = i})
    IN  IF Disconnected(batch.on) THEN <<"failed">> ELSE [n \in DOMAIN mine |-> box[mine[n]].what]
Ending == {i \in batch.streams : \E n \in DOMAIN Said(i) : Said(i)[n] # "step"}

\* Batch::pump, hear and fail, and Stream::end: everything the engine has
\* said goes on its reply's backlog, and from there as far as the reader has
\* room. A reply nobody reads is told to stop, while its engine is there to be
\* told. One that is over leaves the books; what its reader has not taken is
\* left to a thread of its own.
Pump ==
    LET k == batch.on
        full(i) == backlog[i] \o Said(i)
        gone == batch.streams \ reader
        fits(i) == Min({RoomFor(i), Len(full(i))})
    IN  /\ pc = "pump"
        /\ outbox' = [outbox EXCEPT ![k] = <<>>]
        /\ chan' = [i \in Ids |-> IF i \in batch.streams \ gone
                                  THEN chan[i] \o SubSeq(full(i), 1, fits(i)) ELSE chan[i]]
        /\ backlog' = [i \in Ids |->
                IF i \in gone THEN <<>>
                ELSE IF i \in batch.streams THEN SubSeq(full(i), fits(i) + 1, Len(full(i)))
                ELSE backlog[i]]
        /\ stop' = [i \in Ids |-> stop[i] \/ (i \in gone /\ ~Disconnected(k))]
        /\ trailing' = trailing \cup Unread(Ending, backlog')
        /\ books' = Finished({j \in books : j.n \in Ending})
        /\ ended' = ended \cup Ending
        /\ batch' = [batch EXCEPT !.streams = @ \ Ending]
        /\ pc' = "settle"
        /\ UNCHANGED <<queueVars, cur, slots, holding, going, sender, reader, heard, leavers,
                       cancelVars, waiting, busy, begun, status, inbox, flag, reading, writing,
                       alone, steps, panics, interrupted>>

\* Busy is settled before a stream that ended is dropped.
Settle ==
    /\ pc = "settle"
    /\ IF batch.streams = {} THEN busy' = FALSE /\ batch' = NoBatch ELSE UNCHANGED <<busy, batch>>
    /\ pc' = "drop"
    /\ UNCHANGED <<queueVars, cur, slots, ended, holding, going, callerVars, cancelVars, waiting,
                   books, begun, engineVars, stop>>

DropEnded ==
    /\ pc = "drop"
    /\ sender' = sender \ ended
    /\ ended' = {}
    /\ pc' = IF batch = NoBatch THEN "next" ELSE "join"
    /\ UNCHANGED <<queueVars, cur, slots, batch, holding, going, chan, backlog, trailing, reader,
                   heard, leavers, cancelVars, sharedVars, engineVars, stop>>

(***************************************************************************)
(* The thread: an image, a video, a transcription, which run alone         *)
(***************************************************************************)

\* Whether the engine is to hear of it: a video nobody waits for and one
\* stopped while it waited it never does.
EnterAlone ==
    LET unheard == cur.kind = "film" /\ cur.n \notin reader
        refuse == stop[cur.n] \/ cur.on \notin slots
    IN  /\ pc = "enter"
        /\ IF ~unheard /\ refuse
           THEN Sending(cur.n, IF stop[cur.n] THEN "cancelled" ELSE "failed")
           ELSE UNCHANGED chan
        /\ pc' = IF unheard \/ refuse THEN "finish" ELSE "begin"
        /\ UNCHANGED <<queueVars, cur, slots, batch, ended, holding, going, backlog, trailing,
                       sender, reader, heard, leavers, cancelVars, sharedVars, engineVars, stop>>

\* Shared::begin: from here stopping it means raising the engine's flag too.
BeginAlone ==
    /\ pc = "begin"
    /\ begun' = [begun EXCEPT ![cur.n] = {cur.on}]
    /\ inbox' = Sent(cur.on, "alone", cur.n)
    /\ pc' = "drain"
    /\ UNCHANGED <<queueVars, cur, slots, batch, ended, holding, going, callerVars, cancelVars,
                   waiting, busy, books, status, outbox, flag, reading, writing, alone, steps,
                   panics, interrupted, stop>>

\* drain_paint, drain_film, drain_transcribe: an event, which for an image is
\* when its stop flag is looked at; or the word that there will be none.
DrainEvent ==
    LET k == cur.on
    IN  /\ pc = "drain"
        /\ outbox[k] # <<>> \/ Disconnected(k)
        /\ IF outbox[k] = <<>> THEN holding' = [what |-> "failed", for |-> cur.n]
           ELSE holding' = [what |-> Head(outbox[k]).what, for |-> Head(outbox[k]).for]
        /\ outbox' = IF outbox[k] = <<>> THEN outbox ELSE [outbox EXCEPT ![k] = Tail(@)]
        /\ flag' = [flag EXCEPT ![k] = @ \/ (cur.kind = "paint" /\ stop[cur.n])]
        /\ pc' = "hand"
        /\ UNCHANGED <<queueVars, cur, slots, batch, ended, going, callerVars, cancelVars,
                       sharedVars, status, inbox, reading, writing, alone, steps, panics,
                       interrupted, stop>>

\* A video's steps are far apart: when nothing has come for a while, whoever
\* stopped it or hung up has the engine's flag raised for them.
DrainQuiet ==
    /\ pc = "drain"
    /\ cur.kind = "film"
    /\ outbox[cur.on] = <<>> /\ ~Disconnected(cur.on)
    /\ stop[cur.n] \/ cur.n \notin reader
    /\ ~flag[cur.on]
    /\ flag' = [flag EXCEPT ![cur.on] = TRUE]
    /\ UNCHANGED <<queueVars, callerVars, threadVars, cancelVars, sharedVars, status, inbox,
                   outbox, reading, writing, alone, steps, panics, interrupted, stop>>

\* Where the thread goes on once a piece is handed over. (Mistaken: on to the
\* next job as soon as nobody takes the pieces.)
OnwardUnheard(what, here) == IF what = "step" /\ here THEN "drain" ELSE "finish"
Onward(what, here) == IF what = "step" THEN "drain" ELSE "finish"

\* The piece is handed over, for which the thread waits until there is room;
\* with nobody to take it the engine's flag is raised. Either way the thread
\* stays until the engine has said how it ended.
HandOver ==
    LET here == cur.n \in reader
    IN  /\ pc = "hand"
        /\ here => Len(chan[cur.n]) < Capacity
        /\ Sending(cur.n, holding.what)
        /\ flag' = [flag EXCEPT ![cur.on] = @ \/ ~here]
        /\ holding' = Silence
        /\ pc' = Onward(holding.what, here)
        /\ UNCHANGED <<queueVars, cur, slots, batch, ended, going, backlog, trailing, sender,
                       reader, heard, leavers, cancelVars, sharedVars, status, inbox, outbox,
                       reading, writing, alone, steps, panics, interrupted, stop>>

\* Shared::finish.
FinishAlone ==
    /\ pc = "finish"
    /\ books' = Finished({cur})
    /\ pc' = "clear"
    /\ UNCHANGED <<queueVars, cur, slots, batch, ended, holding, going, callerVars, cancelVars,
                   waiting, busy, begun, engineVars, stop>>

\* Busy is clear before the caller has its answer, or the end of its stream.
\* (Mistaken: it is not, until the next job.)
StayBusy ==
    /\ pc = "clear"
    /\ pc' = "reply"
    /\ UNCHANGED <<queueVars, cur, slots, batch, ended, holding, going, callerVars, cancelVars,
                   sharedVars, engineVars, stop>>
ClearBusy ==
    /\ pc = "clear"
    /\ busy' = FALSE
    /\ pc' = "reply"
    /\ UNCHANGED <<queueVars, cur, slots, batch, ended, holding, going, callerVars, cancelVars,
                   waiting, books, begun, engineVars, stop>>

Reply ==
    /\ pc = "reply"
    /\ IF holding = Silence THEN UNCHANGED chan ELSE Sending(cur.n, holding.what)
    /\ sender' = sender \ {cur.n}
    /\ cur' = NoJob
    /\ holding' = Silence
    /\ pc' = "next"
    /\ UNCHANGED <<queueVars, slots, batch, ended, going, backlog, trailing, reader, heard,
                   leavers, cancelVars, sharedVars, engineVars, stop>>

(***************************************************************************)
(* The thread: loads, unloads, questions                                   *)
(***************************************************************************)

Answer(what) ==
    /\ holding' = [what |-> what, for |-> cur.n]
    /\ pc' = "clear"

\* Tokenize, Score, Listen: one command, one answer. A model that is not
\* loaded has none, and neither has a listener that has hung up.
PutQuestion ==
    /\ pc = "ask"
    /\ \/ /\ cur.on \in slots
          /\ inbox' = Sent(cur.on, "ask", cur.n)
          /\ pc' = "await"
          /\ UNCHANGED holding
       \/ /\ cur.on \notin slots \/ cur.n \notin reader
          /\ Answer("failed")
          /\ UNCHANGED inbox
    /\ UNCHANGED <<queueVars, cur, slots, batch, ended, going, callerVars, cancelVars, sharedVars,
                   status, outbox, flag, reading, writing, alone, steps, panics, interrupted, stop>>

\* drain_tokens, drain_score, drain_listen.
AwaitAnswer ==
    LET k == cur.on
    IN  /\ pc = "await"
        /\ \/ /\ outbox[k] # <<>>
              /\ holding' = [what |-> Head(outbox[k]).what, for |-> Head(outbox[k]).for]
              /\ outbox' = [outbox EXCEPT ![k] = Tail(@)]
              /\ pc' = "clear"
           \/ /\ Disconnected(k)
              /\ Answer("failed")
              /\ UNCHANGED outbox
        /\ UNCHANGED <<queueVars, cur, slots, batch, ended, going, callerVars, cancelVars,
                       sharedVars, status, inbox, flag, reading, writing, alone, steps, panics,
                       interrupted, stop>>

\* load: here already, refused for want of room, or an engine for it.
StartLoad ==
    LET k == cur.on
    IN  /\ pc = "load"
        /\ \/ /\ Answer(IF k \in slots THEN "done" ELSE "failed")
              /\ UNCHANGED <<status, inbox, flag>>
           \/ /\ k \notin slots
              /\ status' = [status EXCEPT ![k] = "up"]
              /\ inbox' = [inbox EXCEPT ![k] = <<[op |-> "load", for |-> cur.n]>>]
              /\ flag' = [flag EXCEPT ![k] = FALSE]
              /\ pc' = "loading"
              /\ UNCHANGED holding
        /\ UNCHANGED <<queueVars, cur, slots, batch, ended, going, callerVars, cancelVars,
                       sharedVars, outbox, reading, writing, alone, steps, panics, interrupted, stop>>

\* drain_load: the engine has loaded it and is kept, or has not and is let go.
EndLoad ==
    LET k == cur.on
    IN  /\ pc = "loading"
        /\ outbox[k] # <<>> \/ Disconnected(k)
        /\ LET loaded == outbox[k] # <<>> /\ Head(outbox[k]).what = "done"
           IN  /\ slots' = IF loaded THEN slots \cup {k} ELSE slots
               /\ status' = IF loaded THEN status ELSE [status EXCEPT ![k] = "off"]
               /\ Answer(IF loaded THEN "done" ELSE "failed")
        /\ outbox' = [outbox EXCEPT ![k] = <<>>]
        /\ UNCHANGED <<queueVars, cur, batch, ended, going, callerVars, cancelVars, sharedVars,
                       inbox, flag, reading, writing, alone, steps, panics, interrupted, stop>>

\* Those named stop being residents, and each is then told to let go.
StartUnload ==
    LET leaving == IF cur.on = Everywhere THEN slots ELSE slots \cap {cur.on}
    IN  /\ pc = "unload"
        /\ going' = SetToSeq(leaving)
        /\ slots' = slots \ leaving
        /\ holding' = [what |-> "done", for |-> cur.n]
        /\ pc' = "leaving"
        /\ UNCHANGED <<queueVars, cur, batch, ended, callerVars, cancelVars, sharedVars,
                       engineVars, stop>>

SendUnload ==
    /\ pc = "leaving"
    /\ IF going = <<>> THEN pc' = "clear" /\ UNCHANGED inbox
       ELSE pc' = "left" /\ inbox' = Sent(Head(going), "unload", cur.n)
    /\ UNCHANGED <<queueVars, cur, slots, batch, ended, holding, going, callerVars, cancelVars,
                   sharedVars, status, outbox, flag, reading, writing, alone, steps, panics,
                   interrupted, stop>>

\* drain_unload: the memory is back before the next job asks what is left.
EndUnload ==
    LET k == Head(going)
    IN  /\ pc = "left"
        /\ outbox[k] # <<>> \/ Disconnected(k)
        /\ holding' = IF outbox[k] # <<>> THEN holding ELSE [holding EXCEPT !.what = "failed"]
        /\ outbox' = [outbox EXCEPT ![k] = <<>>]
        /\ status' = [status EXCEPT ![k] = "off"]
        /\ going' = Tail(going)
        /\ pc' = "leaving"
        /\ UNCHANGED <<queueVars, cur, slots, batch, ended, callerVars, cancelVars, sharedVars,
                       inbox, flag, reading, writing, alone, steps, panics, interrupted, stop>>

(***************************************************************************)
(* The specification                                                       *)
(***************************************************************************)
Thread ==
    \/ \E j \in jobs : TakeNext(j) \/ Join(j)
    \/ MarkBusy \/ CountOut \/ End
    \/ AdmitReply \/ JoinNobody \/ Pump \/ Settle \/ DropEnded
    \/ EnterAlone \/ BeginAlone \/ DrainEvent \/ DrainQuiet \/ HandOver \/ FinishAlone
    \/ ClearBusy \/ Reply
    \/ PutQuestion \/ AwaitAnswer \/ StartLoad \/ EndLoad
    \/ StartUnload \/ SendUnload \/ EndUnload

Cancelling == CancelCount \/ CancelEnd \/ CancelMark

EngineStep(k) ==
    /\ Work(k) \/ Panic(k)
    /\ UNCHANGED <<queueVars, callerVars, threadVars, cancelVars, sharedVars>>

Next ==
    \/ \E who \in Asked \cup {NoTicket}, item \in Menu : Submit(who, item)
    \/ \E who \in Asked, id \in {0} \cup Ids : CancelWaiting(who, id)
    \/ Cancelling
    \/ \E i \in Ids : Read(i) \/ Leave(i) \/ Trail(i)
    \/ Close
    \/ Thread
    \/ \E k \in Key : EngineStep(k)

Spec == Init /\ [][Next]_vars

\* The thread and the engines run while they can, and so do a cancellation
\* and the thread left with the rest of a reply. A caller need do nothing,
\* except that one whose job has the engine to itself reads what it is sent
\* or hangs up: the thread waits for that (`blocking_send`).
ReadsAlone(i) == (\E j \in submitted : j.n = i /\ j.kind \in Alones) /\ Read(i)

Fairness ==
    /\ WF_vars(Thread)
    /\ WF_vars(Cancelling)
    /\ \A k \in Key : WF_vars(EngineStep(k))
    /\ \A i \in Ids : WF_vars(Trail(i)) /\ WF_vars(ReadsAlone(i))

FairSpec == Spec /\ Fairness

(***************************************************************************)
(* Properties                                                              *)
(***************************************************************************)

\* Every variable has its type.
TypeOK ==
    /\ submitted \subseteq [n : Ids, who : Owners \cup {NoTicket}, kind : Kinds,
                            on : Key \cup {Everywhere}]
    /\ jobs \subseteq submitted /\ books \subseteq submitted
    /\ closed \in BOOLEAN /\ busy \in BOOLEAN
    /\ served \in [Owners -> Nat] /\ turn \in Nat /\ waiting \in Nat
    /\ begun \in [Ids -> SUBSET Key]
    /\ cur \in submitted \cup {NoJob}
    /\ slots \subseteq Key
    /\ batch.streams \cup ended \cup trailing \cup sender \cup reader \cup told \subseteq Ids
    /\ \A i \in Ids : Len(chan[i]) <= Capacity
    /\ EngineTypeOK

\* What a job is, to those who wait for it: nobody is let go whose job is
\* not over, and nothing is taken beside one that is not.
Running == {j \in submitted : j = cur \/ j.n \in batch.streams \cup ended}

Promised == INSTANCE Serving WITH
    Job <- [n : Ids, who : Owners \cup {NoTicket}, kind : Kinds, on : Key \cup {Everywhere}],
    running <- Running,
    over <- submitted \ (jobs \cup Running)

\* Jobs wait, start, run together and end as `Serving` promises, through
\* every interleaving of the thread with handlers, engines and callers.
KeepsItsPromises == Promised!Spec

\* What the thread has of work: a job it has not answered, or replies.
UnderWay == (cur # NoJob /\ pc # "reply") \/ batch.streams # {}

\* The depth that clients are shown never reads less than there is, and reads
\* more for no longer than it takes to count a job out: once a caller has its
\* answer or the end of its stream, its job is in it no more.
DepthIsHonest ==
    LET depth == waiting + IF busy THEN 1 ELSE 0
    IN  /\ depth >= Cardinality(jobs) + IF UnderWay THEN 1 ELSE 0
        /\ ~closed /\ pc # "count" => depth <= Cardinality(sender)

\* A generation is in the books for as long as its caller's stream is open,
\* and no longer: it can be found to be stopped until it is over, and what
\* the queue's view lists is never something that has ended.
BooksMatchStreams ==
    \A j \in submitted : IsGeneration(j) =>
        /\ j \in books => j.n \in sender \/ closed
        /\ j \in jobs \cup {cur} /\ pc \notin {"clear", "reply"} => j \in books
        /\ j.n \in batch.streams => j \in books

\* Every caller that stays hears how its job ended, once, and nothing after
\* that: the channel closes without a word only on jobs that were waiting
\* when the scheduler was dropped.
OneEnding ==
    \A j \in submitted :
        /\ heard[j.n] # "more"
        /\ ~Open(j) /\ j.n \in reader /\ chan[j.n] = <<>> =>
                heard[j.n] \in Endings \/ (closed /\ heard[j.n] = "nothing")

\* Nothing is interrupted but what its own account stopped or its own caller
\* hung up on: no flag that was raised for one generation stops another that
\* the same engine runs beside it or after it.
OnlyTheStoppedStop ==
    /\ interrupted \subseteq told \cup (Ids \ reader)
    /\ \A i \in Ids : heard[i] = "cancelled" => i \in told

\* What the thread has just received from an engine is about the job it is
\* waiting on: nothing is left behind in a channel for the next job to read.
AnswersAreTheirs == holding # Silence => holding.for = cur.n

\* One resident is at work at a time, so a load runs beside nothing; on it at
\* most a batch of replies, and one that asked for no cache, an image or a
\* video with nothing beside it.
OneAtATime ==
    /\ \A k, l \in Key : AtWork(k) /\ AtWork(l) => k = l
    /\ \A k \in Key :
        LET sent == Under(k) \cup {inbox[k][n].for : n \in DOMAIN inbox[k]}
        IN  /\ Cardinality(sent) <= Batch
            /\ alone[k] # Nothing => sent = {}
            /\ \A j \in submitted : j.n \in sent /\ j.kind # "text" => sent = {j.n}

\* Every job comes to an end, whatever is stopped, dies or hangs up, and
\* however slowly replies are read.
EveryJobEnds ==
    \A i \in Ids : (\E j \in submitted : j.n = i) ~> (i \notin sender)
=============================================================================
