------------------------------ MODULE Realtime ------------------------------
(***************************************************************************)
(* Live transcription in kvad-serve (crates/serve/src/realtime.rs): the    *)
(* sockets, the sessions, and the registry that says where each session    *)
(* is: on a socket, held after its socket went, or with a reconnect.       *)
(*                                                                         *)
(* A sample is a word here, named by its place in the take: what Whisper   *)
(* makes of the sound is not modelled, when a word may settle is (llm's    *)
(* speech/live.rs). One client's sessions; another's are not found.        *)
(***************************************************************************)
EXTENDS Integers, Sequences, FiniteSets

CONSTANTS
    MaxSockets,   \* bound: sockets the client opens
    MaxWords,     \* bound: samples in a take
    MostAtOnce,   \* MOST_AT_ONCE, in samples
    MaxMishaps    \* bound: restarts, holds and handovers that run out, updates
                  \* that fail, connections refused, sockets left unanswered

ASSUME RealtimeAssumption ==
    /\ {MaxSockets, MostAtOnce} \subseteq Nat \ {0}
    /\ {MaxWords, MaxMishaps} \subseteq Nat

VARIABLES
    up, down,  \* what is on its way on each socket, and will be read if at all
    open,      \* the sockets the client has not left
    task,      \* `connected`, for each socket
    ask,       \* the channel a reconnect asks a socket's task through
    slot,      \* Held::slots
    sess,      \* the sessions, wherever they are
    mishaps

wire == <<up, down, open>>
serverVars == <<task, ask, slot, sess>>

Sockets == 1..MaxSockets
SessionIds == Sockets  \* a session has the number of the socket it began on

\* at: the upgrade is answered; a reconnect waits for its session, or waits in
\* vain, its question with a socket that has handed the session on; has it,
\* and is not in the registry yet; the loop; the socket gone or asked for, and
\* the update under way waited for; the session handed on, and the client to
\* be told.
NoTask == [at |-> "none", s |-> 0, from |-> 0, by |-> 0]
NoSlot == [at |-> "none", by |-> 0]

\* pcm: the samples there are; heard: how many the engine has had; last: how
\* many its last guess covered; settled: how many words are.
NoSession == [is |-> "none", base |-> 0, pcm |-> <<>>, next |-> 0, heard |-> 0, last |-> 0,
              settled |-> 0, doing |-> "nothing", commit |-> FALSE, item |-> 1, events |-> 0,
              log |-> <<>>]

Ended(s) == [NoSession EXCEPT !.is = "gone", !.base = s.base]

RealtimeInit ==
    /\ up = [k \in Sockets |-> <<>>] /\ down = [k \in Sockets |-> <<>>]
    /\ task = [k \in Sockets |-> NoTask]
    /\ ask = [k \in Sockets |-> <<>>]
    /\ slot = [i \in SessionIds |-> NoSlot]
    /\ sess = [i \in SessionIds |-> NoSession]
    /\ open = {} /\ mishaps = 0

TaskPlaces == {"none", "new", "ask", "late", "given", "run", "settle", "bye", "over"}
RealtimeTypeOK ==
    /\ task \in [Sockets -> [at : TaskPlaces, s : {0} \cup SessionIds, from : 0..MaxWords,
                             by : {0} \cup Sockets]]
    /\ \A k \in Sockets : Len(ask[k]) <= 1 /\ \A n \in DOMAIN ask[k] : ask[k][n] \in Sockets
    /\ slot \in [SessionIds -> [at : {"none", "on", "off"}, by : {0} \cup Sockets]]
    /\ \A i \in SessionIds :
        /\ sess[i].is \in {"none", "kept", "gone"}
        /\ sess[i].doing \in {"nothing", "update", "finish"}
        /\ 0 <= sess[i].settled /\ sess[i].settled <= sess[i].last
        /\ sess[i].last <= sess[i].heard /\ sess[i].heard <= Len(sess[i].pcm)
    /\ open \subseteq Sockets /\ mishaps \in 0..MaxMishaps

Message(kind) == [kind |-> kind, id |-> 0, at |-> 0, item |-> 0, words |-> <<>>]
Sent(k, out) == down' = IF k \in open THEN [down EXCEPT ![k] = @ \o out] ELSE down
AMishap == mishaps < MaxMishaps /\ mishaps' = mishaps + 1
Smoothly == UNCHANGED <<up, open, mishaps>>
ReadsNoMore(k) == up' = [up EXCEPT ![k] = <<>>]

\* connected, of a socket that names no session: a new one, and where to ask
\* for it.
Fresh(k) ==
    /\ task[k].at = "new" /\ task[k].s = 0
    /\ sess' = [sess EXCEPT ![k] = [NoSession EXCEPT !.is = "kept", !.base = task[k].from]]
    /\ Sent(k, <<[Message("created") EXCEPT !.id = k, !.item = 1]>>)
    /\ slot' = [slot EXCEPT ![k] = [at |-> "on", by |-> k]]
    /\ task' = [task EXCEPT ![k].at = "run", ![k].s = k, ![k].from = 0]
    /\ UNCHANGED <<ask>> /\ Smoothly

\* A reconnect for which there is no session is told so, and closed.
NotFound(k) ==
    /\ Sent(k, <<Message("session_not_found")>>)
    /\ task' = [task EXCEPT ![k] = [NoTask EXCEPT !.at = "over"]]

\* Held::take: out of its hold, or a question to the socket it is on. A
\* channel that is full, or that nobody reads any more, is no session.
Take(k, i) ==
    \/ /\ slot[i].at = "off"
       /\ slot' = [slot EXCEPT ![i] = NoSlot]
       /\ task' = [task EXCEPT ![k].at = "given"]
       /\ UNCHANGED <<ask, down>>
    \/ /\ slot[i].at = "on" /\ ask[slot[i].by] = <<>> /\ task[slot[i].by].at # "over"
       /\ ask' = [ask EXCEPT ![slot[i].by] = <<k>>]
       /\ task' = [task EXCEPT ![k].at = IF task[slot[i].by].at = "bye" THEN "late" ELSE "ask"]
       /\ UNCHANGED <<slot, down>>
    \/ /\ \/ slot[i].at = "none"
          \/ slot[i].at = "on" /\ (ask[slot[i].by] # <<>> \/ task[slot[i].by].at = "over")
       /\ NotFound(k)
       /\ UNCHANGED <<ask, slot>>
Reconnect(k) ==
    /\ task[k].at = "new" /\ task[k].s # 0
    /\ Take(k, task[k].s)
    /\ UNCHANGED <<sess>> /\ Smoothly

\* Whoever was asked has ended without it; or HANDOVER is over.
Asked(k) == {b \in Sockets : ask[b] = <<k>> \/ (task[b].at = "settle" /\ task[b].by = k)}
StopWaiting(k) ==
    /\ task[k].at \in {"ask", "late"} /\ Asked(k) = {}
    /\ NotFound(k)
    /\ UNCHANGED <<ask, slot, sess>> /\ Smoothly
TimeIsUp(k) ==
    /\ task[k].at \in {"ask", "late"}
    /\ AMishap
    /\ NotFound(k)
    /\ UNCHANGED <<up, open, ask, slot, sess>>

\* hello, and Held::on: the audio follows on from what is here, and what was
\* settled from the client's sample on is sent again, which is the end of the
\* log: it is in the order of what had been heard. (Mistaken: from after it.)
FromOn(log, before) == SubSeq(log, Cardinality(before) + 1, Len(log))
AgainAfter(log, from) == FromOn(log, {n \in DOMAIN log : log[n].at <= from})
Again(log, from) == FromOn(log, {n \in DOMAIN log : log[n].at < from})
Resume(k) ==
    LET i == task[k].s
        s == sess[i]
        log == Again(s.log, task[k].from)
    IN  /\ task[k].at = "given"
        /\ sess' = [sess EXCEPT ![i].next = Len(s.pcm), ![i].log = log]
        /\ Sent(k, <<[Message("resumed") EXCEPT !.id = i, !.at = Len(s.pcm), !.item = s.item]>> \o log)
        /\ slot' = [slot EXCEPT ![i] = [at |-> "on", by |-> k]]
        /\ task' = [task EXCEPT ![k].at = "run", ![k].from = 0]
        /\ UNCHANGED <<ask>> /\ Smoothly

\* heard: a sample where it belongs is taken, one the session has is passed
\* over, one after a gap is refused.
Hear(s, word) ==
    [s EXCEPT !.next = @ + 1, !.pcm = IF s.next = Len(@) THEN Append(@, word) ELSE @]
Gap(s) == s.next > Len(s.pcm)

\* begin: what has come since the last update, as much as one may hear; a
\* commit when nothing is left. (Mistaken: more than there is; a commit at
\* once.)
BeginBeyond(s) ==
    [s EXCEPT !.heard = @ + MostAtOnce, !.doing = IF s.commit THEN "finish" ELSE "update", !.commit = FALSE]
BeginAndFinish(s) ==
    LET n == IF Len(s.pcm) - s.heard < MostAtOnce THEN Len(s.pcm) ELSE s.heard + MostAtOnce
    IN  [s EXCEPT !.heard = n, !.doing = IF s.commit THEN "finish" ELSE "update", !.commit = FALSE]
Begin(s) ==
    LET n == IF Len(s.pcm) - s.heard < MostAtOnce THEN Len(s.pcm) ELSE s.heard + MostAtOnce
        finish == s.commit /\ n = Len(s.pcm)
    IN  [s EXCEPT !.heard = n, !.doing = IF finish THEN "finish" ELSE "update",
                  !.commit = s.commit /\ ~finish]

\* Live::update and Live::finish: a word settles when two updates in a row
\* write it, and all before it; everything does at the end.
MaySettle(s) == IF s.doing = "finish" THEN {s.heard} ELSE s.settled..s.last

\* listened: the settled events of an update, each with its id and the sample
\* the update had heard to; and the session after them, which logs them.
Event(s, kind, n) == [Message(kind) EXCEPT !.id = s.events + n, !.at = s.heard]
Events(s, to) ==
    LET delta == IF to = s.settled THEN <<>>
                 ELSE <<[Event(s, "delta", 1) EXCEPT !.words = SubSeq(s.pcm, s.settled + 1, to)]>>
    IN  IF s.doing = "update" THEN delta
        ELSE <<Event(s, "committed", Len(delta) + 1)>> \o delta
                \o <<Event(s, "completed", Len(delta) + 2)>>
Listened(s, to) ==
    LET out == Events(s, to)
    IN  [s EXCEPT !.settled = to, !.last = s.heard, !.doing = "nothing",
                  !.events = @ + Len(out), !.log = @ \o out,
                  !.item = IF s.doing = "finish" THEN @ + 1 ELSE @]

\* forget: nothing of the session is kept, and who asked for it is told so.
\* (Mistaken: its place in the registry is.)
ForgetOnly(k, at) ==
    /\ UNCHANGED slot
    /\ sess' = [sess EXCEPT ![task[k].s] = Ended(@)]
    /\ ask' = [ask EXCEPT ![k] = <<>>]
    /\ task' = [task EXCEPT ![k] = [NoTask EXCEPT !.at = at]]
Forget(k, at) ==
    /\ slot' = [slot EXCEPT ![task[k].s] = NoSlot]
    /\ sess' = [sess EXCEPT ![task[k].s] = Ended(@)]
    /\ ask' = [ask EXCEPT ![k] = <<>>]
    /\ task' = [task EXCEPT ![k] = [NoTask EXCEPT !.at = at]]

Running(k) == task[k].at = "run"
Mine(k) == sess[task[k].s]

\* run: a message.
Receive(k) ==
    /\ Running(k) /\ up[k] # <<>>
    /\ LET i == task[k].s
           m == Head(up[k])
       IN  \/ /\ m.kind = "audio"
              /\ sess' = [sess EXCEPT ![i] = Hear(@, m.n)]
              /\ Sent(k, IF Gap(sess[i]) THEN <<Message("audio_gap")>> ELSE <<>>)
              /\ up' = [up EXCEPT ![k] = Tail(@)]
              /\ UNCHANGED <<task, ask, slot>>
           \/ /\ m.kind = "offset"
              /\ sess' = [sess EXCEPT ![i].next = m.n]
              /\ up' = [up EXCEPT ![k] = Tail(@)]
              /\ UNCHANGED <<down, task, ask, slot>>
           \/ /\ m.kind = "commit"
              /\ sess' = [sess EXCEPT ![i].commit = TRUE]
              /\ up' = [up EXCEPT ![k] = Tail(@)]
              /\ UNCHANGED <<down, task, ask, slot>>
           \/ /\ m.kind = "close"
              /\ Forget(k, "over")
              /\ ReadsNoMore(k)
              /\ UNCHANGED down
    /\ UNCHANGED <<open, mishaps>>

\* run: the tick, which skips one that finds an update under way.
Tick(k) ==
    /\ Running(k) /\ Mine(k).doing = "nothing"
    /\ Len(Mine(k).pcm) > Mine(k).heard \/ Mine(k).commit
    /\ sess' = [sess EXCEPT ![task[k].s] = Begin(@)]
    /\ UNCHANGED <<down, task, ask, slot>> /\ Smoothly

\* run: an update is done. A commit that came meanwhile is run at once, and
\* so is a backlog's next piece.
Updated(k) ==
    /\ Running(k) /\ Mine(k).doing # "nothing"
    /\ \E to \in MaySettle(Mine(k)) :
        LET s == Listened(Mine(k), to)
        IN  /\ sess' = [sess EXCEPT ![task[k].s] =
                            IF s.commit \/ Len(s.pcm) - s.heard >= MostAtOnce THEN Begin(s) ELSE s]
            /\ Sent(k, Events(Mine(k), to))
    /\ UNCHANGED <<task, ask, slot>> /\ Smoothly

\* An update that failed ends the session; and so does audio that has been
\* waiting for one too long.
Fails(k) ==
    /\ Running(k)
    /\ AMishap
    /\ \/ Mine(k).doing # "nothing" /\ Sent(k, <<Message("failed")>>)
       \/ Len(Mine(k).pcm) > Mine(k).heard /\ Sent(k, <<Message("too_far_behind")>>)
    /\ Forget(k, "over")
    /\ ReadsNoMore(k)
    /\ UNCHANGED open

\* The socket goes without a close; or a reconnect asks for the session.
Drops(k) ==
    /\ Running(k)
    /\ task' = [task EXCEPT ![k].at = "settle"]
    /\ ReadsNoMore(k)
    /\ UNCHANGED <<down, ask, slot, sess, open, mishaps>>
AskedFor(k) ==
    /\ Running(k) /\ ask[k] # <<>>
    /\ task' = [task EXCEPT ![k].at = "settle", ![k].by = Head(ask[k])]
    /\ ask' = [ask EXCEPT ![k] = <<>>]
    /\ ReadsNoMore(k)
    /\ UNCHANGED <<down, slot, sess, open, mishaps>>

\* park: to one who asked meanwhile and still waits, or into the registry.
\* (Mistaken: into the registry.)
ParkAnyway(k, t, next) ==
    /\ ask' = [ask EXCEPT ![k] = <<>>]
    /\ task' = t
    /\ slot' = [slot EXCEPT ![task[k].s] = [at |-> "off", by |-> 0]]
Park(k, t, next) ==
    /\ ask' = [ask EXCEPT ![k] = <<>>]
    /\ IF next # <<>> /\ task[Head(next)].at = "ask"
       THEN task' = [t EXCEPT ![Head(next)].at = "given"] /\ UNCHANGED slot
       ELSE task' = t /\ slot' = [slot EXCEPT ![task[k].s] = [at |-> "off", by |-> 0]]

\* settle, and then the session goes where it is wanted.
HandOn(k) ==
    LET by == task[k].by
        t == [task EXCEPT ![k] = [NoTask EXCEPT !.at = IF by = 0 THEN "over" ELSE "bye"]]
        late == {k2 \in Sockets : ask[k] = <<k2>> /\ task[k2].at = "ask"}
    IN  IF by # 0 /\ task[by].at = "ask"
        THEN /\ task' = [k2 \in Sockets |-> IF k2 = by THEN [t[by] EXCEPT !.at = "given"]
                                            ELSE IF k2 \in late THEN [t[k2] EXCEPT !.at = "late"]
                                            ELSE t[k2]]
             /\ UNCHANGED <<ask, slot>>
        ELSE Park(k, t, ask[k])
Settle(k) ==
    /\ task[k].at = "settle"
    /\ \/ /\ Mine(k).doing = "nothing"
          /\ HandOn(k)
          /\ UNCHANGED <<sess, mishaps>>
       \/ /\ Mine(k).doing # "nothing"
          /\ \E to \in MaySettle(Mine(k)) :
                sess' = [sess EXCEPT ![task[k].s] = Listened(@, to)]
          /\ HandOn(k)
          /\ UNCHANGED mishaps
       \/ /\ Mine(k).doing # "nothing"
          /\ AMishap
          /\ Forget(k, IF task[k].by = 0 THEN "over" ELSE "bye")
    /\ UNCHANGED <<wire>>

\* The socket whose session was taken is told, and closed. Until then it can
\* still be asked, for what it no longer has.
Bye(k) ==
    /\ task[k].at = "bye"
    /\ Sent(k, <<Message("session_taken")>>)
    /\ task' = [task EXCEPT ![k].at = "over"]
    /\ ask' = [ask EXCEPT ![k] = <<>>]
    /\ UNCHANGED <<slot, sess>> /\ Smoothly

\* park's timer: nobody came back.
LetGo(i) ==
    /\ slot[i].at = "off"
    /\ slot' = [slot EXCEPT ![i] = NoSlot]
    /\ sess' = [sess EXCEPT ![i] = Ended(@)]
    /\ AMishap
    /\ UNCHANGED <<wire, task, ask>>

\* The server's memory is all there is of a session.
Restart ==
    /\ AMishap
    /\ task' = [k \in Sockets |-> IF task[k].at = "none" THEN NoTask ELSE [NoTask EXCEPT !.at = "over"]]
    /\ ask' = [k \in Sockets |-> <<>>]
    /\ slot' = [i \in SessionIds |-> NoSlot]
    /\ sess' = [i \in SessionIds |-> IF sess[i].is = "none" THEN NoSession ELSE Ended(sess[i])]
    /\ up' = [k \in Sockets |-> <<>>]
    /\ UNCHANGED <<down, open>>

ServerStep(k) ==
    \/ Fresh(k) \/ Reconnect(k) \/ StopWaiting(k) \/ Resume(k)
    \/ Receive(k) \/ Tick(k) \/ Updated(k) \/ AskedFor(k) \/ Settle(k) \/ Bye(k)

ServerMishap == Restart \/ (\E k \in Sockets : Fails(k) \/ Drops(k) \/ TimeIsUp(k)) \/ (\E i \in SessionIds : LetGo(i))
=============================================================================
