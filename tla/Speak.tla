-------------------------------- MODULE Speak --------------------------------
(***************************************************************************)
(* A take on the phone (apps/phone/core/src/speak.rs): the file the        *)
(* microphone writes, always ahead of the socket, and the take's thread,   *)
(* which sends from the file and keeps the words that come back, through   *)
(* sockets that go and sessions that are lost.                             *)
(***************************************************************************)
EXTENDS Realtime

VARIABLES
    recorded,  \* samples in the file
    stopped,   \* Take::stop
    phone,     \* the take's thread: `Live`, and its place in `on`
    owed       \* Live::owed: the socket is left if nothing comes for STALLED

phoneVars == <<recorded, stopped, phone, owed>>

\* at: no socket; a socket; ended live; recording on into the file alone;
\* sent whole; failed; thrown away. turn: how far this turn of the loop
\* sends, -1 between turns; whole: that is all there was when it looked.
\* covers: history, what the session's first commit was said after.
SpeakInit ==
    /\ recorded = 0 /\ stopped = FALSE /\ owed = FALSE
    /\ phone = [at |-> "down", sock |-> 0, id |-> 0, origin |-> 0, settledTo |-> 0, sent |-> 0,
                seen |-> {}, text |-> <<>>, committed |-> FALSE, ready |-> FALSE,
                commitSent |-> FALSE, turn |-> -1, whole |-> FALSE, covers |-> 0]

PhonePlaces == {"down", "up", "done", "offline", "sent", "failed", "cancelled"}
SpeakTypeOK ==
    /\ recorded \in 0..MaxWords /\ stopped \in BOOLEAN /\ owed \in BOOLEAN
    /\ phone.at \in PhonePlaces
    /\ phone.sock \in {0} \cup Sockets /\ phone.id \in {0} \cup SessionIds
    /\ phone.origin + phone.settledTo <= recorded /\ phone.origin + phone.sent <= recorded
    /\ phone.turn \in -1..MaxWords

Socketless == {k \in Sockets : task[k].at = "none"}
Says(kind, n) ==
    up' = IF task[phone.sock].at \in {"new", "ask", "late", "given", "run"}
          THEN [up EXCEPT ![phone.sock] = Append(@, [kind |-> kind, n |-> n])] ELSE up
AtTheMac == UNCHANGED <<serverVars, mishaps>>

\* The socket is left; the take's thread ends, with all it had at hand.
Hangup(at) == [phone EXCEPT !.at = at, !.sock = 0, !.turn = -1, !.whole = FALSE, !.ready = FALSE,
                             !.commitSent = FALSE]
Over(at) == [Hangup(at) EXCEPT !.id = 0, !.origin = 0, !.settledTo = 0, !.sent = 0, !.seen = {},
                               !.committed = FALSE, !.covers = 0]

\* Speak::audio and stop: the microphone is off before the take is stopped.
Record ==
    /\ ~stopped /\ recorded < MaxWords /\ phone.at \in {"down", "up", "offline"}
    /\ recorded' = recorded + 1
    /\ UNCHANGED <<stopped, phone, owed, wire>> /\ AtTheMac
Stop ==
    /\ ~stopped /\ phone.at \in {"down", "up", "offline"}
    /\ stopped' = TRUE
    /\ UNCHANGED <<recorded, phone, owed, wire>> /\ AtTheMac

\* live: a socket, to a new session or to the one there was.
Connect ==
    /\ phone.at = "down" /\ Socketless # {}
    /\ LET k == CHOOSE k \in Socketless : \A j \in Socketless : k <= j
       IN  /\ task' = [task EXCEPT ![k] = [NoTask EXCEPT !.at = "new", !.s = phone.id,
                            !.from = IF phone.id = 0 THEN phone.origin ELSE phone.settledTo]]
           /\ phone' = [phone EXCEPT !.at = "up", !.sock = k]
           /\ open' = open \cup {k}
    /\ owed' = TRUE
    /\ UNCHANGED <<recorded, stopped, up, down, ask, slot, sess, mishaps>>

\* live: the Mac has been out of reach for HOLD, and the take is stopped; or
\* the answer was no: for good, or to live transcription.
OutOfReach ==
    /\ phone.at = "down" /\ stopped
    /\ phone' = Over("offline")
    /\ UNCHANGED <<recorded, stopped, owed, wire>> /\ AtTheMac
Refused ==
    /\ phone.at = "down"
    /\ AMishap
    /\ \E at \in {"offline", "failed"} : phone' = Over(at)
    /\ UNCHANGED <<recorded, stopped, owed, wire, serverVars>>

Up == phone.at = "up"

\* on: a socket that failed, or that has been silent for STALLED.
LetsGo == down' = [down EXCEPT ![phone.sock] = <<>>] /\ open' = open \ {phone.sock}
Leave ==
    /\ Up
    /\ phone' = Hangup("down") /\ owed' = FALSE
    /\ LetsGo
    /\ IF phone.ready \/ task[phone.sock].at = "over" THEN UNCHANGED mishaps ELSE AMishap
    /\ UNCHANGED <<recorded, stopped, up, serverVars>>

\* anew: a new session, from the last word settled.
Anew(p) ==
    [p EXCEPT !.origin = @ + p.settledTo, !.settledTo = 0, !.sent = 0, !.id = 0, !.seen = {},
              !.committed = FALSE, !.covers = 0]

\* heard: a settled event, if it is not one had already. (Mistaken: it is
\* not asked.)
KeepAgain(p, m) ==
    [p EXCEPT !.seen = @ \cup {m.id}, !.settledTo = m.at, !.text = @ \o m.words,
              !.committed = @ \/ m.kind = "committed"]
Keep(p, m) ==
    IF m.id \in p.seen THEN p
    ELSE [p EXCEPT !.seen = @ \cup {m.id}, !.settledTo = m.at, !.text = @ \o m.words,
                   !.committed = @ \/ m.kind = "committed"]

\* heard: session.created, answered by where the frames that follow begin.
Created(p, m) ==
    [p EXCEPT !.ready = TRUE, !.id = m.id, !.sent = m.at,
              !.committed = @ \/ (m.kind = "resumed" /\ m.item # 1)]

\* on: what has come, an event at a time; with any, nothing is owed.
Stays == down' = [down EXCEPT ![phone.sock] = Tail(@)] /\ UNCHANGED open
Read ==
    /\ Up /\ phone.turn = -1 /\ down[phone.sock] # <<>>
    /\ LET m == Head(down[phone.sock])
           created == Created(phone, m)
       IN  \/ /\ m.kind \in {"created", "resumed"}
              /\ phone' = created
              /\ Says("offset", created.sent) /\ Stays
           \/ /\ m.kind \in {"delta", "committed"}
              /\ phone' = Keep(phone, m)
              /\ Stays /\ UNCHANGED up
           \/ /\ m.kind = "completed" /\ m.id \in phone.seen
              /\ Stays /\ UNCHANGED <<phone, up>>
           \/ /\ m.kind = "completed" /\ m.id \notin phone.seen
              /\ phone' = [Over("done") EXCEPT !.origin = phone.origin, !.covers = phone.covers]
              /\ Says("close", 0) /\ LetsGo
           \/ /\ m.kind = "session_not_found"
              /\ phone' = Anew(Hangup("down"))
              /\ LetsGo /\ UNCHANGED up
           \/ /\ m.kind \in {"audio_gap", "session_taken"}
              /\ phone' = Hangup("down")
              /\ LetsGo /\ UNCHANGED up
           \/ /\ m.kind \in {"failed", "too_far_behind"}
              /\ phone' = Over(IF m.kind = "failed" THEN "failed" ELSE "offline")
              /\ LetsGo /\ UNCHANGED up
    /\ owed' = FALSE
    /\ UNCHANGED <<recorded, stopped>> /\ AtTheMac

\* One event changes nothing else: the words that are not settled yet, which
\* the server sends with every update of what it has heard. Once it has heard
\* something, one may have come at any time.
ReadPartial ==
    /\ Up /\ phone.ready /\ phone.turn = -1 /\ phone.sent > 0
    /\ owed
    /\ owed' = FALSE
    /\ UNCHANGED <<recorded, stopped, phone, wire>> /\ AtTheMac

\* on: what is to go. A turn looks at how much there is, and sends from the
\* file up to there, or as much of it as goes in one turn. Then it commits, if
\* it sent all it saw and the take is stopped by now. (Mistaken: the session
\* is taken for the take.)
MayCommit == stopped /\ ~phone.commitSent /\ ~phone.committed
LookAtFile ==
    /\ Up /\ phone.ready /\ phone.turn = -1
    /\ \/ \E to \in phone.origin + phone.sent + 1..recorded :
              phone' = [phone EXCEPT !.turn = to, !.whole = to = recorded]
       \/ /\ recorded <= phone.origin + phone.sent /\ MayCommit
          /\ phone' = [phone EXCEPT !.turn = recorded, !.whole = TRUE]
    /\ UNCHANGED <<recorded, stopped, owed, wire>> /\ AtTheMac
SendFromTheStart ==
    /\ Up /\ phone.turn > phone.origin + phone.sent
    /\ Says("audio", phone.sent + 1)
    /\ phone' = [phone EXCEPT !.sent = @ + 1] /\ owed' = TRUE
    /\ UNCHANGED <<recorded, stopped, down, open>> /\ AtTheMac
SendAudio ==
    /\ Up /\ phone.turn > phone.origin + phone.sent
    /\ Says("audio", phone.origin + phone.sent + 1)
    /\ phone' = [phone EXCEPT !.sent = @ + 1] /\ owed' = TRUE
    /\ UNCHANGED <<recorded, stopped, down, open>> /\ AtTheMac
EndTurn ==
    /\ Up /\ phone.turn # -1 /\ phone.origin + phone.sent >= phone.turn
    /\ IF MayCommit /\ phone.whole
       THEN /\ Says("commit", 0) /\ owed' = TRUE
            /\ phone' = [phone EXCEPT !.turn = -1, !.whole = FALSE, !.commitSent = TRUE,
                                     !.covers = IF @ = 0 THEN phone.turn ELSE @]
       ELSE phone' = [phone EXCEPT !.turn = -1, !.whole = FALSE] /\ UNCHANGED <<up, owed>>
    /\ UNCHANGED <<recorded, stopped, down, open>> /\ AtTheMac

\* run: live is over, and the take is: sent whole, which may fail.
SendWhole ==
    /\ phone.at = "offline" /\ stopped
    /\ \/ phone' = [phone EXCEPT !.at = "sent", !.text = [n \in 1..recorded |-> n]]
       \/ phone' = [phone EXCEPT !.at = "failed"]
    /\ UNCHANGED <<recorded, stopped, owed, wire>> /\ AtTheMac

\* Speak::cancel: the socket is closed, and the take's files are gone.
Cancel ==
    /\ phone.at \in {"down", "up", "offline"}
    /\ recorded' = 0 /\ stopped' = TRUE /\ owed' = FALSE
    /\ phone' = [Over("cancelled") EXCEPT !.text = <<>>]
    /\ IF Up THEN Says("close", 0) /\ LetsGo ELSE UNCHANGED wire
    /\ AtTheMac

PhoneStep == Connect \/ OutOfReach \/ Read \/ LookAtFile \/ SendAudio \/ EndTurn \/ SendWhole
UserStep == Record \/ Stop \/ Cancel
PhoneMishap == Leave \/ Refused
=============================================================================
