-------------------------------- MODULE Takes --------------------------------
(***************************************************************************)
(* A take spoken on the phone and written by the server, over links that   *)
(* drop: Speak on Realtime. A socket that fails does so for either end at  *)
(* a time of its own; what was on its way is read or is not.               *)
(***************************************************************************)
EXTENDS Speak

vars == <<wire, serverVars, mishaps, phoneVars>>

Init == RealtimeInit /\ SpeakInit

Serve == \E k \in Sockets : ServerStep(k)
Next ==
    \/ (Serve \/ ServerMishap) /\ UNCHANGED phoneVars
    \/ PhoneStep \/ ReadPartial \/ UserStep \/ PhoneMishap

Spec == Init /\ [][Next]_vars

\* What can go on does, in whatever order: the server's tasks, the phone's
\* thread, and a phone on a socket the server is done with, which tires of
\* waiting for what it is owed; it need not hear of the socket's end. Links
\* need not drop, nothing need go wrong, and nobody need speak or stop.
Dead == phone.at = "up" /\ task[phone.sock].at = "over" /\ down[phone.sock] = <<>>
GoesOn == (Serve /\ UNCHANGED phoneVars) \/ PhoneStep \/ (Dead /\ owed /\ Leave)
FairSpec == Spec /\ WF_vars(GoesOn)

(***************************************************************************)
(* Properties                                                              *)
(***************************************************************************)

\* Every variable has its type.
TypeOK == RealtimeTypeOK /\ SpeakTypeOK

\* Whatever is sent again, lost or sent to the wrong place, a session has the
\* take's samples from the one it began at, each once and in order.
HeardInPlace ==
    \A i \in SessionIds : \A n \in DOMAIN sess[i].pcm : sess[i].pcm[n] = sess[i].base + n

\* A session is in one place: run by one socket, settling on one, on its way
\* to one, or held; and whatever the registry says is somewhere is.
Holders(i) == {k \in Sockets : task[k].s = i /\ task[k].at \in {"given", "run", "settle"}}
OneHolder ==
    \A i \in SessionIds :
        /\ Cardinality(Holders(i)) + (IF slot[i].at = "off" THEN 1 ELSE 0)
                = (IF sess[i].is = "kept" THEN 1 ELSE 0)
        /\ slot[i].at = "on" => Holders(i) # {}

\* The comment in `park`: a reconnect has asked already, and is handed the
\* session, or finds it held. It never waits for one that is held, unless it
\* asked a socket that was handing it to another.
NobodyWaitsForTheHeld ==
    \A k \in Sockets : task[k].at = "ask" => slot[task[k].s].at # "off"

\* A settled word never changes and comes once: the text only grows, by
\* words later in the take than all it has; and between two words next to
\* each other in it, words are missing only where a session ended and
\* another began.
WordsOnceInOrder ==
    LET text == phone.text
    IN  \A n \in 1..Len(text) - 1 :
            \/ text[n + 1] = text[n] + 1
            \/ text[n + 1] > text[n] + 1 /\ \E i \in SessionIds : text[n + 1] = sess[i].base + 1

\* A take that ended live has in its text the last of the words that were in
\* its file when it looked, to commit.
CommitCoversWhatThereWas ==
    phone.at = "done" /\ phone.covers > phone.origin =>
        phone.text # <<>> /\ phone.text[Len(phone.text)] >= phone.covers

\* A take that is stopped ends: with a text, or with a reason and its file.
\* Unless its link died unheard once all was sent and committed, and an event
\* had come since: then nothing is owed any more, nothing more is sent, and
\* the socket is never taken for dead. (The comment at STALLED counts a commit
\* as owing an answer; `on` forgets it at the next event.)
Unnoticed ==
    /\ Dead /\ ~owed /\ phone.turn = -1
    /\ recorded <= phone.origin + phone.sent /\ (phone.commitSent \/ phone.committed)
TakesEnd == stopped ~> phone.at \in {"done", "sent", "failed", "cancelled"} \/ Unnoticed

\* The doc of speak.rs: when a session is let go of, a new one begins at the
\* last settled word, and what was said since is sent from the file. So no
\* word before one in the text is missing from it.
NoWordIsLost == phone.text = [n \in 1..Len(phone.text) |-> n]
=============================================================================
