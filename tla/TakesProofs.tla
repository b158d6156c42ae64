---------------------------- MODULE TakesProofs ----------------------------
(***************************************************************************)
(* Theorems about a take over links that drop (Takes), for any numbers of  *)
(* sockets, words and mishaps.                                             *)
(***************************************************************************)
EXTENDS Takes, Counting, SequenceTheorems

(***************************************************************************)
(* Types                                                                   *)
(***************************************************************************)
UpMessage == [kind : {"audio", "offset", "commit", "close"}, n : Nat]
\* Of the messages down: what a session begins with, what it has settled, and
\* the rest.
Hello == [kind : {"created", "resumed"}, id : SessionIds, at : Nat, item : Nat, words : {<<>>}]
Said  == [kind : {"delta", "committed", "completed"}, id : Nat, at : Nat, item : Nat, words : Seq(Nat)]
Notice == [kind : {"session_not_found", "audio_gap", "session_taken", "failed", "too_far_behind"},
           id : Nat, at : Nat, item : Nat, words : {<<>>}]
DownMessage == Hello \cup Said \cup Notice

Session == [is : {"none", "kept", "gone"}, base : Nat, pcm : Seq(Nat), next : Nat, heard : Nat, last : Nat,
            settled : Nat, doing : {"nothing", "update", "finish"}, commit : BOOLEAN, item : Nat, events : Nat,
            log : Seq(Said)]
MarksInOrder(s) == s.settled <= s.last /\ s.last <= s.heard /\ s.heard <= Len(s.pcm)
Task == [at : TaskPlaces, s : {0} \cup SessionIds, from : Nat, by : {0} \cup Sockets]
Slot == [at : {"none", "on", "off"}, by : {0} \cup Sockets]
Phone == [at : PhonePlaces, sock : {0} \cup Sockets, id : {0} \cup SessionIds, origin : Nat, settledTo : Nat,
          sent : Nat, seen : SUBSET Nat, text : Seq(Nat), committed : BOOLEAN, ready : BOOLEAN,
          commitSent : BOOLEAN, turn : Nat \cup {-1}, whole : BOOLEAN, covers : Nat]

WireTyped == up \in [Sockets -> Seq(UpMessage)] /\ down \in [Sockets -> Seq(DownMessage)] /\ open \subseteq Sockets
TaskTyped ==
    /\ task \in [Sockets -> Task] /\ slot \in [SessionIds -> Slot]
    /\ ask \in [Sockets -> Seq(Sockets)] /\ \A k \in Sockets : ask[k] = <<>> \/ \E j \in Sockets : ask[k] = <<j>>
SessTyped == sess \in [SessionIds -> Session] /\ \A i \in SessionIds : MarksInOrder(sess[i])
PhoneTyped ==
    /\ phone \in Phone /\ recorded \in 0..MaxWords /\ stopped \in BOOLEAN /\ mishaps \in 0..MaxMishaps
    /\ owed \in BOOLEAN /\ (phone.at = "up" => phone.sock \in Sockets)

Typed == WireTyped /\ TaskTyped /\ SessTyped /\ PhoneTyped

\* What the server does to a session keeps it one.
LEMMA NoSessionIsOne == NoSession \in Session /\ MarksInOrder(NoSession)
BY DEF NoSession, Session, MarksInOrder

\* `Hear` moves `next` on, and takes the word if it belongs there.
LEMMA HearingKeeps ==
    ASSUME NEW s \in Session, MarksInOrder(s), NEW word \in Nat
    PROVE  /\ Hear(s, word) \in Session /\ MarksInOrder(Hear(s, word))
           /\ Hear(s, word).is = s.is /\ Hear(s, word).base = s.base /\ Hear(s, word).next = s.next + 1
           /\ Hear(s, word).pcm = IF s.next = Len(s.pcm) THEN Append(s.pcm, word) ELSE s.pcm
<1> DEFINE pcm == IF s.next = Len(s.pcm) THEN Append(s.pcm, word) ELSE s.pcm
<1>1. Hear(s, word) = [s EXCEPT !.next = s.next + 1, !.pcm = pcm]
  BY DEF Hear, Session
<1>2. pcm \in Seq(Nat) /\ Len(pcm) \in Nat /\ Len(s.pcm) \in Nat /\ Len(pcm) >= Len(s.pcm)
  BY DEF Session
<1> HIDE DEF pcm
<1> DEFINE next == s.next + 1
<1>a. next \in Nat
  BY DEF Session
<1> HIDE DEF next
<1>b. Hear(s, word) = [s EXCEPT !.next = next, !.pcm = pcm]
  BY <1>1 DEF next
<1>3. Hear(s, word) \in Session /\ Hear(s, word).next = next /\ Hear(s, word).pcm = pcm
      /\ Hear(s, word).heard = s.heard /\ Hear(s, word).last = s.last /\ Hear(s, word).settled = s.settled
      /\ Hear(s, word).is = s.is /\ Hear(s, word).base = s.base
  BY ZenonT(40), <1>b, <1>a, <1>2 DEF Session
<1>4. MarksInOrder(Hear(s, word))
  BY SMTT(30), <1>2, <1>3 DEF MarksInOrder, Session
<1> QED
  BY <1>3, <1>4 DEF pcm, next

\* `Begin` hears on, of what there is.
LEMMA BeginningKeeps ==
    ASSUME NEW s \in Session, MarksInOrder(s)
    PROVE  /\ Begin(s) \in Session /\ MarksInOrder(Begin(s))
           /\ Begin(s).is = s.is /\ Begin(s).base = s.base /\ Begin(s).next = s.next /\ Begin(s).pcm = s.pcm
           /\ Begin(s).log = s.log /\ Begin(s).heard >= s.heard
<1> DEFINE n == IF Len(s.pcm) - s.heard < MostAtOnce THEN Len(s.pcm) ELSE s.heard + MostAtOnce
           finish == s.commit /\ n = Len(s.pcm)
           commit == s.commit /\ ~finish
           doing == IF finish THEN "finish" ELSE "update"
<1>1. Begin(s) = [s EXCEPT !.heard = n, !.doing = doing, !.commit = commit]
  BY Zenon DEF Begin
<1>2. Len(s.pcm) \in Nat /\ s.heard \in Nat /\ s.last \in Nat /\ s.heard <= Len(s.pcm) /\ s.last <= s.heard
  BY DEF Session, MarksInOrder
<1>3. MostAtOnce \in Nat
  BY RealtimeAssumption
<1>4. n \in Nat /\ n <= Len(s.pcm) /\ s.last <= n /\ s.heard <= n
  BY <1>2, <1>3
<1>5. commit \in BOOLEAN /\ doing \in {"update", "finish"}
  OBVIOUS
<1> HIDE DEF n, finish, commit, doing
<1>6. /\ Begin(s) \in Session /\ Begin(s).heard = n /\ Begin(s).last = s.last /\ Begin(s).settled = s.settled
      /\ Begin(s).is = s.is /\ Begin(s).base = s.base /\ Begin(s).next = s.next /\ Begin(s).pcm = s.pcm
      /\ Begin(s).log = s.log
  BY ZenonT(40), <1>1, <1>4, <1>5 DEF Session
<1> QED
  BY <1>4, <1>6 DEF MarksInOrder

\* What an update settles is said in messages, and logged.
LEMMA ListeningKeeps ==
    ASSUME NEW s \in Session, MarksInOrder(s), NEW to \in MaySettle(s)
    PROVE  /\ Events(s, to) \in Seq(Said) /\ to \in Nat /\ s.settled <= to /\ to <= s.heard
           /\ \A p \in DOMAIN Events(s, to) : Events(s, to)[p].at = s.heard
           /\ Listened(s, to) \in Session /\ MarksInOrder(Listened(s, to))
           /\ Listened(s, to).is = s.is /\ Listened(s, to).base = s.base /\ Listened(s, to).next = s.next
           /\ Listened(s, to).pcm = s.pcm /\ Listened(s, to).heard = s.heard
           /\ Listened(s, to).log = s.log \o Events(s, to)
<1>1. /\ s.settled \in Nat /\ s.last \in Nat /\ s.heard \in Nat /\ s.events \in Nat /\ s.item \in Nat
      /\ s.pcm \in Seq(Nat) /\ Len(s.pcm) \in Nat /\ s.log \in Seq(Said)
      /\ s.settled <= s.last /\ s.last <= s.heard /\ s.heard <= Len(s.pcm)
  BY DEF Session, MarksInOrder
<1>2. to \in Nat /\ s.settled <= to /\ to <= s.heard
  BY <1>1 DEF MaySettle
<1> DEFINE words == SubSeq(s.pcm, s.settled + 1, to)
           said == [Event(s, "delta", 1) EXCEPT !.words = words]
           delta == IF to = s.settled THEN <<>> ELSE <<said>>
<1>3. words \in Seq(Nat)
  <2>1. s.settled + 1 \in Int /\ to \in Int /\ \A n \in s.settled + 1..to : n \in 1..Len(s.pcm)
    BY <1>1, <1>2
  <2>2. \A n \in s.settled + 1..to : s.pcm[n] \in Nat
    BY SMTT(30), <1>1, <2>1
  <2> QED
    BY <1>1, <2>1, <2>2, SubSeqProperties
<1> HIDE DEF words
<1>4. \A kind \in {"delta", "committed", "completed"}, n \in Nat :
        Event(s, kind, n) \in Said /\ Event(s, kind, n).at = s.heard
  <2> SUFFICES ASSUME NEW kind \in {"delta", "committed", "completed"}, NEW n \in Nat
               PROVE  Event(s, kind, n) \in Said /\ Event(s, kind, n).at = s.heard
    OBVIOUS
  <2>1. Message(kind) \in Said
    BY DEF Message, Said
  <2> DEFINE id == s.events + n
  <2>2. id \in Nat
    BY <1>1
  <2>3. Event(s, kind, n) = [Message(kind) EXCEPT !.id = id, !.at = s.heard]
    BY DEF Event
  <2> HIDE DEF id
  <2> QED
    BY <1>1, <2>1, <2>2, <2>3 DEF Said
<1>5. said \in Said /\ said.at = s.heard
  <2>1. Event(s, "delta", 1) \in Said /\ Event(s, "delta", 1).at = s.heard
    BY <1>4
  <2> QED
    BY <1>3, <2>1 DEF Said
<1> HIDE DEF said
<1>6. delta \in Seq(Said) /\ Len(delta) \in {0, 1} /\ \A p \in DOMAIN delta : delta[p].at = s.heard
  BY <1>5
<1> DEFINE first == Event(s, "committed", Len(delta) + 1)
           ending == Event(s, "completed", Len(delta) + 2)
<1>7. first \in Said /\ first.at = s.heard /\ ending \in Said /\ ending.at = s.heard
  BY <1>4, <1>6
<1>8. Events(s, to) = IF s.doing = "update" THEN delta ELSE <<first>> \o delta \o <<ending>>
  BY Zenon DEF Events, delta, said, words, first, ending
<1> HIDE DEF delta, first, ending
<1>9. Events(s, to) \in Seq(Said) /\ \A p \in DOMAIN Events(s, to) : Events(s, to)[p].at = s.heard
  BY <1>6, <1>7, <1>8
<1> DEFINE out == Events(s, to)
           item == IF s.doing = "finish" THEN s.item + 1 ELSE s.item
           log == s.log \o out
           events == s.events + Len(out)
<1>10. Listened(s, to) = [s EXCEPT !.settled = to, !.last = s.heard, !.doing = "nothing",
                                   !.events = events, !.log = log, !.item = item]
  BY DEF Listened, Session
<1>11. log \in Seq(Said) /\ events \in Nat /\ item \in Nat
  BY SMTT(30), <1>1, <1>9
<1> HIDE DEF log, events, item, out
<1>12. /\ Listened(s, to) \in Session /\ Listened(s, to).settled = to /\ Listened(s, to).last = s.heard
       /\ Listened(s, to).heard = s.heard /\ Listened(s, to).is = s.is /\ Listened(s, to).base = s.base
       /\ Listened(s, to).next = s.next /\ Listened(s, to).pcm = s.pcm /\ Listened(s, to).log = log
  BY ZenonT(40), <1>1, <1>2, <1>10, <1>11 DEF Session
<1>13. MarksInOrder(Listened(s, to))
  BY <1>1, <1>2, <1>12 DEF MarksInOrder
<1> QED
  BY <1>2, <1>9, <1>12, <1>13 DEF log, out

\* A session that is let go of remembers where it began.
LEMMA EndingKeeps ==
    ASSUME NEW s \in Session
    PROVE  Ended(s) \in Session /\ MarksInOrder(Ended(s)) /\ Ended(s).is = "gone" /\ Ended(s).base = s.base
           /\ Ended(s).pcm = <<>>
<1>1. NoSession \in Session /\ NoSession.pcm = <<>> /\ NoSession.heard = 0 /\ NoSession.last = 0 /\ NoSession.settled = 0
  BY NoSessionIsOne DEF NoSession
<1>2. s.base \in Nat
  BY DEF Session
<1>3. Ended(s) = [NoSession EXCEPT !.is = "gone", !.base = s.base]
  BY DEF Ended
<1> HIDE DEF NoSession
<1>4. /\ Ended(s) \in Session /\ Ended(s).is = "gone" /\ Ended(s).base = s.base /\ Ended(s).pcm = <<>>
      /\ Ended(s).heard = 0 /\ Ended(s).last = 0 /\ Ended(s).settled = 0
  BY <1>1, <1>2, <1>3 DEF Session
<1> QED
  BY <1>4 DEF MarksInOrder

\* What is sent again is the end of the log.
LEMMA SendingAgainKeeps ==
    ASSUME NEW log \in Seq(Said), NEW from \in Nat
    PROVE  /\ Again(log, from) \in Seq(Said)
           /\ \A p \in DOMAIN Again(log, from) : \E q \in DOMAIN log : Again(log, from)[p] = log[q]
<1> DEFINE before == {n \in DOMAIN log : log[n].at < from}
           c == Cardinality(before)
<1>1. Len(log) \in Nat /\ DOMAIN log = 1..Len(log)
  OBVIOUS
<1>2. IsFiniteSet(1..Len(log)) /\ before \subseteq 1..Len(log)
  BY <1>1, FS_Interval
<1>3. c \in Nat
  BY <1>2, FS_Subset, FS_CardinalityType
<1>4. Again(log, from) = SubSeq(log, c + 1, Len(log))
  BY DEF Again, FromOn
<1> HIDE DEF c
<1>5. \A n \in c + 1..Len(log) : n \in 1..Len(log) /\ log[n] \in Said
  BY <1>1, <1>3
<1>6. c + 1 \in Int /\ Len(log) \in Int
  BY <1>1, <1>3
<1>7. Again(log, from) \in Seq(Said)
  BY <1>4, <1>5, <1>6, SubSeqProperties
<1> DEFINE again == SubSeq(log, c + 1, Len(log))
<1>8. Len(again) = (IF c + 1 <= Len(log) THEN Len(log) - c ELSE 0) /\ \A p \in 1..Len(again) : again[p] = log[c + p]
  BY <1>1, <1>3, <1>5, <1>6, SubSeqProperties
<1>a. again = Again(log, from)
  BY <1>4
<1> HIDE DEF again
<1>9. ASSUME NEW p \in DOMAIN again PROVE \E q \in DOMAIN log : again[p] = log[q]
  <2>1. again \in Seq(Said) /\ DOMAIN again = 1..Len(again) /\ Len(again) \in Nat
    BY SMTT(30), <1>7, <1>a
  <2> DEFINE l == Len(again)
             n == Len(log)
  <2>a. p \in 1..l /\ l \in Nat /\ n \in Nat /\ c \in Nat /\ l = (IF c + 1 <= n THEN n - c ELSE 0)
    BY <1>1, <1>3, <1>8, <2>1
  <2> HIDE DEF l, n
  <2>b. p \in 1..l /\ c + p \in 1..n
    BY <2>a
  <2>2. p \in 1..Len(again) /\ c + p \in 1..Len(log)
    BY <2>b DEF l, n
  <2> QED
    BY <1>1, <1>8, <2>2
<1> QED
  BY <1>7, <1>9, <1>a

(***************************************************************************)
(* Where the sessions are                                                  *)
(***************************************************************************)
Has(k, i) == task[k].s = i /\ task[k].at \in {"given", "run", "settle"}
HasHere(k, i) == task[k].s = i /\ task[k].at \in {"run", "settle"}
Asks(b, k) == ask[b] = <<k>>
Kept(i) == sess[i].is = "kept"

\* Two sockets do not have a session.
OneEach == \A i \in SessionIds : \A k, j \in Sockets : Has(k, i) /\ Has(j, i) => k = j

\* A session is kept as long as it is held or a socket has it, never both.
HeldOrHad ==
    \A i \in SessionIds :
        /\ slot[i].at = "off" => Kept(i) /\ \A k \in Sockets : ~Has(k, i)
        /\ \A k \in Sockets : Has(k, i) => Kept(i)
        /\ Kept(i) => slot[i].at = "off" \/ \E k \in Sockets : Has(k, i)

\* A session that is said to be on a socket is there, or has been handed on
\* by it to one who is about to say so.
OnIsThere ==
    \A i \in SessionIds :
        slot[i].at = "on" =>
            /\ slot[i].by \in Sockets
            /\ \/ HasHere(slot[i].by, i)
               \/ /\ task[slot[i].by].at \in {"bye", "over"}
                  /\ \E k \in Sockets : task[k].at = "given" /\ task[k].s = i

\* A socket that runs a session is where the registry says it is.
HereIsOn ==
    \A k \in Sockets :
        task[k].at \in {"run", "settle"} =>
            task[k].s \in SessionIds /\ slot[task[k].s].at = "on" /\ slot[task[k].s].by = k

\* A socket that has begun no session has none of its number.
NotYet ==
    \A k \in Sockets :
        task[k].at = "none" \/ (task[k].at = "new" /\ task[k].s = 0) => sess[k].is = "none"

\* A reconnect names a session, and one that was there.
Named ==
    \A k \in Sockets :
        /\ task[k].at \in {"given", "ask", "late"} => task[k].s \in SessionIds
        /\ task[k].at = "ask" => sess[task[k].s].is # "none"
        /\ task[k].at # "settle" => task[k].by = 0

\* Its question is with the socket that has the session, as long as there is one.
Waits ==
    \A k \in Sockets :
        task[k].at = "ask" /\ Kept(task[k].s) =>
            \E b \in Sockets :
                HasHere(b, task[k].s) /\ (Asks(b, k) \/ (task[b].at = "settle" /\ task[b].by = k))
Questions ==
    \A b, k \in Sockets :
        /\ Asks(b, k) \/ (task[b].at = "settle" /\ task[b].by = k) => task[k].at \notin {"none", "new"}
        /\ task[k].at = "ask" =>
            /\ Asks(b, k) => HasHere(b, task[k].s)
            /\ task[b].at = "settle" /\ task[b].by = k => task[b].s = task[k].s

Places == OneEach /\ HeldOrHad /\ OnIsThere /\ HereIsOn /\ NotYet /\ Named /\ Waits /\ Questions

(***************************************************************************)
(* Every step keeps the types                                              *)
(***************************************************************************)
\* What is sent reaches the messages down.
LEMMA SendingKeeps ==
    ASSUME WireTyped, NEW k \in Sockets, NEW out \in Seq(DownMessage), Sent(k, out)
    PROVE  down' \in [Sockets -> Seq(DownMessage)]
<1>1. down[k] \o out \in Seq(DownMessage)
  BY DEF WireTyped
<1> QED
  BY <1>1 DEF WireTyped, Sent

\* A notice is a message; and so is what a session begins with.
LEMMA MessagesAre ==
    /\ \A kind \in {"session_not_found", "audio_gap", "session_taken", "failed", "too_far_behind"} :
            Message(kind) \in Notice
    /\ \A kind \in {"created", "resumed"}, id \in SessionIds, at, item \in Nat :
            [Message(kind) EXCEPT !.id = id, !.at = at, !.item = item] \in Hello
    /\ \A id \in SessionIds : [Message("created") EXCEPT !.id = id, !.item = 1] \in Hello
<1>1. \A kind : Message(kind) = [kind |-> kind, id |-> 0, at |-> 0, item |-> 0, words |-> <<>>]
  BY DEF Message
<1>2. \A kind \in {"session_not_found", "audio_gap", "session_taken", "failed", "too_far_behind"} :
            Message(kind) \in Notice
  BY <1>1 DEF Notice
<1> DEFINE Blank == [kind : {"created", "resumed"}, id : {0} \cup SessionIds, at : Nat, item : Nat, words : {<<>>}]
<1>a. \A kind \in {"created", "resumed"} : Message(kind) \in Blank
  BY <1>1
<1>3. ASSUME NEW kind \in {"created", "resumed"}, NEW id \in SessionIds, NEW at \in Nat, NEW item \in Nat
      PROVE  [Message(kind) EXCEPT !.id = id, !.at = at, !.item = item] \in Hello
  BY <1>a DEF Hello
<1>4. ASSUME NEW id \in SessionIds
      PROVE  [Message("created") EXCEPT !.id = id, !.item = 1] \in Hello
  <2>1. Message("created") \in Blank
    BY <1>a
  <2> QED
    BY <2>1 DEF Hello
<1> QED
  BY <1>2, <1>3, <1>4

\* The forms of a step that a part of the state is not touched by.
LEMMA PhoneIsLeft ==
    ASSUME PhoneTyped, UNCHANGED phoneVars, UNCHANGED mishaps \/ AMishap
    PROVE  PhoneTyped'
<1>1. mishaps' \in 0..MaxMishaps
  BY RealtimeAssumption DEF PhoneTyped, AMishap
<1> QED
  BY <1>1 DEF PhoneTyped, phoneVars

\* A socket's task with nothing in it.
LEMMA NoTaskIsOne == \A at \in TaskPlaces : [NoTask EXCEPT !.at = at] \in Task /\ NoSlot \in Slot
BY DEF NoTask, Task, NoSlot, Slot, TaskPlaces

\* `Fresh` keeps the types.
LEMMA FreshTyped ==
    ASSUME Typed, NEW k \in Sockets, Fresh(k)
    PROVE  WireTyped' /\ TaskTyped' /\ SessTyped'
<1> USE DEF SessionIds
<1> DEFINE hello == [Message("created") EXCEPT !.id = k, !.item = 1]
<1>a. hello \in Hello
  BY MessagesAre
<1> HIDE DEF hello
<1>1. <<hello>> \in Seq(DownMessage)
  BY <1>a DEF DownMessage
<1>b. Sent(k, <<hello>>) /\ up' = up /\ open' = open
  BY DEF Fresh, Smoothly, hello
<1>2. WireTyped'
  BY <1>1, <1>b, SendingKeeps DEF Typed, WireTyped
<1>3. task[k].from \in Nat
  BY DEF Typed, TaskTyped, Task
<1> DEFINE new == [NoSession EXCEPT !.is = "kept", !.base = task[k].from]
<1>4. new \in Session /\ MarksInOrder(new)
  <2>1. new \in Session
    BY <1>3, NoSessionIsOne DEF Session
  <2>2. new.heard = NoSession.heard /\ new.last = NoSession.last /\ new.settled = NoSession.settled /\ new.pcm = NoSession.pcm
    BY NoSessionIsOne DEF Session
  <2> QED
    BY <2>1, <2>2, NoSessionIsOne DEF MarksInOrder
<1>5. sess' = [sess EXCEPT ![k] = new]
  BY DEF Fresh
<1> HIDE DEF new
<1>6. SessTyped'
  BY <1>4, <1>5 DEF Typed, SessTyped
<1>7. TaskTyped'
  <2>1. task' \in [Sockets -> Task]
    <3>1. task' = [task EXCEPT ![k].at = "run", ![k].s = k, ![k].from = 0] /\ k \in {0} \cup Sockets
      BY DEF Fresh
    <3> DEFINE mine == [task[k] EXCEPT !.at = "run", !.s = k, !.from = 0]
    <3>2. task[k] \in Task
      BY DEF Typed, TaskTyped
    <3>3. mine \in Task
      BY <3>1, <3>2 DEF Task, TaskPlaces
    <3>4. task' = [task EXCEPT ![k] = mine]
      BY <3>1
    <3> HIDE DEF mine
    <3> QED
      BY <3>3, <3>4 DEF Typed, TaskTyped
  <2>2. slot' \in [SessionIds -> Slot]
    BY DEF Typed, TaskTyped, Slot, Fresh
  <2> QED
    BY <2>1, <2>2 DEF Typed, TaskTyped, Fresh
<1> QED
  BY <1>2, <1>6, <1>7

\* A socket that is told there is no session is over.
LEMMA NotFoundTyped ==
    ASSUME WireTyped, TaskTyped, NEW k \in Sockets, NotFound(k)
    PROVE  down' \in [Sockets -> Seq(DownMessage)] /\ task' \in [Sockets -> Task]
<1>a. Message("session_not_found") \in Notice
  BY MessagesAre
<1>1. <<Message("session_not_found")>> \in Seq(DownMessage)
  BY <1>a DEF DownMessage
<1>2. down' \in [Sockets -> Seq(DownMessage)]
  BY ZenonT(40), <1>1, SendingKeeps DEF NotFound
<1>3. task' \in [Sockets -> Task]
  BY SMTT(30), NoTaskIsOne DEF NotFound, TaskTyped, TaskPlaces
<1> QED
  BY <1>2, <1>3

\* `Reconnect` keeps the types.
LEMMA ReconnectTyped ==
    ASSUME Typed, NEW k \in Sockets, Reconnect(k)
    PROVE  WireTyped' /\ TaskTyped' /\ SessTyped'
<1> DEFINE i == task[k].s
<1>1. SessTyped' /\ up' = up /\ open' = open
  BY DEF Reconnect, Smoothly, Typed, SessTyped
<1>2. Take(k, i) /\ i \in SessionIds
  BY DEF Reconnect, Typed, TaskTyped, Task
<1>3. CASE /\ slot[i].at = "off"
           /\ slot' = [slot EXCEPT ![i] = NoSlot]
           /\ task' = [task EXCEPT ![k].at = "given"]
           /\ UNCHANGED <<ask, down>>
  <2>1. task' \in [Sockets -> Task]
    BY ZenonT(40), <1>3 DEF Typed, TaskTyped, Task, TaskPlaces
  <2>2. slot' \in [SessionIds -> Slot]
    BY <1>3 DEF Typed, TaskTyped, Slot, NoSlot
  <2> QED
    BY <1>1, <1>3, <2>1, <2>2 DEF Typed, TaskTyped, WireTyped
<1>4. CASE /\ slot[i].at = "on" /\ ask[slot[i].by] = <<>> /\ task[slot[i].by].at # "over"
           /\ ask' = [ask EXCEPT ![slot[i].by] = <<k>>]
           /\ task' = [task EXCEPT ![k].at = IF task[slot[i].by].at = "bye" THEN "late" ELSE "ask"]
           /\ UNCHANGED <<slot, down>>
  <2>1. WireTyped'
    BY <1>1, <1>4 DEF Typed, WireTyped
  <2> DEFINE at == IF task[slot[i].by].at = "bye" THEN "late" ELSE "ask"
  <2>2. at \in TaskPlaces /\ task' = [task EXCEPT ![k].at = at]
    BY <1>4 DEF TaskPlaces
  <2> HIDE DEF at
  <2>3. task' \in [Sockets -> Task]
    BY ZenonT(40), <2>2 DEF Typed, TaskTyped, Task
  <2>4. ask' \in [Sockets -> Seq(Sockets)] /\ \A b \in Sockets : ask'[b] = <<>> \/ \E j \in Sockets : ask'[b] = <<j>>
    <3>1. <<k>> \in Seq(Sockets) /\ ask \in [Sockets -> Seq(Sockets)]
      BY DEF Typed, TaskTyped
    <3>2. \A b \in Sockets : ask[b] = <<>> \/ \E j \in Sockets : ask[b] = <<j>>
      BY DEF Typed, TaskTyped
    <3>3. \A b \in Sockets : ask'[b] = <<k>> \/ ask'[b] = ask[b]
      BY <3>1, <1>4
    <3> QED
      BY <3>1, <3>2, <3>3, <1>4
  <2> QED
    BY <1>1, <1>4, <2>1, <2>3, <2>4 DEF Typed, TaskTyped
<1>5. CASE NotFound(k) /\ UNCHANGED <<ask, slot>>
  BY <1>1, <1>5, NotFoundTyped DEF Typed, TaskTyped, WireTyped
<1> QED
  BY <1>2, <1>3, <1>4, <1>5 DEF Take

\* A reconnect that gives up keeps the types.
LEMMA GivingUpTyped ==
    ASSUME Typed, NEW k \in Sockets, StopWaiting(k) \/ TimeIsUp(k)
    PROVE  WireTyped' /\ TaskTyped' /\ SessTyped'
<1>1. NotFound(k) /\ UNCHANGED <<up, open, ask, slot, sess>>
  BY DEF StopWaiting, TimeIsUp, Smoothly
<1> QED
  BY <1>1, NotFoundTyped DEF Typed, WireTyped, TaskTyped, SessTyped

\* `Resume` keeps the types.
LEMMA ResumeTyped ==
    ASSUME Typed, Places, NEW k \in Sockets, Resume(k)
    PROVE  WireTyped' /\ TaskTyped' /\ SessTyped'
<1> DEFINE i == task[k].s
           s == sess[i]
           log == Again(s.log, task[k].from)
           hello == [Message("resumed") EXCEPT !.id = i, !.at = Len(s.pcm), !.item = s.item]
           next == Len(s.pcm)
<1>1. i \in SessionIds /\ task[k].from \in Nat
  BY DEF Resume, Places, Named, Typed, TaskTyped, Task
<1>a. s \in Session /\ MarksInOrder(s)
  BY <1>1 DEF Typed, SessTyped
<1>2. s \in Session /\ MarksInOrder(s) /\ s.log \in Seq(Said) /\ s.item \in Nat /\ next \in Nat
  <2> HIDE DEF s
  <2> QED
    BY <1>a DEF Session
<1>3. log \in Seq(Said)
  BY <1>1, <1>2, SendingAgainKeeps
<1>4. hello \in Hello
  BY <1>1, <1>2, MessagesAre
<1>5. <<hello>> \o log \in Seq(DownMessage)
  BY <1>3, <1>4 DEF DownMessage
<1>6. /\ sess' = [sess EXCEPT ![i].next = next, ![i].log = log] /\ Sent(k, <<hello>> \o log)
      /\ slot' = [slot EXCEPT ![i] = [at |-> "on", by |-> k]]
      /\ task' = [task EXCEPT ![k].at = "run", ![k].from = 0]
      /\ ask' = ask /\ up' = up /\ open' = open
  BY DEF Resume, Smoothly
<1> HIDE DEF log, hello, next
<1>7. WireTyped'
  BY <1>5, <1>6, SendingKeeps DEF Typed, WireTyped
<1>8. TaskTyped'
  <2>1. task' \in [Sockets -> Task]
    BY ZenonT(40), <1>6 DEF Typed, TaskTyped, Task, TaskPlaces
  <2>2. slot' \in [SessionIds -> Slot]
    BY <1>1, <1>6 DEF Typed, TaskTyped, Slot
  <2> QED
    BY <1>6, <2>1, <2>2 DEF Typed, TaskTyped
<1>9. SessTyped'
  <2>1. sess' = [sess EXCEPT ![i] = [s EXCEPT !.next = next, !.log = log]]
    BY <1>6
  <2> DEFINE t == [s EXCEPT !.next = next, !.log = log]
  <2>2. t \in Session /\ t.settled = s.settled /\ t.last = s.last /\ t.heard = s.heard /\ t.pcm = s.pcm
    BY <1>2, <1>3 DEF Session
  <2>3. MarksInOrder(t)
    BY <1>2, <2>2 DEF MarksInOrder
  <2> HIDE DEF t, s
  <2> QED
    BY <1>1, <2>1, <2>2, <2>3 DEF Typed, SessTyped, t
<1> QED
  BY <1>7, <1>8, <1>9

\* A session that ends on a socket leaves the types as they were.
LEMMA ForgetTyped ==
    ASSUME Typed, Places, NEW k \in Sockets, Running(k) \/ task[k].at = "settle", NEW at \in {"over", "bye"}, Forget(k, at)
    PROVE  TaskTyped' /\ SessTyped'
<1>1. task[k].s \in SessionIds
  BY DEF Running, Places, HereIsOn
<1>2. sess' = [sess EXCEPT ![task[k].s] = Ended(sess[task[k].s])]
  BY DEF Forget
<1>3. sess[task[k].s] \in Session
  BY <1>1 DEF Typed, SessTyped
<1>4. SessTyped'
  BY <1>1, <1>2, <1>3, EndingKeeps DEF Typed, SessTyped
<1>5. task' \in [Sockets -> Task]
  BY NoTaskIsOne DEF Forget, Typed, TaskTyped, TaskPlaces
<1>6. slot' \in [SessionIds -> Slot]
  BY NoTaskIsOne, <1>1 DEF Forget, Typed, TaskTyped, TaskPlaces
<1>7. <<>> \in Seq(Sockets) /\ ask' = [ask EXCEPT ![k] = <<>>]
  BY DEF Forget
<1> QED
  BY <1>4, <1>5, <1>6, <1>7 DEF Typed, TaskTyped

\* A step that only changes the session a socket runs keeps the types.
LEMMA ChangingKeeps ==
    ASSUME SessTyped, NEW i \in SessionIds, NEW s \in Session, MarksInOrder(s), sess' = [sess EXCEPT ![i] = s]
    PROVE  SessTyped'
BY DEF SessTyped

\* What a socket has to read is still messages up when it has read one, or all.
LEMMA ReadingKeeps ==
    ASSUME WireTyped, NEW k \in Sockets
    PROVE  /\ ReadsNoMore(k) => up' \in [Sockets -> Seq(UpMessage)]
           /\ up[k] # <<>> =>
                /\ Head(up[k]) \in UpMessage
                /\ up' = [up EXCEPT ![k] = Tail(up[k])] => up' \in [Sockets -> Seq(UpMessage)]
<1>1. <<>> \in Seq(UpMessage) /\ up[k] \in Seq(UpMessage)
  BY DEF WireTyped
<1>2. up[k] # <<>> => Head(up[k]) \in UpMessage /\ Tail(up[k]) \in Seq(UpMessage)
  BY <1>1
<1> QED
  BY <1>1, <1>2 DEF WireTyped, ReadsNoMore

\* `Receive` keeps the types.
LEMMA ReceiveTyped ==
    ASSUME Typed, Places, NEW k \in Sockets, Receive(k)
    PROVE  WireTyped' /\ TaskTyped' /\ SessTyped'
<1> DEFINE i == task[k].s
           m == Head(up[k])
           s == sess[i]
<1>1. i \in SessionIds /\ m \in UpMessage /\ m.n \in Nat /\ open' = open /\ up[k] # <<>>
  BY ReadingKeeps DEF Receive, Running, Places, HereIsOn, Typed, UpMessage
<1>2. s \in Session /\ MarksInOrder(s)
  BY <1>1 DEF Typed, SessTyped
<1>3. CASE /\ m.kind = "audio"
           /\ sess' = [sess EXCEPT ![i] = Hear(s, m.n)]
           /\ Sent(k, IF Gap(s) THEN <<Message("audio_gap")>> ELSE <<>>)
           /\ up' = [up EXCEPT ![k] = Tail(up[k])]
           /\ UNCHANGED <<task, ask, slot>>
  <2> HIDE DEF i, m, s
  <2>1. Hear(s, m.n) \in Session /\ MarksInOrder(Hear(s, m.n))
    BY <1>1, <1>2, HearingKeeps
  <2>2. SessTyped'
    BY <1>1, <1>3, <2>1, ChangingKeeps DEF Typed
  <2>3. TaskTyped'
    BY <1>3 DEF Typed, TaskTyped
  <2> DEFINE out == IF Gap(s) THEN <<Message("audio_gap")>> ELSE <<>>
  <2>4. out \in Seq(DownMessage)
    <3>1. Message("audio_gap") \in DownMessage
      BY MessagesAre DEF DownMessage
    <3> QED
      BY <3>1
  <2> HIDE DEF out
  <2>5. down' \in [Sockets -> Seq(DownMessage)]
    BY <1>3, <2>4, SendingKeeps DEF Typed, out
  <2>6. up' \in [Sockets -> Seq(UpMessage)]
    BY <1>1, <1>3, ReadingKeeps DEF Typed
  <2> QED
    BY <1>1, <2>2, <2>3, <2>5, <2>6 DEF Typed, WireTyped
<1>4. CASE /\ m.kind = "offset"
           /\ sess' = [sess EXCEPT ![i].next = m.n]
           /\ up' = [up EXCEPT ![k] = Tail(up[k])]
           /\ UNCHANGED <<down, task, ask, slot>>
  <2> DEFINE t == [s EXCEPT !.next = m.n]
  <2>1. sess' = [sess EXCEPT ![i] = t]
    BY <1>4
  <2> HIDE DEF i, m, s
  <2>2. t \in Session /\ t.settled = s.settled /\ t.last = s.last /\ t.heard = s.heard /\ t.pcm = s.pcm
    BY <1>1, <1>2 DEF Session
  <2>3. MarksInOrder(t)
    BY <1>2, <2>2 DEF MarksInOrder
  <2> HIDE DEF t
  <2>4. SessTyped'
    BY <1>1, <2>1, <2>2, <2>3, ChangingKeeps DEF Typed
  <2>5. TaskTyped'
    BY <1>4 DEF Typed, TaskTyped
  <2>6. up' \in [Sockets -> Seq(UpMessage)]
    BY <1>1, <1>4, ReadingKeeps DEF Typed
  <2> QED
    BY <1>1, <1>4, <2>4, <2>5, <2>6 DEF Typed, WireTyped
<1>5. CASE /\ m.kind = "commit"
           /\ sess' = [sess EXCEPT ![i].commit = TRUE]
           /\ up' = [up EXCEPT ![k] = Tail(up[k])]
           /\ UNCHANGED <<down, task, ask, slot>>
  <2> DEFINE t == [s EXCEPT !.commit = TRUE]
  <2>1. sess' = [sess EXCEPT ![i] = t]
    BY <1>5
  <2> HIDE DEF i, m, s
  <2>2. t \in Session /\ t.settled = s.settled /\ t.last = s.last /\ t.heard = s.heard /\ t.pcm = s.pcm
    BY <1>2 DEF Session
  <2>3. MarksInOrder(t)
    BY <1>2, <2>2 DEF MarksInOrder
  <2> HIDE DEF t
  <2>4. SessTyped'
    BY <1>1, <2>1, <2>2, <2>3, ChangingKeeps DEF Typed
  <2>5. TaskTyped'
    BY <1>5 DEF Typed, TaskTyped
  <2>6. up' \in [Sockets -> Seq(UpMessage)]
    BY <1>1, <1>5, ReadingKeeps DEF Typed
  <2> QED
    BY <1>1, <1>5, <2>4, <2>5, <2>6 DEF Typed, WireTyped
<1>6. CASE m.kind = "close" /\ Forget(k, "over") /\ ReadsNoMore(k) /\ UNCHANGED down
  BY <1>1, <1>6, ForgetTyped, ReadingKeeps DEF Receive, Typed, WireTyped
<1> QED
  BY <1>3, <1>4, <1>5, <1>6 DEF Receive

\* `Tick` keeps the types.
LEMMA TickTyped ==
    ASSUME Typed, Places, NEW k \in Sockets, Tick(k)
    PROVE  WireTyped' /\ TaskTyped' /\ SessTyped'
<1> DEFINE i == task[k].s
           s == sess[i]
<1>1. i \in SessionIds
  BY DEF Tick, Running, Places, HereIsOn
<1>2. s \in Session /\ MarksInOrder(s)
  BY <1>1 DEF Typed, SessTyped
<1>3. sess' = [sess EXCEPT ![i] = Begin(s)] /\ UNCHANGED <<up, open, down, task, ask, slot>>
  BY DEF Tick, Smoothly
<1> HIDE DEF i, s
<1>4. SessTyped'
  BY <1>1, <1>2, <1>3, BeginningKeeps, ChangingKeeps DEF Typed
<1> QED
  BY <1>3, <1>4 DEF Typed, WireTyped, TaskTyped

\* What an update leaves of a session, a further one begun at once or not.
LEMMA UpdatingKeeps ==
    ASSUME NEW s \in Session, MarksInOrder(s), NEW to \in MaySettle(s),
           NEW t, LET l == Listened(s, to) IN t = IF l.commit \/ Len(l.pcm) - l.heard >= MostAtOnce THEN Begin(l) ELSE l
    PROVE  /\ t \in Session /\ MarksInOrder(t) /\ t.is = s.is /\ t.base = s.base /\ t.next = s.next /\ t.pcm = s.pcm
           /\ t.log = s.log \o Events(s, to)
<1> DEFINE l == Listened(s, to)
<1>1. l \in Session /\ MarksInOrder(l) /\ l.is = s.is /\ l.base = s.base /\ l.next = s.next /\ l.pcm = s.pcm
      /\ l.log = s.log \o Events(s, to)
  BY ListeningKeeps
<1>2. t = l \/ t = Begin(l)
  OBVIOUS
<1> HIDE DEF l
<1> QED
  BY SMTT(30), <1>1, <1>2, BeginningKeeps

\* `Updated` keeps the types.
LEMMA UpdatedTyped ==
    ASSUME Typed, Places, NEW k \in Sockets, Updated(k)
    PROVE  WireTyped' /\ TaskTyped' /\ SessTyped'
<1> DEFINE i == task[k].s
           s == sess[i]
<1>1. i \in SessionIds
  BY DEF Updated, Running, Places, HereIsOn
<1>2. s \in Session /\ MarksInOrder(s)
  BY <1>1 DEF Typed, SessTyped
<1>3. UNCHANGED <<up, open, task, ask, slot>>
  BY DEF Updated, Smoothly
<1>4. PICK to \in MaySettle(s) :
        /\ LET l == Listened(s, to)
           IN  sess' = [sess EXCEPT ![i] = IF l.commit \/ Len(l.pcm) - l.heard >= MostAtOnce THEN Begin(l) ELSE l]
        /\ Sent(k, Events(s, to))
  BY DEF Updated, Mine
<1> DEFINE l == Listened(s, to)
           t == IF l.commit \/ Len(l.pcm) - l.heard >= MostAtOnce THEN Begin(l) ELSE l
<1>5. sess' = [sess EXCEPT ![i] = t]
  BY <1>4
<1> HIDE DEF i, s
<1>6. t \in Session /\ MarksInOrder(t)
  BY <1>2, UpdatingKeeps
<1>7. Events(s, to) \in Seq(DownMessage)
  BY <1>2, ListeningKeeps DEF DownMessage
<1> HIDE DEF t
<1>8. SessTyped'
  BY <1>1, <1>5, <1>6, ChangingKeeps DEF Typed
<1>9. down' \in [Sockets -> Seq(DownMessage)]
  BY <1>4, <1>7, SendingKeeps DEF Typed
<1> QED
  BY <1>3, <1>8, <1>9 DEF Typed, WireTyped, TaskTyped

\* `Fails` keeps the types.
LEMMA FailsTyped ==
    ASSUME Typed, Places, NEW k \in Sockets, Fails(k)
    PROVE  WireTyped' /\ TaskTyped' /\ SessTyped'
<1>1. <<Message("failed")>> \in Seq(DownMessage) /\ <<Message("too_far_behind")>> \in Seq(DownMessage)
  <2>1. Message("failed") \in Notice /\ Message("too_far_behind") \in Notice
    BY MessagesAre
  <2> QED
    BY <2>1 DEF DownMessage
<1>2. Sent(k, <<Message("failed")>>) \/ Sent(k, <<Message("too_far_behind")>>)
  BY DEF Fails
<1>3. down' \in [Sockets -> Seq(DownMessage)]
  BY <1>1, <1>2, SendingKeeps DEF Typed
<1>4. TaskTyped' /\ SessTyped'
  BY ForgetTyped DEF Fails
<1>5. up' \in [Sockets -> Seq(UpMessage)] /\ open' = open
  BY ReadingKeeps DEF Fails, Typed
<1> QED
  BY <1>3, <1>4, <1>5 DEF Typed, WireTyped

\* `Drops` and `AskedFor` keep the types.
LEMMA LeavingTyped ==
    ASSUME Typed, NEW k \in Sockets, Drops(k) \/ AskedFor(k)
    PROVE  WireTyped' /\ TaskTyped' /\ SessTyped'
<1>1. ReadsNoMore(k) /\ UNCHANGED <<down, slot, sess, open>>
  BY DEF Drops, AskedFor
<1>2. WireTyped' /\ SessTyped'
  BY <1>1, ReadingKeeps DEF Typed, WireTyped, SessTyped
<1>3. CASE Drops(k)
  <2>1. task' = [task EXCEPT ![k].at = "settle"] /\ ask' = ask
    BY <1>3 DEF Drops
  <2>2. task' \in [Sockets -> Task]
    BY ZenonT(40), <2>1 DEF Typed, TaskTyped, Task, TaskPlaces
  <2> QED
    BY <1>1, <1>2, <2>1, <2>2 DEF Typed, TaskTyped
<1>4. CASE AskedFor(k)
  <2>1. ask[k] # <<>> /\ task' = [task EXCEPT ![k].at = "settle", ![k].by = Head(ask[k])] /\ ask' = [ask EXCEPT ![k] = <<>>]
    BY <1>4 DEF AskedFor
  <2>2. Head(ask[k]) \in Sockets
    <3>1. ask[k] \in Seq(Sockets)
      BY DEF Typed, TaskTyped
    <3> QED
      BY <2>1, <3>1
  <2> DEFINE next == Head(ask[k])
  <2>a. task' = [task EXCEPT ![k] = [task[k] EXCEPT !.at = "settle", !.by = next]]
    BY <2>1 DEF Typed, TaskTyped
  <2> DEFINE new == [task[k] EXCEPT !.at = "settle", !.by = next]
  <2>b. task[k] \in Task /\ next \in {0} \cup Sockets
    BY <2>2 DEF Typed, TaskTyped
  <2> HIDE DEF next
  <2>c. new \in Task
    BY <2>b DEF Task, TaskPlaces
  <2> HIDE DEF new
  <2>3. task' \in [Sockets -> Task]
    BY <2>a, <2>c DEF Typed, TaskTyped, new
  <2>4. <<>> \in Seq(Sockets)
    OBVIOUS
  <2> QED
    BY <1>1, <1>2, <2>1, <2>3, <2>4 DEF Typed, TaskTyped
<1> QED
  BY <1>3, <1>4

\* Wherever a session goes when its socket has settled, the types are kept.
LEMMA HandOnTyped ==
    ASSUME TaskTyped, NEW k \in Sockets, task[k].s \in SessionIds, HandOn(k)
    PROVE  TaskTyped'
<1> DEFINE by == task[k].by
           me == [NoTask EXCEPT !.at = IF by = 0 THEN "over" ELSE "bye"]
           t == [task EXCEPT ![k] = me]
           late == {k2 \in Sockets : ask[k] = <<k2>> /\ task[k2].at = "ask"}
           off == [at |-> "off", by |-> 0]
<1>1. by \in {0} \cup Sockets /\ ask[k] \in Seq(Sockets) /\ task[k] \in Task
  BY DEF TaskTyped, Task
<1>2. me \in Task
  BY NoTaskIsOne DEF TaskPlaces
<1>3. t \in [Sockets -> Task]
  <2> HIDE DEF me
  <2> QED
    BY <1>2 DEF TaskTyped
<1>4. off \in Slot
  BY DEF Slot
<1>5. CASE by # 0 /\ task[by].at = "ask"
  <2> DEFINE u == [k2 \in Sockets |-> IF k2 = by THEN [t[by] EXCEPT !.at = "given"]
                                      ELSE IF k2 \in late THEN [t[k2] EXCEPT !.at = "late"]
                                      ELSE t[k2]]
  <2>1. task' = u /\ ask' = ask /\ slot' = slot
    BY <1>5 DEF HandOn
  <2> HIDE DEF t, late, by
  <2>2. u \in [Sockets -> Task]
    BY <1>1, <1>3, <1>5 DEF Task, TaskPlaces
  <2> QED
    BY <2>1, <2>2 DEF TaskTyped
<1>6. CASE ~(by # 0 /\ task[by].at = "ask")
  <2>1. Park(k, t, ask[k])
    BY <1>6 DEF HandOn
  <2>2. ask' = [ask EXCEPT ![k] = <<>>] /\ <<>> \in Seq(Sockets)
    BY <2>1 DEF Park
  <2>3. CASE ask[k] # <<>> /\ task[Head(ask[k])].at = "ask"
    <3>1. task' = [t EXCEPT ![Head(ask[k])].at = "given"] /\ slot' = slot
      BY <2>1, <2>3 DEF Park
    <3> HIDE DEF t
    <3> DEFINE next == Head(ask[k])
    <3>2. next \in Sockets
      BY <1>1, <2>3
    <3>3. task' = [t EXCEPT ![next].at = "given"]
      BY <3>1
    <3> HIDE DEF next
    <3>4. task' \in [Sockets -> Task]
      BY <1>3, <3>2, <3>3 DEF Task, TaskPlaces
    <3> QED
      BY <2>2, <3>1, <3>4 DEF TaskTyped
  <2>4. CASE ~(ask[k] # <<>> /\ task[Head(ask[k])].at = "ask")
    <3>1. task' = t /\ slot' = [slot EXCEPT ![task[k].s] = off]
      BY <2>1, <2>4 DEF Park
    <3> HIDE DEF t, off
    <3> QED
      BY <1>3, <1>4, <2>2, <3>1 DEF TaskTyped
  <2> QED
    BY <2>3, <2>4
<1> QED
  BY <1>5, <1>6

\* `Settle` keeps the types.
LEMMA SettleTyped ==
    ASSUME Typed, Places, NEW k \in Sockets, Settle(k)
    PROVE  WireTyped' /\ TaskTyped' /\ SessTyped'
<1> DEFINE i == task[k].s
           s == sess[i]
<1>1. i \in SessionIds /\ WireTyped'
  BY DEF Settle, Places, HereIsOn, Typed, WireTyped, wire
<1>2. s \in Session /\ MarksInOrder(s)
  BY <1>1 DEF Typed, SessTyped
<1>3. CASE HandOn(k) /\ UNCHANGED sess
  BY <1>1, <1>3, HandOnTyped DEF Typed, SessTyped
<1>4. CASE HandOn(k) /\ \E to \in MaySettle(s) : sess' = [sess EXCEPT ![i] = Listened(s, to)]
  <2> HIDE DEF i, s
  <2>1. SessTyped'
    BY <1>1, <1>2, <1>4, ListeningKeeps, ChangingKeeps DEF Typed
  <2> QED
    BY <1>1, <1>4, <2>1, HandOnTyped DEF Typed, i
<1>5. CASE Forget(k, IF task[k].by = 0 THEN "over" ELSE "bye")
  BY <1>1, <1>5, ForgetTyped DEF Settle
<1> QED
  BY <1>3, <1>4, <1>5 DEF Settle, Mine

\* `Bye`, `LetGo` and `Restart` keep the types.
LEMMA OverTyped ==
    ASSUME Typed
    PROVE  /\ \A k \in Sockets : Bye(k) => WireTyped' /\ TaskTyped' /\ SessTyped'
           /\ \A i \in SessionIds : LetGo(i) => WireTyped' /\ TaskTyped' /\ SessTyped'
           /\ Restart => WireTyped' /\ TaskTyped' /\ SessTyped'
<1>1. ASSUME NEW k \in Sockets, Bye(k) PROVE WireTyped' /\ TaskTyped' /\ SessTyped'
  <2>1. Message("session_taken") \in Notice
    BY MessagesAre
  <2>2. <<Message("session_taken")>> \in Seq(DownMessage)
    BY <2>1 DEF DownMessage
  <2>3. /\ Sent(k, <<Message("session_taken")>>) /\ UNCHANGED <<slot, sess, up, open>>
        /\ task' = [task EXCEPT ![k].at = "over"] /\ ask' = [ask EXCEPT ![k] = <<>>] /\ <<>> \in Seq(Sockets)
    BY <1>1 DEF Bye, Smoothly
  <2>4. WireTyped'
    BY <2>2, <2>3, SendingKeeps DEF Typed, WireTyped
  <2>5. task' \in [Sockets -> Task]
    BY ZenonT(40), <2>3 DEF Typed, TaskTyped, Task, TaskPlaces
  <2> QED
    BY <2>3, <2>4, <2>5 DEF Typed, TaskTyped, SessTyped
<1>2. ASSUME NEW i \in SessionIds, LetGo(i) PROVE WireTyped' /\ TaskTyped' /\ SessTyped'
  <2>1. /\ slot' = [slot EXCEPT ![i] = NoSlot] /\ sess' = [sess EXCEPT ![i] = Ended(sess[i])]
        /\ UNCHANGED <<up, down, open, task, ask>>
    BY <1>2 DEF LetGo, wire
  <2>2. sess[i] \in Session
    BY DEF Typed, SessTyped
  <2>3. SessTyped'
    BY <2>1, <2>2, EndingKeeps, ChangingKeeps DEF Typed
  <2>4. NoSlot \in Slot
    BY DEF NoSlot, Slot
  <2> QED
    BY <2>1, <2>3, <2>4 DEF Typed, WireTyped, TaskTyped
<1>3. ASSUME Restart PROVE WireTyped' /\ TaskTyped' /\ SessTyped'
  <2>1. /\ task' = [k \in Sockets |-> IF task[k].at = "none" THEN NoTask ELSE [NoTask EXCEPT !.at = "over"]]
        /\ ask' = [k \in Sockets |-> <<>>] /\ slot' = [i \in SessionIds |-> NoSlot]
        /\ sess' = [i \in SessionIds |-> IF sess[i].is = "none" THEN NoSession ELSE Ended(sess[i])]
        /\ up' = [k \in Sockets |-> <<>>] /\ UNCHANGED <<down, open>>
    BY <1>3 DEF Restart
  <2>2. NoTask \in Task /\ [NoTask EXCEPT !.at = "over"] \in Task /\ NoSlot \in Slot
    BY DEF NoTask, Task, TaskPlaces, NoSlot, Slot
  <2>3. TaskTyped'
    BY <2>1, <2>2 DEF TaskTyped
  <2>4. \A i \in SessionIds : sess[i] \in Session
    BY DEF Typed, SessTyped
  <2>5. SessTyped'
    BY <2>1, <2>4, NoSessionIsOne, EndingKeeps DEF SessTyped
  <2> QED
    BY <2>1, <2>3, <2>5 DEF Typed, WireTyped
<1> QED
  BY <1>1, <1>2, <1>3

\* A phone without a socket, or without a take.
LEMMA HangingUpKeeps ==
    ASSUME phone \in Phone, NEW at \in PhonePlaces
    PROVE  /\ Hangup(at) \in Phone /\ Hangup(at).at = at /\ Hangup(at).id = phone.id /\ Hangup(at).turn = -1
           /\ Hangup(at).origin = phone.origin /\ Hangup(at).settledTo = phone.settledTo
           /\ Hangup(at).sent = phone.sent /\ Hangup(at).ready = FALSE
           /\ Over(at) \in Phone /\ Over(at).at = at /\ Over(at).id = 0 /\ Over(at).origin = 0
           /\ Over(at).settledTo = 0 /\ Over(at).sent = 0 /\ Over(at).turn = -1 /\ Over(at).ready = FALSE
<1> DEFINE h == [phone EXCEPT !.at = at, !.sock = 0, !.turn = -1, !.whole = FALSE, !.ready = FALSE,
                              !.commitSent = FALSE]
<1>1. Hangup(at) = h
  BY DEF Hangup
<1>2. h \in Phone /\ h.at = at /\ h.id = phone.id /\ h.turn = -1
      /\ h.origin = phone.origin /\ h.settledTo = phone.settledTo /\ h.sent = phone.sent /\ h.ready = FALSE
  BY DEF Phone
<1> HIDE DEF h
<1>3. Over(at) = [h EXCEPT !.id = 0, !.origin = 0, !.settledTo = 0, !.sent = 0, !.seen = {},
                           !.committed = FALSE, !.covers = 0]
  BY <1>1 DEF Over
<1> DEFINE o == [h EXCEPT !.id = 0, !.origin = 0, !.settledTo = 0, !.sent = 0, !.seen = {},
                          !.committed = FALSE, !.covers = 0]
<1>4. o \in Phone /\ o.at = at /\ o.id = 0 /\ o.origin = 0 /\ o.settledTo = 0 /\ o.sent = 0 /\ o.turn = -1
      /\ o.ready = FALSE
  <2>1. {} \in SUBSET Nat
    OBVIOUS
  <2> QED
    BY <1>2, <2>1 DEF Phone
<1> QED
  BY <1>1, <1>2, <1>3, <1>4

\* A new session, from the last word settled.
LEMMA BeginningAnewKeeps ==
    ASSUME NEW p \in Phone
    PROVE  /\ Anew(p) \in Phone /\ Anew(p).at = p.at /\ Anew(p).id = 0 /\ Anew(p).turn = p.turn
           /\ Anew(p).origin = p.origin + p.settledTo /\ Anew(p).settledTo = 0 /\ Anew(p).sent = 0
           /\ Anew(p).ready = p.ready
<1> DEFINE origin == p.origin + p.settledTo
           a == [p EXCEPT !.origin = origin, !.settledTo = 0, !.sent = 0, !.id = 0, !.seen = {},
                          !.committed = FALSE, !.covers = 0]
<1>1. Anew(p) = a
  BY DEF Anew, Phone
<1>2. origin \in Nat /\ {} \in SUBSET Nat
  BY DEF Phone
<1> HIDE DEF origin
<1>3. a \in Phone /\ a.at = p.at /\ a.id = 0 /\ a.turn = p.turn /\ a.origin = origin /\ a.settledTo = 0
      /\ a.sent = 0 /\ a.ready = p.ready
  BY <1>2 DEF Phone
<1> QED
  BY <1>1, <1>3 DEF origin

\* A settled event that was had already changes nothing.
LEMMA KeepingKeeps ==
    ASSUME NEW p \in Phone, NEW m \in Said
    PROVE  /\ Keep(p, m) \in Phone /\ Keep(p, m).at = p.at /\ Keep(p, m).id = p.id /\ Keep(p, m).turn = p.turn
           /\ Keep(p, m).origin = p.origin /\ Keep(p, m).settledTo \in {p.settledTo, m.at}
           /\ Keep(p, m).sent = p.sent /\ Keep(p, m).ready = p.ready /\ Keep(p, m).sock = p.sock
<1> DEFINE seen == p.seen \cup {m.id}
           text == p.text \o m.words
           committed == p.committed \/ m.kind = "committed"
           q == [p EXCEPT !.seen = seen, !.settledTo = m.at, !.text = text, !.committed = committed]
<1>1. Keep(p, m) = p \/ Keep(p, m) = q
  BY Zenon DEF Keep
<1>2. m.id \in Nat /\ m.words \in Seq(Nat) /\ m.at \in Nat /\ p.seen \in SUBSET Nat /\ p.text \in Seq(Nat)
  BY DEF Said, Phone
<1>3. seen \in SUBSET Nat /\ text \in Seq(Nat) /\ committed \in BOOLEAN
  BY <1>2
<1> HIDE DEF seen, text, committed
<1>4. q \in Phone /\ q.at = p.at /\ q.id = p.id /\ q.turn = p.turn /\ q.origin = p.origin /\ q.settledTo = m.at
      /\ q.sent = p.sent /\ q.ready = p.ready /\ q.sock = p.sock
  BY <1>2, <1>3 DEF Phone
<1> HIDE DEF q
<1> QED
  BY <1>1, <1>4

\* A phone that hears its session has begun.
LEMMA CreatedKeeps ==
    ASSUME NEW p \in Phone, NEW m \in Hello
    PROVE  /\ Created(p, m) \in Phone /\ Created(p, m).at = p.at /\ Created(p, m).id = m.id
           /\ Created(p, m).turn = p.turn /\ Created(p, m).origin = p.origin
           /\ Created(p, m).settledTo = p.settledTo /\ Created(p, m).sent = m.at
           /\ Created(p, m).ready = TRUE /\ Created(p, m).sock = p.sock
<1> DEFINE committed == p.committed \/ (m.kind = "resumed" /\ m.item # 1)
           q == [p EXCEPT !.ready = TRUE, !.id = m.id, !.sent = m.at, !.committed = committed]
<1>1. Created(p, m) = q
  BY Zenon DEF Created
<1>2. m.id \in {0} \cup SessionIds /\ m.at \in Nat /\ committed \in BOOLEAN
  BY DEF Hello, Phone
<1> HIDE DEF committed
<1>3. q \in Phone /\ q.at = p.at /\ q.id = m.id /\ q.turn = p.turn /\ q.origin = p.origin
      /\ q.settledTo = p.settledTo /\ q.sent = m.at /\ q.ready = TRUE /\ q.sock = p.sock
  BY <1>2 DEF Phone
<1> QED
  BY <1>1, <1>3

\* What the phone says reaches the messages up, or is not read.
LEMMA SayingKeeps ==
    ASSUME WireTyped, phone.sock \in Sockets,
           NEW kind \in {"audio", "offset", "commit", "close"}, NEW n \in Nat, Says(kind, n)
    PROVE  up' \in [Sockets -> Seq(UpMessage)]
<1> DEFINE m == [kind |-> kind, n |-> n]
<1>1. m \in UpMessage
  BY DEF UpMessage
<1>2. up' = [up EXCEPT ![phone.sock] = Append(up[phone.sock], m)] \/ up' = up
  BY DEF Says
<1> HIDE DEF m
<1>3. up[phone.sock] \in Seq(UpMessage)
  BY DEF WireTyped
<1>4. Append(up[phone.sock], m) \in Seq(UpMessage)
  BY <1>1, <1>3
<1> QED
  BY <1>2, <1>4 DEF WireTyped

\* What is on its way down has its type after the phone reads of it, or leaves.
LEMMA HavingReadKeeps ==
    ASSUME WireTyped, phone.sock \in Sockets
    PROVE  /\ LetsGo => down' \in [Sockets -> Seq(DownMessage)] /\ open' \subseteq Sockets
           /\ down[phone.sock] # <<>> =>
                /\ Head(down[phone.sock]) \in DownMessage
                /\ Stays => down' \in [Sockets -> Seq(DownMessage)] /\ open' \subseteq Sockets
<1>1. <<>> \in Seq(DownMessage) /\ down[phone.sock] \in Seq(DownMessage)
  BY DEF WireTyped
<1>2. down[phone.sock] # <<>> => Head(down[phone.sock]) \in DownMessage /\ Tail(down[phone.sock]) \in Seq(DownMessage)
  BY <1>1
<1>3. LetsGo => down' \in [Sockets -> Seq(DownMessage)] /\ open' \subseteq Sockets
  BY <1>1 DEF WireTyped, LetsGo
<1>4. down[phone.sock] # <<>> /\ Stays => down' \in [Sockets -> Seq(DownMessage)] /\ open' \subseteq Sockets
  BY <1>2 DEF WireTyped, Stays
<1> QED
  BY <1>2, <1>3, <1>4

\* What the phone does alone leaves the server's types alone.
LEMMA AtTheMacTyped ==
    ASSUME Typed, UNCHANGED serverVars
    PROVE  TaskTyped' /\ SessTyped'
BY DEF Typed, TaskTyped, SessTyped, serverVars

\* The phone, once it has no socket or the one it had.
LEMMA PhoneIs ==
    ASSUME Typed, phone' \in Phone, phone'.at = "up" => phone'.sock \in Sockets,
           recorded' \in 0..MaxWords, stopped' \in BOOLEAN, owed' \in BOOLEAN,
           mishaps' = mishaps \/ AMishap
    PROVE  PhoneTyped'
<1>1. mishaps' \in 0..MaxMishaps
  BY RealtimeAssumption DEF Typed, PhoneTyped, AMishap
<1> QED
  BY <1>1 DEF PhoneTyped

\* `Read` keeps the types.
LEMMA ReadTyped ==
    ASSUME Typed, Read
    PROVE  Typed'
<1> DEFINE k == phone.sock
           m == Head(down[k])
           created == Created(phone, m)
<1>1. Up /\ k \in Sockets /\ phone.at = "up" /\ phone \in Phone /\ down[k] # <<>> /\ m \in DownMessage
  BY HavingReadKeeps DEF Read, Up, Typed, PhoneTyped
<1>2. UNCHANGED <<recorded, stopped, serverVars, mishaps>>
  BY DEF Read, AtTheMac
<1>3. TaskTyped' /\ SessTyped'
  BY <1>2, AtTheMacTyped
<1>4. recorded' \in 0..MaxWords /\ stopped' \in BOOLEAN /\ owed' \in BOOLEAN /\ mishaps' = mishaps
  BY <1>2 DEF Read, Typed, PhoneTyped
<1>5. \A at \in PhonePlaces \ {"up"} : Hangup(at) \in Phone /\ Hangup(at).at # "up" /\ Over(at) \in Phone /\ Over(at).at # "up"
  BY ZenonT(40), <1>1, HangingUpKeeps
<1>6. CASE m.kind \in {"created", "resumed"} /\ phone' = created /\ Says("offset", created.sent) /\ Stays
  <2>1. m \in Hello
    BY <1>1, <1>6 DEF DownMessage, Said, Notice
  <2>2. created \in Phone /\ created.at = "up" /\ created.sock = k /\ created.sent \in Nat
    BY <1>1, <2>1, CreatedKeeps DEF Phone
  <2>3. up' \in [Sockets -> Seq(UpMessage)]
    BY <1>1, <1>6, <2>2, SayingKeeps DEF Typed
  <2>4. WireTyped'
    BY <1>1, <1>6, <2>3, HavingReadKeeps DEF Typed, WireTyped
  <2>5. PhoneTyped'
    BY <1>1, <1>4, <1>6, <2>2, PhoneIs
  <2> QED
    BY <1>3, <2>4, <2>5 DEF Typed
<1>7. CASE m.kind \in {"delta", "committed"} /\ phone' = Keep(phone, m) /\ Stays /\ UNCHANGED up
  <2>1. m \in Said
    BY <1>1, <1>7 DEF DownMessage, Hello, Notice
  <2>2. Keep(phone, m) \in Phone /\ Keep(phone, m).at = "up" /\ Keep(phone, m).sock = k
    BY <1>1, <2>1, KeepingKeeps
  <2>3. WireTyped'
    BY <1>1, <1>7, HavingReadKeeps DEF Typed, WireTyped
  <2>4. PhoneTyped'
    BY <1>1, <1>4, <1>7, <2>2, PhoneIs
  <2> QED
    BY <1>3, <2>3, <2>4 DEF Typed
<1>8. CASE Stays /\ UNCHANGED <<phone, up>>
  <2>1. WireTyped'
    BY <1>1, <1>8, HavingReadKeeps DEF Typed, WireTyped
  <2>2. PhoneTyped'
    BY <1>1, <1>4, <1>8, PhoneIs
  <2> QED
    BY <1>3, <2>1, <2>2 DEF Typed
<1>9. CASE phone' = [Over("done") EXCEPT !.origin = phone.origin, !.covers = phone.covers] /\ Says("close", 0) /\ LetsGo
  <2>1. Over("done") \in Phone /\ Over("done").at = "done"
    BY <1>1, HangingUpKeeps DEF PhonePlaces
  <2>2. phone' \in Phone /\ phone'.at = "done"
    <3>1. phone.origin \in Nat /\ phone.covers \in Nat
      BY <1>1 DEF Phone
    <3> QED
      BY <1>9, <2>1, <3>1 DEF Phone
  <2>3. up' \in [Sockets -> Seq(UpMessage)]
    BY <1>1, <1>9, SayingKeeps DEF Typed
  <2>4. WireTyped'
    BY <1>1, <1>9, <2>3, HavingReadKeeps DEF Typed, WireTyped
  <2>5. PhoneTyped'
    BY <1>4, <2>2, PhoneIs
  <2> QED
    BY <1>3, <2>4, <2>5 DEF Typed
<1>10. CASE LetsGo /\ UNCHANGED up /\ (phone' = Anew(Hangup("down")) \/ phone' = Hangup("down")
                \/ phone' = Over("failed") \/ phone' = Over("offline"))
  <2>1. phone' \in Phone /\ phone'.at # "up"
    BY <1>5, <1>10, BeginningAnewKeeps DEF PhonePlaces
  <2>2. WireTyped'
    BY <1>1, <1>10, HavingReadKeeps DEF Typed, WireTyped
  <2>3. PhoneTyped'
    BY <1>4, <2>1, PhoneIs
  <2> QED
    BY <1>3, <2>2, <2>3 DEF Typed
<1> QED
  BY <1>6, <1>7, <1>8, <1>9, <1>10 DEF Read

\* `Connect` takes a socket there was none on.
LEMMA ConnectTyped ==
    ASSUME Typed, Connect
    PROVE  /\ Typed'
           /\ \E k \in Sockets :
                /\ task[k].at = "none" /\ phone' = [phone EXCEPT !.at = "up", !.sock = k]
                /\ task' = [task EXCEPT ![k] = [NoTask EXCEPT !.at = "new", !.s = phone.id,
                            !.from = IF phone.id = 0 THEN phone.origin ELSE phone.settledTo]]
<1> DEFINE k == CHOOSE k \in Socketless : \A j \in Socketless : k <= j
           new == [NoTask EXCEPT !.at = "new", !.s = phone.id,
                            !.from = IF phone.id = 0 THEN phone.origin ELSE phone.settledTo]
<1>1. \E x \in Socketless : \A j \in Socketless : x <= j
  <2>1. Socketless \in SUBSET Nat /\ Socketless # {}
    BY RealtimeAssumption DEF Connect, Socketless, Sockets
  <2> QED
    BY <2>1, HasLeast
<1>2. k \in Socketless
  BY <1>1
<1>3. /\ task' = [task EXCEPT ![k] = new] /\ phone' = [phone EXCEPT !.at = "up", !.sock = k]
      /\ open' = open \cup {k} /\ UNCHANGED <<recorded, stopped, up, down, ask, slot, sess, mishaps>>
  BY DEF Connect
<1> HIDE DEF k
<1>4. k \in Sockets /\ task[k].at = "none"
  BY <1>2 DEF Socketless
<1>5. phone \in Phone
  BY DEF Typed, PhoneTyped
<1>6. new \in Task
  <2> DEFINE from == IF phone.id = 0 THEN phone.origin ELSE phone.settledTo
  <2>1. phone.id \in {0} \cup SessionIds /\ from \in Nat
    BY <1>5 DEF Phone
  <2>2. NoTask \in Task
    BY DEF NoTask, Task, TaskPlaces
  <2>3. new = [NoTask EXCEPT !.at = "new", !.s = phone.id, !.from = from]
    OBVIOUS
  <2> HIDE DEF new, from
  <2> QED
    BY <2>1, <2>2, <2>3 DEF Task, TaskPlaces
<1> HIDE DEF new
<1>7. TaskTyped'
  BY <1>3, <1>4, <1>6 DEF Typed, TaskTyped
<1>8. WireTyped' /\ SessTyped'
  BY <1>3, <1>4 DEF Typed, WireTyped, SessTyped
<1>9. phone' \in Phone /\ phone'.sock = k
  BY <1>3, <1>4, <1>5 DEF Phone, PhonePlaces
<1>10. PhoneTyped'
  <2>1. owed' \in BOOLEAN
    BY DEF Connect, Typed, PhoneTyped
  <2> QED
    BY <1>3, <1>4, <1>9, <2>1, PhoneIs DEF Typed, PhoneTyped
<1> QED
  BY <1>3, <1>4, <1>7, <1>8, <1>10 DEF Typed, new

\* The rest of what the phone and its user do.
LEMMA PhoneTurnsTyped ==
    ASSUME Typed, OutOfReach \/ LookAtFile \/ SendAudio \/ EndTurn \/ SendWhole \/ UserStep \/ PhoneMishap
    PROVE  Typed'
<1>1. phone \in Phone /\ recorded \in 0..MaxWords /\ stopped \in BOOLEAN /\ MaxWords \in Nat /\ 0 \in 0..MaxWords
  BY RealtimeAssumption DEF Typed, PhoneTyped
<1>2. Up => phone.at = "up" /\ phone.sock \in Sockets
  BY DEF Up, Typed, PhoneTyped
<1>3. UNCHANGED serverVars
  BY DEF OutOfReach, LookAtFile, SendAudio, EndTurn, SendWhole, UserStep, Record, Stop, Cancel, PhoneMishap, Leave,
         Refused, AtTheMac
<1>4. TaskTyped' /\ SessTyped'
  BY <1>3, AtTheMacTyped
<1>15. owed' \in BOOLEAN
  BY DEF OutOfReach, LookAtFile, SendAudio, EndTurn, SendWhole, UserStep, Record, Stop, Cancel, PhoneMishap, Leave,
         Refused, Typed, PhoneTyped
<1>5. SUFFICES WireTyped' /\ PhoneTyped'
  BY <1>4 DEF Typed
<1>6. \A at \in PhonePlaces \ {"up"} : Hangup(at) \in Phone /\ Hangup(at).at # "up" /\ Over(at) \in Phone /\ Over(at).at # "up"
  BY <1>1, HangingUpKeeps
<1>7. CASE OutOfReach \/ Refused
  <2>1. UNCHANGED <<recorded, stopped, wire>> /\ (mishaps' = mishaps \/ AMishap)
    BY <1>7 DEF OutOfReach, Refused, AtTheMac
  <2>2. phone' \in Phone /\ phone'.at # "up"
    BY <1>6, <1>7 DEF OutOfReach, Refused, PhonePlaces
  <2> QED
    BY <1>1, <2>1, <2>2, <1>15, PhoneIs DEF Typed, WireTyped, wire
<1>8. CASE LookAtFile
  <2>1. UNCHANGED <<recorded, stopped, wire, mishaps>> /\ Up
    BY <1>8 DEF LookAtFile, AtTheMac
  <2>2. phone' \in Phone /\ phone'.at = phone.at /\ phone'.sock = phone.sock
    <3>1. PICK to \in Nat, whole \in BOOLEAN : phone' = [phone EXCEPT !.turn = to, !.whole = whole]
      <4>1. phone.origin + phone.sent + 1 \in Nat /\ recorded \in Nat
        BY <1>1 DEF Phone
      <4>2. \A to \in phone.origin + phone.sent + 1..recorded : to \in Nat /\ (to = recorded) \in BOOLEAN
        BY <4>1
      <4> QED
        BY <1>8, <4>1, <4>2 DEF LookAtFile
    <3> QED
      BY <1>1, <3>1 DEF Phone
  <2> QED
    BY <1>1, <1>2, <2>1, <2>2, <1>15, PhoneIs DEF Typed, WireTyped, wire
<1>9. CASE SendAudio
  <2>1. UNCHANGED <<recorded, stopped, down, open, mishaps>> /\ Up
    BY <1>9 DEF SendAudio, AtTheMac
  <2>2. phone' \in Phone /\ phone'.at = phone.at /\ phone'.sock = phone.sock
    <3> DEFINE sent == phone.sent + 1
    <3>1. sent \in Nat
      BY <1>1 DEF Phone
    <3>2. phone' = [phone EXCEPT !.sent = sent]
      BY <1>9 DEF SendAudio
    <3> HIDE DEF sent
    <3> QED
      BY <1>1, <3>1, <3>2 DEF Phone
  <2>3. up' \in [Sockets -> Seq(UpMessage)]
    <3>1. phone.origin + phone.sent + 1 \in Nat
      BY <1>1 DEF Phone
    <3> QED
      BY <1>2, <1>9, <2>1, <3>1, SayingKeeps DEF SendAudio, Typed
  <2> QED
    BY <1>1, <1>2, <2>1, <2>2, <2>3, <1>15, PhoneIs DEF Typed, WireTyped
<1>10. CASE EndTurn
  <2>1. UNCHANGED <<recorded, stopped, down, open, mishaps>> /\ Up
    BY <1>10 DEF EndTurn, AtTheMac
  <2>2. phone' \in Phone /\ phone'.at = phone.at /\ phone'.sock = phone.sock
    <3>1. phone.turn # -1 => phone.turn \in Nat
      BY <1>1 DEF Phone
    <3> DEFINE covers == IF phone.covers = 0 THEN phone.turn ELSE phone.covers
    <3>2. phone.turn # -1 => covers \in Nat
      BY <1>1, <3>1 DEF Phone
    <3>3. /\ phone.turn # -1
          /\ \/ phone' = [phone EXCEPT !.turn = -1, !.whole = FALSE, !.commitSent = TRUE, !.covers = covers]
             \/ phone' = [phone EXCEPT !.turn = -1, !.whole = FALSE]
      BY <1>10 DEF EndTurn
    <3> HIDE DEF covers
    <3> QED
      BY ZenonT(40), <1>1, <3>2, <3>3 DEF Phone
  <2>3. up' \in [Sockets -> Seq(UpMessage)]
    BY <1>2, <1>10, <2>1, SayingKeeps DEF EndTurn, Typed, WireTyped
  <2> QED
    BY <1>1, <1>2, <2>1, <2>2, <2>3, <1>15, PhoneIs DEF Typed, WireTyped
<1>11. CASE SendWhole
  <2>1. UNCHANGED <<recorded, stopped, wire, mishaps>>
    BY <1>11 DEF SendWhole, AtTheMac
  <2>2. [n \in 1..recorded |-> n] \in Seq(Nat)
    <3>1. recorded \in Nat
      BY <1>1
    <3>2. \A n \in 1..recorded : n \in Nat
      BY <3>1
    <3> QED
      BY <3>1, <3>2
  <2> DEFINE text == [n \in 1..recorded |-> n]
  <2>3. phone' = [phone EXCEPT !.at = "sent", !.text = text] \/ phone' = [phone EXCEPT !.at = "failed"]
    BY <1>11 DEF SendWhole
  <2> HIDE DEF text
  <2>4. phone' \in Phone /\ phone'.at # "up"
    BY ZenonT(40), <1>1, <2>2, <2>3 DEF Phone, PhonePlaces, text
  <2> QED
    BY <1>1, <2>1, <2>4, <1>15, PhoneIs DEF Typed, WireTyped, wire
<1>12. CASE Record \/ Stop
  <2>1. UNCHANGED <<phone, wire, mishaps>>
    BY <1>12 DEF Record, Stop, AtTheMac
  <2>2. recorded' \in 0..MaxWords
    <3>1. CASE Record
      <4>1. recorded < MaxWords /\ recorded' = recorded + 1
        BY <3>1 DEF Record
      <4> QED
        BY <1>1, <4>1
    <3> QED
      BY <1>1, <1>12, <3>1 DEF Stop
  <2>3. stopped' \in BOOLEAN
    BY <1>1, <1>12 DEF Record, Stop
  <2> QED
    BY <1>1, <2>1, <2>2, <2>3, <1>15, PhoneIs DEF Typed, PhoneTyped, WireTyped, wire
<1>13. CASE Cancel
  <2>1. recorded' \in 0..MaxWords /\ stopped' \in BOOLEAN /\ mishaps' = mishaps
    BY <1>1, <1>13 DEF Cancel, AtTheMac
  <2>2. phone' \in Phone /\ phone'.at # "up"
    <3>1. Over("cancelled") \in Phone /\ Over("cancelled").at = "cancelled" /\ <<>> \in Seq(Nat)
      BY <1>1, HangingUpKeeps DEF PhonePlaces
    <3> QED
      BY <1>13, <3>1 DEF Cancel, Phone
  <2>3. WireTyped'
    BY <1>2, <1>13, SayingKeeps, HavingReadKeeps DEF Cancel, Typed, WireTyped, wire
  <2> QED
    BY <2>1, <2>2, <2>3, <1>15, PhoneIs
<1>14. CASE Leave
  <2>1. UNCHANGED <<recorded, stopped, up>> /\ (mishaps' = mishaps \/ AMishap) /\ LetsGo /\ Up /\ phone' = Hangup("down")
    BY <1>14 DEF Leave
  <2>2. phone' \in Phone /\ phone'.at # "up"
    BY <1>6, <2>1 DEF PhonePlaces
  <2> QED
    BY <1>1, <1>2, <2>1, <2>2, <1>15, PhoneIs, HavingReadKeeps DEF Typed, WireTyped
<1> QED
  BY <1>7, <1>8, <1>9, <1>10, <1>11, <1>12, <1>13, <1>14 DEF UserStep, PhoneMishap

\* Every step of the server keeps the types.
LEMMA ServingTyped ==
    ASSUME Typed, Places, Serve \/ ServerMishap, UNCHANGED phoneVars
    PROVE  Typed'
<1>1. WireTyped' /\ TaskTyped' /\ SessTyped'
  BY SMTT(30), FreshTyped, ReconnectTyped, GivingUpTyped, ResumeTyped, ReceiveTyped, TickTyped, UpdatedTyped, FailsTyped,
     LeavingTyped, SettleTyped, OverTyped DEF Serve, ServerStep, ServerMishap
<1>2. mishaps' = mishaps \/ AMishap
  BY ZenonT(40) DEF Serve, ServerStep, ServerMishap, Fresh, Reconnect, StopWaiting, TimeIsUp, Resume, Receive, Tick, Updated, Fails,
         Drops, AskedFor, Settle, Bye, LetGo, Restart, Smoothly
<1>3. PhoneTyped'
  BY <1>2, PhoneIs DEF Typed, PhoneTyped, phoneVars
<1> QED
  BY <1>1, <1>3 DEF Typed

(***************************************************************************)
(* Every step keeps the sessions in their places                           *)
(***************************************************************************)
\* What happens to what a session holds does not move it.
LEMMA StayingPlaces ==
    ASSUME Typed, Places, UNCHANGED <<task, ask, slot>>, \A i \in SessionIds : sess'[i].is = sess[i].is
    PROVE  Places'
<1>1. \A k \in Sockets : k \in SessionIds
  BY DEF SessionIds
<1>2. OneEach' /\ HereIsOn' /\ Questions' /\ OnIsThere'
  BY DEF Places, OneEach, HereIsOn, Questions, OnIsThere, Has, HasHere, Asks
<1>3. HeldOrHad'
  BY DEF Places, HeldOrHad, Has, Kept
<1>4. NotYet' /\ Named'
  BY <1>1 DEF Places, NotYet, Named
<1>5. Waits'
  BY DEF Places, Named, Waits, HasHere, Asks, Kept
<1> QED
  BY <1>2, <1>3, <1>4, <1>5 DEF Places

\* What `Sequences` says of questions: there is one, and it is its asker's.
LEMMA AskIsOne ==
    /\ \A k, j : <<k>> = <<j>> => k = j
    /\ \A k : <<k>> # <<>> /\ Head(<<k>>) = k
<1>1. \A k : Head(<<k>>) = k /\ Len(<<k>>) = 1 /\ Len(<<>>) = 0
  OBVIOUS
<1> QED
  BY <1>1

\* `Fresh`: the session of its number is on the socket.
LEMMA FreshPlaces ==
    ASSUME Typed, Places, NEW k \in Sockets, Fresh(k)
    PROVE  Places'
<1>0. k \in SessionIds /\ \A j \in Sockets : j \in SessionIds
  BY DEF SessionIds
<1>1. /\ task[k].at = "new" /\ task[k].s = 0
      /\ task' = [task EXCEPT ![k].at = "run", ![k].s = k, ![k].from = 0]
      /\ slot' = [slot EXCEPT ![k] = [at |-> "on", by |-> k]] /\ ask' = ask
      /\ sess' = [sess EXCEPT ![k] = [NoSession EXCEPT !.is = "kept", !.base = task[k].from]]
  BY DEF Fresh
<1>2. task'[k].at = "run" /\ task'[k].s = k /\ task'[k].by = task[k].by /\ \A j \in Sockets : j # k => task'[j] = task[j]
  BY <1>1 DEF Typed, TaskTyped, Task
<1>3. slot'[k].at = "on" /\ slot'[k].by = k /\ \A i \in SessionIds : i # k => slot'[i] = slot[i]
  BY <1>0, <1>1 DEF Typed, TaskTyped
<1>4. sess'[k].is = "kept" /\ \A i \in SessionIds : i # k => sess'[i] = sess[i]
  BY <1>0, <1>1 DEF Typed, SessTyped, NoSession
<1>5. sess[k].is = "none" /\ ~Kept(k) /\ (\A j \in Sockets : ~Has(j, k)) /\ slot[k].at # "off"
  BY <1>0, <1>1 DEF Places, NotYet, HeldOrHad, Kept
<1>6. slot[k].at # "on"
  BY <1>0, <1>5 DEF Places, OnIsThere, Has, HasHere
<1>a. task[k].at = "new" /\ task[k].s = 0 /\ ask' = ask
  BY <1>1
<1> USE DEF Places
<1>7. OneEach'
  BY <1>2, <1>5 DEF OneEach, Has
<1>8. HeldOrHad'
  <2> SUFFICES ASSUME NEW i \in SessionIds
               PROVE  /\ (slot'[i].at = "off" => Kept(i)' /\ \A j \in Sockets : ~Has(j, i)')
                      /\ \A j \in Sockets : Has(j, i)' => Kept(i)'
                      /\ Kept(i)' => slot'[i].at = "off" \/ \E j \in Sockets : Has(j, i)'
    BY DEF HeldOrHad
  <2>1. CASE i = k
    BY <1>2, <1>3, <1>4, <2>1 DEF Has, Kept
  <2>2. CASE i # k
    <3>1. (Kept(i)' <=> Kept(i)) /\ slot'[i] = slot[i] /\ \A j \in Sockets : Has(j, i)' <=> Has(j, i)
      BY <1>a, <1>2, <1>3, <1>4, <2>2 DEF Has, Kept
    <3> QED
      BY <3>1 DEF HeldOrHad
  <2> QED
    BY <2>1, <2>2
<1>9. OnIsThere'
  BY <1>a, <1>2, <1>3, <1>5 DEF OnIsThere, Has, HasHere
<1>10. HereIsOn'
  BY <1>a, <1>0, <1>2, <1>3, <1>5 DEF HereIsOn, Has
<1>11. NotYet' /\ Named'
  BY <1>0, <1>a, <1>2, <1>4 DEF NotYet, Named
<1>12. Waits'
  <2> SUFFICES ASSUME NEW j \in Sockets, task'[j].at = "ask", Kept(task[j].s)'
               PROVE  \E b \in Sockets :
                         HasHere(b, task[j].s)' /\ (Asks(b, j)' \/ (task'[b].at = "settle" /\ task'[b].by = j))
    BY <1>2 DEF Waits
  <2>1. j # k /\ task[j].at = "ask" /\ task'[j] = task[j]
    BY <1>2
  <2>2. task[j].s \in SessionIds /\ task[j].s # k /\ Kept(task[j].s)
    BY <1>4, <1>5, <2>1 DEF Named, Kept
  <2>3. PICK b \in Sockets : HasHere(b, task[j].s) /\ (Asks(b, j) \/ (task[b].at = "settle" /\ task[b].by = j))
    BY <2>1, <2>2 DEF Waits
  <2>4. b # k
    BY <1>a, <2>3 DEF HasHere
  <2> QED
    BY <1>a, <1>2, <2>1, <2>3, <2>4 DEF HasHere, Asks
<1>13. Questions'
  BY <1>a, <1>2, <1>5 DEF Questions, Has, HasHere, Asks
<1> QED
  BY <1>7, <1>8, <1>9, <1>10, <1>11, <1>12, <1>13

\* A socket that goes from waiting, or from the door, to its end had no session.
LEMMA EndingPlaces ==
    ASSUME Typed, Places, NEW k \in Sockets, task[k].at \in {"new", "ask", "late"}, task[k].s # 0 \/ task[k].at # "new",
           NotFound(k), UNCHANGED <<ask, slot, sess>>
    PROVE  Places'
<1>1. task' = [task EXCEPT ![k] = [NoTask EXCEPT !.at = "over"]]
  BY DEF NotFound
<1>2. task'[k].at = "over" /\ task'[k].by = 0 /\ \A j \in Sockets : j # k => task'[j] = task[j]
  BY <1>1 DEF Typed, TaskTyped, NoTask
<1>3. OneEach'
  BY <1>2 DEF Places, OneEach, Has
<1>4. HeldOrHad'
  BY <1>2 DEF Places, HeldOrHad, Has, Kept
<1>5. OnIsThere'
  BY <1>2 DEF Places, OnIsThere, Has, HasHere
<1>6. HereIsOn' /\ NotYet' /\ Named'
  BY <1>2 DEF Places, HereIsOn, NotYet, Named
<1>7. Waits'
  <2> SUFFICES ASSUME NEW j \in Sockets, task'[j].at = "ask", Kept(task[j].s)'
               PROVE  \E b \in Sockets :
                         HasHere(b, task[j].s)' /\ (Asks(b, j)' \/ (task'[b].at = "settle" /\ task'[b].by = j))
    BY DEF Waits
  <2>1. task'[j] = task[j] /\ task[j].at = "ask" /\ Kept(task[j].s)
    BY <1>2 DEF Kept
  <2>2. PICK b \in Sockets : HasHere(b, task[j].s) /\ (Asks(b, j) \/ (task[b].at = "settle" /\ task[b].by = j))
    BY <2>1 DEF Places, Waits
  <2>3. b # k
    BY <2>2 DEF HasHere
  <2> QED
    BY <1>2, <2>1, <2>2, <2>3 DEF HasHere, Asks
<1>8. Questions'
  BY <1>2 DEF Places, Questions, HasHere, Asks
<1> QED
  BY <1>3, <1>4, <1>5, <1>6, <1>7, <1>8 DEF Places

\* A session that its socket forgets is nowhere.
LEMMA ForgetPlaces ==
    ASSUME Typed, Places, NEW k \in Sockets, Running(k) \/ task[k].at = "settle", NEW at \in {"over", "bye"}, Forget(k, at)
    PROVE  Places'
<1> DEFINE i == task[k].s
<1>1. i \in SessionIds /\ slot[i].at = "on" /\ slot[i].by = k /\ Has(k, i)
  BY DEF Running, Places, HereIsOn, Has
<1>2. task'[k].at = at /\ task'[k].by = 0 /\ \A j \in Sockets : j # k => task'[j] = task[j]
  BY DEF Forget, Typed, TaskTyped, NoTask
<1>3. slot'[i].at = "none" /\ \A h \in SessionIds : h # i => slot'[h] = slot[h]
  BY <1>1 DEF Forget, Typed, TaskTyped, NoSlot
<1>4. sess'[i].is = "gone" /\ \A h \in SessionIds : h # i => sess'[h] = sess[h]
  <2>1. sess[i] \in Session
    BY <1>1 DEF Typed, SessTyped
  <2> QED
    BY <1>1, <2>1, EndingKeeps DEF Forget, Typed, SessTyped
<1>5. ask'[k] = <<>> /\ \A j \in Sockets : j # k => ask'[j] = ask[j]
  BY DEF Forget, Typed, TaskTyped
<1>6. \A j \in Sockets : Has(j, i) => j = k
  BY <1>1 DEF Places, OneEach
<1>7. \A j \in Sockets : j # k => ~HasHere(j, i)
  BY <1>6 DEF Has, HasHere
<1> HIDE DEF i
<1>8. OneEach'
  BY <1>2 DEF Places, OneEach, Has
<1>9. HeldOrHad'
  BY <1>1, <1>2, <1>3, <1>4, <1>6 DEF Places, HeldOrHad, Has, Kept, i
<1>10. OnIsThere'
  BY <1>1, <1>2, <1>3, <1>6 DEF Places, OnIsThere, Has, HasHere, i
<1>11. HereIsOn'
  BY <1>1, <1>2, <1>3, <1>6 DEF Places, HereIsOn, Has
<1>12. NotYet' /\ Named'
  <2>1. \A j \in Sockets : task'[j].at = "none" \/ (task'[j].at = "new" /\ task'[j].s = 0) => j # i
    BY <1>1, <1>2 DEF Places, NotYet, HeldOrHad, Kept
  <2>2. \A j \in Sockets : j \in SessionIds
    BY DEF SessionIds
  <2> QED
    BY <1>2, <1>4, <2>1, <2>2 DEF Places, NotYet, Named
<1>13. Waits'
  <2> SUFFICES ASSUME NEW j \in Sockets, task'[j].at = "ask", Kept(task[j].s)'
               PROVE  \E b \in Sockets :
                         HasHere(b, task[j].s)' /\ (Asks(b, j)' \/ (task'[b].at = "settle" /\ task'[b].by = j))
    BY <1>2 DEF Waits
  <2>1. j # k /\ task[j].at = "ask" /\ task'[j] = task[j]
    BY <1>2
  <2>2. task[j].s \in SessionIds /\ task[j].s # i /\ Kept(task[j].s)
    BY <1>4, <2>1 DEF Places, Named, Kept
  <2>3. PICK b \in Sockets : HasHere(b, task[j].s) /\ (Asks(b, j) \/ (task[b].at = "settle" /\ task[b].by = j))
    BY <2>1, <2>2 DEF Places, Waits
  <2>4. b # k
    BY <2>2, <2>3 DEF HasHere, i
  <2> QED
    BY <1>2, <1>5, <2>1, <2>3, <2>4 DEF HasHere, Asks
<1>14. Questions'
  BY SMTT(30), <1>2, <1>5, AskIsOne DEF Places, Questions, HasHere, Asks
<1> QED
  BY <1>8, <1>9, <1>10, <1>11, <1>12, <1>13, <1>14 DEF Places

\* `Reconnect`: the session is on its way, or is asked for, or there is none.
LEMMA ReconnectPlaces ==
    ASSUME Typed, Places, NEW k \in Sockets, Reconnect(k)
    PROVE  Places'
<1> DEFINE i == task[k].s
<1>0. Take(k, i) /\ i \in SessionIds /\ task[k].at = "new" /\ task[k].s # 0 /\ sess' = sess
  BY DEF Reconnect, Typed, TaskTyped, Task
<1>1. CASE /\ slot[i].at = "off"
           /\ slot' = [slot EXCEPT ![i] = NoSlot]
           /\ task' = [task EXCEPT ![k].at = "given"]
           /\ UNCHANGED <<ask, down>>
  <2>1. /\ task'[k].at = "given" /\ task'[k].s = i /\ task'[k].by = task[k].by
        /\ \A j \in Sockets : j # k => task'[j] = task[j]
    BY <1>1 DEF Typed, TaskTyped, Task
  <2>2. slot'[i].at = "none" /\ \A h \in SessionIds : h # i => slot'[h] = slot[h]
    BY <1>0, <1>1 DEF Typed, TaskTyped, NoSlot
  <2>3. Kept(i) /\ \A j \in Sockets : ~Has(j, i)
    BY <1>0, <1>1 DEF Places, HeldOrHad
  <2>4. ask' = ask /\ \A h : Kept(h)' <=> Kept(h)
    BY <1>0, <1>1 DEF Kept
  <2> HIDE DEF i
  <2>5. OneEach'
    BY <2>1, <2>3 DEF Places, OneEach, Has
  <2>6. HeldOrHad'
    <3> SUFFICES ASSUME NEW h \in SessionIds
                 PROVE  /\ (slot'[h].at = "off" => Kept(h)' /\ \A j \in Sockets : ~Has(j, h)')
                        /\ \A j \in Sockets : Has(j, h)' => Kept(h)'
                        /\ Kept(h)' => slot'[h].at = "off" \/ \E j \in Sockets : Has(j, h)'
      BY DEF HeldOrHad
    <3>1. CASE h = i
      BY <2>1, <2>2, <2>3, <2>4, <3>1 DEF Has
    <3>2. CASE h # i
      <4>1. slot'[h] = slot[h] /\ \A j \in Sockets : Has(j, h)' <=> Has(j, h)
        BY <1>0, <2>1, <2>2, <3>2 DEF Has, i
      <4> QED
        BY <2>4, <4>1 DEF Places, HeldOrHad
    <3> QED
      BY <3>1, <3>2
  <2>7. OnIsThere'
    BY <1>0, <2>1, <2>2 DEF Places, OnIsThere, HasHere
  <2>8. HereIsOn'
    BY <1>0, <2>1, <2>2, <2>3 DEF Places, HereIsOn, Has
  <2>9. NotYet' /\ Named'
    BY <1>0, <2>1 DEF Places, NotYet, Named, i
  <2>10. Waits'
    BY <1>0, <2>1, <2>4 DEF Places, Waits, HasHere, Asks
  <2>11. Questions'
    BY <1>0, <2>1, <2>4 DEF Places, Questions, HasHere, Asks
  <2> QED
    BY <2>5, <2>6, <2>7, <2>8, <2>9, <2>10, <2>11 DEF Places
<1>2. CASE /\ slot[i].at = "on" /\ ask[slot[i].by] = <<>> /\ task[slot[i].by].at # "over"
           /\ ask' = [ask EXCEPT ![slot[i].by] = <<k>>]
           /\ task' = [task EXCEPT ![k].at = IF task[slot[i].by].at = "bye" THEN "late" ELSE "ask"]
           /\ UNCHANGED <<slot, down>>
  <2>a. slot[i].by \in Sockets
    BY <1>0, <1>2 DEF Places, OnIsThere
  <2>b. PICK b \in Sockets : b = slot[i].by
    BY <2>a
  <2> DEFINE at == IF task[b].at = "bye" THEN "late" ELSE "ask"
  <2>0. slot[i].at = "on" /\ ask[b] = <<>> /\ task[b].at # "over" /\ slot' = slot /\ b \in Sockets
    BY <1>2, <2>b
  <2>1. /\ task'[k].at = at /\ task'[k].s = i /\ task'[k].by = task[k].by
        /\ \A j \in Sockets : j # k => task'[j] = task[j]
    BY SMTT(30), <1>2, <2>b DEF Typed, TaskTyped, Task
  <2>2. Asks(b, k)' /\ (\A j \in Sockets : Asks(b, j)' => j = k) /\ \A a, j \in Sockets : a # b => (Asks(a, j)' <=> Asks(a, j))
    BY <1>2, <2>0, <2>b, AskIsOne DEF Typed, TaskTyped, Asks
  <2>3. at \in {"ask", "late"} /\ (at = "ask" => HasHere(b, i)) /\ b # k
    BY <1>0, <2>0, <2>b DEF Places, OnIsThere, HasHere
  <2>4. sess[i].is # "none"
    BY <1>0, <2>0 DEF Places, OnIsThere, HeldOrHad, Has, HasHere, Kept
  <2>5. \A h : Kept(h)' <=> Kept(h)
    BY <1>0 DEF Kept
  <2>6. \A j \in Sockets, h \in SessionIds : (Has(j, h)' <=> Has(j, h)) /\ (HasHere(j, h)' <=> HasHere(j, h))
    BY <1>0, <2>1, <2>3 DEF Has, HasHere
  <2> HIDE DEF i, at
  <2>7. OneEach'
    BY <2>6 DEF Places, OneEach
  <2>8. HeldOrHad'
    BY <2>0, <2>5, <2>6 DEF Places, HeldOrHad
  <2>9. OnIsThere'
    <3>1. \A j \in Sockets : task[j].at \in {"bye", "over", "given"} => task'[j] = task[j]
      BY <1>0, <2>1
    <3> QED
      BY <2>0, <2>6, <3>1 DEF Places, OnIsThere
  <2>10. HereIsOn'
    BY <2>0, <2>1, <2>3 DEF Places, HereIsOn
  <2>11. NotYet' /\ Named'
    BY <1>0, <2>1, <2>3, <2>4 DEF Places, NotYet, Named
  <2>12. Waits'
    <3> SUFFICES ASSUME NEW j \in Sockets, task'[j].at = "ask", Kept(task[j].s)'
                 PROVE  \E a \in Sockets :
                           HasHere(a, task[j].s)' /\ (Asks(a, j)' \/ (task'[a].at = "settle" /\ task'[a].by = j))
      BY DEF Waits
    <3>1. CASE j = k
      <4>1. task'[k].s = i /\ HasHere(b, i)
        BY <2>1, <2>3, <3>1
      <4>2. task'[b] = task[b]
        BY <2>0, <2>1, <2>3
      <4>3. task'[b].s = i /\ task'[b].at \in {"run", "settle"} /\ ask'[b] = <<k>>
        BY <2>2, <4>1, <4>2 DEF HasHere, Asks
      <4> QED
        BY <2>0, <3>1, <4>1, <4>3 DEF HasHere, Asks
    <3>2. CASE j # k
      <4>1. task[j].at = "ask" /\ task[j].s \in SessionIds /\ Kept(task[j].s)
        BY <2>1, <2>5, <3>2 DEF Places, Named
      <4>2. PICK a \in Sockets : HasHere(a, task[j].s) /\ (Asks(a, j) \/ (task[a].at = "settle" /\ task[a].by = j))
        BY <4>1 DEF Places, Waits
      <4>3. a # k /\ (Asks(a, j) => a # b)
        BY <1>0, <2>0, <4>2, AskIsOne DEF HasHere, Asks
      <4> QED
        BY <2>1, <2>2, <3>2, <4>2, <4>3 DEF HasHere, Asks
    <3> QED
      BY <3>1, <3>2
  <2>13. Questions'
    <3> SUFFICES ASSUME NEW a \in Sockets, NEW j \in Sockets
                 PROVE  /\ Asks(a, j)' \/ (task'[a].at = "settle" /\ task'[a].by = j) => task'[j].at \notin {"none", "new"}
                        /\ task'[j].at = "ask" =>
                             /\ Asks(a, j)' => HasHere(a, task[j].s)'
                             /\ task'[a].at = "settle" /\ task'[a].by = j => task'[a].s = task'[j].s
      BY DEF Questions
    <3>1. CASE j = k
      <4>1. ~Asks(a, k) /\ ~(task[a].at = "settle" /\ task[a].by = k)
        BY <1>0 DEF Places, Questions
      <4>2. task'[j].at \in {"ask", "late"} /\ (task'[a].at = "settle" => task'[a] = task[a])
        BY <2>1, <2>3, <3>1
      <4>3. Asks(a, j)' => a = b
        BY <2>2, <3>1, <4>1
      <4> QED
        BY <1>0, <2>0, <2>1, <2>3, <2>6, <3>1, <4>1, <4>2, <4>3 DEF i
    <3>2. CASE j # k
      <4>1. Asks(a, j)' => Asks(a, j)
        <5>1. CASE a = b
          BY <2>0, <2>2, <3>2, <5>1 DEF Asks
        <5> QED
          BY <2>0, <2>2, <5>1 DEF Asks
      <4>2. task'[a].at = "settle" => task'[a] = task[a] /\ a # k
        BY <2>1, <2>3
      <4> QED
        BY <2>1, <2>6, <3>2, <4>1, <4>2 DEF Places, Questions, Named
    <3> QED
      BY <3>1, <3>2
  <2> QED
    BY <2>7, <2>8, <2>9, <2>10, <2>11, <2>12, <2>13 DEF Places
<1>3. CASE NotFound(k) /\ UNCHANGED <<ask, slot>>
  BY <1>0, <1>3, EndingPlaces
<1> QED
  BY <1>0, <1>1, <1>2, <1>3 DEF Take

\* `Resume`: the session is on the socket, and the registry says so.
LEMMA ResumePlaces ==
    ASSUME Typed, Places, NEW k \in Sockets, Resume(k)
    PROVE  Places'
<1>1. task[k].at = "given" /\ task[k].s \in SessionIds
  BY DEF Resume, Places, Named
<1>2. PICK i \in SessionIds : i = task[k].s
  BY <1>1
<1>3. /\ task'[k].at = "run" /\ task'[k].s = i /\ task'[k].by = task[k].by
      /\ \A j \in Sockets : j # k => task'[j] = task[j]
  BY <1>2 DEF Resume, Typed, TaskTyped, Task
<1>4. slot'[i].at = "on" /\ slot'[i].by = k /\ \A h \in SessionIds : h # i => slot'[h] = slot[h]
  BY SMTT(30), <1>2 DEF Resume, Typed, TaskTyped
<1>5. ask' = ask /\ \A h \in SessionIds : sess'[h].is = sess[h].is
  <2>1. sess[i] \in Session
    BY DEF Typed, SessTyped
  <2>2. \A h \in SessionIds : h # i => sess'[h] = sess[h]
    BY <1>2 DEF Resume, Typed, SessTyped
  <2>3. sess'[i].is = sess[i].is
    BY <1>2, <2>1 DEF Resume, Typed, SessTyped, Session
  <2> QED
    BY <2>2, <2>3 DEF Resume
<1>6. \A j \in Sockets, h \in SessionIds : Has(j, h)' <=> Has(j, h)
  BY <1>1, <1>2, <1>3 DEF Has
<1>7. \A j \in Sockets : Has(j, i) => j = k
  BY <1>1, <1>2 DEF Places, OneEach, Has
<1>8. Has(k, i) /\ Kept(i) /\ slot[i].at # "off"
  BY <1>1, <1>2 DEF Has, Places, HeldOrHad
<1>9. OneEach'
  BY <1>6 DEF Places, OneEach
<1>10. HeldOrHad'
  <2> SUFFICES ASSUME NEW h \in SessionIds
               PROVE  /\ (slot'[h].at = "off" => Kept(h)' /\ \A j \in Sockets : ~Has(j, h)')
                      /\ \A j \in Sockets : Has(j, h)' => Kept(h)'
                      /\ Kept(h)' => slot'[h].at = "off" \/ \E j \in Sockets : Has(j, h)'
    BY DEF HeldOrHad
  <2>1. Kept(h)' <=> Kept(h)
    BY <1>5 DEF Kept
  <2>2. slot'[h].at = "off" <=> slot[h].at = "off"
    BY <1>4, <1>8
  <2> QED
    BY <1>6, <2>1, <2>2 DEF Places, HeldOrHad
<1>11. OnIsThere'
  <2> SUFFICES ASSUME NEW h \in SessionIds, slot'[h].at = "on"
               PROVE  /\ slot'[h].by \in Sockets
                      /\ \/ HasHere(slot[h].by, h)'
                         \/ /\ task'[slot'[h].by].at \in {"bye", "over"}
                            /\ \E j \in Sockets : task'[j].at = "given" /\ task'[j].s = h
    BY DEF OnIsThere
  <2>1. CASE h = i
    BY <1>3, <1>4, <2>1 DEF HasHere
  <2>2. CASE h # i
    BY <1>1, <1>2, <1>3, <1>4, <2>2 DEF Places, OnIsThere, HasHere
  <2> QED
    BY <2>1, <2>2
<1>12. HereIsOn'
  <2>1. \A j \in Sockets : j # k /\ task[j].at \in {"run", "settle"} => task[j].s # i
    BY <1>7 DEF Has
  <2> QED
    BY <1>3, <1>4, <2>1 DEF Places, HereIsOn
<1>13. NotYet' /\ Named'
  <2>1. \A j \in Sockets : j \in SessionIds
    BY DEF SessionIds
  <2> QED
    BY <1>1, <1>3, <1>5, <2>1 DEF Places, NotYet, Named
<1>14. \A a, j \in Sockets : Asks(a, j)' <=> Asks(a, j)
  BY <1>5 DEF Asks
<1>15. Waits'
  <2> SUFFICES ASSUME NEW j \in Sockets, task'[j].at = "ask", Kept(task[j].s)'
               PROVE  \E b \in Sockets :
                         HasHere(b, task[j].s)' /\ (Asks(b, j)' \/ (task'[b].at = "settle" /\ task'[b].by = j))
    BY DEF Waits
  <2>1. j # k /\ task'[j] = task[j]
    BY <1>3
  <2>2. task[j].at = "ask" /\ Kept(task[j].s)
    BY <1>5, <2>1 DEF Places, Named, Kept
  <2>3. PICK b \in Sockets : HasHere(b, task[j].s) /\ (Asks(b, j) \/ (task[b].at = "settle" /\ task[b].by = j))
    BY <2>2 DEF Places, Waits
  <2>4. b # k
    BY <1>1, <2>3 DEF HasHere
  <2> QED
    BY <1>3, <1>14, <2>1, <2>3, <2>4 DEF HasHere
<1>16. Questions'
  BY <1>1, <1>3, <1>14 DEF Places, Questions, HasHere
<1> QED
  BY <1>9, <1>10, <1>11, <1>12, <1>13, <1>15, <1>16 DEF Places

\* A socket that goes, or whose session is asked for, settles; and who asked is remembered.
LEMMA LeavingPlaces ==
    ASSUME Typed, Places, NEW k \in Sockets, Drops(k) \/ AskedFor(k)
    PROVE  Places'
<1>1. task[k].at = "run" /\ task'[k].at = "settle" /\ task'[k].s = task[k].s /\ slot' = slot /\ sess' = sess
  BY DEF Drops, AskedFor, Running, Typed, TaskTyped, Task
<1>2. \A j \in Sockets : j # k => task'[j] = task[j] /\ ask'[j] = ask[j]
  BY DEF Drops, AskedFor, Typed, TaskTyped
<1>3. \/ ask'[k] = ask[k] /\ task'[k].by = 0
      \/ ask'[k] = <<>> /\ ask[k] # <<>> /\ task'[k].by = Head(ask[k])
  BY DEF Drops, AskedFor, Running, Typed, TaskTyped, Task, Places, Named
<1>4. \A j \in Sockets :
        (Asks(k, j)' \/ (task'[k].at = "settle" /\ task'[k].by = j)) <=> Asks(k, j)
  <2>1. ask[k] = <<>> \/ \E j \in Sockets : ask[k] = <<j>>
    BY DEF Typed, TaskTyped
  <2>2. \A j \in Sockets : j # 0
    BY DEF Sockets
  <2> QED
    BY <1>1, <1>3, <2>1, <2>2, AskIsOne DEF Asks
<1>5. \A j, b \in Sockets : b # k =>
        /\ Asks(b, j)' <=> Asks(b, j)
        /\ task'[b].at = "settle" /\ task'[b].by = j <=> task[b].at = "settle" /\ task[b].by = j
  BY <1>2 DEF Asks
<1>6. \A j \in Sockets, h \in SessionIds : (Has(j, h)' <=> Has(j, h)) /\ (HasHere(j, h)' <=> HasHere(j, h))
  BY <1>1, <1>2 DEF Has, HasHere
<1>7. OneEach'
  BY <1>6 DEF Places, OneEach
<1>8. HeldOrHad'
  BY <1>1, <1>6 DEF Places, HeldOrHad, Kept
<1>9. OnIsThere' /\ HereIsOn'
  BY <1>1, <1>2 DEF Places, OnIsThere, HereIsOn, HasHere
<1>10. NotYet' /\ Named'
  BY <1>1, <1>2 DEF Places, NotYet, Named
<1>11. Waits'
  <2> SUFFICES ASSUME NEW j \in Sockets, task'[j].at = "ask", Kept(task[j].s)'
               PROVE  \E b \in Sockets :
                         HasHere(b, task[j].s)' /\ (Asks(b, j)' \/ (task'[b].at = "settle" /\ task'[b].by = j))
    BY DEF Waits
  <2>1. j # k /\ task'[j] = task[j] /\ task[j].at = "ask" /\ Kept(task[j].s)
    BY <1>1, <1>2 DEF Kept
  <2>2. PICK b \in Sockets : HasHere(b, task[j].s) /\ (Asks(b, j) \/ (task[b].at = "settle" /\ task[b].by = j))
    BY <2>1 DEF Places, Waits
  <2>3. HasHere(b, task[j].s)'
    BY <1>1, <1>2, <2>1, <2>2 DEF HasHere
  <2>4. Asks(b, j)' \/ (task'[b].at = "settle" /\ task'[b].by = j)
    BY <1>1, <1>4, <1>5, <2>2
  <2> QED
    BY <2>3, <2>4
<1>12. Questions'
  <2> SUFFICES ASSUME NEW b \in Sockets, NEW j \in Sockets
               PROVE  /\ Asks(b, j)' \/ (task'[b].at = "settle" /\ task'[b].by = j) => task'[j].at \notin {"none", "new"}
                      /\ task'[j].at = "ask" =>
                            /\ Asks(b, j)' => HasHere(b, task[j].s)'
                            /\ task'[b].at = "settle" /\ task'[b].by = j => task'[b].s = task'[j].s
    BY DEF Questions
  <2>1. Asks(b, j)' \/ (task'[b].at = "settle" /\ task'[b].by = j) => Asks(b, j) \/ (task[b].at = "settle" /\ task[b].by = j)
    BY <1>4, <1>5
  <2>2. Asks(b, j)' \/ (task'[b].at = "settle" /\ task'[b].by = j) => task'[j].at \notin {"none", "new"}
    BY <1>1, <1>2, <2>1 DEF Places, Questions
  <2>3. ASSUME task'[j].at = "ask" PROVE j # k /\ task'[j] = task[j] /\ task[j].at = "ask"
    BY <1>1, <1>2, <2>3
  <2>4. CASE b = k
    BY <1>1, <1>4, <2>2, <2>3, <2>4 DEF Places, Questions, HasHere
  <2>5. CASE b # k
    BY <1>2, <1>5, <2>2, <2>3, <2>5 DEF Places, Questions, HasHere
  <2> QED
    BY <2>4, <2>5
<1> QED
  BY <1>7, <1>8, <1>9, <1>10, <1>11, <1>12 DEF Places

\* A session that one socket hands on to a reconnect that waits for it.
LEMMA HandedPlaces ==
    ASSUME Typed, Places, NEW k \in Sockets, task[k].at = "settle", NEW n \in Sockets, task[n].at = "ask",
           Asks(k, n) \/ task[k].by = n,
           task'[n].at = "given", task'[n].s = task[n].s, task'[n].by = task[n].by,
           task'[k].at \in {"bye", "over"}, task'[k].by = 0,
           \A j \in Sockets \ {k, n} :
              task'[j] = task[j] \/ (task[j].at = "ask" /\ task'[j] = [task[j] EXCEPT !.at = "late"]),
           \A j \in Sockets : j # n /\ (Asks(k, j) \/ task[k].by = j) => task'[j].at # "ask",
           slot' = slot, \A i \in SessionIds : sess'[i].is = sess[i].is,
           ask'[k] = ask[k] \/ ask'[k] = <<>>, \A j \in Sockets : j # k => ask'[j] = ask[j]
    PROVE  Places'
<1>1. task[k].s \in SessionIds /\ slot[task[k].s].at = "on" /\ slot[task[k].s].by = k
  BY DEF Places, HereIsOn
<1>2. PICK i \in SessionIds : i = task[k].s
  BY <1>1
<1>3. task[n].s = i /\ n # k /\ task[n].by = 0
  BY <1>1, <1>2 DEF Places, Questions, HasHere, Named
<1>4. \A j \in Sockets : j # k /\ j # n =>
        /\ task'[j].s = task[j].s /\ task'[j].by = task[j].by
        /\ task'[j].at = task[j].at \/ (task[j].at = "ask" /\ task'[j].at = "late")
  <2> SUFFICES ASSUME NEW j \in Sockets, j # k, j # n
               PROVE  /\ task'[j].s = task[j].s /\ task'[j].by = task[j].by
                      /\ task'[j].at = task[j].at \/ (task[j].at = "ask" /\ task'[j].at = "late")
    OBVIOUS
  <2>2. task[j] \in Task
    BY DEF Typed, TaskTyped
  <2>3. CASE task'[j] = task[j]
    BY <2>3
  <2>4. CASE task[j].at = "ask" /\ task'[j] = [task[j] EXCEPT !.at = "late"]
    BY <2>2, <2>4 DEF Task
  <2> QED
    BY <2>3, <2>4
<1>a. Has(k, i) /\ Kept(i) /\ slot[i].at = "on" /\ slot[i].by = k /\ \A j \in Sockets : Has(j, i) => j = k
  BY <1>1, <1>2 DEF Has, Places, OneEach, HeldOrHad
<1>b. \A j \in Sockets, h \in SessionIds : h # i => (Has(j, h)' <=> Has(j, h)) /\ (HasHere(j, h)' <=> HasHere(j, h))
  <2> SUFFICES ASSUME NEW j \in Sockets, NEW h \in SessionIds, h # i
               PROVE  (Has(j, h)' <=> Has(j, h)) /\ (HasHere(j, h)' <=> HasHere(j, h))
    OBVIOUS
  <2>1. CASE j = k
    BY <1>2, <2>1 DEF Has, HasHere
  <2>2. CASE j = n
    BY <1>3, <2>2 DEF Has, HasHere
  <2>3. CASE j # k /\ j # n
    BY <1>4, <2>3 DEF Has, HasHere
  <2> QED
    BY <2>1, <2>2, <2>3
<1>c. \A j \in Sockets : Has(j, i)' <=> j = n
  <2> SUFFICES ASSUME NEW j \in Sockets PROVE Has(j, i)' <=> j = n
    OBVIOUS
  <2>1. CASE j = k
    BY <1>3, <2>1 DEF Has
  <2>2. CASE j = n
    BY <1>3, <2>2 DEF Has
  <2>3. CASE j # k /\ j # n
    <3>1. ~Has(j, i)
      BY <1>a, <2>3
    <3> QED
      BY <1>4, <2>3, <3>1 DEF Has
  <2> QED
    BY <2>1, <2>2, <2>3
<1>5. OneEach'
  <2> SUFFICES ASSUME NEW h \in SessionIds, NEW j \in Sockets, NEW b \in Sockets, Has(j, h)', Has(b, h)'
               PROVE  j = b
    BY DEF OneEach
  <2>1. CASE h = i
    BY <1>c, <2>1
  <2>2. CASE h # i
    BY <1>b, <2>2 DEF Places, OneEach
  <2> QED
    BY <2>1, <2>2
<1>6. HeldOrHad'
  <2> SUFFICES ASSUME NEW h \in SessionIds
               PROVE  /\ (slot'[h].at = "off" => Kept(h)' /\ \A j \in Sockets : ~Has(j, h)')
                      /\ \A j \in Sockets : Has(j, h)' => Kept(h)'
                      /\ Kept(h)' => slot'[h].at = "off" \/ \E j \in Sockets : Has(j, h)'
    BY DEF HeldOrHad
  <2>1. Kept(h)' <=> Kept(h)
    BY DEF Kept
  <2>2. CASE h = i
    BY <1>a, <1>c, <2>1, <2>2
  <2>3. CASE h # i
    BY <1>b, <2>1, <2>3 DEF Places, HeldOrHad
  <2> QED
    BY <2>2, <2>3
<1>7. OnIsThere'
  <2> SUFFICES ASSUME NEW h \in SessionIds, slot[h].at = "on"
               PROVE  /\ slot[h].by \in Sockets
                      /\ \/ HasHere(slot[h].by, h)'
                         \/ /\ task'[slot[h].by].at \in {"bye", "over"}
                            /\ \E j \in Sockets : task'[j].at = "given" /\ task'[j].s = h
    BY DEF OnIsThere
  <2>1. CASE h = i
    BY <1>a, <1>3, <2>1
  <2>2. CASE h # i
    <3>1. slot[h].by \in Sockets
      BY DEF Places, OnIsThere
    <3>2. PICK b \in Sockets : b = slot[h].by
      BY <3>1
    <3>3. CASE HasHere(b, h)
      <4>1. b # k /\ b # n
        BY <1>2, <2>2, <3>3 DEF HasHere
      <4> QED
        BY <1>4, <3>2, <3>3, <4>1 DEF HasHere
    <3>4. CASE ~HasHere(b, h)
      <4>1. task[b].at \in {"bye", "over"} /\ \E j \in Sockets : task[j].at = "given" /\ task[j].s = h
        BY <3>2, <3>4 DEF Places, OnIsThere
      <4>2. task'[b].at \in {"bye", "over"}
        BY <1>4, <4>1
      <4>3. \A j \in Sockets : task[j].at = "given" => task'[j].at = "given" /\ task'[j].s = task[j].s
        BY <1>4
      <4> QED
        BY <3>2, <4>1, <4>2, <4>3
    <3> QED
      BY <3>3, <3>4
  <2> QED
    BY <2>1, <2>2
<1>8. HereIsOn'
  <2>1. \A j \in Sockets : task'[j].at \in {"run", "settle"} => task[j].at \in {"run", "settle"} /\ task'[j].s = task[j].s
    BY <1>4
  <2> QED
    BY <2>1 DEF Places, HereIsOn
<1>9. NotYet' /\ Named'
  <2>1. \A j \in Sockets : j \in SessionIds
    BY DEF SessionIds
  <2>2. \A j \in Sockets : task'[j].at = "none" \/ (task'[j].at = "new" /\ task'[j].s = 0)
                            => task[j].at = "none" \/ (task[j].at = "new" /\ task[j].s = 0)
    BY <1>4
  <2>3. NotYet'
    BY <2>1, <2>2 DEF Places, NotYet
  <2>4. Named'
    <3> SUFFICES ASSUME NEW j \in Sockets
                 PROVE  /\ task'[j].at \in {"given", "ask", "late"} => task'[j].s \in SessionIds
                        /\ task'[j].at = "ask" => sess'[task'[j].s].is # "none"
                        /\ task'[j].at # "settle" => task'[j].by = 0
      BY DEF Named
    <3>1. CASE j = k
      BY <3>1
    <3>2. CASE j = n
      BY <1>3, <3>2
    <3>3. CASE j # k /\ j # n
      BY <1>4, <3>3 DEF Places, Named
    <3> QED
      BY <3>1, <3>2, <3>3
  <2> QED
    BY <2>3, <2>4
<1>10. ASSUME NEW j \in Sockets, task'[j].at = "ask"
       PROVE  j # k /\ j # n /\ task'[j].s = task[j].s /\ task[j].at = "ask" /\ ~Asks(k, j) /\ task[k].by # j
  BY <1>4, <1>10
<1>11. Waits'
  <2> SUFFICES ASSUME NEW j \in Sockets, task'[j].at = "ask", Kept(task[j].s)'
               PROVE  \E b \in Sockets :
                         HasHere(b, task[j].s)' /\ (Asks(b, j)' \/ (task'[b].at = "settle" /\ task'[b].by = j))
    BY DEF Waits
  <2>1. task[j].at = "ask" /\ task'[j].s = task[j].s /\ Kept(task[j].s) /\ ~Asks(k, j) /\ task[k].by # j
    BY <1>10 DEF Places, Named, Kept
  <2>2. PICK b \in Sockets : HasHere(b, task[j].s) /\ (Asks(b, j) \/ (task[b].at = "settle" /\ task[b].by = j))
    BY <2>1 DEF Places, Waits
  <2>3. b # k /\ b # n
    BY <2>1, <2>2 DEF HasHere
  <2>4. task'[b].at = task[b].at /\ task'[b].s = task[b].s /\ task'[b].by = task[b].by /\ ask'[b] = ask[b]
    BY <1>4, <2>2, <2>3 DEF HasHere
  <2> QED
    BY <2>1, <2>2, <2>4 DEF HasHere, Asks
<1>12. Questions'
  <2> SUFFICES ASSUME NEW b \in Sockets, NEW j \in Sockets
               PROVE  /\ Asks(b, j)' \/ (task'[b].at = "settle" /\ task'[b].by = j) => task'[j].at \notin {"none", "new"}
                      /\ task'[j].at = "ask" =>
                            /\ Asks(b, j)' => HasHere(b, task[j].s)'
                            /\ task'[b].at = "settle" /\ task'[b].by = j => task'[b].s = task'[j].s
    BY DEF Questions
  <2>1. Asks(b, j)' => Asks(b, j)
    <3>1. <<>> # <<j>>
      BY AskIsOne
    <3> QED
      BY ZenonT(40), <3>1 DEF Asks
  <2>2. task'[b].at = "settle" => b # k /\ b # n /\ task[b].at = "settle" /\ task'[b].s = task[b].s /\ task'[b].by = task[b].by
    BY <1>4
  <2>3. task[j].at \notin {"none", "new"} => task'[j].at \notin {"none", "new"}
    BY <1>4
  <2>4. ASSUME task'[j].at = "ask", Asks(b, j)' PROVE HasHere(b, task[j].s)'
    <3>1. b # k /\ HasHere(b, task[j].s) /\ task'[j].s = task[j].s
      BY <1>10, <2>1, <2>4 DEF Places, Questions
    <3>2. b # n /\ task'[b].at = task[b].at /\ task'[b].s = task[b].s
      BY <1>4, <3>1 DEF HasHere
    <3> QED
      BY <3>1, <3>2 DEF HasHere
  <2>5. ASSUME task'[j].at = "ask", task'[b].at = "settle", task'[b].by = j PROVE task'[b].s = task'[j].s
    BY <1>10, <2>2, <2>5 DEF Places, Questions
  <2> QED
    BY <2>1, <2>2, <2>3, <2>4, <2>5 DEF Places, Questions
<1> QED
  BY <1>5, <1>6, <1>7, <1>8, <1>9, <1>11, <1>12 DEF Places

\* A session that nobody waits for is held when its socket has settled.
LEMMA ParkedPlaces ==
    ASSUME Typed, Places, NEW k \in Sockets, task[k].at = "settle",
           \A j \in Sockets : Asks(k, j) \/ task[k].by = j => task[j].at # "ask",
           task'[k].at \in {"bye", "over"}, task'[k].by = 0, \A j \in Sockets : j # k => task'[j] = task[j],
           slot' = [slot EXCEPT ![task[k].s] = [at |-> "off", by |-> 0]],
           \A i \in SessionIds : sess'[i].is = sess[i].is,
           ask'[k] = <<>>, \A j \in Sockets : j # k => ask'[j] = ask[j]
    PROVE  Places'
<1>1. task[k].s \in SessionIds
  BY DEF Places, HereIsOn
<1>2. PICK i \in SessionIds : i = task[k].s
  BY <1>1
<1>3. slot'[i].at = "off" /\ \A h \in SessionIds : h # i => slot'[h] = slot[h]
  BY <1>2 DEF Typed, TaskTyped
<1>4. Has(k, i) /\ Kept(i) /\ \A j \in Sockets : Has(j, i) => j = k
  BY <1>2 DEF Has, Places, OneEach, HeldOrHad
<1>5. \A h \in SessionIds : Kept(h)' <=> Kept(h)
  BY DEF Kept
<1>6. \A j \in Sockets : ~Has(j, i)'
  <2> SUFFICES ASSUME NEW j \in Sockets PROVE ~Has(j, i)'
    OBVIOUS
  <2>1. CASE j = k
    BY <2>1 DEF Has
  <2>2. CASE j # k
    BY <1>4, <2>2 DEF Has
  <2> QED
    BY <2>1, <2>2
<1>7. \A j \in Sockets, h \in SessionIds : h # i => (Has(j, h)' <=> Has(j, h)) /\ (HasHere(j, h)' <=> HasHere(j, h))
  <2> SUFFICES ASSUME NEW j \in Sockets, NEW h \in SessionIds, h # i
               PROVE  (Has(j, h)' <=> Has(j, h)) /\ (HasHere(j, h)' <=> HasHere(j, h))
    OBVIOUS
  <2>1. CASE j = k
    BY <1>2, <2>1 DEF Has, HasHere
  <2>2. CASE j # k
    BY <2>2 DEF Has, HasHere
  <2> QED
    BY <2>1, <2>2
<1>8. OneEach'
  <2> SUFFICES ASSUME NEW h \in SessionIds, NEW j \in Sockets, NEW b \in Sockets, Has(j, h)', Has(b, h)'
               PROVE  j = b
    BY DEF OneEach
  <2>1. h # i
    BY <1>6
  <2> QED
    BY <1>7, <2>1 DEF Places, OneEach
<1>9. HeldOrHad'
  <2> SUFFICES ASSUME NEW h \in SessionIds
               PROVE  /\ (slot'[h].at = "off" => Kept(h)' /\ \A j \in Sockets : ~Has(j, h)')
                      /\ \A j \in Sockets : Has(j, h)' => Kept(h)'
                      /\ Kept(h)' => slot'[h].at = "off" \/ \E j \in Sockets : Has(j, h)'
    BY DEF HeldOrHad
  <2>1. CASE h = i
    BY <1>3, <1>4, <1>5, <1>6, <2>1
  <2>2. CASE h # i
    BY <1>3, <1>5, <1>7, <2>2 DEF Places, HeldOrHad
  <2> QED
    BY <2>1, <2>2
<1>10. OnIsThere'
  <2> SUFFICES ASSUME NEW h \in SessionIds, slot'[h].at = "on"
               PROVE  /\ slot'[h].by \in Sockets
                      /\ \/ HasHere(slot[h].by, h)'
                         \/ /\ task'[slot'[h].by].at \in {"bye", "over"}
                            /\ \E j \in Sockets : task'[j].at = "given" /\ task'[j].s = h
    BY DEF OnIsThere
  <2>1. h # i /\ slot'[h] = slot[h] /\ slot[h].by \in Sockets
    BY <1>3 DEF Places, OnIsThere
  <2>2. PICK b \in Sockets : b = slot[h].by
    BY <2>1
  <2>3. CASE HasHere(b, h)
    <3>1. b # k
      BY <1>2, <2>1, <2>3 DEF HasHere
    <3> QED
      BY <2>1, <2>2, <2>3, <3>1 DEF HasHere
  <2>4. CASE ~HasHere(b, h)
    <3>1. task[b].at \in {"bye", "over"} /\ \E j \in Sockets : task[j].at = "given" /\ task[j].s = h
      BY <2>1, <2>2, <2>4 DEF Places, OnIsThere
    <3>2. \A j \in Sockets : task[j].at = "given" => task'[j] = task[j]
      OBVIOUS
    <3> QED
      BY <2>1, <2>2, <3>1, <3>2
  <2> QED
    BY <2>3, <2>4
<1>11. HereIsOn'
  <2> SUFFICES ASSUME NEW j \in Sockets, task'[j].at \in {"run", "settle"}
               PROVE  task'[j].s \in SessionIds /\ slot'[task'[j].s].at = "on" /\ slot'[task'[j].s].by = j
    BY DEF HereIsOn
  <2>1. j # k /\ task'[j] = task[j]
    OBVIOUS
  <2>2. task[j].s # i
    BY <1>4, <2>1 DEF Has
  <2> QED
    BY <1>3, <2>1, <2>2 DEF Places, HereIsOn
<1>12. NotYet' /\ Named'
  <2>1. \A j \in Sockets : j \in SessionIds
    BY DEF SessionIds
  <2>2. NotYet'
    BY <2>1 DEF Places, NotYet
  <2> QED
    BY <2>2 DEF Places, Named
<1>13. Waits'
  <2> SUFFICES ASSUME NEW j \in Sockets, task'[j].at = "ask", Kept(task[j].s)'
               PROVE  \E b \in Sockets :
                         HasHere(b, task[j].s)' /\ (Asks(b, j)' \/ (task'[b].at = "settle" /\ task'[b].by = j))
    BY DEF Waits
  <2>1. task[j].at = "ask" /\ task'[j] = task[j] /\ Kept(task[j].s)
    BY DEF Places, Named, Kept
  <2>2. PICK b \in Sockets : HasHere(b, task[j].s) /\ (Asks(b, j) \/ (task[b].at = "settle" /\ task[b].by = j))
    BY <2>1 DEF Places, Waits
  <2>3. b # k
    BY <2>1, <2>2
  <2> QED
    BY <2>1, <2>2, <2>3 DEF HasHere, Asks
<1>14. Questions'
  <2>1. \A b, j \in Sockets : Asks(b, j)' => Asks(b, j) /\ b # k
    BY AskIsOne DEF Asks
  <2> QED
    BY <2>1 DEF Places, Questions, HasHere
<1> QED
  BY <1>8, <1>9, <1>10, <1>11, <1>12, <1>13, <1>14 DEF Places

\* `HandOn` keeps the sessions in their places.
LEMMA HandOnPlaces ==
    ASSUME Typed, Places, NEW k \in Sockets, task[k].at = "settle", HandOn(k),
           \A i \in SessionIds : sess'[i].is = sess[i].is
    PROVE  Places'
<1>1. PICK by \in {0} \cup Sockets : by = task[k].by
  BY DEF Typed, TaskTyped, Task
<1> DEFINE me == [NoTask EXCEPT !.at = IF by = 0 THEN "over" ELSE "bye"]
           t == [task EXCEPT ![k] = me]
           late == {k2 \in Sockets : ask[k] = <<k2>> /\ task[k2].at = "ask"}
<1>2. task \in [Sockets -> Task] /\ ask \in [Sockets -> Seq(Sockets)] /\ 0 \notin Sockets
  BY DEF Typed, TaskTyped, Sockets
<1>3. me.at \in {"bye", "over"} /\ me.by = 0
  BY DEF NoTask
<1> HIDE DEF me
<1>4. t[k] = me /\ \A j \in Sockets : j # k => t[j] = task[j]
  BY <1>2
<1>5. CASE by # 0 /\ task[by].at = "ask"
  <2>1. /\ task' = [k2 \in Sockets |-> IF k2 = by THEN [t[by] EXCEPT !.at = "given"]
                                       ELSE IF k2 \in late THEN [t[k2] EXCEPT !.at = "late"]
                                       ELSE t[k2]]
        /\ ask' = ask /\ slot' = slot
    BY <1>1, <1>5 DEF HandOn, me
  <2>2. by \in Sockets /\ by # k
    BY <1>5
  <2>3. \A x \in Task : LET l == [x EXCEPT !.at = "given"] IN l.s = x.s /\ l.by = x.by /\ l.at = "given"
    BY DEF Task
  <2>4. t[by] = task[by] /\ task[by] \in Task
    BY <1>2, <1>4, <2>2
  <2>5. k \notin late
    OBVIOUS
  <2> HIDE DEF t
  <2>6. task'[by].at = "given" /\ task'[by].s = task[by].s /\ task'[by].by = task[by].by
    BY <2>1, <2>2, <2>3, <2>4
  <2>7. task'[k].at \in {"bye", "over"} /\ task'[k].by = 0
    BY <1>3, <1>4, <2>1, <2>2, <2>5
  <2>8. \A j \in Sockets \ {k, by} :
            task'[j] = task[j] \/ (task[j].at = "ask" /\ task'[j] = [task[j] EXCEPT !.at = "late"])
    BY <1>4, <2>1
  <2>9. \A j \in Sockets : j # by /\ (Asks(k, j) \/ task[k].by = j) => task'[j].at # "ask"
    <3> SUFFICES ASSUME NEW j \in Sockets, j # by, Asks(k, j) \/ task[k].by = j
                 PROVE  task'[j].at # "ask"
      OBVIOUS
    <3>1. Asks(k, j)
      BY <1>1
    <3>2. CASE j = k
      BY <2>7, <3>2
    <3>3. CASE j # k /\ task[j].at = "ask"
      <4>1. task'[j] = [task[j] EXCEPT !.at = "late"] /\ task[j] \in Task
        BY <1>2, <1>4, <2>1, <3>1, <3>3 DEF Asks
      <4> QED
        BY <4>1 DEF Task
    <3>4. CASE j # k /\ task[j].at # "ask"
      BY <1>4, <2>1, <3>4
    <3> QED
      BY <3>2, <3>3, <3>4
  <2> HIDE DEF late
  <2>a. slot' = slot /\ ask'[k] = ask[k] /\ \A j \in Sockets : j # k => ask'[j] = ask[j]
    BY <2>1
  <2>b. task[by].at = "ask" /\ (Asks(k, by) \/ task[k].by = by)
    BY <1>1, <1>5
  <2> QED
    BY <2>a, <2>b, <2>2, <2>6, <2>7, <2>8, <2>9, HandedPlaces
<1>6. CASE ~(by # 0 /\ task[by].at = "ask")
  <2>1. Park(k, t, ask[k])
    BY <1>1, <1>6 DEF HandOn, me
  <2>2. ask' = [ask EXCEPT ![k] = <<>>]
    BY <2>1 DEF Park
  <2>3. ask'[k] = <<>> /\ \A j \in Sockets : j # k => ask'[j] = ask[j]
    BY <1>2, <2>2
  <2>4. \A j \in Sockets : Asks(k, j) => ask[k] # <<>> /\ Head(ask[k]) = j
    BY AskIsOne DEF Asks
  <2>5. CASE ask[k] # <<>> /\ task[Head(ask[k])].at = "ask"
    <3>1. task' = [t EXCEPT ![Head(ask[k])].at = "given"] /\ slot' = slot
      BY <2>1, <2>5 DEF Park
    <3>2. PICK n \in Sockets : n = Head(ask[k]) /\ Asks(k, n)
      <4>1. PICK j \in Sockets : ask[k] = <<j>>
        BY <2>5 DEF Typed, TaskTyped
      <4> QED
        BY <4>1, AskIsOne DEF Asks
    <3>3. task[n].at = "ask" /\ n # k
      BY <2>5, <3>2
    <3>4. t[n] = task[n] /\ t[n] \in Task /\ DOMAIN t = Sockets
      BY <1>2, <1>4, <3>3
    <3> HIDE DEF t
    <3>5. task'[n].at = "given" /\ task'[n].s = task[n].s /\ task'[n].by = task[n].by
      BY <3>1, <3>2, <3>4 DEF Task
    <3>6. \A j \in Sockets : j # n => task'[j] = t[j]
      BY <3>1, <3>2, <3>4
    <3>7. task'[k].at \in {"bye", "over"} /\ task'[k].by = 0
      BY <1>3, <1>4, <3>3, <3>6
    <3>8. \A j \in Sockets \ {k, n} : task'[j] = task[j]
      BY <1>4, <3>6
    <3>9. \A j \in Sockets : j # n /\ (Asks(k, j) \/ task[k].by = j) => task'[j].at # "ask"
      <4> SUFFICES ASSUME NEW j \in Sockets, j # n, Asks(k, j) \/ task[k].by = j
                   PROVE  task'[j].at # "ask"
        OBVIOUS
      <4>1. task[k].by = j /\ j = by /\ j # 0
        BY <1>1, <1>2, <2>4, <3>2
      <4> QED
        BY <1>6, <3>7, <3>8, <4>1
    <3> QED
      BY <2>3, <3>1, <3>2, <3>3, <3>5, <3>7, <3>8, <3>9, HandedPlaces
  <2>6. CASE ~(ask[k] # <<>> /\ task[Head(ask[k])].at = "ask")
    <3>1. task' = t /\ slot' = [slot EXCEPT ![task[k].s] = [at |-> "off", by |-> 0]]
      BY <2>1, <2>6 DEF Park
    <3>2. \A j \in Sockets : Asks(k, j) \/ task[k].by = j => task[j].at # "ask"
      BY <1>1, <1>2, <1>6, <2>4, <2>6
    <3> HIDE DEF t
    <3> QED
      BY <1>3, <1>4, <2>3, <3>1, <3>2, ParkedPlaces
  <2> QED
    BY <2>5, <2>6
<1> QED
  BY <1>5, <1>6

\* `Settle` keeps the sessions in their places.
LEMMA SettlePlaces ==
    ASSUME Typed, Places, NEW k \in Sockets, Settle(k)
    PROVE  Places'
<1> DEFINE i == task[k].s
           s == sess[i]
<1>1. task[k].at = "settle" /\ i \in SessionIds
  BY DEF Settle, Places, HereIsOn
<1>2. s \in Session /\ MarksInOrder(s)
  BY <1>1 DEF Typed, SessTyped
<1>3. CASE HandOn(k) /\ UNCHANGED sess
  BY <1>1, <1>3, HandOnPlaces
<1>4. CASE HandOn(k) /\ \E to \in MaySettle(s) : sess' = [sess EXCEPT ![i] = Listened(s, to)]
  <2>1. PICK to \in MaySettle(s) : sess' = [sess EXCEPT ![i] = Listened(s, to)]
    BY <1>4
  <2>2. Listened(s, to).is = s.is
    BY <1>2, ListeningKeeps
  <2>3. \A h \in SessionIds : sess'[h].is = sess[h].is
    BY <1>1, <2>1, <2>2 DEF Typed, SessTyped
  <2> QED
    BY <1>1, <1>4, <2>3, HandOnPlaces
<1>5. CASE Forget(k, IF task[k].by = 0 THEN "over" ELSE "bye")
  BY <1>1, <1>5, ForgetPlaces
<1> QED
  BY <1>3, <1>4, <1>5 DEF Settle, Mine

\* What is heard, begun and settled moves no session.
LEMMA HearingPlaces ==
    ASSUME Typed, Places, NEW k \in Sockets, Receive(k) \/ Tick(k) \/ Updated(k)
    PROVE  Places'
<1> DEFINE i == task[k].s
           s == sess[i]
<1>1. Running(k) /\ i \in SessionIds
  BY DEF Receive, Tick, Updated, Running, Places, HereIsOn
<1>2. s \in Session /\ MarksInOrder(s) /\ sess \in [SessionIds -> Session]
  BY <1>1 DEF Typed, SessTyped
<1>3. CASE UNCHANGED <<task, ask, slot>> /\ \E t : sess' = [sess EXCEPT ![i] = t] /\ t.is = s.is
  <2>1. \A h \in SessionIds : sess'[h].is = sess[h].is
    BY <1>1, <1>2, <1>3
  <2> QED
    BY <1>3, <2>1, StayingPlaces
<1>4. CASE Tick(k)
  <2>1. sess' = [sess EXCEPT ![i] = Begin(s)] /\ UNCHANGED <<task, ask, slot>>
    BY <1>4 DEF Tick
  <2>2. Begin(s).is = s.is
    BY <1>2, BeginningKeeps
  <2> QED
    BY ZenonT(40), <1>3, <2>1, <2>2
<1>5. CASE Updated(k)
  <2>1. PICK to \in MaySettle(s) :
            LET l == Listened(s, to)
            IN  sess' = [sess EXCEPT ![i] = IF l.commit \/ Len(l.pcm) - l.heard >= MostAtOnce THEN Begin(l) ELSE l]
    BY <1>5 DEF Updated, Mine
  <2> DEFINE l == Listened(s, to)
             t == IF l.commit \/ Len(l.pcm) - l.heard >= MostAtOnce THEN Begin(l) ELSE l
  <2>2. sess' = [sess EXCEPT ![i] = t]
    BY <2>1
  <2> HIDE DEF i, s
  <2>3. t.is = s.is
    BY <1>2, UpdatingKeeps
  <2> HIDE DEF t
  <2>4. UNCHANGED <<task, ask, slot>>
    BY <1>5 DEF Updated
  <2> QED
    BY ZenonT(40), <1>3, <2>2, <2>3, <2>4
<1>6. CASE Receive(k)
  <2> DEFINE m == Head(up[k])
  <2>1. m.n \in Nat
    BY <1>6, ReadingKeeps DEF Receive, Typed, UpMessage
  <2>2. CASE m.kind = "close" /\ Forget(k, "over")
    BY <1>1, <2>2, ForgetPlaces
  <2>3. CASE UNCHANGED <<task, ask, slot>> /\ sess' = [sess EXCEPT ![i] = Hear(s, m.n)]
    <3> HIDE DEF i, s, m
    <3>1. Hear(s, m.n).is = s.is
      BY <1>2, <2>1, HearingKeeps
    <3> QED
      BY <1>3, <2>3, <3>1
  <2>4. CASE UNCHANGED <<task, ask, slot>> /\ sess' = [sess EXCEPT ![i].next = m.n]
    <3>1. sess' = [sess EXCEPT ![i] = [s EXCEPT !.next = m.n]] /\ [s EXCEPT !.next = m.n].is = s.is
      BY <1>2, <2>4 DEF Session
    <3> QED
      BY <1>3, <2>4, <3>1
  <2>5. CASE UNCHANGED <<task, ask, slot>> /\ sess' = [sess EXCEPT ![i].commit = TRUE]
    <3>1. sess' = [sess EXCEPT ![i] = [s EXCEPT !.commit = TRUE]] /\ [s EXCEPT !.commit = TRUE].is = s.is
      BY <1>2, <2>5 DEF Session
    <3> QED
      BY <1>3, <2>5, <3>1
  <2> QED
    BY <1>6, <2>2, <2>3, <2>4, <2>5 DEF Receive
<1> QED
  BY <1>4, <1>5, <1>6

\* `Bye`: the socket had handed its session on.
LEMMA ByePlaces ==
    ASSUME Typed, Places, NEW k \in Sockets, Bye(k)
    PROVE  Places'
<1>1. task[k].at = "bye" /\ slot' = slot /\ sess' = sess
  BY DEF Bye
<1>2. /\ task'[k].at = "over" /\ task'[k].by = task[k].by /\ task'[k].s = task[k].s
      /\ \A j \in Sockets : j # k => task'[j] = task[j]
  BY DEF Bye, Typed, TaskTyped, Task
<1>3. ask'[k] = <<>> /\ \A j \in Sockets : j # k => ask'[j] = ask[j]
  BY DEF Bye, Typed, TaskTyped
<1>4. \A j \in Sockets, h \in SessionIds : (Has(j, h)' <=> Has(j, h)) /\ (HasHere(j, h)' <=> HasHere(j, h))
  BY <1>1, <1>2 DEF Has, HasHere
<1>5. OneEach'
  BY <1>4 DEF Places, OneEach
<1>6. HeldOrHad'
  BY <1>1, <1>4 DEF Places, HeldOrHad, Kept
<1>7. OnIsThere'
  BY <1>1, <1>2 DEF Places, OnIsThere, HasHere
<1>8. HereIsOn' /\ NotYet' /\ Named'
  BY <1>1, <1>2 DEF Places, HereIsOn, NotYet, Named
<1>9. \A b, j \in Sockets : Asks(b, j)' => Asks(b, j) /\ b # k
  BY <1>3, AskIsOne DEF Asks
<1>10. Waits'
  <2> SUFFICES ASSUME NEW j \in Sockets, task'[j].at = "ask", Kept(task[j].s)'
               PROVE  \E b \in Sockets :
                         HasHere(b, task[j].s)' /\ (Asks(b, j)' \/ (task'[b].at = "settle" /\ task'[b].by = j))
    BY DEF Waits
  <2>1. j # k /\ task'[j] = task[j] /\ task[j].at = "ask" /\ Kept(task[j].s)
    BY <1>1, <1>2 DEF Kept
  <2>2. PICK b \in Sockets : HasHere(b, task[j].s) /\ (Asks(b, j) \/ (task[b].at = "settle" /\ task[b].by = j))
    BY <2>1 DEF Places, Waits
  <2>3. b # k
    BY <1>1, <2>2 DEF HasHere
  <2> QED
    BY <1>2, <1>3, <2>1, <2>2, <2>3 DEF HasHere, Asks
<1>11. Questions'
  BY <1>1, <1>2, <1>9 DEF Places, Questions, HasHere
<1> QED
  BY <1>5, <1>6, <1>7, <1>8, <1>10, <1>11 DEF Places

\* `LetGo`: a session that was held is gone, and no socket had it.
LEMMA LettingGoPlaces ==
    ASSUME Typed, Places, NEW i \in SessionIds, LetGo(i)
    PROVE  Places'
<1>1. slot[i].at = "off" /\ task' = task /\ ask' = ask
  BY DEF LetGo
<1>2. slot'[i].at = "none" /\ \A h \in SessionIds : h # i => slot'[h] = slot[h]
  BY DEF LetGo, Typed, TaskTyped, NoSlot
<1>3. sess'[i].is = "gone" /\ \A h \in SessionIds : h # i => sess'[h] = sess[h]
  <2>1. sess[i] \in Session
    BY DEF Typed, SessTyped
  <2> QED
    BY <2>1, EndingKeeps DEF LetGo, Typed, SessTyped
<1>4. Kept(i) /\ \A j \in Sockets : ~Has(j, i)
  BY <1>1 DEF Places, HeldOrHad
<1>5. OneEach'
  BY <1>1 DEF Places, OneEach, Has
<1>6. HeldOrHad'
  BY <1>1, <1>2, <1>3, <1>4 DEF Places, HeldOrHad, Has, Kept
<1>7. OnIsThere'
  BY <1>1, <1>2 DEF Places, OnIsThere, HasHere
<1>8. HereIsOn'
  BY <1>1, <1>2, <1>4 DEF Places, HereIsOn, Has
<1>9. NotYet' /\ Named'
  <2>1. \A j \in Sockets : j \in SessionIds
    BY DEF SessionIds
  <2>2. \A j \in Sockets : task[j].at = "none" \/ (task[j].at = "new" /\ task[j].s = 0) => j # i
    BY <1>4 DEF Places, NotYet, Kept
  <2>3. NotYet'
    BY <1>1, <1>3, <2>1, <2>2 DEF Places, NotYet
  <2>4. Named'
    BY <1>1, <1>3 DEF Places, Named
  <2> QED
    BY <2>3, <2>4
<1>10. Waits'
  BY <1>1, <1>3 DEF Places, Waits, Named, HasHere, Kept, Asks
<1>11. Questions'
  BY <1>1 DEF Places, Questions, HasHere, Asks
<1> QED
  BY <1>5, <1>6, <1>7, <1>8, <1>9, <1>10, <1>11 DEF Places

\* `Restart`: no session is anywhere.
LEMMA RestartPlaces ==
    ASSUME Typed, Places, Restart
    PROVE  Places'
<1>1. \A k \in Sockets : /\ task'[k].at \in {"none", "over"} /\ task'[k].by = 0
                         /\ task'[k].at = "none" => task[k].at = "none"
  BY DEF Restart, NoTask
<1>2. \A k \in Sockets : ask'[k] = <<>>
  BY DEF Restart
<1>3. \A i \in SessionIds : slot'[i].at = "none"
  BY DEF Restart, NoSlot
<1>4. \A i \in SessionIds : sess'[i].is # "kept" /\ (sess[i].is = "none" => sess'[i].is = "none")
  <2>1. \A i \in SessionIds : sess[i] \in Session
    BY DEF Typed, SessTyped
  <2>2. NoSession.is = "none"
    BY DEF NoSession
  <2> QED
    BY <2>1, <2>2, EndingKeeps DEF Restart
<1>5. OneEach' /\ HeldOrHad' /\ OnIsThere' /\ HereIsOn' /\ Named'
  BY <1>1, <1>3, <1>4 DEF OneEach, HeldOrHad, OnIsThere, HereIsOn, Named, Has, HasHere, Kept
<1>6. NotYet'
  <2>1. \A j \in Sockets : j \in SessionIds
    BY DEF SessionIds
  <2> QED
    BY <1>1, <1>4, <2>1 DEF Places, NotYet
<1>7. Waits' /\ Questions'
  BY <1>1, <1>2, AskIsOne DEF Waits, Questions, Asks
<1> QED
  BY <1>5, <1>6, <1>7 DEF Places

\* `Connect`: a new socket has no session yet.
LEMMA ConnectPlaces ==
    ASSUME Typed, Places, Connect
    PROVE  Places'
<1>1. PICK k \in Sockets :
        /\ task[k].at = "none"
        /\ task' = [task EXCEPT ![k] = [NoTask EXCEPT !.at = "new", !.s = phone.id,
                            !.from = IF phone.id = 0 THEN phone.origin ELSE phone.settledTo]]
  BY ConnectTyped
<1>2. task'[k].at = "new" /\ task'[k].by = 0 /\ \A j \in Sockets : j # k => task'[j] = task[j]
  BY <1>1 DEF Typed, TaskTyped, NoTask
<1>3. ask' = ask /\ slot' = slot /\ sess' = sess
  BY DEF Connect
<1>4. OneEach'
  BY <1>1, <1>2 DEF Places, OneEach, Has
<1>5. HeldOrHad'
  <2>1. \A j \in Sockets, h \in SessionIds : Has(j, h)' <=> Has(j, h)
    BY <1>1, <1>2 DEF Has
  <2> QED
    BY <1>3, <2>1 DEF Places, HeldOrHad, Kept
<1>6. OnIsThere'
  BY <1>1, <1>2, <1>3 DEF Places, OnIsThere, HasHere
<1>7. HereIsOn' /\ NotYet' /\ Named'
  BY <1>1, <1>2, <1>3 DEF Places, HereIsOn, NotYet, Named
<1>8. Waits'
  <2> SUFFICES ASSUME NEW j \in Sockets, task'[j].at = "ask", Kept(task[j].s)'
               PROVE  \E b \in Sockets :
                         HasHere(b, task[j].s)' /\ (Asks(b, j)' \/ (task'[b].at = "settle" /\ task'[b].by = j))
    BY DEF Waits
  <2>1. task'[j] = task[j] /\ task[j].at = "ask" /\ Kept(task[j].s)
    BY <1>2, <1>3 DEF Kept
  <2>2. PICK b \in Sockets : HasHere(b, task[j].s) /\ (Asks(b, j) \/ (task[b].at = "settle" /\ task[b].by = j))
    BY <2>1 DEF Places, Waits
  <2>3. b # k
    BY <1>1, <2>2 DEF HasHere
  <2> QED
    BY <1>2, <1>3, <2>1, <2>2, <2>3 DEF HasHere, Asks
<1>9. Questions'
  BY <1>1, <1>2, <1>3 DEF Places, Questions, HasHere, Asks
<1> QED
  BY <1>4, <1>5, <1>6, <1>7, <1>8, <1>9 DEF Places

\* Every step keeps the sessions in their places.
LEMMA SteppingPlaces ==
    ASSUME Typed, Places, [Next]_vars
    PROVE  Typed' /\ Places'
<1>1. CASE (Serve \/ ServerMishap) /\ UNCHANGED phoneVars
  <2>1. Typed'
    BY <1>1, ServingTyped
  <2>2. ASSUME NEW k \in Sockets, StopWaiting(k) \/ TimeIsUp(k) PROVE Places'
    <3>1. /\ task[k].at \in {"new", "ask", "late"} /\ task[k].at # "new"
          /\ NotFound(k) /\ UNCHANGED <<ask, slot, sess>>
      BY <2>2 DEF StopWaiting, TimeIsUp
    <3> QED
      BY <3>1, EndingPlaces
  <2>3. ASSUME NEW k \in Sockets, Fails(k) PROVE Places'
    BY <2>3, ForgetPlaces DEF Fails
  <2>4. Places'
    BY <1>1, <2>2, <2>3, FreshPlaces, ReconnectPlaces, ResumePlaces, HearingPlaces, LeavingPlaces, SettlePlaces, ByePlaces,
       LettingGoPlaces, RestartPlaces DEF Serve, ServerStep, ServerMishap
  <2> QED
    BY <2>1, <2>4
<1>2. CASE Connect
  BY <1>2, ConnectTyped, ConnectPlaces
<1>3. CASE OutOfReach \/ Read \/ LookAtFile \/ SendAudio \/ EndTurn \/ SendWhole \/ UserStep \/ PhoneMishap
  <2>1. Typed'
    BY SMTT(30), <1>3, ReadTyped, PhoneTurnsTyped
  <2>2. UNCHANGED serverVars
    BY <1>3 DEF OutOfReach, Read, LookAtFile, SendAudio, EndTurn, SendWhole, UserStep, Record, Stop, Cancel, PhoneMishap,
                Leave, Refused, AtTheMac
  <2>3. Places'
    BY <2>2, StayingPlaces DEF serverVars
  <2> QED
    BY <2>1, <2>3
<1>4. CASE ReadPartial \/ UNCHANGED vars
  <2>1. UNCHANGED <<up, down, open, task, ask, slot, sess, mishaps, recorded, stopped, phone>>
    BY <1>4 DEF ReadPartial, AtTheMac, vars, wire, serverVars, phoneVars
  <2>2. Typed'
    <3>1. owed' \in BOOLEAN
      BY <1>4 DEF ReadPartial, vars, phoneVars, Typed, PhoneTyped
    <3> QED
      BY <2>1, <3>1 DEF Typed, WireTyped, TaskTyped, SessTyped, PhoneTyped
  <2>3. Places'
    BY <2>1, StayingPlaces
  <2> QED
    BY <2>2, <2>3
<1> QED
  BY <1>1, <1>2, <1>3, <1>4 DEF Next, PhoneStep

\* At the start there is nothing anywhere.
LEMMA BeginningPlaces ==
    ASSUME Init
    PROVE  Typed /\ Places
<1>1. /\ up = [k \in Sockets |-> <<>>] /\ down = [k \in Sockets |-> <<>>] /\ task = [k \in Sockets |-> NoTask]
      /\ ask = [k \in Sockets |-> <<>>] /\ slot = [i \in SessionIds |-> NoSlot]
      /\ sess = [i \in SessionIds |-> NoSession] /\ open = {} /\ mishaps = 0
  BY DEF Init, RealtimeInit
<1>2. NoTask \in Task /\ NoTask.at = "none" /\ NoTask.by = 0 /\ NoSlot \in Slot /\ NoSlot.at = "none" /\ NoSession.is = "none"
  BY DEF NoTask, Task, TaskPlaces, NoSlot, Slot, NoSession
<1>3. WireTyped /\ TaskTyped /\ SessTyped
  BY <1>1, <1>2, NoSessionIsOne DEF WireTyped, TaskTyped, SessTyped
<1>4. PhoneTyped
  <2>1. phone = [at |-> "down", sock |-> 0, id |-> 0, origin |-> 0, settledTo |-> 0, sent |-> 0,
                 seen |-> {}, text |-> <<>>, committed |-> FALSE, ready |-> FALSE,
                 commitSent |-> FALSE, turn |-> -1, whole |-> FALSE, covers |-> 0]
        /\ recorded = 0 /\ stopped = FALSE
    BY DEF Init, SpeakInit
  <2>2. <<>> \in Seq(Nat) /\ {} \in SUBSET Nat /\ MaxWords \in Nat /\ MaxMishaps \in Nat
    BY RealtimeAssumption
  <2>3. phone \in Phone /\ phone.at = "down"
    BY <2>1, <2>2 DEF Phone, PhonePlaces
  <2>4. recorded \in 0..MaxWords /\ mishaps \in 0..MaxMishaps /\ stopped \in BOOLEAN
    <3>1. recorded = 0 /\ stopped = FALSE /\ mishaps = 0
      BY DEF Init, SpeakInit, RealtimeInit
    <3>2. MaxWords \in Nat /\ MaxMishaps \in Nat
      BY RealtimeAssumption
    <3>3. recorded \in 0..MaxWords /\ mishaps \in 0..MaxMishaps
      BY <3>1, <3>2
    <3>4. stopped \in BOOLEAN
      BY <3>1, Zenon
    <3> QED
      BY <3>3, <3>4
  <2>5. owed \in BOOLEAN
    BY DEF Init, SpeakInit
  <2> QED
    BY <2>3, <2>4, <2>5 DEF PhoneTyped
<1>5. \A k \in Sockets : task[k].at = "none" /\ task[k].by = 0 /\ ask[k] = <<>> /\ k \in SessionIds
  BY <1>1, <1>2 DEF SessionIds
<1>6. \A i \in SessionIds : slot[i].at = "none" /\ sess[i].is = "none"
  BY <1>1, <1>2
<1>7. Places
  BY <1>5, <1>6, AskIsOne DEF Places, OneEach, HeldOrHad, OnIsThere, HereIsOn, NotYet, Named, Waits, Questions,
     Has, HasHere, Kept, Asks
<1> QED
  BY <1>3, <1>4, <1>7 DEF Typed

\* The sessions are in their places whatever happens: what the theorems rest on.
THEOREM PlacesAreKept == Spec => [](Typed /\ Places)
<1>1. Init => Typed /\ Places
  BY BeginningPlaces
<1>2. Typed /\ Places /\ [Next]_vars => (Typed /\ Places)'
  BY SteppingPlaces
<1> QED
  BY <1>1, <1>2, PTL DEF Spec

\* A session is in one place at a time, run by one socket, on its way to one
\* or held (`park` and `take` in realtime.rs).
THEOREM SessionsAreInOnePlace == Spec => []OneHolder
<1>1. Typed /\ Places => OneHolder
  <2> SUFFICES ASSUME Typed, Places, NEW i \in SessionIds
               PROVE  /\ Cardinality(Holders(i)) + (IF slot[i].at = "off" THEN 1 ELSE 0)
                            = (IF sess[i].is = "kept" THEN 1 ELSE 0)
                      /\ slot[i].at = "on" => Holders(i) # {}
    BY DEF OneHolder
  <2>1. Holders(i) = {k \in Sockets : Has(k, i)}
    BY DEF Holders, Has
  <2>2. Cardinality({}) = 0 /\ \A k : Cardinality({k}) = 1
    BY FS_EmptySet, FS_Singleton
  <2>3. CASE Holders(i) = {}
    BY <2>1, <2>2, <2>3 DEF Places, HeldOrHad, OnIsThere, Has, HasHere, Kept
  <2>4. CASE Holders(i) # {}
    <3>1. PICK k \in Sockets : Has(k, i)
      BY <2>1, <2>4
    <3>2. Holders(i) = {k}
      BY <2>1, <3>1 DEF Places, OneEach
    <3>3. Kept(i) /\ slot[i].at # "off"
      BY <3>1 DEF Places, HeldOrHad
    <3>4. Cardinality(Holders(i)) = 1
      BY <2>2, <3>2
    <3> QED
      BY <2>4, <3>3, <3>4 DEF Kept
  <2> QED
    BY <2>3, <2>4
<1> QED
  BY <1>1, PlacesAreKept, PTL

\* A reconnect that waits for its session is handed it: it does not wait
\* while it is held (the comment in `park`).
THEOREM WaitingIsForTheRunning == Spec => []NobodyWaitsForTheHeld
<1>1. Typed /\ Places => NobodyWaitsForTheHeld
  <2> SUFFICES ASSUME Typed, Places, NEW k \in Sockets, task[k].at = "ask"
               PROVE  slot[task[k].s].at # "off"
    BY DEF NobodyWaitsForTheHeld
  <2>1. task[k].s \in SessionIds
    BY DEF Places, Named
  <2>2. ASSUME slot[task[k].s].at = "off" PROVE FALSE
    <3>1. Kept(task[k].s) /\ \A b \in Sockets : ~Has(b, task[k].s)
      BY <2>1, <2>2 DEF Places, HeldOrHad
    <3>2. \E b \in Sockets : HasHere(b, task[k].s)
      BY <3>1 DEF Places, Waits
    <3> QED
      BY <3>1, <3>2 DEF Has, HasHere
  <2> QED
    BY <2>2
<1> QED
  BY <1>1, PlacesAreKept, PTL

(***************************************************************************)
(* What the sessions hear                                                  *)
(***************************************************************************)
Early == {"new", "ask", "late", "given"}
Hellos == {"created", "resumed"}
Saids == {"delta", "committed", "completed"}
Live == phone.at \in {"up", "down"}

\* On its way to a session each sample follows on from what came before it,
\* at the place the session will have come to by then; the last of them is
\* what the phone has sent.
Follows(m, x, y, base) ==
    /\ m.kind = "offset" => y = m.n
    /\ m.kind = "audio" => m.n = base + x + 1 /\ y = x + 1
    /\ m.kind \notin {"audio", "offset"} => y = x
Follow(k, f) ==
    /\ f[0] = sess[task[k].s].next
    /\ \A p \in 1..Len(up[k]) : Follows(up[k][p], f[p - 1], f[p], sess[task[k].s].base)
    /\ phone.at = "up" /\ phone.sock = k /\ phone.ready => f[Len(up[k])] = phone.sent
WiresFollow == \A k \in Sockets : task[k].at = "run" => \E f \in [0..Len(up[k]) -> Nat] : Follow(k, f)

\* A socket that is not answered yet has heard nothing but a close, and said nothing.
Quiet ==
    \A k \in Sockets :
        task[k].at \in Early \cup {"none"} =>
            down[k] = <<>> /\ \A p \in DOMAIN up[k] : up[k][p].kind = "close"

\* The phone and the session it knows, or is to be told of, begin at the same
\* sample of the take.
PhoneNamed == phone.id # 0 => sess[phone.id].is # "none" /\ sess[phone.id].base = phone.origin
Told(m) ==
    /\ m.kind \in Hellos => sess[m.id].is # "none" /\ sess[m.id].base = phone.origin
    /\ m.kind \in Hellos \cup Saids => phone.origin + m.at <= recorded
OnTheSocket ==
    phone.at = "up" =>
        /\ task[phone.sock].at # "none"
        /\ task[phone.sock].at \in Early => task[phone.sock].s = phone.id /\ ~phone.ready
        /\ task[phone.sock].at = "new" /\ task[phone.sock].s = 0 => task[phone.sock].from = phone.origin
        /\ task[phone.sock].at = "run" => sess[task[phone.sock].s].base = phone.origin
        /\ \A p \in DOMAIN down[phone.sock] : Told(down[phone.sock][p])
Turning == (phone.ready => phone.at = "up") /\ (phone.turn # -1 => phone.ready)

\* Nothing is beyond what was recorded.
PhoneWithin ==
    phone.origin + phone.settledTo <= recorded /\ phone.origin + phone.sent <= recorded /\ phone.turn <= recorded
FromWithin ==
    \A k \in Sockets :
        /\ task[k].from <= MaxWords
        /\ Live /\ task[k].at = "new" /\ task[k].s = 0 => task[k].from <= recorded
SessionsWithin == Live => \A i \in SessionIds : sess[i].base + Len(sess[i].pcm) <= recorded
AudioWithin ==
    Live => \A k \in Sockets : \A p \in DOMAIN up[k] : up[k][p].kind = "audio" => up[k][p].n <= recorded
Logged == \A i \in SessionIds : \A p \in DOMAIN sess[i].log : sess[i].log[p].at <= sess[i].heard

\* Only a session that began has a place in the take.
Unbegun == \A i \in SessionIds : sess[i].is = "none" => sess[i].base = 0

Words ==
    /\ HeardInPlace /\ WiresFollow /\ Quiet /\ PhoneNamed /\ OnTheSocket /\ Turning
    /\ PhoneWithin /\ FromWithin /\ SessionsWithin /\ AudioWithin /\ Logged /\ Unbegun

\* What a step makes of a session when it hears nothing: it has what it had,
\* or nothing.
Carries(s, t) ==
    /\ t.base = s.base /\ (s.is # "none" => t.is # "none") /\ (t.pcm = s.pcm \/ t.pcm = <<>>)
    /\ \A p \in DOMAIN t.log : t.log[p].at <= t.heard

LoggedIn(s) == \A p \in DOMAIN s.log : s.log[p].at <= s.heard

\* What the server does to a session, other than hear, carries it on.
LEMMA CarryingOn ==
    ASSUME NEW s \in Session, MarksInOrder(s), LoggedIn(s)
    PROVE  /\ Carries(s, s) /\ Carries(s, Begin(s)) /\ Carries(s, Ended(s)) /\ LoggedIn(Begin(s))
           /\ \A to \in MaySettle(s) : Carries(s, Listened(s, to)) /\ LoggedIn(Listened(s, to))
<1>1. Carries(s, s)
  BY DEF Carries, LoggedIn
<1>2. Begin(s) \in Session /\ Begin(s).is = s.is /\ Begin(s).base = s.base /\ Begin(s).pcm = s.pcm
      /\ Begin(s).log = s.log /\ Begin(s).heard >= s.heard /\ Begin(s).heard \in Nat /\ s.heard \in Nat
      /\ s.log \in Seq(Said)
  BY BeginningKeeps DEF Session
<1>3. \A p \in DOMAIN s.log : s.log[p].at \in Nat /\ s.log[p].at <= s.heard
  <2>1. \A p \in DOMAIN s.log : s.log[p] \in Said
    BY <1>2
  <2> QED
    BY <2>1 DEF Said, LoggedIn
<1>4. \A p \in DOMAIN s.log : s.log[p].at <= Begin(s).heard
  BY <1>2, <1>3
<1>5. Carries(s, Begin(s)) /\ LoggedIn(Begin(s))
  BY <1>2, <1>4 DEF Carries, LoggedIn
<1>6. Carries(s, Ended(s))
  <2>1. Ended(s).log = <<>>
    BY DEF Ended, NoSession
  <2> QED
    BY <2>1, EndingKeeps DEF Carries
<1>7. ASSUME NEW to \in MaySettle(s)
      PROVE  Carries(s, Listened(s, to)) /\ LoggedIn(Listened(s, to))
  <2> DEFINE out == Events(s, to)
  <2>1. out \in Seq(Said) /\ (\A p \in DOMAIN out : out[p].at = s.heard) /\ Listened(s, to).log = s.log \o out
        /\ Listened(s, to).heard = s.heard /\ Listened(s, to).is = s.is /\ Listened(s, to).base = s.base
        /\ Listened(s, to).pcm = s.pcm
    BY <1>7, ListeningKeeps
  <2> HIDE DEF out
  <2>2. \A p \in DOMAIN (s.log \o out) : (s.log \o out)[p].at <= s.heard
    <3> SUFFICES ASSUME NEW p \in DOMAIN (s.log \o out) PROVE (s.log \o out)[p].at <= s.heard
      OBVIOUS
    <3>1. CASE p \in DOMAIN s.log
      <4>1. (s.log \o out)[p] = s.log[p]
        BY <1>2, <2>1, <3>1
      <4> QED
        BY <1>3, <3>1, <4>1
    <3>2. CASE p \notin DOMAIN s.log
      <4>1. p - Len(s.log) \in DOMAIN out /\ (s.log \o out)[p] = out[p - Len(s.log)]
        BY <1>2, <2>1, <3>2
      <4> QED
        BY <1>2, <2>1, <4>1
    <3> QED
      BY <3>1, <3>2
  <2> QED
    BY <2>1, <2>2 DEF Carries, LoggedIn
<1> QED
  BY <1>1, <1>5, <1>6, <1>7

\* What a step says on a socket: of a session only what it has heard.
SaysWhatItHas(k) ==
    \A p \in DOMAIN down'[k] :
        \/ p \in DOMAIN down[k] /\ down'[k][p] = down[k][p]
        \/ down'[k][p] \in Notice
        \/ /\ down'[k][p] \in Said /\ task'[k].at = "run"
           /\ down'[k][p].at <= Len(sess'[task'[k].s].pcm)

\* What a step makes of a socket that it begins no session on, and reads nothing from.
Remains(j) ==
    /\ task'[j].from \in {task[j].from, 0}
    /\ task'[j].at = "none" <=> task[j].at = "none"
    /\ task'[j].at \in Early =>
        /\ task[j].at \in Early /\ task'[j].s = task[j].s /\ task'[j].from = task[j].from
        /\ task'[j].at = "new" => task[j].at = "new"
    /\ task'[j].at = "run" =>
        /\ task[j].at = "run" /\ task'[j].s = task[j].s /\ up'[j] = up[j]
        /\ sess'[task[j].s].next = sess[task[j].s].next

\* A server step that begins no session on a socket and hears nothing leaves
\* the words where they are.
LEMMA Undisturbed ==
    ASSUME Typed, Typed', Places, Places', Words, UNCHANGED phoneVars,
           \A i \in SessionIds : Carries(sess[i], sess'[i]),
           \A k \in Sockets : Remains(k),
           \A k \in Sockets : up'[k] = up[k] \/ up'[k] = <<>>,
           \A k \in Sockets : SaysWhatItHas(k) /\ (task'[k].at \in Early \cup {"none"} => down'[k] = down[k])
    PROVE  Words'
<1> USE DEF Remains
<1>1. phone' = phone /\ recorded' = recorded /\ stopped' = stopped /\ (Live' <=> Live)
  BY DEF phoneVars, Live
<1>2. \A i \in SessionIds :
        /\ sess'[i].base = sess[i].base /\ (sess[i].is # "none" => sess'[i].is # "none")
        /\ sess'[i].pcm = sess[i].pcm \/ sess'[i].pcm = <<>>
        /\ sess[i].base \in Nat /\ Len(sess[i].pcm) \in Nat /\ Len(sess'[i].pcm) \in Nat
        /\ Len(sess'[i].pcm) <= Len(sess[i].pcm)
  <2> SUFFICES ASSUME NEW i \in SessionIds
               PROVE  /\ sess'[i].base = sess[i].base /\ (sess[i].is # "none" => sess'[i].is # "none")
                      /\ sess'[i].pcm = sess[i].pcm \/ sess'[i].pcm = <<>>
                      /\ sess[i].base \in Nat /\ Len(sess[i].pcm) \in Nat /\ Len(sess'[i].pcm) \in Nat
                      /\ Len(sess'[i].pcm) <= Len(sess[i].pcm)
    OBVIOUS
  <2>1. sess[i] \in Session
    BY DEF Typed, SessTyped
  <2>2. sess[i].base \in Nat /\ sess[i].pcm \in Seq(Nat) /\ Len(sess[i].pcm) \in Nat
    BY <2>1 DEF Session
  <2>3. sess'[i].base = sess[i].base /\ (sess[i].is # "none" => sess'[i].is # "none")
        /\ (sess'[i].pcm = sess[i].pcm \/ sess'[i].pcm = <<>>)
    BY DEF Carries
  <2> QED
    BY <2>2, <2>3
<1>3. HeardInPlace'
  BY <1>2 DEF HeardInPlace, Words
<1>4. Logged'
  BY DEF Carries, Logged
<1>5. WiresFollow'
  <2> SUFFICES ASSUME NEW k \in Sockets, task'[k].at = "run"
               PROVE  \E f \in [0..Len(up'[k]) -> Nat] : Follow(k, f)'
    BY DEF WiresFollow
  <2>1. task[k].at = "run" /\ task'[k].s = task[k].s /\ up'[k] = up[k]
        /\ sess'[task[k].s].next = sess[task[k].s].next /\ task[k].s \in SessionIds
    BY DEF Places, HereIsOn
  <2>2. PICK f \in [0..Len(up[k]) -> Nat] : Follow(k, f)
    BY <2>1 DEF Words, WiresFollow
  <2>3. sess'[task[k].s].base = sess[task[k].s].base
    BY <1>2, <2>1
  <2>4. Follow(k, f)'
    BY <1>1, <2>1, <2>2, <2>3 DEF Follow
  <2> QED
    BY <2>1, <2>4
<1>6. Quiet'
  <2> SUFFICES ASSUME NEW k \in Sockets, task'[k].at \in Early \cup {"none"}
               PROVE  down'[k] = <<>> /\ \A p \in DOMAIN up'[k] : up'[k][p].kind = "close"
    BY DEF Quiet
  <2>1. task[k].at \in Early \cup {"none"} /\ down'[k] = down[k]
    OBVIOUS
  <2> QED
    BY <2>1 DEF Words, Quiet
<1>7. PhoneNamed'
  <2>1. phone.id \in {0} \cup SessionIds
    BY DEF Typed, PhoneTyped, Phone
  <2> QED
    BY <1>1, <1>2, <2>1 DEF Words, PhoneNamed
<1>8. SessionsWithin'
  <2> SUFFICES ASSUME Live, NEW i \in SessionIds
               PROVE  sess'[i].base + Len(sess'[i].pcm) <= recorded
    BY <1>1 DEF SessionsWithin
  <2>1. sess[i].base + Len(sess[i].pcm) <= recorded /\ recorded \in Nat
    BY DEF Words, SessionsWithin, Typed, PhoneTyped
  <2> QED
    BY SMTT(30), <1>2, <2>1
<1>9. OnTheSocket'
  <2> SUFFICES ASSUME phone.at = "up"
               PROVE  /\ task'[phone.sock].at # "none"
                      /\ task'[phone.sock].at \in Early => task'[phone.sock].s = phone.id /\ ~phone.ready
                      /\ task'[phone.sock].at = "new" /\ task'[phone.sock].s = 0 => task'[phone.sock].from = phone.origin
                      /\ task'[phone.sock].at = "run" => sess'[task'[phone.sock].s].base = phone.origin
                      /\ \A p \in DOMAIN down'[phone.sock] : Told(down[phone.sock][p])'
    BY <1>1 DEF OnTheSocket
  <2>1. phone.sock \in Sockets
    BY DEF Typed, PhoneTyped
  <2>2. PICK k \in Sockets : k = phone.sock
    BY <2>1
  <2>3. task'[k].at # "none"
    BY <2>2 DEF Words, OnTheSocket
  <2>4. task'[k].at \in Early => task'[k].s = phone.id /\ ~phone.ready
    BY <2>2 DEF Words, OnTheSocket
  <2>5. task'[k].at = "new" /\ task'[k].s = 0 => task'[k].from = phone.origin
    BY <2>2 DEF Words, OnTheSocket, Early
  <2>6. task'[k].at = "run" => sess'[task'[k].s].base = phone.origin
    <3>1. task[k].at = "run" => task[k].s \in SessionIds
      BY DEF Places, HereIsOn
    <3> QED
      BY <1>2, <2>2, <3>1 DEF Words, OnTheSocket
  <2>7. ASSUME NEW p \in DOMAIN down'[k]
        PROVE  Told(down[k][p])'
    <3> DEFINE m == down'[k][p]
    <3>0. m \in DownMessage
      BY <2>7 DEF Typed, WireTyped
    <3> SUFFICES /\ m.kind \in Hellos => sess'[m.id].is # "none" /\ sess'[m.id].base = phone.origin
                 /\ m.kind \in Hellos \cup Saids => phone.origin + m.at <= recorded
      BY <1>1 DEF Told
    <3>1. CASE p \in DOMAIN down[k] /\ down'[k][p] = down[k][p]
      <4>1. Told(m)
        BY <2>2, <3>1 DEF Words, OnTheSocket
      <4>2. m.kind \in Hellos => m.id \in SessionIds
        BY <3>0 DEF DownMessage, Hello, Said, Notice, Hellos
      <4> HIDE DEF m
      <4> QED
        BY <1>2, <4>1, <4>2 DEF Told
    <3>2. CASE m \in Notice
      BY <3>2 DEF Notice, Hellos, Saids
    <3>3. CASE /\ m \in Said /\ task'[k].at = "run"
               /\ m.at <= Len(sess'[task'[k].s].pcm)
      <4>1. m.kind \notin Hellos /\ m.at \in Nat
        BY <3>3 DEF Said, Hellos
      <4>2. task'[k].s \in SessionIds /\ sess'[task'[k].s].base = phone.origin
        BY <2>6, <3>3 DEF Places, HereIsOn
      <4>3. sess'[task'[k].s].base + Len(sess'[task'[k].s].pcm) <= recorded
        <5>1. Live'
          BY <1>1 DEF Live
        <5> QED
          BY <1>1, <1>8, <4>2, <5>1 DEF SessionsWithin
      <4>4. phone.origin \in Nat /\ Len(sess'[task'[k].s].pcm) \in Nat /\ recorded \in Nat
        <5>1. phone.origin \in Nat /\ recorded \in Nat
          BY DEF Typed, PhoneTyped, Phone
        <5> QED
          BY <1>2, <4>2, <5>1
      <4> HIDE DEF m
      <4> QED
        BY <3>3, <4>1, <4>2, <4>3, <4>4
    <3> QED
      BY <3>1, <3>2, <3>3 DEF SaysWhatItHas
  <2> QED
    BY <1>1, <2>2, <2>3, <2>4, <2>5, <2>6, <2>7
<1>10. Turning' /\ PhoneWithin'
  BY <1>1 DEF Words, Turning, PhoneWithin
<1>11. FromWithin'
  <2> SUFFICES ASSUME NEW k \in Sockets
               PROVE  /\ task'[k].from <= MaxWords
                      /\ Live /\ task'[k].at = "new" /\ task'[k].s = 0 => task'[k].from <= recorded
    BY <1>1 DEF FromWithin
  <2>1. task'[k].from <= MaxWords
    BY RealtimeAssumption DEF Words, FromWithin
  <2>2. Live /\ task'[k].at = "new" /\ task'[k].s = 0 => task'[k].from <= recorded
    BY DEF Words, FromWithin, Early
  <2> QED
    BY <2>1, <2>2
<1>12. AudioWithin'
  <2> SUFFICES ASSUME Live, NEW k \in Sockets, NEW p \in DOMAIN up'[k], up'[k][p].kind = "audio"
               PROVE  up'[k][p].n <= recorded
    BY <1>1 DEF AudioWithin
  <2>1. up'[k] = up[k]
    OBVIOUS
  <2> QED
    BY <2>1 DEF Words, AudioWithin
<1>13. Unbegun'
  BY <1>2 DEF Words, Unbegun
<1> QED
  BY <1>3, <1>4, <1>5, <1>6, <1>7, <1>8, <1>9, <1>10, <1>11, <1>12, <1>13 DEF Words

\* What is sent on a socket comes after what was on its way; nothing else changes.
LEMMA SendingAdds ==
    ASSUME WireTyped, NEW k \in Sockets, NEW out \in Seq(DownMessage), Sent(k, out)
    PROVE  /\ \A j \in Sockets : j # k => down'[j] = down[j]
           /\ \A p \in DOMAIN down'[k] :
                \/ p \in DOMAIN down[k] /\ down'[k][p] = down[k][p]
                \/ \E q \in DOMAIN out : down'[k][p] = out[q]
<1>1. CASE down' = down
  BY <1>1
<1>2. CASE down' = [down EXCEPT ![k] = down[k] \o out]
  <2>1. down[k] \in Seq(DownMessage) /\ down'[k] = down[k] \o out /\ \A j \in Sockets : j # k => down'[j] = down[j]
    BY <1>2 DEF WireTyped
  <2>2. ASSUME NEW p \in DOMAIN down'[k], p \notin DOMAIN down[k]
        PROVE  p - Len(down[k]) \in DOMAIN out /\ down'[k][p] = out[p - Len(down[k])]
    BY <2>1, <2>2
  <2>3. ASSUME NEW p \in DOMAIN down'[k], p \in DOMAIN down[k]
        PROVE  down'[k][p] = down[k][p]
    BY <2>1, <2>3
  <2> QED
    BY <2>1, <2>2, <2>3
<1> QED
  BY <1>1, <1>2 DEF Sent

\* A notice says nothing of a session.
LEMMA NoticesSayNothing ==
    ASSUME WireTyped, NEW k \in Sockets,
           NEW kind \in {"session_not_found", "audio_gap", "session_taken", "failed", "too_far_behind"},
           Sent(k, <<Message(kind)>>)
    PROVE  (\A j \in Sockets : SaysWhatItHas(j)) /\ \A j \in Sockets : j # k => down'[j] = down[j]
<1>1. Message(kind) \in Notice
  BY MessagesAre
<1>2. <<Message(kind)>> \in Seq(DownMessage)
  BY <1>1 DEF DownMessage
<1> DEFINE out == <<Message(kind)>>
<1>3. \A q \in DOMAIN out : out[q] \in Notice
  BY <1>1
<1> HIDE DEF out
<1>4. /\ \A j \in Sockets : j # k => down'[j] = down[j]
      /\ \A p \in DOMAIN down'[k] :
            \/ p \in DOMAIN down[k] /\ down'[k][p] = down[k][p]
            \/ \E q \in DOMAIN out : down'[k][p] = out[q]
  BY <1>2, SendingAdds DEF out
<1> QED
  BY <1>3, <1>4 DEF SaysWhatItHas

\* A step that says nothing on any socket.
LEMMA SilenceSaysNothing ==
    ASSUME UNCHANGED down
    PROVE  \A j \in Sockets : SaysWhatItHas(j)
BY DEF SaysWhatItHas

\* A step that changes no session carries them all on; one that changes one, as it does.
LEMMA CarryingAll ==
    ASSUME Typed, Words
    PROVE  /\ UNCHANGED sess => \A i \in SessionIds : Carries(sess[i], sess'[i])
           /\ \A i \in SessionIds : \A s :
                sess' = [sess EXCEPT ![i] = s] /\ Carries(sess[i], s) =>
                    \A h \in SessionIds : Carries(sess[h], sess'[h])
           /\ \A i \in SessionIds : sess[i] \in Session /\ MarksInOrder(sess[i]) /\ LoggedIn(sess[i])
<1>1. \A i \in SessionIds : sess[i] \in Session /\ MarksInOrder(sess[i]) /\ LoggedIn(sess[i])
  BY DEF Typed, SessTyped, Words, Logged, LoggedIn
<1>2. \A i \in SessionIds : Carries(sess[i], sess[i])
  BY <1>1, CarryingOn
<1>3. sess \in [SessionIds -> Session]
  BY SMTT(30) DEF Typed, SessTyped
<1> QED
  BY <1>1, <1>2, <1>3

\* A reconnect is told where its session is, or that there is none.
LEMMA AskingWords ==
    ASSUME Typed, Typed', Places, Places', Words, UNCHANGED phoneVars, NEW k \in Sockets,
           Reconnect(k) \/ StopWaiting(k) \/ TimeIsUp(k)
    PROVE  Words'
<1>1. UNCHANGED <<up, sess>> /\ task[k].at \in {"new", "ask", "late"} /\ (task[k].at # "new" \/ task[k].s # 0)
  BY DEF Reconnect, StopWaiting, TimeIsUp, Smoothly
<1>2. \A i \in SessionIds : Carries(sess[i], sess'[i])
  BY <1>1, CarryingAll
<1>3. CASE NotFound(k)
  <2>1. task'[k].at = "over" /\ task'[k].from = 0 /\ \A j \in Sockets : j # k => task'[j] = task[j]
    BY <1>3 DEF NotFound, NoTask, Typed, TaskTyped
  <2>2. (\A j \in Sockets : SaysWhatItHas(j)) /\ \A j \in Sockets : j # k => down'[j] = down[j]
    BY <1>3, NoticesSayNothing DEF NotFound, Typed
  <2>3. \A j \in Sockets : Remains(j)
    BY <1>1, <2>1 DEF Early, Remains
  <2>4. \A j \in Sockets : task'[j].at \in Early \cup {"none"} => down'[j] = down[j]
    BY <2>1, <2>2 DEF Early
  <2> QED
    BY <1>1, <1>2, <2>2, <2>3, <2>4, Undisturbed
<1>4. CASE \E at \in {"given", "ask", "late"} : task' = [task EXCEPT ![k].at = at] /\ UNCHANGED down
  <2>1. /\ task'[k].at \in {"given", "ask", "late"} /\ task'[k].from = task[k].from /\ task'[k].s = task[k].s
        /\ \A j \in Sockets : j # k => task'[j] = task[j]
    BY <1>4 DEF Typed, TaskTyped, Task
  <2>2. \A j \in Sockets : Remains(j)
    BY <1>1, <2>1 DEF Early, Remains
  <2> QED
    BY <1>1, <1>2, <1>4, <2>2, SilenceSaysNothing, Undisturbed
<1> QED
  BY <1>3, <1>4 DEF Reconnect, StopWaiting, TimeIsUp, Take

\* A session that is forgotten has no words.
LEMMA ForgetWords ==
    ASSUME Typed, Typed', Places, Places', Words, UNCHANGED phoneVars, NEW k \in Sockets,
           Running(k) \/ task[k].at = "settle", NEW at \in {"over", "bye"}, Forget(k, at),
           \A j \in Sockets : up'[j] = up[j] \/ (j = k /\ up'[j] = <<>>),
           \A j \in Sockets : SaysWhatItHas(j), \A j \in Sockets : j # k => down'[j] = down[j]
    PROVE  Words'
<1>1. task[k].s \in SessionIds /\ task[k].at \in {"run", "settle"}
  BY DEF Running, Places, HereIsOn
<1>2. PICK i \in SessionIds : i = task[k].s
  BY <1>1
<1>3. task'[k].at = at /\ task'[k].from = 0 /\ \A j \in Sockets : j # k => task'[j] = task[j]
  BY DEF Forget, NoTask, Typed, TaskTyped
<1>4. sess' = [sess EXCEPT ![i] = Ended(sess[i])]
  BY <1>2 DEF Forget
<1>5. \A h \in SessionIds : Carries(sess[h], sess'[h])
  BY <1>4, CarryingAll, CarryingOn
<1>6. \A h \in SessionIds : h # i => sess'[h] = sess[h]
  BY <1>4 DEF Typed, SessTyped
<1>7. \A j \in Sockets : j # k /\ task[j].at = "run" => task[j].s \in SessionIds /\ task[j].s # i
  BY <1>1, <1>2 DEF Places, OneEach, HereIsOn, Has
<1>8. \A j \in Sockets : Remains(j)
  <2> SUFFICES ASSUME NEW j \in Sockets
               PROVE  Remains(j)
    OBVIOUS
  <2>1. CASE j = k
    BY <1>1, <1>3, <2>1 DEF Early, Remains
  <2>2. CASE j # k
    BY <1>3, <1>6, <1>7, <2>2 DEF Remains
  <2> QED
    BY <2>1, <2>2
<1>9. \A j \in Sockets : task'[j].at \in Early \cup {"none"} => down'[j] = down[j]
  BY <1>3 DEF Early
<1> QED
  BY <1>5, <1>8, <1>9, Undisturbed

\* A socket whose task is left alone remains; and so does one that goes on to
\* what is neither early nor the loop.
LEMMA Remaining ==
    /\ \A j \in Sockets :
            task'[j] = task[j] /\ (task[j].at = "run" => up'[j] = up[j] /\ sess'[task[j].s].next = sess[task[j].s].next)
                => Remains(j)
    /\ \A j \in Sockets :
            task[j].at # "none" /\ task'[j].at \notin Early \cup {"run", "none"} /\ task'[j].from \in {task[j].from, 0}
                => Remains(j)
BY DEF Remains

\* A socket that stops reading has the words it had.
LEMMA LeavingWords ==
    ASSUME Typed, Typed', Places, Places', Words, UNCHANGED phoneVars, NEW k \in Sockets, Drops(k) \/ AskedFor(k)
    PROVE  Words'
<1>1. UNCHANGED <<down, sess>> /\ ReadsNoMore(k) /\ task[k].at = "run"
  BY DEF Drops, AskedFor, Running
<1>2. \A j \in Sockets : (j # k => up'[j] = up[j]) /\ (up'[j] = up[j] \/ up'[j] = <<>>)
  BY <1>1 DEF ReadsNoMore, Typed, WireTyped
<1>3. task'[k].at = "settle" /\ task'[k].from = task[k].from /\ \A j \in Sockets : j # k => task'[j] = task[j]
  <2>1. CASE Drops(k)
    BY <2>1 DEF Drops, Typed, TaskTyped, Task
  <2>2. CASE AskedFor(k)
    <3>1. PICK by : by = Head(ask[k])
      OBVIOUS
    <3>2. task' = [task EXCEPT ![k].at = "settle", ![k].by = by]
      BY <2>2, <3>1 DEF AskedFor
    <3> QED
      BY <3>2 DEF Typed, TaskTyped, Task
  <2> QED
    BY <2>1, <2>2
<1>4. \A j \in Sockets : Remains(j)
  BY <1>1, <1>2, <1>3, Remaining DEF Early
<1> QED
  BY <1>1, <1>2, <1>4, CarryingAll, SilenceSaysNothing, Undisturbed

\* So does one whose update failed, or that is too far behind.
LEMMA FailsWords ==
    ASSUME Typed, Typed', Places, Places', Words, UNCHANGED phoneVars, NEW k \in Sockets, Fails(k)
    PROVE  Words'
<1>1. PICK kind \in {"failed", "too_far_behind"} : Sent(k, <<Message(kind)>>)
  BY DEF Fails
<1>2. (\A j \in Sockets : SaysWhatItHas(j)) /\ \A j \in Sockets : j # k => down'[j] = down[j]
  BY <1>1, NoticesSayNothing DEF Typed
<1>3. \A j \in Sockets : up'[j] = up[j] \/ (j = k /\ up'[j] = <<>>)
  BY DEF Fails, ReadsNoMore, Typed, WireTyped
<1> QED
  BY <1>2, <1>3, ForgetWords DEF Fails

\* An update begins on what there is.
LEMMA TickWords ==
    ASSUME Typed, Typed', Places, Places', Words, UNCHANGED phoneVars, NEW k \in Sockets, Tick(k)
    PROVE  Words'
<1>1. task[k].s \in SessionIds
  BY DEF Tick, Running, Places, HereIsOn
<1>2. PICK i \in SessionIds : i = task[k].s
  BY <1>1
<1>3. sess' = [sess EXCEPT ![i] = Begin(sess[i])] /\ UNCHANGED <<down, task, up>>
  BY <1>2 DEF Tick, Smoothly
<1>4. sess[i] \in Session /\ MarksInOrder(sess[i]) /\ LoggedIn(sess[i])
  BY CarryingAll
<1>5. Carries(sess[i], Begin(sess[i])) /\ Begin(sess[i]).next = sess[i].next
  BY <1>4, CarryingOn, BeginningKeeps
<1>6. \A h \in SessionIds : Carries(sess[h], sess'[h])
  BY <1>3, <1>5, CarryingAll
<1>7. \A h \in SessionIds : sess'[h].next = sess[h].next
  BY <1>3, <1>5 DEF Typed, SessTyped
<1>8. \A j \in Sockets : task[j].at = "run" => task[j].s \in SessionIds
  BY DEF Places, HereIsOn
<1>9. \A j \in Sockets : Remains(j)
  BY <1>3, <1>7, <1>8, Remaining
<1> QED
  BY <1>3, <1>6, <1>9, SilenceSaysNothing, Undisturbed

\* An update says what is settled of what it heard.
LEMMA UpdatedWords ==
    ASSUME Typed, Typed', Places, Places', Words, UNCHANGED phoneVars, NEW k \in Sockets, Updated(k)
    PROVE  Words'
<1>1. task[k].s \in SessionIds /\ task[k].at = "run"
  BY DEF Updated, Running, Places, HereIsOn
<1>2. PICK i \in SessionIds : i = task[k].s
  BY <1>1
<1>3. sess[i] \in Session /\ MarksInOrder(sess[i]) /\ LoggedIn(sess[i])
  BY CarryingAll
<1>4. PICK to \in MaySettle(sess[i]) :
        /\ sess' = [sess EXCEPT ![i] = LET s == Listened(sess[i], to)
                                       IN  IF s.commit \/ Len(s.pcm) - s.heard >= MostAtOnce THEN Begin(s) ELSE s]
        /\ Sent(k, Events(sess[i], to))
  BY <1>2 DEF Updated, Mine
<1>5. UNCHANGED <<task, up>>
  BY DEF Updated, Smoothly
<1>6. PICK t : t = LET s == Listened(sess[i], to)
                   IN  IF s.commit \/ Len(s.pcm) - s.heard >= MostAtOnce THEN Begin(s) ELSE s
  OBVIOUS
<1>7. t.next = sess[i].next /\ t.pcm = sess[i].pcm
  BY <1>3, <1>6, UpdatingKeeps
<1>8. Carries(sess[i], t)
  <2>1. PICK l : l = Listened(sess[i], to)
    OBVIOUS
  <2>2. Carries(sess[i], l) /\ LoggedIn(l) /\ l \in Session /\ MarksInOrder(l)
    BY <1>3, <2>1, CarryingOn, ListeningKeeps
  <2>3. Carries(l, Begin(l)) /\ t \in {l, Begin(l)}
    BY <1>6, <2>1, <2>2, CarryingOn
  <2> QED
    BY <2>2, <2>3 DEF Carries
<1>9. sess' = [sess EXCEPT ![i] = t]
  BY <1>4, <1>6
<1>10. \A h \in SessionIds : Carries(sess[h], sess'[h])
  BY <1>8, <1>9, CarryingAll
<1>11. sess'[i] = t /\ \A h \in SessionIds : sess'[h].next = sess[h].next
  BY <1>7, <1>9 DEF Typed, SessTyped
<1>12. \A j \in Sockets : task[j].at = "run" => task[j].s \in SessionIds
  BY DEF Places, HereIsOn
<1>13. \A j \in Sockets : Remains(j)
  BY <1>5, <1>11, <1>12, Remaining
<1>14. PICK out : out = Events(sess[i], to)
  OBVIOUS
<1>15. out \in Seq(Said) /\ \A q \in DOMAIN out : out[q].at = sess[i].heard
  BY <1>3, <1>14, ListeningKeeps
<1>16. sess[i].heard <= Len(sess'[i].pcm)
  BY <1>3, <1>7, <1>11 DEF MarksInOrder
<1>17. /\ \A j \in Sockets : j # k => down'[j] = down[j]
       /\ \A p \in DOMAIN down'[k] :
            \/ p \in DOMAIN down[k] /\ down'[k][p] = down[k][p]
            \/ \E q \in DOMAIN out : down'[k][p] = out[q]
  <2>1. out \in Seq(DownMessage) /\ Sent(k, out)
    BY <1>4, <1>14, <1>15 DEF DownMessage
  <2> QED
    BY <2>1, SendingAdds DEF Typed
<1>18. \A q \in DOMAIN out : out[q] \in Said /\ out[q].at <= Len(sess'[i].pcm)
  BY <1>15, <1>16
<1>19. \A j \in Sockets : SaysWhatItHas(j)
  BY <1>1, <1>2, <1>5, <1>17, <1>18 DEF SaysWhatItHas
<1>20. \A j \in Sockets : task'[j].at \in Early \cup {"none"} => down'[j] = down[j]
  BY <1>1, <1>5, <1>17 DEF Early
<1> QED
  BY <1>5, <1>10, <1>13, <1>19, <1>20, Undisturbed

\* The socket whose session was taken is told.
LEMMA ByeWords ==
    ASSUME Typed, Typed', Places, Places', Words, UNCHANGED phoneVars, NEW k \in Sockets, Bye(k)
    PROVE  Words'
<1>1. task'[k].at = "over" /\ task'[k].from = task[k].from /\ task[k].at = "bye"
      /\ \A j \in Sockets : j # k => task'[j] = task[j]
  BY DEF Bye, Typed, TaskTyped, Task
<1>2. UNCHANGED <<sess, up>>
  BY DEF Bye, Smoothly
<1>3. (\A j \in Sockets : SaysWhatItHas(j)) /\ \A j \in Sockets : j # k => down'[j] = down[j]
  BY NoticesSayNothing DEF Bye, Typed
<1>4. \A j \in Sockets : Remains(j)
  BY <1>1, <1>2, Remaining DEF Early
<1>5. \A j \in Sockets : task'[j].at \in Early \cup {"none"} => down'[j] = down[j]
  BY <1>1, <1>3 DEF Early
<1> QED
  BY <1>2, <1>3, <1>4, <1>5, CarryingAll, Undisturbed

\* A held session that nobody comes back for is had by nobody.
LEMMA LettingGoWords ==
    ASSUME Typed, Typed', Places, Places', Words, UNCHANGED phoneVars, NEW i \in SessionIds, LetGo(i)
    PROVE  Words'
<1>1. sess' = [sess EXCEPT ![i] = Ended(sess[i])] /\ UNCHANGED <<task, up, down>>
  BY DEF LetGo, wire
<1>2. \A h \in SessionIds : Carries(sess[h], sess'[h])
  BY <1>1, CarryingAll, CarryingOn
<1>3. \A j \in Sockets : task[j].at = "run" => task[j].s \in SessionIds /\ task[j].s # i
  BY DEF LetGo, Places, HereIsOn
<1>4. \A h \in SessionIds : h # i => sess'[h] = sess[h]
  BY <1>1 DEF Typed, SessTyped
<1>5. \A j \in Sockets : Remains(j)
  BY <1>1, <1>3, <1>4, Remaining
<1> QED
  BY <1>1, <1>2, <1>5, SilenceSaysNothing, Undisturbed

\* After a restart there are no words but the phone's.
LEMMA RestartWords ==
    ASSUME Typed, Typed', Places, Places', Words, UNCHANGED phoneVars, Restart
    PROVE  Words'
<1>1. \A j \in Sockets : up'[j] = <<>> /\ task'[j] = IF task[j].at = "none" THEN NoTask ELSE [NoTask EXCEPT !.at = "over"]
  BY DEF Restart
<1>2. UNCHANGED down
  BY DEF Restart
<1>3. \A j \in Sockets : Remains(j) /\ task'[j].at \notin Early
  BY <1>1 DEF Remains, NoTask, Early
<1>4. \A h \in SessionIds : Carries(sess[h], sess'[h])
  <2> SUFFICES ASSUME NEW h \in SessionIds PROVE Carries(sess[h], sess'[h])
    OBVIOUS
  <2>1. sess[h] \in Session /\ MarksInOrder(sess[h]) /\ LoggedIn(sess[h])
    BY CarryingAll
  <2>2. CASE sess[h].is = "none"
    <3>1. sess'[h] = NoSession
      BY <2>2 DEF Restart
    <3>2. sess[h].base = 0
      BY <2>2 DEF Words, Unbegun
    <3> QED
      BY <2>2, <3>1, <3>2 DEF Carries, NoSession
  <2>3. CASE sess[h].is # "none"
    <3>1. sess'[h] = Ended(sess[h])
      BY <2>3 DEF Restart
    <3> QED
      BY <2>1, <3>1, CarryingOn
  <2> QED
    BY <2>2, <2>3
<1> QED
  BY <1>1, <1>2, <1>3, <1>4, SilenceSaysNothing, Undisturbed

\* A session that is handed on leaves the sockets where they are, but for the
\* one that has it now, and the one that had it.
LEMMA HandingOnRemains ==
    ASSUME Typed, NEW k \in Sockets, task[k].at = "settle", HandOn(k), UNCHANGED up,
           \A j \in Sockets : task[j].at = "run" => sess'[task[j].s].next = sess[task[j].s].next
    PROVE  \A j \in Sockets : Remains(j)
<1>1. PICK by \in {0} \cup Sockets : by = task[k].by
  BY DEF Typed, TaskTyped, Task
<1>2. PICK me : me = [NoTask EXCEPT !.at = IF by = 0 THEN "over" ELSE "bye"]
  OBVIOUS
<1>3. PICK t : t = [task EXCEPT ![k] = me]
  OBVIOUS
<1>4. task \in [Sockets -> Task] /\ ask \in [Sockets -> Seq(Sockets)] /\ 0 \notin Sockets
  BY DEF Typed, TaskTyped, Sockets
<1>5. me.at \in {"bye", "over"} /\ me.from = 0
  BY <1>2 DEF NoTask
<1>6. t[k] = me /\ DOMAIN t = Sockets /\ \A j \in Sockets : j # k => t[j] = task[j]
  BY <1>3, <1>4
<1>7. \A x \in Task :
        LET g == [x EXCEPT !.at = "given"]
            l == [x EXCEPT !.at = "late"]
        IN  g.at = "given" /\ g.s = x.s /\ g.from = x.from /\ l.at = "late" /\ l.s = x.s /\ l.from = x.from
  BY DEF Task
<1>8. \A j \in Sockets :
        \/ task'[j] = t[j]
        \/ j # k /\ task[j].at = "ask" /\ task'[j] \in {[task[j] EXCEPT !.at = "given"], [task[j] EXCEPT !.at = "late"]}
  <2> DEFINE late == {k2 \in Sockets : ask[k] = <<k2>> /\ task[k2].at = "ask"}
  <2>1. CASE by # 0 /\ task[by].at = "ask"
    <3>1. task' = [k2 \in Sockets |-> IF k2 = by THEN [t[by] EXCEPT !.at = "given"]
                                      ELSE IF k2 \in late THEN [t[k2] EXCEPT !.at = "late"]
                                      ELSE t[k2]]
      BY <1>1, <1>2, <1>3, <2>1 DEF HandOn
    <3>2. by \in Sockets /\ by # k /\ k \notin late
      BY <2>1
    <3>3. \A j \in late : j # k /\ task[j].at = "ask"
      OBVIOUS
    <3> HIDE DEF late
    <3> QED
      BY <1>6, <2>1, <3>1, <3>2, <3>3
  <2>2. CASE ~(by # 0 /\ task[by].at = "ask")
    <3>1. Park(k, t, ask[k])
      BY <1>1, <1>2, <1>3, <2>2 DEF HandOn
    <3>2. CASE ask[k] # <<>> /\ task[Head(ask[k])].at = "ask"
      <4>1. PICK n : n = Head(ask[k])
        OBVIOUS
      <4>2. task' = [t EXCEPT ![n].at = "given"] /\ task[n].at = "ask" /\ n # k
        BY <3>1, <3>2, <4>1 DEF Park
      <4> QED
        BY <1>6, <4>2
    <3>3. CASE ~(ask[k] # <<>> /\ task[Head(ask[k])].at = "ask")
      BY <3>1, <3>3 DEF Park
    <3> QED
      BY <3>2, <3>3
  <2> QED
    BY <2>1, <2>2
<1> SUFFICES ASSUME NEW j \in Sockets PROVE Remains(j)
  OBVIOUS
<1>9. CASE j = k /\ task'[j] = t[j]
  BY <1>5, <1>6, <1>9, Remaining DEF Early
<1>10. CASE j # k /\ task'[j] = t[j]
  BY <1>6, <1>10, Remaining
<1>11. CASE j # k /\ task[j].at = "ask" /\ task'[j] \in {[task[j] EXCEPT !.at = "given"], [task[j] EXCEPT !.at = "late"]}
  <2>1. task[j] \in Task
    BY <1>4
  <2>2. task'[j].at \in {"given", "late"} /\ task'[j].s = task[j].s /\ task'[j].from = task[j].from
    BY ZenonT(40), <1>7, <1>11, <2>1
  <2> QED
    BY <1>11, <2>2 DEF Remains, Early
<1> QED
  BY <1>8, <1>9, <1>10, <1>11

\* A session that settles and goes where it is wanted has the words it had.
LEMMA SettleWords ==
    ASSUME Typed, Typed', Places, Places', Words, UNCHANGED phoneVars, NEW k \in Sockets, Settle(k)
    PROVE  Words'
<1>1. task[k].at = "settle" /\ task[k].s \in SessionIds /\ UNCHANGED <<up, down>>
  BY DEF Settle, wire, Places, HereIsOn
<1>2. PICK i \in SessionIds : i = task[k].s
  BY <1>1
<1>3. sess[i] \in Session /\ MarksInOrder(sess[i]) /\ LoggedIn(sess[i])
  BY CarryingAll
<1>4. \A j \in Sockets : task[j].at = "run" => task[j].s \in SessionIds
  BY DEF Places, HereIsOn
<1>5. CASE HandOn(k) /\ UNCHANGED sess
  <2>1. \A j \in Sockets : Remains(j)
    BY <1>1, <1>5, HandingOnRemains
  <2> QED
    BY <1>1, <1>5, <2>1, CarryingAll, SilenceSaysNothing, Undisturbed
<1>6. CASE HandOn(k) /\ \E to \in MaySettle(sess[i]) : sess' = [sess EXCEPT ![i] = Listened(sess[i], to)]
  <2>1. PICK to \in MaySettle(sess[i]) : sess' = [sess EXCEPT ![i] = Listened(sess[i], to)]
    BY <1>6
  <2>2. PICK t : t = Listened(sess[i], to)
    OBVIOUS
  <2>3. Carries(sess[i], t) /\ t.next = sess[i].next
    BY <1>3, <2>2, CarryingOn, ListeningKeeps
  <2>4. sess' = [sess EXCEPT ![i] = t]
    BY <2>1, <2>2
  <2>5. \A h \in SessionIds : Carries(sess[h], sess'[h])
    BY <2>3, <2>4, CarryingAll
  <2>6. \A h \in SessionIds : sess'[h].next = sess[h].next
    BY <2>3, <2>4 DEF Typed, SessTyped
  <2>7. \A j \in Sockets : task[j].at = "run" => sess'[task[j].s].next = sess[task[j].s].next
    BY <1>4, <2>6
  <2>8. \A j \in Sockets : Remains(j)
    BY <1>1, <1>6, <2>7, HandingOnRemains
  <2> QED
    BY <1>1, <2>5, <2>8, SilenceSaysNothing, Undisturbed
<1>7. CASE Forget(k, IF task[k].by = 0 THEN "over" ELSE "bye")
  <2>1. PICK at \in {"over", "bye"} : Forget(k, at)
    BY <1>7
  <2> QED
    BY <1>1, <2>1, SilenceSaysNothing, ForgetWords
<1> QED
  BY <1>2, <1>5, <1>6, <1>7 DEF Settle, Mine

\* A socket that begins on a session hears nothing but a close before the
\* phone has its first message, and says of the session what it has.
LEMMA StartingWords ==
    ASSUME Typed, Typed', Places, Places', Words, UNCHANGED <<phoneVars, up>>, NEW k \in Sockets, NEW i \in SessionIds,
           task[k].at \in Early, task'[k].at = "run", task'[k].s = i, task'[k].from = 0,
           \A j \in Sockets : j # k => task'[j] = task[j] /\ down'[j] = down[j],
           \A h \in SessionIds : h # i => sess'[h] = sess[h],
           sess'[i].is # "none", sess[i].is # "none" => sess'[i].base = sess[i].base,
           \A n \in DOMAIN sess'[i].pcm : sess'[i].pcm[n] = sess'[i].base + n,
           \A p \in DOMAIN sess'[i].log : sess'[i].log[p].at <= sess'[i].heard,
           Live => sess'[i].base + Len(sess'[i].pcm) <= recorded,
           phone.at = "up" /\ phone.sock = k => sess'[i].base = phone.origin,
           \A p \in DOMAIN down'[k] : down'[k][p].at <= Len(sess'[i].pcm) /\ (down'[k][p].kind \in Hellos => down'[k][p].id = i)
    PROVE  Words'
<1>1. phone' = phone /\ recorded' = recorded /\ up' = up /\ (Live' <=> Live)
  BY DEF phoneVars, Live
<1>2. \A p \in DOMAIN up[k] : up[k][p].kind = "close"
  BY DEF Words, Quiet
<1>3. sess'[i] \in Session /\ sess'[i].next \in Nat /\ sess'[i].base \in Nat /\ Len(sess'[i].pcm) \in Nat
  <2>1. sess'[i] \in Session
    BY DEF Typed, SessTyped
  <2>2. sess'[i].next \in Nat /\ sess'[i].base \in Nat /\ sess'[i].pcm \in Seq(Nat)
    BY <2>1 DEF Session
  <2> QED
    BY <2>1, <2>2
<1>4. \A j \in Sockets : j # k /\ task[j].at = "run" => task[j].s \in SessionIds /\ task[j].s # i
  <2> SUFFICES ASSUME NEW j \in Sockets, j # k, task[j].at = "run" PROVE task[j].s \in SessionIds /\ task[j].s # i
    OBVIOUS
  <2>1. task'[j] = task[j]
    OBVIOUS
  <2>2. Has(k, i)' /\ (task[j].s = i => Has(j, i)')
    BY <2>1 DEF Has
  <2> QED
    BY <2>2 DEF Places, OneEach, HereIsOn
<1>5. HeardInPlace' /\ Logged' /\ Unbegun'
  BY DEF Words, HeardInPlace, Logged, Unbegun
<1>6. WiresFollow'
  <2> SUFFICES ASSUME NEW j \in Sockets, task'[j].at = "run"
               PROVE  \E f \in [0..Len(up'[j]) -> Nat] : Follow(j, f)'
    BY DEF WiresFollow
  <2>1. CASE j = k
    <3> PICK f : f = [x \in 0..Len(up[k]) |-> sess'[i].next]
      OBVIOUS
    <3>1. f \in [0..Len(up[k]) -> Nat]
      BY <1>3
    <3>2. Len(up[k]) \in Nat /\ DOMAIN up[k] = 1..Len(up[k])
      BY DEF Typed, WireTyped
    <3>3. f[0] = sess'[i].next
      BY <3>2
    <3>4. \A p \in 1..Len(up[k]) : f[p] = f[p - 1]
      BY <3>2
    <3>5. \A p \in 1..Len(up[k]) : up[k][p].kind = "close"
      BY <1>2, <3>2
    <3>6. \A p \in 1..Len(up[k]) : Follows(up[k][p], f[p - 1], f[p], sess'[i].base)
      BY <3>4, <3>5 DEF Follows
    <3>7. ~(phone.at = "up" /\ phone.sock = k /\ phone.ready)
      BY DEF Words, OnTheSocket
    <3>8. Follow(k, f)'
      BY <1>1, <3>3, <3>6, <3>7 DEF Follow
    <3> QED
      BY <1>1, <2>1, <3>1, <3>8
  <2>2. CASE j # k
    <3>1. task'[j] = task[j] /\ task[j].at = "run" /\ sess'[task[j].s] = sess[task[j].s]
      BY <1>4, <2>2
    <3>2. PICK f \in [0..Len(up[j]) -> Nat] : Follow(j, f)
      BY <3>1 DEF Words, WiresFollow
    <3>3. Follow(j, f)'
      BY <1>1, <3>1, <3>2 DEF Follow
    <3> QED
      BY <1>1, <3>3
  <2> QED
    BY <2>1, <2>2
<1>7. Quiet'
  <2> SUFFICES ASSUME NEW j \in Sockets, task'[j].at \in Early \cup {"none"}
               PROVE  down'[j] = <<>> /\ \A p \in DOMAIN up'[j] : up'[j][p].kind = "close"
    BY DEF Quiet
  <2>1. j # k
    BY DEF Early
  <2> QED
    BY <1>1, <2>1 DEF Words, Quiet
<1>8. \A h \in SessionIds : sess[h].is # "none" => sess'[h].is # "none" /\ sess'[h].base = sess[h].base
  OBVIOUS
<1>9. PhoneNamed'
  <2>1. phone.id \in {0} \cup SessionIds
    BY DEF Typed, PhoneTyped, Phone
  <2> QED
    BY <1>1, <1>8, <2>1 DEF Words, PhoneNamed
<1>10. OnTheSocket'
  <2> SUFFICES ASSUME phone.at = "up"
               PROVE  /\ task'[phone.sock].at # "none"
                      /\ task'[phone.sock].at \in Early => task'[phone.sock].s = phone.id /\ ~phone.ready
                      /\ task'[phone.sock].at = "new" /\ task'[phone.sock].s = 0 => task'[phone.sock].from = phone.origin
                      /\ task'[phone.sock].at = "run" => sess'[task'[phone.sock].s].base = phone.origin
                      /\ \A p \in DOMAIN down'[phone.sock] : Told(down[phone.sock][p])'
    BY <1>1 DEF OnTheSocket
  <2>1. PICK j \in Sockets : j = phone.sock
    BY DEF Typed, PhoneTyped
  <2>2. CASE j # k
    <3>1. task'[j] = task[j] /\ down'[j] = down[j] /\ (task[j].at = "run" => sess'[task[j].s] = sess[task[j].s])
      BY <1>4, <2>2
    <3>2. ASSUME NEW p \in DOMAIN down'[j] PROVE Told(down[j][p])'
      <4>1. PICK m : m = down[j][p] /\ m = down'[j][p]
        BY <3>1
      <4>2. m \in DownMessage
        BY <3>1, <3>2, <4>1 DEF Typed, WireTyped
      <4>3. m.kind \in Hellos => m.id \in SessionIds
        BY <4>2 DEF DownMessage, Hello, Said, Notice, Hellos
      <4>4. Told(m)
        BY <2>1, <3>1, <3>2, <4>1 DEF Words, OnTheSocket
      <4> QED
        BY <1>1, <1>8, <4>1, <4>3, <4>4 DEF Told
    <3>3. /\ task[j].at # "none"
          /\ task[j].at \in Early => task[j].s = phone.id /\ ~phone.ready
          /\ task[j].at = "new" /\ task[j].s = 0 => task[j].from = phone.origin
          /\ task[j].at = "run" => sess[task[j].s].base = phone.origin
      BY <2>1 DEF Words, OnTheSocket
    <3> QED
      BY <1>1, <2>1, <3>1, <3>2, <3>3
  <2>3. CASE j = k
    <3>1. sess'[i].base = phone.origin /\ sess'[i].base + Len(sess'[i].pcm) <= recorded
      BY <2>1, <2>3 DEF Live
    <3>2. ASSUME NEW p \in DOMAIN down'[k] PROVE Told(down[k][p])'
      <4>1. PICK m : m = down'[k][p]
        OBVIOUS
      <4>2. m \in DownMessage
        BY <3>2, <4>1 DEF Typed, WireTyped
      <4>3. m.at \in Nat
        BY <4>2 DEF DownMessage, Hello, Said, Notice
      <4>4. m.at <= Len(sess'[i].pcm) /\ (m.kind \in Hellos => m.id = i)
        BY <3>2, <4>1
      <4>5. phone.origin \in Nat /\ recorded \in Nat
        BY DEF Typed, PhoneTyped, Phone
      <4>6. phone.origin + m.at <= recorded
        BY <1>3, <3>1, <4>3, <4>4, <4>5
      <4> QED
        BY <1>1, <3>1, <4>1, <4>4, <4>6 DEF Told
    <3> QED
      BY <1>1, <2>1, <2>3, <3>1, <3>2 DEF Early
  <2> QED
    BY <2>2, <2>3
<1>11. Turning' /\ PhoneWithin'
  BY <1>1 DEF Words, Turning, PhoneWithin
<1>12. FromWithin'
  <2> SUFFICES ASSUME NEW j \in Sockets
               PROVE  /\ task'[j].from <= MaxWords
                      /\ Live /\ task'[j].at = "new" /\ task'[j].s = 0 => task'[j].from <= recorded
    BY <1>1 DEF FromWithin
  <2>1. CASE j = k
    BY <2>1, RealtimeAssumption
  <2>2. CASE j # k
    BY <2>2 DEF Words, FromWithin
  <2> QED
    BY <2>1, <2>2
<1>13. SessionsWithin'
  BY <1>1 DEF Words, SessionsWithin
<1>14. AudioWithin'
  BY <1>1 DEF Words, AudioWithin
<1> QED
  BY <1>5, <1>6, <1>7, <1>9, <1>10, <1>11, <1>12, <1>13, <1>14 DEF Words

\* A new session begins where the phone asked.
LEMMA FreshWords ==
    ASSUME Typed, Typed', Places, Places', Words, UNCHANGED phoneVars, NEW k \in Sockets, Fresh(k)
    PROVE  Words'
<1> USE DEF SessionIds
<1>1. task[k].at = "new" /\ task[k].s = 0 /\ up' = up /\ sess[k].is = "none" /\ down[k] = <<>>
  BY DEF Fresh, Smoothly, Places, NotYet, Words, Quiet, Early
<1>2. PICK new : new = [NoSession EXCEPT !.is = "kept", !.base = task[k].from]
  OBVIOUS
<1>3. new.is = "kept" /\ new.base = task[k].from /\ new.pcm = <<>> /\ new.log = <<>>
  BY <1>2 DEF NoSession
<1>4. sess'[k] = new /\ \A h \in SessionIds : h # k => sess'[h] = sess[h]
  BY <1>2 DEF Fresh, Typed, SessTyped
<1>5. task'[k].at = "run" /\ task'[k].s = k /\ task'[k].from = 0 /\ \A j \in Sockets : j # k => task'[j] = task[j]
  BY DEF Fresh, Typed, TaskTyped, Task
<1>6. PICK hello : hello = [Message("created") EXCEPT !.id = k, !.item = 1]
  OBVIOUS
<1>7. hello.at = 0 /\ hello.id = k
  BY <1>6 DEF Message
<1>8. (\A j \in Sockets : j # k => down'[j] = down[j]) /\ \A p \in DOMAIN down'[k] : down'[k][p] = hello
  <2>1. hello \in Hello
    BY <1>6, MessagesAre
  <2>2. PICK out : out = <<hello>>
    OBVIOUS
  <2>3. out \in Seq(DownMessage) /\ Sent(k, out) /\ \A q \in DOMAIN out : out[q] = hello
    BY <1>6, <2>1, <2>2 DEF Fresh, DownMessage
  <2>4. /\ \A j \in Sockets : j # k => down'[j] = down[j]
        /\ \A p \in DOMAIN down'[k] :
             \/ p \in DOMAIN down[k] /\ down'[k][p] = down[k][p]
             \/ \E q \in DOMAIN out : down'[k][p] = out[q]
    BY <2>3, SendingAdds DEF Typed
  <2> QED
    BY <1>1, <2>3, <2>4
<1>9. task[k].from \in Nat
  BY DEF Typed, TaskTyped, Task
<1>10. Live => new.base + Len(new.pcm) <= recorded
  <2>1. Live => task[k].from <= recorded /\ recorded \in Nat
    BY <1>1 DEF Words, FromWithin, Typed, PhoneTyped
  <2>2. Len(new.pcm) = 0
    BY <1>3
  <2> QED
    BY <1>3, <1>9, <2>1, <2>2
<1>11. phone.at = "up" /\ phone.sock = k => new.base = phone.origin
  BY <1>1, <1>3 DEF Words, OnTheSocket
<1>12. \A p \in DOMAIN down'[k] : down'[k][p].at <= Len(new.pcm) /\ (down'[k][p].kind \in Hellos => down'[k][p].id = k)
  BY <1>3, <1>7, <1>8
<1>13. (\A n \in DOMAIN new.pcm : new.pcm[n] = new.base + n) /\ \A p \in DOMAIN new.log : new.log[p].at <= new.heard
  BY <1>3
<1> QED
  BY <1>1, <1>3, <1>4, <1>5, <1>8, <1>10, <1>11, <1>12, <1>13, StartingWords DEF Early

\* A session that is resumed says how much of it there is, and what was
\* settled since.
LEMMA ResumeWords ==
    ASSUME Typed, Typed', Places, Places', Words, UNCHANGED phoneVars, NEW k \in Sockets, Resume(k)
    PROVE  Words'
<1>1. PICK i \in SessionIds : i = task[k].s
  BY ZenonT(40) DEF Resume, Places, Named
<1>2. task[k].at = "given" /\ up' = up /\ down[k] = <<>> /\ sess[i].is = "kept"
  BY <1>1 DEF Resume, Smoothly, Words, Quiet, Early, Places, HeldOrHad, Has, Kept
<1>3. sess[i] \in Session /\ MarksInOrder(sess[i]) /\ LoggedIn(sess[i]) /\ task[k].from \in Nat
  BY CarryingAll DEF Typed, TaskTyped, Task
<1>4. sess[i].heard \in Nat /\ Len(sess[i].pcm) \in Nat /\ sess[i].heard <= Len(sess[i].pcm) /\ sess[i].log \in Seq(Said)
      /\ sess[i].item \in Nat
  BY <1>3 DEF Session, MarksInOrder
<1>5. PICK log : log = Again(sess[i].log, task[k].from)
  OBVIOUS
<1>6. log \in Seq(Said) /\ \A p \in DOMAIN log : log[p] \in Said /\ log[p].at <= sess[i].heard
  <2>1. log \in Seq(Said) /\ \A p \in DOMAIN log : \E q \in DOMAIN sess[i].log : log[p] = sess[i].log[q]
    BY <1>3, <1>4, <1>5, SendingAgainKeeps
  <2> QED
    BY <1>3, <2>1 DEF LoggedIn
<1>7. PICK n : n = Len(sess[i].pcm)
  BY ZenonT(40)
<1>8. PICK t : t = [sess[i] EXCEPT !.next = n, !.log = log]
  OBVIOUS
<1>9. t.is = "kept" /\ t.base = sess[i].base /\ t.pcm = sess[i].pcm /\ t.heard = sess[i].heard /\ t.log = log
  BY SMTT(30), <1>2, <1>3, <1>8 DEF Session
<1>10. sess'[i] = t /\ \A h \in SessionIds : h # i => sess'[h] = sess[h]
  BY <1>1, <1>5, <1>7, <1>8 DEF Resume, Typed, SessTyped
<1>11. task'[k].at = "run" /\ task'[k].s = i /\ task'[k].from = 0 /\ \A j \in Sockets : j # k => task'[j] = task[j]
  BY <1>1 DEF Resume, Typed, TaskTyped, Task
<1>12. PICK hello : hello = [Message("resumed") EXCEPT !.id = i, !.at = n, !.item = sess[i].item]
  OBVIOUS
<1>13. hello \in Hello /\ hello.id = i /\ hello.at = n
  BY <1>4, <1>7, <1>12, MessagesAre DEF Message
<1>14. PICK out : out = <<hello>> \o log
  OBVIOUS
<1>15. out \in Seq(DownMessage) /\ \A q \in DOMAIN out : out[q] = hello \/ \E p \in DOMAIN log : out[q] = log[p]
  <2>1. <<hello>> \in Seq(DownMessage) /\ log \in Seq(DownMessage)
    BY <1>6, <1>13 DEF DownMessage
  <2>2. out \in Seq(DownMessage)
    BY <1>14, <2>1
  <2>3. ASSUME NEW q \in DOMAIN out PROVE out[q] = hello \/ \E p \in DOMAIN log : out[q] = log[p]
    <3>1. CASE q = 1
      BY <1>14, <2>1, <3>1
    <3>2. CASE q # 1
      <4>1. q - 1 \in DOMAIN log /\ out[q] = log[q - 1]
        BY SMTT(30), <1>14, <2>1, <2>3, <3>2
      <4> QED
        BY <4>1
    <3> QED
      BY <3>1, <3>2
  <2> QED
    BY <2>2, <2>3
<1>16. Sent(k, out)
  BY <1>1, <1>5, <1>7, <1>12, <1>14 DEF Resume
<1>17. (\A j \in Sockets : j # k => down'[j] = down[j]) /\ \A p \in DOMAIN down'[k] : \E q \in DOMAIN out : down'[k][p] = out[q]
  <2>1. /\ \A j \in Sockets : j # k => down'[j] = down[j]
        /\ \A p \in DOMAIN down'[k] :
             \/ p \in DOMAIN down[k] /\ down'[k][p] = down[k][p]
             \/ \E q \in DOMAIN out : down'[k][p] = out[q]
    BY <1>15, <1>16, SendingAdds DEF Typed
  <2> QED
    BY <1>2, <2>1
<1>18. \A p \in DOMAIN log : log[p].at <= Len(t.pcm) /\ log[p].kind \notin Hellos
  <2>1. \A p \in DOMAIN log : log[p].at \in Nat /\ log[p].kind \notin Hellos
    BY <1>6 DEF Said, Hellos
  <2> QED
    BY <1>4, <1>6, <1>9, <2>1
<1>19. hello.at <= Len(t.pcm)
  BY <1>4, <1>7, <1>9, <1>13
<1>20. \A p \in DOMAIN down'[k] : down'[k][p].at <= Len(t.pcm) /\ (down'[k][p].kind \in Hellos => down'[k][p].id = i)
  BY <1>13, <1>15, <1>17, <1>18, <1>19
<1>21. phone.at = "up" /\ phone.sock = k => t.base = phone.origin
  <2>1. phone.at = "up" /\ phone.sock = k => i = phone.id /\ i # 0
    BY <1>1, <1>2 DEF Words, OnTheSocket, Early, SessionIds, Sockets
  <2> QED
    BY <1>9, <2>1 DEF Words, PhoneNamed
<1>22. Live => t.base + Len(t.pcm) <= recorded
  BY <1>9 DEF Words, SessionsWithin
<1>23. \A m \in DOMAIN t.pcm : t.pcm[m] = t.base + m
  BY <1>9 DEF Words, HeardInPlace
<1>24. \A p \in DOMAIN t.log : t.log[p].at <= t.heard
  BY <1>6, <1>9
<1> QED
  BY SMTT(30), <1>2, <1>9, <1>10, <1>11, <1>17, <1>20, <1>21, <1>22, <1>23, <1>24, StartingWords DEF Early

\* A socket that reads a message makes of it what it says, and the rest
\* follow on.
LEMMA TakingWords ==
    ASSUME Typed, Typed', Places, Places', Words, UNCHANGED <<phoneVars, task>>, NEW k \in Sockets, NEW i \in SessionIds,
           task[k].at = "run", task[k].s = i, up[k] # <<>>, up' = [up EXCEPT ![k] = Tail(up[k])],
           \A h \in SessionIds : h # i => sess'[h] = sess[h],
           sess'[i].is = sess[i].is, sess'[i].base = sess[i].base, sess'[i].log = sess[i].log, sess'[i].heard = sess[i].heard,
           \A y \in Nat : Follows(Head(up[k]), sess[i].next, y, sess[i].base) => sess'[i].next = y,
           \A n \in DOMAIN sess'[i].pcm : sess'[i].pcm[n] = sess'[i].base + n,
           Live => sess'[i].base + Len(sess'[i].pcm) <= recorded,
           \A j \in Sockets : j # k => down'[j] = down[j],
           \A p \in DOMAIN down'[k] : (p \in DOMAIN down[k] /\ down'[k][p] = down[k][p]) \/ down'[k][p] \in Notice
    PROVE  Words'
<1>1. phone' = phone /\ recorded' = recorded /\ task' = task /\ (Live' <=> Live)
  BY DEF phoneVars, Live
<1>2. \A j \in Sockets : j # k /\ task[j].at = "run" => task[j].s \in SessionIds /\ task[j].s # i
  BY DEF Places, OneEach, HereIsOn, Has
<1>3. \A h \in SessionIds : sess'[h].base = sess[h].base /\ sess'[h].is = sess[h].is
  OBVIOUS
<1>4. HeardInPlace' /\ Logged' /\ Unbegun' /\ SessionsWithin'
  BY <1>1 DEF Words, HeardInPlace, Logged, Unbegun, SessionsWithin
<1>5. up[k] \in Seq(UpMessage) /\ up'[k] = Tail(up[k]) /\ \A j \in Sockets : j # k => up'[j] = up[j]
  BY DEF Typed, WireTyped
<1>6. PICK l \in Nat : l = Len(up[k]) - 1
  <2>1. \A u \in Seq(UpMessage) : u # <<>> => Len(u) - 1 \in Nat
    OBVIOUS
  <2> QED
    BY <1>5, <2>1
<1>7. Len(up[k]) = l + 1 /\ DOMAIN up[k] = 1..l + 1 /\ Head(up[k]) = up[k][1] /\ Len(up'[k]) = l /\ DOMAIN up'[k] = 1..l
      /\ \A p \in 1..l : up'[k][p] = up[k][p + 1]
  <2>1. PICK u \in Seq(UpMessage) : u = up[k] /\ u # <<>>
    BY <1>5
  <2>2. Len(u) = l + 1 /\ Tail(u) \in Seq(UpMessage) /\ Len(Tail(u)) = Len(u) - 1 /\ Head(u) = u[1]
        /\ \A p \in 1..Len(u) - 1 : Tail(u)[p] = u[p + 1]
    BY <1>6, <2>1, HeadTailProperties
  <2>3. Len(u) - 1 = l
    BY <1>6, <2>1
  <2>4. DOMAIN u = 1..Len(u) /\ DOMAIN Tail(u) = 1..Len(Tail(u))
    BY <2>2
  <2>5. Tail(u) = up'[k]
    BY <1>5, <2>1
  <2> HIDE DEF UpMessage
  <2> QED
    BY ZenonT(40), <2>1, <2>2, <2>3, <2>4, <2>5
<1>8. WiresFollow'
  <2> SUFFICES ASSUME NEW j \in Sockets, task[j].at = "run"
               PROVE  \E f \in [0..Len(up'[j]) -> Nat] : Follow(j, f)'
    BY <1>1 DEF WiresFollow
  <2>1. PICK f \in [0..Len(up[j]) -> Nat] : Follow(j, f)
    BY DEF Words, WiresFollow
  <2>2. CASE j # k
    <3>1. sess'[task[j].s] = sess[task[j].s] /\ up'[j] = up[j]
      BY <1>2, <1>5, <2>2
    <3>2. Follow(j, f)'
      BY <1>1, <2>1, <3>1 DEF Follow
    <3> QED
      BY <2>1, <3>1, <3>2
  <2>3. CASE j = k
    <3>1. /\ f \in [0..l + 1 -> Nat] /\ f[0] = sess[i].next
          /\ \A p \in 1..l + 1 : Follows(up[k][p], f[p - 1], f[p], sess[i].base)
          /\ phone.at = "up" /\ phone.sock = k /\ phone.ready => f[l + 1] = phone.sent
      BY <1>7, <2>1, <2>3 DEF Follow
    <3> PICK g : g = [x \in 0..l |-> f[x + 1]]
      OBVIOUS
    <3>2. g \in [0..l -> Nat] /\ \A x \in 0..l : g[x] = f[x + 1]
      BY <1>6, <3>1
    <3>3. g[0] = sess'[i].next
      <4>1. 1 \in 1..l + 1 /\ 0 \in 0..l /\ 1 - 1 = 0 /\ 0 + 1 = 1
        BY <1>6
      <4>2. Follows(Head(up[k]), sess[i].next, f[1], sess[i].base)
        BY <1>7, <3>1, <4>1
      <4>3. f[1] \in Nat /\ g[0] = f[1]
        BY ZenonT(40), <1>6, <3>1, <3>2, <4>1
      <4> QED
        BY <4>2, <4>3
    <3>4. ASSUME NEW p \in 1..l
          PROVE  Follows(up'[k][p], g[p - 1], g[p], sess'[i].base)
      <4>1. p + 1 \in 1..l + 1 /\ p \in 0..l /\ p - 1 \in 0..l /\ (p + 1) - 1 = p /\ (p - 1) + 1 = p
        BY <1>6
      <4>2. Follows(up[k][p + 1], f[p], f[p + 1], sess[i].base)
        BY <3>1, <4>1
      <4>3. g[p - 1] = f[p] /\ g[p] = f[p + 1]
        BY <3>2, <4>1
      <4> QED
        BY <1>7, <4>2, <4>3
    <3>5. phone.at = "up" /\ phone.sock = k /\ phone.ready => g[l] = phone.sent
      BY <1>6, <3>1, <3>2
    <3>6. Follow(k, g)'
      BY <1>1, <1>7, <3>3, <3>4, <3>5 DEF Follow
    <3> QED
      BY <1>7, <2>3, <3>2, <3>6
  <2> QED
    BY <2>2, <2>3
<1>9. Quiet'
  <2> SUFFICES ASSUME NEW j \in Sockets, task[j].at \in Early \cup {"none"}
               PROVE  down'[j] = <<>> /\ \A p \in DOMAIN up'[j] : up'[j][p].kind = "close"
    BY <1>1 DEF Quiet
  <2>1. j # k
    BY DEF Early
  <2> QED
    BY <1>5, <2>1 DEF Words, Quiet
<1>10. PhoneNamed'
  <2>1. phone.id \in {0} \cup SessionIds
    BY DEF Typed, PhoneTyped, Phone
  <2> QED
    BY <1>1, <1>3, <2>1 DEF Words, PhoneNamed
<1>11. OnTheSocket'
  <2> SUFFICES ASSUME phone.at = "up"
               PROVE  /\ task[phone.sock].at # "none"
                      /\ task[phone.sock].at \in Early => task[phone.sock].s = phone.id /\ ~phone.ready
                      /\ task[phone.sock].at = "new" /\ task[phone.sock].s = 0 => task[phone.sock].from = phone.origin
                      /\ task[phone.sock].at = "run" => sess'[task[phone.sock].s].base = phone.origin
                      /\ \A p \in DOMAIN down'[phone.sock] : Told(down[phone.sock][p])'
    BY <1>1 DEF OnTheSocket
  <2>1. PICK j \in Sockets : j = phone.sock
    BY DEF Typed, PhoneTyped
  <2>2. /\ task[j].at # "none"
        /\ task[j].at \in Early => task[j].s = phone.id /\ ~phone.ready
        /\ task[j].at = "new" /\ task[j].s = 0 => task[j].from = phone.origin
        /\ task[j].at = "run" => sess[task[j].s].base = phone.origin
        /\ \A p \in DOMAIN down[j] : Told(down[j][p])
    BY <2>1 DEF Words, OnTheSocket
  <2>3. task[j].at = "run" => sess'[task[j].s].base = phone.origin
    <3>1. task[j].at = "run" => task[j].s \in SessionIds
      BY DEF Places, HereIsOn
    <3> QED
      BY <1>3, <2>2, <3>1
  <2>4. ASSUME NEW p \in DOMAIN down'[j] PROVE Told(down[j][p])'
    <3>1. PICK m : m = down'[j][p]
      OBVIOUS
    <3>2. CASE m \in Notice
      BY <3>1, <3>2 DEF Told, Notice, Hellos, Saids
    <3>3. CASE p \in DOMAIN down[j] /\ m = down[j][p]
      <4>1. Told(m) /\ m \in DownMessage
        BY <2>2, <3>3 DEF Typed, WireTyped
      <4>2. m.kind \in Hellos => m.id \in SessionIds
        BY <4>1 DEF DownMessage, Hello, Said, Notice, Hellos
      <4> QED
        BY <1>1, <1>3, <3>1, <4>1, <4>2 DEF Told
    <3> QED
      BY <2>4, <3>1, <3>2, <3>3
  <2> QED
    BY <1>1, <2>1, <2>2, <2>3, <2>4
<1>12. Turning' /\ PhoneWithin' /\ FromWithin'
  BY <1>1 DEF Words, Turning, PhoneWithin, FromWithin
<1>13. AudioWithin'
  <2> SUFFICES ASSUME Live, NEW j \in Sockets, NEW p \in DOMAIN up'[j], up'[j][p].kind = "audio"
               PROVE  up'[j][p].n <= recorded
    BY <1>1 DEF AudioWithin
  <2>1. \E q \in DOMAIN up[j] : up'[j][p] = up[j][q]
    <3>1. CASE j # k
      BY <1>5, <3>1
    <3>2. CASE j = k
      <4>1. p \in 1..l /\ p + 1 \in 1..l + 1
        BY <1>6, <1>7, <3>2
      <4> QED
        BY <1>7, <3>2, <4>1
    <3> QED
      BY <3>1, <3>2
  <2> QED
    BY <2>1 DEF Words, AudioWithin
<1> QED
  BY <1>4, <1>8, <1>9, <1>10, <1>11, <1>12, <1>13 DEF Words

\* A message that is read: audio goes where it belongs, an offset says where
\* what comes next does, a commit moves nothing, a close ends the session.
LEMMA ReceiveWords ==
    ASSUME Typed, Typed', Places, Places', Words, UNCHANGED phoneVars, NEW k \in Sockets, Receive(k)
    PROVE  Words'
<1>1. task[k].at = "run" /\ task[k].s \in SessionIds /\ up[k] # <<>>
  BY DEF Receive, Running, Places, HereIsOn
<1>2. PICK i \in SessionIds : i = task[k].s
  BY <1>1
<1>3. sess \in [SessionIds -> Session] /\ sess[i] \in Session /\ MarksInOrder(sess[i])
  BY DEF Typed, SessTyped
<1>4. PICK m \in UpMessage : m = Head(up[k])
  BY <1>1, ReadingKeeps DEF Typed
<1>5. m = up[k][1] /\ 1 \in DOMAIN up[k]
  BY <1>1, <1>4 DEF Typed, WireTyped
<1>6. sess[i].base \in Nat /\ sess[i].next \in Nat /\ m.n \in Nat /\ sess[i].pcm \in Seq(Nat) /\ recorded \in Nat
  BY <1>3 DEF Session, UpMessage, Typed, PhoneTyped
<1>7. \A n \in DOMAIN sess[i].pcm : sess[i].pcm[n] = sess[i].base + n
  BY DEF Words, HeardInPlace
<1>8. Live => sess[i].base + Len(sess[i].pcm) <= recorded
  BY SMTT(30) DEF Words, SessionsWithin
<1>9. CASE m.kind = "audio"
  <2>1. /\ sess' = [sess EXCEPT ![i] = Hear(sess[i], m.n)]
        /\ Sent(k, IF Gap(sess[i]) THEN <<Message("audio_gap")>> ELSE <<>>)
        /\ up' = [up EXCEPT ![k] = Tail(up[k])] /\ task' = task
    BY <1>2, <1>4, <1>9 DEF Receive
  <2>2. PICK t : t = Hear(sess[i], m.n)
    OBVIOUS
  <2>3. /\ t.is = sess[i].is /\ t.base = sess[i].base /\ t.next = sess[i].next + 1
        /\ t.pcm = IF sess[i].next = Len(sess[i].pcm) THEN Append(sess[i].pcm, m.n) ELSE sess[i].pcm
    BY <1>3, <1>6, <2>2, HearingKeeps
  <2>4. t.log = sess[i].log /\ t.heard = sess[i].heard
    BY <1>3, <2>2 DEF Hear, Session
  <2>5. sess'[i] = t /\ \A h \in SessionIds : h # i => sess'[h] = sess[h]
    BY <1>3, <2>1, <2>2
  <2>6. m.n = sess[i].base + sess[i].next + 1
    <3>1. PICK f \in [0..Len(up[k]) -> Nat] : Follow(k, f)
      BY <1>1 DEF Words, WiresFollow
    <3>2. Follows(m, f[1 - 1], f[1], sess[i].base) /\ f[0] = sess[i].next
      BY <1>2, <1>5, <3>1 DEF Follow, Typed, WireTyped
    <3>3. Follows(m, sess[i].next, f[1], sess[i].base)
      BY <3>2
    <3> QED
      BY <1>9, <3>3 DEF Follows
  <2>7. \A y \in Nat : Follows(m, sess[i].next, y, sess[i].base) => t.next = y
    BY <1>9, <2>3 DEF Follows
  <2>8. ASSUME sess[i].next = Len(sess[i].pcm)
        PROVE  (\A n \in DOMAIN t.pcm : t.pcm[n] = t.base + n) /\ (Live => t.base + Len(t.pcm) <= recorded)
    <3>1. PICK l \in Nat : l = Len(sess[i].pcm)
      BY SMTT(30), <1>6
    <3>2. t.pcm = Append(sess[i].pcm, m.n) /\ Len(t.pcm) = l + 1 /\ DOMAIN t.pcm = 1..l + 1 /\ t.pcm[l + 1] = m.n
          /\ \A n \in 1..l : t.pcm[n] = sess[i].pcm[n] /\ n \in DOMAIN sess[i].pcm
      BY <1>6, <2>3, <2>8, <3>1
    <3>3. m.n = t.base + (l + 1)
      BY SMTT(30), <1>6, <2>3, <2>6, <2>8, <3>1
    <3>4. \A n \in DOMAIN t.pcm : t.pcm[n] = t.base + n
      BY <1>7, <2>3, <3>2, <3>3
    <3>5. Live => t.base + Len(t.pcm) <= recorded
      BY <1>5, <1>9, <3>2, <3>3 DEF Words, AudioWithin
    <3> QED
      BY <3>4, <3>5
  <2>9. ASSUME sess[i].next # Len(sess[i].pcm)
        PROVE  (\A n \in DOMAIN t.pcm : t.pcm[n] = t.base + n) /\ (Live => t.base + Len(t.pcm) <= recorded)
    <3>1. t.pcm = sess[i].pcm
      BY <2>3, <2>9
    <3> QED
      BY <1>7, <1>8, <2>3, <3>1
  <2>10. (\A n \in DOMAIN t.pcm : t.pcm[n] = t.base + n) /\ (Live => t.base + Len(t.pcm) <= recorded)
    BY <2>8, <2>9
  <2>11. /\ \A j \in Sockets : j # k => down'[j] = down[j]
         /\ \A p \in DOMAIN down'[k] : (p \in DOMAIN down[k] /\ down'[k][p] = down[k][p]) \/ down'[k][p] \in Notice
    <3>1. PICK out : out = IF Gap(sess[i]) THEN <<Message("audio_gap")>> ELSE <<>>
      OBVIOUS
    <3>2. Message("audio_gap") \in Notice
      BY MessagesAre
    <3>a. PICK notice \in Notice : notice = Message("audio_gap")
      BY <3>2
    <3>b. <<>> \in Seq(Notice) /\ <<notice>> \in Seq(Notice) /\ out \in {<<>>, <<notice>>}
      BY <3>1, <3>a
    <3>3. out \in Seq(DownMessage) /\ \A q \in DOMAIN out : out[q] \in Notice
      <4>1. out \in Seq(Notice)
        BY <3>b
      <4> QED
        BY <4>1 DEF DownMessage
    <3>4. Sent(k, out)
      BY <2>1, <3>1
    <3> QED
      BY <3>3, <3>4, SendingAdds DEF Typed
  <2> QED
    <3>1. \A y \in Nat : Follows(Head(up[k]), sess[i].next, y, sess[i].base) => sess'[i].next = y
      BY <1>4, <2>5, <2>7
    <3>2. /\ sess'[i].is = sess[i].is /\ sess'[i].base = sess[i].base
          /\ sess'[i].log = sess[i].log /\ sess'[i].heard = sess[i].heard
          /\ \A n \in DOMAIN sess'[i].pcm : sess'[i].pcm[n] = sess'[i].base + n
          /\ Live => sess'[i].base + Len(sess'[i].pcm) <= recorded
      BY <2>3, <2>4, <2>5, <2>10
    <3> QED
      BY <1>1, <1>2, <2>1, <2>5, <2>11, <3>1, <3>2, TakingWords
<1>10. CASE m.kind = "offset" \/ m.kind = "commit"
  <2>1. up' = [up EXCEPT ![k] = Tail(up[k])] /\ task' = task /\ down' = down
    BY <1>2, <1>4, <1>10 DEF Receive
  <2>2. PICK t : t = IF m.kind = "offset" THEN [sess[i] EXCEPT !.next = m.n] ELSE [sess[i] EXCEPT !.commit = TRUE]
    OBVIOUS
  <2>3. sess' = [sess EXCEPT ![i] = t]
    <3>1. CASE m.kind = "offset"
      <4>1. sess' = [sess EXCEPT ![i].next = m.n]
        BY <1>2, <1>4, <3>1 DEF Receive
      <4> QED
        BY <2>2, <3>1, <4>1
    <3>2. CASE m.kind = "commit"
      <4>1. sess' = [sess EXCEPT ![i].commit = TRUE]
        BY <1>2, <1>4, <3>2 DEF Receive
      <4> QED
        BY <2>2, <3>2, <4>1
    <3> QED
      BY <1>10, <3>1, <3>2
  <2>4. /\ t.is = sess[i].is /\ t.base = sess[i].base /\ t.pcm = sess[i].pcm
        /\ t.log = sess[i].log /\ t.heard = sess[i].heard
        /\ t.next = IF m.kind = "offset" THEN m.n ELSE sess[i].next
    BY <1>3, <1>10, <2>2 DEF Session
  <2>5. sess'[i] = t /\ \A h \in SessionIds : h # i => sess'[h] = sess[h]
    BY <1>3, <2>3
  <2>6. \A y \in Nat : Follows(m, sess[i].next, y, sess[i].base) => t.next = y
    BY <1>10, <2>4 DEF Follows
  <2> QED
    <3>1. \A y \in Nat : Follows(Head(up[k]), sess[i].next, y, sess[i].base) => sess'[i].next = y
      BY <1>4, <2>5, <2>6
    <3>2. /\ sess'[i].is = sess[i].is /\ sess'[i].base = sess[i].base
          /\ sess'[i].log = sess[i].log /\ sess'[i].heard = sess[i].heard
          /\ \A n \in DOMAIN sess'[i].pcm : sess'[i].pcm[n] = sess'[i].base + n
          /\ Live => sess'[i].base + Len(sess'[i].pcm) <= recorded
      BY <1>7, <1>8, <2>4, <2>5
    <3> QED
      BY <1>1, <1>2, <2>1, <2>5, <3>1, <3>2, TakingWords
<1>11. CASE m.kind = "close"
  <2>1. Forget(k, "over") /\ ReadsNoMore(k) /\ down' = down
    BY <1>2, <1>4, <1>11 DEF Receive
  <2>2. \A j \in Sockets : up'[j] = up[j] \/ (j = k /\ up'[j] = <<>>)
    BY <2>1 DEF ReadsNoMore, Typed, WireTyped
  <2> QED
    BY <1>1, <2>1, <2>2, SilenceSaysNothing, ForgetWords DEF Running
<1> QED
  BY <1>4, <1>9, <1>10, <1>11 DEF UpMessage

\* What the server does, and what happens to it, keeps the words.
LEMMA ServingWords ==
    ASSUME Typed, Typed', Places, Places', Words, Serve \/ ServerMishap, UNCHANGED phoneVars
    PROVE  Words'
<1>1. CASE Serve
  <2>1. PICK k \in Sockets : ServerStep(k)
    BY <1>1 DEF Serve
  <2> QED
    BY <2>1, FreshWords, AskingWords, ResumeWords, ReceiveWords, TickWords, UpdatedWords, LeavingWords, SettleWords, ByeWords
    DEF ServerStep
<1>2. CASE ServerMishap
  BY <1>2, RestartWords, FailsWords, LeavingWords, AskingWords, LettingGoWords DEF ServerMishap
<1> QED
  BY <1>1, <1>2

\* What the phone does leaves the sessions what they have.
LEMMA PhoneLeavesThem ==
    ASSUME Typed, Typed', Words, UNCHANGED <<task, sess>>, Live' => Live /\ recorded <= recorded'
    PROVE  HeardInPlace' /\ Logged' /\ Unbegun' /\ SessionsWithin' /\ FromWithin'
<1>1. HeardInPlace' /\ Logged' /\ Unbegun'
  BY DEF Words, HeardInPlace, Logged, Unbegun
<1>2. recorded \in Nat /\ recorded' \in Nat
  BY DEF Typed, PhoneTyped
<1>3. SessionsWithin'
  <2> SUFFICES ASSUME Live', NEW i \in SessionIds
               PROVE  sess[i].base + Len(sess[i].pcm) <= recorded'
    BY DEF SessionsWithin
  <2>1. sess[i].base \in Nat /\ sess[i].pcm \in Seq(Nat)
    BY DEF Typed, SessTyped, Session
  <2>2. sess[i].base + Len(sess[i].pcm) <= recorded
    BY DEF Words, SessionsWithin
  <2>3. Len(sess[i].pcm) \in Nat
    BY <2>1
  <2> QED
    BY <1>2, <2>1, <2>2, <2>3
<1>4. FromWithin'
  <2> SUFFICES ASSUME NEW k \in Sockets
               PROVE  /\ task[k].from <= MaxWords
                      /\ Live' /\ task[k].at = "new" /\ task[k].s = 0 => task[k].from <= recorded'
    BY DEF FromWithin
  <2>1. task[k].from \in Nat
    BY DEF Typed, TaskTyped, Task
  <2>2. task[k].from <= MaxWords /\ (Live /\ task[k].at = "new" /\ task[k].s = 0 => task[k].from <= recorded)
    BY DEF Words, FromWithin
  <2> QED
    BY <1>2, <2>1, <2>2
<1> QED
  BY <1>1, <1>3, <1>4

\* A phone without a socket hears nothing, and says at most that it closes.
LEMMA GoneWords ==
    ASSUME Typed, Typed', Places, Words, UNCHANGED <<task, sess>>, Live' => Live /\ recorded <= recorded',
           phone'.at # "up", phone'.ready = FALSE, phone'.turn = -1,
           phone'.id = 0 \/ (phone'.id = phone.id /\ phone'.origin = phone.origin),
           phone'.origin + phone'.settledTo <= recorded', phone'.origin + phone'.sent <= recorded',
           \A k \in Sockets : up'[k] = up[k] \/ \E m \in UpMessage : m.kind = "close" /\ up'[k] = Append(up[k], m),
           \A k \in Sockets : down'[k] = down[k] \/ down'[k] = <<>>
    PROVE  Words'
<1>1. HeardInPlace' /\ Logged' /\ Unbegun' /\ SessionsWithin' /\ FromWithin'
  BY PhoneLeavesThem
<1>2. \A k \in Sockets : up[k] \in Seq(UpMessage)
  BY DEF Typed, WireTyped
<1>3. \A k \in Sockets : \A p \in DOMAIN up'[k] : (p \in DOMAIN up[k] /\ up'[k][p] = up[k][p]) \/ up'[k][p].kind = "close"
  <2> SUFFICES ASSUME NEW k \in Sockets, NEW p \in DOMAIN up'[k]
               PROVE  (p \in DOMAIN up[k] /\ up'[k][p] = up[k][p]) \/ up'[k][p].kind = "close"
    OBVIOUS
  <2>1. CASE up'[k] = up[k]
    BY <2>1
  <2>2. CASE \E m \in UpMessage : m.kind = "close" /\ up'[k] = Append(up[k], m)
    <3>1. PICK m \in UpMessage : m.kind = "close" /\ up'[k] = Append(up[k], m)
      BY <2>2
    <3> HIDE DEF UpMessage
    <3>2. (p \in DOMAIN up[k] /\ up'[k][p] = up[k][p]) \/ up'[k][p] = m
      BY <1>2, <3>1
    <3> QED
      BY <3>1, <3>2
  <2> QED
    BY <2>1, <2>2
<1>4. WiresFollow'
  <2> SUFFICES ASSUME NEW k \in Sockets, task[k].at = "run"
               PROVE  \E f \in [0..Len(up'[k]) -> Nat] : Follow(k, f)'
    BY DEF WiresFollow
  <2>1. PICK f \in [0..Len(up[k]) -> Nat] : Follow(k, f)
    BY DEF Words, WiresFollow
  <2>2. CASE up'[k] = up[k]
    <3>1. Follow(k, f)'
      BY <2>1, <2>2 DEF Follow
    <3> QED
      BY <2>2, <3>1
  <2>3. CASE \E m \in UpMessage : m.kind = "close" /\ up'[k] = Append(up[k], m)
    <3>1. PICK m \in UpMessage : m.kind = "close" /\ up'[k] = Append(up[k], m)
      BY <2>3
    <3>2. PICK l \in Nat : l = Len(up[k])
      BY <1>2
    <3>3. Len(up'[k]) = l + 1 /\ up'[k][l + 1] = m /\ \A p \in 1..l : up'[k][p] = up[k][p]
      BY <1>2, <3>1, <3>2
    <3>4. /\ f \in [0..l -> Nat] /\ f[0] = sess[task[k].s].next
          /\ \A p \in 1..l : Follows(up[k][p], f[p - 1], f[p], sess[task[k].s].base)
      BY <2>1, <3>2 DEF Follow
    <3>5. PICK g : g = [x \in 0..l + 1 |-> IF x = l + 1 THEN f[l] ELSE f[x]]
      OBVIOUS
    <3>6. g \in [0..l + 1 -> Nat] /\ g[l + 1] = f[l] /\ \A x \in 0..l : g[x] = f[x]
      BY <3>2, <3>4, <3>5
    <3>7. ASSUME NEW p \in 1..l + 1 PROVE Follows(up'[k][p], g[p - 1], g[p], sess[task[k].s].base)
      <4>1. CASE p \in 1..l
        <5>1. p \in 0..l /\ p - 1 \in 0..l
          BY <3>2, <4>1
        <5> QED
          BY <3>3, <3>4, <3>6, <4>1, <5>1
      <4>2. CASE p = l + 1
        <5>1. p - 1 = l /\ l \in 0..l
          BY <3>2, <4>2
        <5> QED
          BY <3>1, <3>3, <3>6, <4>2, <5>1 DEF Follows
      <4> QED
        BY <3>2, <3>7, <4>1, <4>2
    <3>8. g[0] = sess[task[k].s].next
      BY <3>2, <3>4, <3>6
    <3>9. Follow(k, g)'
      BY <3>3, <3>7, <3>8 DEF Follow
    <3> QED
      BY <3>3, <3>6, <3>9
  <2> QED
    BY <2>2, <2>3
<1>5. Quiet'
  BY <1>3 DEF Words, Quiet
<1>6. PhoneNamed' /\ OnTheSocket' /\ Turning'
  BY DEF Words, PhoneNamed, OnTheSocket, Turning
<1>7. PhoneWithin'
  <2>1. recorded' \in Nat
    BY DEF Typed, PhoneTyped
  <2> QED
    BY <2>1 DEF PhoneWithin
<1>8. AudioWithin'
  <2> SUFFICES ASSUME Live', NEW k \in Sockets, NEW p \in DOMAIN up'[k], up'[k][p].kind = "audio"
               PROVE  up'[k][p].n <= recorded'
    BY DEF AudioWithin
  <2>1. p \in DOMAIN up[k] /\ up'[k][p] = up[k][p] /\ up[k][p] \in UpMessage
    BY <1>2, <1>3
  <2>2. up[k][p].n <= recorded /\ up[k][p].n \in Nat
    BY <2>1 DEF Words, AudioWithin, UpMessage
  <2> QED
    BY <2>1, <2>2 DEF Typed, PhoneTyped
<1> QED
  BY <1>1, <1>4, <1>5, <1>6, <1>7, <1>8 DEF Words

\* The file grows, or is stopped.
LEMMA RecordingWords ==
    ASSUME Typed, Typed', Words, UNCHANGED <<task, sess, up, down, phone>>, recorded' \in {recorded, recorded + 1}
    PROVE  Words'
<1>1. recorded \in Nat /\ recorded' \in Nat /\ recorded <= recorded' /\ (Live' <=> Live)
  BY DEF Typed, PhoneTyped, Live
<1>2. HeardInPlace' /\ Logged' /\ Unbegun' /\ SessionsWithin' /\ FromWithin'
  BY <1>1, PhoneLeavesThem
<1>3. WiresFollow' /\ Quiet' /\ PhoneNamed' /\ Turning'
  <2>1. \A k \in Sockets : \A f : Follow(k, f)' <=> Follow(k, f)
    BY DEF Follow
  <2> QED
    BY <2>1 DEF Words, WiresFollow, Quiet, PhoneNamed, Turning
<1>4. phone.origin \in Nat /\ phone.settledTo \in Nat /\ phone.sent \in Nat /\ phone.turn \in Int
  BY DEF Typed, PhoneTyped, Phone
<1>5. PhoneWithin'
  BY <1>1, <1>4 DEF Words, PhoneWithin
<1>6. OnTheSocket'
  <2>1. \A m \in DownMessage : Told(m) => Told(m)'
    <3> SUFFICES ASSUME NEW m \in DownMessage, Told(m) PROVE Told(m)'
      OBVIOUS
    <3>1. m.at \in Nat
      BY DEF DownMessage, Hello, Said, Notice
    <3> QED
      BY <1>1, <1>4, <3>1 DEF Told
  <2>2. phone.at = "up" => phone.sock \in Sockets /\ \A p \in DOMAIN down[phone.sock] : down[phone.sock][p] \in DownMessage
    BY DEF Typed, PhoneTyped, WireTyped
  <2>3. ASSUME phone.at = "up", NEW p \in DOMAIN down[phone.sock] PROVE Told(down[phone.sock][p])'
    <3>1. PICK m \in DownMessage : m = down[phone.sock][p]
      BY <2>2, <2>3
    <3>2. Told(m)'
      BY <2>1, <2>3, <3>1 DEF Words, OnTheSocket
    <3> QED
      BY <3>1, <3>2
  <2> QED
    BY <2>3 DEF Words, OnTheSocket
<1>7. AudioWithin'
  <2> SUFFICES ASSUME Live, NEW k \in Sockets, NEW p \in DOMAIN up[k], up[k][p].kind = "audio"
               PROVE  up[k][p].n <= recorded'
    BY <1>1 DEF AudioWithin
  <2>1. up[k][p] \in UpMessage
    BY DEF Typed, WireTyped
  <2>2. up[k][p].n <= recorded /\ up[k][p].n \in Nat
    BY <2>1 DEF Words, AudioWithin, UpMessage
  <2> QED
    BY <1>1, <2>2
<1> QED
  BY <1>2, <1>3, <1>5, <1>6, <1>7 DEF Words

\* A phone on its socket reads of what comes, and what it says follows on from
\* what it has sent.
LEMMA StayingWords ==
    ASSUME Typed, Typed', Places, Words, UNCHANGED <<task, sess, recorded>>, phone.at = "up", phone'.at = "up",
           NEW k \in Sockets, k = phone.sock, phone'.sock = k, phone'.origin = phone.origin,
           \/ phone'.id = phone.id
           \/ /\ phone'.id \in SessionIds /\ sess[phone'.id].is # "none" /\ sess[phone'.id].base = phone.origin
              /\ task[k].at \notin Early,
           phone'.turn # -1 => phone'.ready, phone'.ready => phone.ready \/ task[k].at \notin Early,
           phone.origin + phone'.settledTo <= recorded, phone.origin + phone'.sent <= recorded, phone'.turn <= recorded,
           \A j \in Sockets : j # k => up'[j] = up[j] /\ down'[j] = down[j],
           \/ up'[k] = up[k] /\ (task[k].at = "run" /\ phone'.ready => phone.ready /\ phone'.sent = phone.sent)
           \/ /\ task[k].at \notin Early \cup {"none"}
              /\ \E m \in UpMessage :
                    /\ up'[k] = Append(up[k], m) /\ (m.kind = "audio" => m.n <= recorded)
                    /\ \A x \in Nat : (phone.ready => x = phone.sent) => Follows(m, x, phone'.sent, phone.origin),
           down'[k] = down[k] \/ (down[k] # <<>> /\ down'[k] = Tail(down[k]))
    PROVE  Words'
<1>1. Live /\ Live'
  BY DEF Live
<1>2. recorded \in Nat
  BY DEF Typed, PhoneTyped
<1>3. HeardInPlace' /\ Logged' /\ Unbegun' /\ SessionsWithin' /\ FromWithin'
  BY <1>1, <1>2, PhoneLeavesThem
<1>4. up[k] \in Seq(UpMessage) /\ down[k] \in Seq(DownMessage)
  BY DEF Typed, WireTyped
<1>5. PICK l \in Nat : l = Len(up[k])
  BY <1>4
<1>6. phone.sent \in Nat /\ phone'.sent \in Nat
  BY DEF Typed, PhoneTyped, Phone
<1>7. ASSUME up'[k] = up[k], task[k].at = "run" /\ phone'.ready => phone.ready /\ phone'.sent = phone.sent
      PROVE  WiresFollow' /\ Quiet' /\ AudioWithin'
  <2>1. \A j \in Sockets : up'[j] = up[j]
    BY <1>7
  <2>2. WiresFollow'
    <3> SUFFICES ASSUME NEW j \in Sockets, task[j].at = "run"
                 PROVE  \E f \in [0..Len(up'[j]) -> Nat] : Follow(j, f)'
      BY DEF WiresFollow
    <3>1. PICK f \in [0..Len(up[j]) -> Nat] : Follow(j, f)
      BY DEF Words, WiresFollow
    <3>2. phone'.sock = j /\ phone'.ready => f[Len(up[j])] = phone'.sent
      BY <1>7, <3>1 DEF Follow
    <3>3. Follow(j, f)'
      BY <2>1, <3>1, <3>2 DEF Follow
    <3> QED
      BY <2>1, <3>1, <3>3
  <2>3. Quiet' /\ AudioWithin'
    <3>1. \A j \in Sockets : task[j].at \in Early \cup {"none"} => down'[j] = <<>>
      BY DEF Words, Quiet
    <3> QED
      BY <1>1, <2>1, <3>1 DEF Words, Quiet, AudioWithin
  <2> QED
    BY <2>2, <2>3
<1>8. ASSUME task[k].at \notin Early \cup {"none"},
             \E m \in UpMessage :
                 /\ up'[k] = Append(up[k], m) /\ (m.kind = "audio" => m.n <= recorded)
                 /\ \A x \in Nat : (phone.ready => x = phone.sent) => Follows(m, x, phone'.sent, phone.origin)
      PROVE  WiresFollow' /\ Quiet' /\ AudioWithin'
  <2>1. PICK m \in UpMessage :
            /\ up'[k] = Append(up[k], m) /\ (m.kind = "audio" => m.n <= recorded)
            /\ \A x \in Nat : (phone.ready => x = phone.sent) => Follows(m, x, phone'.sent, phone.origin)
    BY <1>8
  <2> HIDE DEF UpMessage
  <2>2. Len(up'[k]) = l + 1 /\ DOMAIN up'[k] = 1..l + 1 /\ DOMAIN up[k] = 1..l /\ up'[k][l + 1] = m
        /\ \A p \in 1..l : up'[k][p] = up[k][p]
    BY <1>4, <1>5, <2>1
  <2>3. WiresFollow'
    <3> SUFFICES ASSUME NEW j \in Sockets, task[j].at = "run"
                 PROVE  \E f \in [0..Len(up'[j]) -> Nat] : Follow(j, f)'
      BY DEF WiresFollow
    <3>1. PICK f \in [0..Len(up[j]) -> Nat] : Follow(j, f)
      BY DEF Words, WiresFollow
    <3>2. CASE j # k
      <4>1. up'[j] = up[j] /\ phone'.sock # j
        BY <3>2
      <4>2. Follow(j, f)'
        BY <3>1, <4>1 DEF Follow
      <4> QED
        BY <3>1, <4>1, <4>2
    <3>3. CASE j = k
      <4>1. PICK base : base = sess[task[k].s].base
        OBVIOUS
      <4>2. /\ f \in [0..l -> Nat] /\ f[0] = sess[task[k].s].next
            /\ \A p \in 1..l : Follows(up[k][p], f[p - 1], f[p], base)
            /\ phone.ready => f[l] = phone.sent
        BY <1>5, <3>1, <3>3, <4>1 DEF Follow
      <4>3. base = phone.origin
        BY <3>3, <4>1 DEF Words, OnTheSocket
      <4>4. Follows(m, f[l], phone'.sent, base)
        <5>1. f[l] \in Nat
          BY <4>2
        <5> QED
          BY <2>1, <4>2, <4>3, <5>1
      <4>5. PICK g : g = [x \in 0..l + 1 |-> IF x = l + 1 THEN phone'.sent ELSE f[x]]
        OBVIOUS
      <4>6. g \in [0..l + 1 -> Nat] /\ g[l + 1] = phone'.sent /\ \A x \in 0..l : g[x] = f[x]
        BY <1>6, <4>2, <4>5
      <4>7. ASSUME NEW p \in 1..l + 1 PROVE Follows(up'[k][p], g[p - 1], g[p], base)
        <5>1. CASE p \in 1..l
          <6>1. p \in 0..l /\ p - 1 \in 0..l
            BY <5>1
          <6> QED
            BY <2>2, <4>2, <4>6, <5>1, <6>1
        <5>2. CASE p = l + 1
          <6>1. p - 1 = l /\ l \in 0..l
            BY <5>2
          <6> QED
            BY <2>2, <4>4, <4>6, <5>2, <6>1
        <5> QED
          BY <4>7, <5>1, <5>2
      <4>8. g[0] = sess[task[k].s].next
        BY SMTT(30), <4>2, <4>6
      <4>9. Follow(k, g)'
        BY <2>2, <4>1, <4>6, <4>7, <4>8 DEF Follow
      <4> QED
        BY <2>2, <3>3, <4>6, <4>9
    <3> QED
      BY <3>2, <3>3
  <2>4. Quiet'
    <3> SUFFICES ASSUME NEW j \in Sockets, task[j].at \in Early \cup {"none"}
                 PROVE  down'[j] = <<>> /\ \A p \in DOMAIN up'[j] : up'[j][p].kind = "close"
      BY DEF Quiet
    <3>1. j # k
      BY <1>8
    <3> QED
      BY <3>1 DEF Words, Quiet
  <2>5. AudioWithin'
    <3> SUFFICES ASSUME NEW j \in Sockets, NEW p \in DOMAIN up'[j], up'[j][p].kind = "audio"
                 PROVE  up'[j][p].n <= recorded
      BY DEF AudioWithin
    <3>1. CASE j # k
      BY <1>1, <3>1 DEF Words, AudioWithin
    <3>2. CASE j = k /\ p \in 1..l
      BY ZenonT(40), <1>1, <2>2, <3>2 DEF Words, AudioWithin
    <3>3. CASE j = k /\ p \notin 1..l
      <4>1. up'[j][p] = m
        BY <2>2, <3>3
      <4> QED
        BY <2>1, <4>1
    <3> QED
      BY <3>1, <3>2, <3>3
  <2> QED
    BY <2>3, <2>4, <2>5
<1>9. WiresFollow' /\ Quiet' /\ AudioWithin'
  BY <1>7, <1>8
<1>10. PhoneNamed'
  BY DEF Words, PhoneNamed
<1>11. OnTheSocket'
  <2>1. /\ task[k].at # "none"
        /\ task[k].at \in Early => task[k].s = phone.id /\ ~phone.ready
        /\ task[k].at = "new" /\ task[k].s = 0 => task[k].from = phone.origin
        /\ task[k].at = "run" => sess[task[k].s].base = phone.origin
        /\ \A p \in DOMAIN down[k] : Told(down[k][p])
    BY DEF Words, OnTheSocket
  <2>2. ASSUME NEW p \in DOMAIN down'[k] PROVE \E q \in DOMAIN down[k] : down'[k][p] = down[k][q]
    <3>1. CASE down'[k] = down[k]
      BY <2>2, <3>1
    <3>2. CASE down[k] # <<>> /\ down'[k] = Tail(down[k])
      <4>1. PICK u \in Seq(DownMessage) : u = down[k] /\ u # <<>>
        BY <1>4, <3>2
      <4> HIDE DEF DownMessage
      <4>2. p + 1 \in DOMAIN u /\ Tail(u)[p] = u[p + 1]
        <5>1. Tail(u) \in Seq(DownMessage) /\ Len(Tail(u)) = Len(u) - 1 /\ \A x \in 1..Len(u) - 1 : Tail(u)[x] = u[x + 1]
          BY <4>1, HeadTailProperties
        <5>2. p \in 1..Len(Tail(u)) /\ Len(u) \in Nat /\ DOMAIN u = 1..Len(u)
          BY <2>2, <3>2, <4>1, <5>1
        <5> QED
          BY <5>1, <5>2
      <4> QED
        BY <3>2, <4>1, <4>2
    <3> QED
      BY <3>1, <3>2
  <2>3. \A m : Told(m) => Told(m)'
    BY DEF Told
  <2>4. ASSUME NEW p \in DOMAIN down'[k] PROVE Told(down[k][p])'
    <3>1. PICK m : m = down'[k][p]
      OBVIOUS
    <3>2. Told(m)'
      BY <2>1, <2>2, <2>3, <2>4, <3>1
    <3> QED
      BY <3>1, <3>2
  <2> QED
    BY <2>1, <2>4 DEF OnTheSocket
<1>12. Turning' /\ PhoneWithin'
  BY DEF Turning, PhoneWithin
<1> QED
  BY <1>3, <1>9, <1>10, <1>11, <1>12 DEF Words

\* A new socket names the session the phone knows, or where one is to begin.
LEMMA ConnectWords ==
    ASSUME Typed, Typed', Places, Words, Connect
    PROVE  Words'
<1>1. PICK k \in Sockets :
        /\ task[k].at = "none" /\ phone' = [phone EXCEPT !.at = "up", !.sock = k]
        /\ task' = [task EXCEPT ![k] = [NoTask EXCEPT !.at = "new", !.s = phone.id,
                    !.from = IF phone.id = 0 THEN phone.origin ELSE phone.settledTo]]
  BY ConnectTyped
<1>2. phone.at = "down" /\ UNCHANGED <<recorded, up, down, sess>>
  BY DEF Connect
<1>3. /\ phone'.at = "up" /\ phone'.sock = k /\ phone'.id = phone.id /\ phone'.origin = phone.origin
      /\ phone'.settledTo = phone.settledTo /\ phone'.sent = phone.sent /\ phone'.turn = phone.turn
      /\ phone'.ready = phone.ready
  BY <1>1 DEF Typed, PhoneTyped, Phone
<1>4. ~phone.ready /\ Live /\ Live'
  BY <1>2, <1>3 DEF Words, Turning, Live
<1>5. PICK from : from = IF phone.id = 0 THEN phone.origin ELSE phone.settledTo
  OBVIOUS
<1>6. /\ task'[k].at = "new" /\ task'[k].s = phone.id /\ task'[k].from = from
      /\ \A j \in Sockets : j # k => task'[j] = task[j]
  BY <1>1, <1>5 DEF Typed, TaskTyped, NoTask
<1>7. phone.origin \in Nat /\ phone.settledTo \in Nat /\ recorded \in Nat /\ recorded <= MaxWords /\ MaxWords \in Nat
  BY RealtimeAssumption DEF Typed, PhoneTyped, Phone
<1>8. HeardInPlace' /\ Logged' /\ Unbegun' /\ SessionsWithin' /\ AudioWithin'
  BY <1>2, <1>4 DEF Words, HeardInPlace, Logged, Unbegun, SessionsWithin, AudioWithin
<1>9. WiresFollow'
  <2> SUFFICES ASSUME NEW j \in Sockets, task'[j].at = "run"
               PROVE  \E f \in [0..Len(up'[j]) -> Nat] : Follow(j, f)'
    BY DEF WiresFollow
  <2>1. task'[j] = task[j] /\ task[j].at = "run"
    BY <1>6
  <2>2. PICK f \in [0..Len(up[j]) -> Nat] : Follow(j, f)
    BY <2>1 DEF Words, WiresFollow
  <2>3. Follow(j, f)'
    BY <1>2, <1>3, <1>4, <2>1, <2>2 DEF Follow
  <2> QED
    BY <1>2, <2>2, <2>3
<1>10. Quiet'
  <2> SUFFICES ASSUME NEW j \in Sockets, task'[j].at \in Early \cup {"none"}
               PROVE  down'[j] = <<>> /\ \A p \in DOMAIN up'[j] : up'[j][p].kind = "close"
    BY DEF Quiet
  <2>1. task[j].at \in Early \cup {"none"}
    BY <1>1, <1>6
  <2> QED
    BY <1>2, <2>1 DEF Words, Quiet
<1>11. PhoneNamed' /\ Turning' /\ PhoneWithin'
  BY <1>2, <1>3, <1>4 DEF Words, PhoneNamed, Turning, PhoneWithin
<1>12. OnTheSocket'
  <2>1. down'[k] = <<>>
    BY <1>1, <1>2 DEF Words, Quiet
  <2>2. task'[k].at = "new" /\ task'[k].s = 0 => task'[k].from = phone'.origin
    BY <1>3, <1>5, <1>6
  <2> QED
    BY <1>3, <1>4, <1>6, <2>1, <2>2 DEF OnTheSocket
<1>13. FromWithin'
  <2>1. from \in Nat /\ from <= MaxWords /\ (phone.id = 0 => from <= recorded)
    BY <1>5, <1>7 DEF Words, PhoneWithin
  <2> QED
    BY <1>2, <1>4, <1>6, <2>1 DEF Words, FromWithin
<1> QED
  BY <1>8, <1>9, <1>10, <1>11, <1>12, <1>13 DEF Words

\* What the phone says comes after what was on its way, or is not read.
LEMMA SayingAdds ==
    ASSUME Typed, phone.sock \in Sockets, NEW kind \in {"audio", "offset", "commit", "close"}, NEW n \in Nat, Says(kind, n)
    PROVE  /\ \A j \in Sockets : j # phone.sock => up'[j] = up[j]
           /\ \/ /\ task[phone.sock].at \in Early \cup {"run"}
                 /\ \E m \in UpMessage : m.kind = kind /\ m.n = n /\ up'[phone.sock] = Append(up[phone.sock], m)
              \/ task[phone.sock].at \notin Early \cup {"run"} /\ up'[phone.sock] = up[phone.sock]
<1>1. PICK m : m = [kind |-> kind, n |-> n]
  OBVIOUS
<1>2. m \in UpMessage /\ m.kind = kind /\ m.n = n
  BY <1>1 DEF UpMessage
<1>3. Early \cup {"run"} = {"new", "ask", "late", "given", "run"}
  BY DEF Early
<1>4. up' = IF task[phone.sock].at \in Early \cup {"run"}
            THEN [up EXCEPT ![phone.sock] = Append(up[phone.sock], m)] ELSE up
  BY <1>1, <1>3 DEF Says
<1>5. up \in [Sockets -> Seq(UpMessage)]
  BY DEF Typed, WireTyped
<1> HIDE DEF Early, UpMessage
<1> QED
  BY <1>2, <1>4, <1>5

\* What the phone has at hand is within what was recorded.
LEMMA PhoneIsWithin ==
    ASSUME Typed, Words
    PROVE  /\ phone \in Phone /\ recorded \in Nat /\ recorded <= MaxWords /\ MaxWords \in Nat
           /\ phone.origin \in Nat /\ phone.settledTo \in Nat /\ phone.sent \in Nat /\ phone.turn \in Nat \cup {-1}
           /\ phone.origin + phone.settledTo <= recorded /\ phone.origin + phone.sent <= recorded /\ phone.turn <= recorded
           /\ phone.origin <= recorded
<1>1. phone \in Phone /\ recorded \in Nat /\ recorded <= MaxWords /\ MaxWords \in Nat
      /\ phone.origin \in Nat /\ phone.settledTo \in Nat /\ phone.sent \in Nat /\ phone.turn \in Nat \cup {-1}
  BY RealtimeAssumption DEF Typed, PhoneTyped, Phone
<1> QED
  BY <1>1 DEF Words, PhoneWithin

\* A phone that leaves its socket, or its take, has what it had, begins anew
\* from its last word, or has nothing.
LEMMA LeftPhone ==
    ASSUME Typed, Words,
           \/ phone' = Hangup("down") \/ phone' = Anew(Hangup("down"))
           \/ \E at \in PhonePlaces \ {"up", "down"} : phone' = Over(at)
    PROVE  /\ phone'.at # "up" /\ phone'.ready = FALSE /\ phone'.turn = -1
           /\ phone'.id = 0 \/ (phone'.id = phone.id /\ phone'.origin = phone.origin)
           /\ phone'.origin + phone'.settledTo <= recorded /\ phone'.origin + phone'.sent <= recorded
           /\ phone'.at = "down" \/ phone'.at \notin {"down", "up"}
<1>1. phone \in Phone /\ recorded \in Nat /\ phone.origin \in Nat /\ phone.settledTo \in Nat /\ phone.sent \in Nat
      /\ phone.origin + phone.settledTo <= recorded /\ phone.origin + phone.sent <= recorded
  BY PhoneIsWithin
<1>2. "down" \in PhonePlaces
  BY DEF PhonePlaces
<1>3. PICK h \in Phone : h = Hangup("down")
  BY <1>1, <1>2, HangingUpKeeps
<1>4. h.at = "down" /\ h.id = phone.id /\ h.turn = -1 /\ h.origin = phone.origin /\ h.settledTo = phone.settledTo
      /\ h.sent = phone.sent /\ h.ready = FALSE
  BY <1>1, <1>2, <1>3, HangingUpKeeps
<1>5. CASE phone' = Hangup("down")
  BY <1>1, <1>3, <1>4, <1>5
<1>6. CASE phone' = Anew(Hangup("down"))
  <2>1. phone'.at = "down" /\ phone'.id = 0 /\ phone'.turn = -1 /\ phone'.origin = phone.origin + phone.settledTo
        /\ phone'.settledTo = 0 /\ phone'.sent = 0 /\ phone'.ready = FALSE
    BY <1>3, <1>4, <1>6, BeginningAnewKeeps
  <2> QED
    BY <1>1, <2>1
<1>7. CASE \E at \in PhonePlaces \ {"up", "down"} : phone' = Over(at)
  <2>1. PICK at \in PhonePlaces \ {"up", "down"} : phone' = Over(at)
    BY <1>7
  <2>2. phone'.at = at /\ phone'.id = 0 /\ phone'.origin = 0 /\ phone'.settledTo = 0 /\ phone'.sent = 0
        /\ phone'.turn = -1 /\ phone'.ready = FALSE
    BY <1>1, <2>1, HangingUpKeeps
  <2> QED
    BY <1>1, <2>1, <2>2
<1> QED
  BY <1>5, <1>6, <1>7

\* The steps that leave the phone without a socket, but for those that read.
LEMMA LeavingPhoneWords ==
    ASSUME Typed, Typed', Places, Words, OutOfReach \/ Refused \/ Leave \/ Cancel \/ SendWhole
    PROVE  Words'
<1>1. UNCHANGED <<task, sess>>
  BY DEF OutOfReach, Refused, Leave, Cancel, SendWhole, AtTheMac, serverVars
<1>2. recorded \in Nat /\ recorded' \in Nat
  BY DEF Typed, PhoneTyped
<1>3. LetsGo => \A k \in Sockets : down'[k] = down[k] \/ down'[k] = <<>>
  BY DEF LetsGo, Typed, WireTyped
<1>4. CASE OutOfReach \/ Refused
  <2>1. UNCHANGED <<up, down, recorded>> /\ phone.at = "down" /\ \E at \in PhonePlaces \ {"up", "down"} : phone' = Over(at)
    BY <1>4 DEF OutOfReach, Refused, wire, PhonePlaces
  <2>2. Live' => Live /\ recorded <= recorded'
    BY <1>2, <2>1 DEF Live
  <2> QED
    BY <1>1, <2>1, <2>2, LeftPhone, GoneWords
<1>5. CASE Leave
  <2>1. UNCHANGED <<up, recorded>> /\ phone.at = "up" /\ phone' = Hangup("down") /\ LetsGo
    BY <1>5 DEF Leave, Up
  <2>2. Live' => Live /\ recorded <= recorded'
    BY <1>2, <2>1 DEF Live
  <2> QED
    BY <1>1, <1>3, <2>1, <2>2, LeftPhone, GoneWords
<1>6. CASE Cancel
  <2>1. phone.at \in {"down", "up", "offline"} /\ recorded' = 0
    BY <1>6 DEF Cancel
  <2>2. PICK o \in Phone : /\ o.at = "cancelled" /\ o.id = 0 /\ o.origin = 0 /\ o.settledTo = 0 /\ o.sent = 0 /\ o.turn = -1
                           /\ o.ready = FALSE /\ phone' = [o EXCEPT !.text = <<>>]
    BY <1>6, PhoneIsWithin, HangingUpKeeps DEF Cancel, PhonePlaces
  <2>3. /\ phone'.at = "cancelled" /\ phone'.id = 0 /\ phone'.origin = 0 /\ phone'.settledTo = 0 /\ phone'.sent = 0
        /\ phone'.turn = -1 /\ phone'.ready = FALSE
    BY <2>2 DEF Phone
  <2>4. ~Live'
    BY <2>3 DEF Live
  <2>5. /\ \A k \in Sockets : up'[k] = up[k] \/ \E m \in UpMessage : m.kind = "close" /\ up'[k] = Append(up[k], m)
        /\ \A k \in Sockets : down'[k] = down[k] \/ down'[k] = <<>>
    <3>1. CASE phone.at = "up"
      <4>1. Says("close", 0) /\ LetsGo /\ phone.sock \in Sockets
        BY <1>6, <3>1 DEF Cancel, Up, Typed, PhoneTyped
      <4> HIDE DEF UpMessage
      <4> QED
        BY <1>3, <4>1, SayingAdds
    <3>2. CASE phone.at # "up"
      BY <1>6, <3>2 DEF Cancel, Up, wire
    <3> QED
      BY <3>1, <3>2
  <2>6. phone'.origin + phone'.settledTo <= recorded' /\ phone'.origin + phone'.sent <= recorded'
    BY <2>1, <2>3
  <2>7. phone'.at # "up" /\ (Live' => Live /\ recorded <= recorded')
    BY <2>3, <2>4
  <2> QED
    BY <1>1, <2>3, <2>5, <2>6, <2>7, GoneWords
<1>7. CASE SendWhole
  <2>1. UNCHANGED <<up, down, recorded>> /\ phone.at = "offline"
    BY <1>7 DEF SendWhole, wire
  <2>2. PICK text : phone' = [phone EXCEPT !.at = "sent", !.text = text] \/ phone' = [phone EXCEPT !.at = "failed"]
    BY <1>7 DEF SendWhole
  <2>3. /\ phone'.at \notin {"up", "down"} /\ phone'.id = phone.id /\ phone'.origin = phone.origin /\ phone'.settledTo = phone.settledTo
        /\ phone'.sent = phone.sent /\ phone'.turn = phone.turn /\ phone'.ready = phone.ready
    BY <2>2 DEF Typed, PhoneTyped, Phone
  <2>4. ~phone.ready /\ phone.turn = -1 /\ phone.ready \in BOOLEAN
    BY <2>1 DEF Words, Turning, Typed, PhoneTyped, Phone
  <2>5. ~Live'
    BY <2>3 DEF Live
  <2> QED
    BY <1>1, <2>1, <2>3, <2>4, <2>5, PhoneIsWithin, GoneWords
<1> QED
  BY <1>4, <1>5, <1>6, <1>7

\* The turns of a phone on its socket.
LEMMA TurnWords ==
    ASSUME Typed, Typed', Places, Words, LookAtFile \/ SendAudio \/ EndTurn
    PROVE  Words'
<1>1. UNCHANGED <<task, sess, recorded, down>> /\ phone.at = "up"
  BY DEF LookAtFile, SendAudio, EndTurn, AtTheMac, serverVars, wire, Up
<1>2. PICK k \in Sockets : k = phone.sock
  BY <1>1 DEF Typed, PhoneTyped
<1>3. phone.ready
  <2>1. CASE LookAtFile
    BY <2>1 DEF LookAtFile
  <2>2. CASE SendAudio
    <3>1. phone.turn # -1
      BY <2>2, PhoneIsWithin DEF SendAudio
    <3> QED
      BY <3>1 DEF Words, Turning
  <2>3. CASE EndTurn
    BY <2>3 DEF EndTurn, Words, Turning
  <2> QED
    BY <2>1, <2>2, <2>3
<1>4. task[k].at \notin Early \cup {"none"}
  BY <1>1, <1>2, <1>3 DEF Words, OnTheSocket
<1>5. CASE LookAtFile
  <2>1. up' = up
    BY <1>5 DEF LookAtFile, wire
  <2>2. PICK to \in Nat, whole \in BOOLEAN : to <= recorded /\ phone' = [phone EXCEPT !.turn = to, !.whole = whole]
    <3>1. phone.origin + phone.sent + 1 \in Nat /\ recorded \in Nat
      BY PhoneIsWithin
    <3>2. \A to \in phone.origin + phone.sent + 1..recorded : to \in Nat /\ to <= recorded /\ (to = recorded) \in BOOLEAN
      BY <3>1
    <3>3. recorded <= recorded
      BY <3>1
    <3> QED
      BY <1>5, <3>1, <3>2, <3>3 DEF LookAtFile
  <2>3. /\ phone'.at = "up" /\ phone'.sock = k /\ phone'.id = phone.id /\ phone'.origin = phone.origin
        /\ phone'.settledTo = phone.settledTo /\ phone'.sent = phone.sent /\ phone'.turn = to /\ phone'.ready = phone.ready
    BY <1>1, <1>2, <2>2 DEF Typed, PhoneTyped, Phone
  <2> QED
    BY <1>1, <1>2, <1>3, <1>4, <2>1, <2>2, <2>3, PhoneIsWithin, StayingWords
<1>6. CASE SendAudio
  <2>1. phone.turn > phone.origin + phone.sent /\ Says("audio", phone.origin + phone.sent + 1)
    BY <1>6 DEF SendAudio
  <2>2. PICK sent \in Nat : sent = phone.sent + 1 /\ phone.origin + sent = phone.origin + phone.sent + 1 /\ phone.origin + sent <= recorded
    BY <2>1, PhoneIsWithin
  <2>3. phone' = [phone EXCEPT !.sent = sent]
    BY <1>6, <2>2 DEF SendAudio
  <2>4. /\ phone'.at = "up" /\ phone'.sock = k /\ phone'.id = phone.id /\ phone'.origin = phone.origin
        /\ phone'.settledTo = phone.settledTo /\ phone'.sent = sent /\ phone'.turn = phone.turn /\ phone'.ready = phone.ready
    BY <1>1, <1>2, <2>3 DEF Typed, PhoneTyped, Phone
  <2>5. PICK n \in Nat : n = phone.origin + phone.sent + 1 /\ n = phone.origin + sent
    BY <2>2, PhoneIsWithin
  <2>6. /\ \A j \in Sockets : j # k => up'[j] = up[j]
        /\ \/ /\ task[k].at \in Early \cup {"run"}
              /\ \E m \in UpMessage : m.kind = "audio" /\ m.n = n /\ up'[k] = Append(up[k], m)
           \/ task[k].at \notin Early \cup {"run"} /\ up'[k] = up[k]
    BY <1>2, <2>1, <2>5, SayingAdds
  <2>7. \A m \in UpMessage : m.kind = "audio" /\ m.n = n =>
            /\ m.n <= recorded
            /\ \A x \in Nat : (phone.ready => x = phone.sent) => Follows(m, x, sent, phone.origin)
    BY <1>3, <2>2, <2>5 DEF Follows
  <2> HIDE DEF UpMessage
  <2>8. \/ up'[k] = up[k] /\ task[k].at # "run"
        \/ \E m \in UpMessage :
             /\ up'[k] = Append(up[k], m) /\ (m.kind = "audio" => m.n <= recorded)
             /\ \A x \in Nat : (phone.ready => x = phone.sent) => Follows(m, x, phone'.sent, phone.origin)
    BY <2>4, <2>6, <2>7
  <2> QED
    BY <1>1, <1>2, <1>3, <1>4, <2>2, <2>4, <2>6, <2>8, PhoneIsWithin, StayingWords
<1>7. CASE EndTurn
  <2>1. /\ phone'.at = "up" /\ phone'.sock = k /\ phone'.id = phone.id /\ phone'.origin = phone.origin
        /\ phone'.settledTo = phone.settledTo /\ phone'.sent = phone.sent /\ phone'.turn = -1 /\ phone'.ready = phone.ready
    <3>1. PICK covers :
             \/ phone' = [phone EXCEPT !.turn = -1, !.whole = FALSE, !.commitSent = TRUE, !.covers = covers]
             \/ phone' = [phone EXCEPT !.turn = -1, !.whole = FALSE]
      <4>1. PICK c : c = IF phone.covers = 0 THEN phone.turn ELSE phone.covers
        OBVIOUS
      <4> QED
        BY <1>7, <4>1 DEF EndTurn
    <3> QED
      BY ZenonT(40), <1>1, <1>2, <3>1 DEF Typed, PhoneTyped, Phone
  <2>2. up' = up \/ Says("commit", 0)
    BY <1>7 DEF EndTurn
  <2>3. /\ \A j \in Sockets : j # k => up'[j] = up[j]
        /\ \/ up'[k] = up[k]
           \/ \E m \in UpMessage : m.kind = "commit" /\ up'[k] = Append(up[k], m)
    <3> HIDE DEF UpMessage
    <3> QED
      BY <1>2, <2>2, SayingAdds
  <2>4. \A m \in UpMessage : m.kind = "commit" =>
            \A x \in Nat : (phone.ready => x = phone.sent) => Follows(m, x, phone.sent, phone.origin)
    BY <1>3 DEF Follows
  <2> HIDE DEF UpMessage
  <2>5. \/ up'[k] = up[k]
        \/ \E m \in UpMessage :
             /\ up'[k] = Append(up[k], m) /\ (m.kind = "audio" => m.n <= recorded)
             /\ \A x \in Nat : (phone.ready => x = phone.sent) => Follows(m, x, phone'.sent, phone.origin)
    <3>1. CASE up'[k] = up[k]
      BY <3>1
    <3>2. CASE \E m \in UpMessage : m.kind = "commit" /\ up'[k] = Append(up[k], m)
      <4>1. PICK m \in UpMessage : m.kind = "commit" /\ up'[k] = Append(up[k], m)
        BY <3>2
      <4>2. m.kind # "audio"
        BY <4>1
      <4> QED
        BY <2>1, <2>4, <4>1, <4>2
    <3> QED
      BY <2>3, <3>1, <3>2
  <2>6. phone'.turn <= recorded
    BY <2>1, PhoneIsWithin
  <2> QED
    BY <1>1, <1>2, <1>3, <1>4, <2>1, <2>3, <2>5, <2>6, PhoneIsWithin, StayingWords
<1> QED
  BY <1>5, <1>6, <1>7

\* What the phone reads tells it of the session it knows, of the words it has
\* recorded, or that it is to leave.
LEMMA ReadWords ==
    ASSUME Typed, Typed', Places, Words, Read
    PROVE  Words'
<1>1. UNCHANGED <<task, sess, recorded>> /\ phone.at = "up" /\ phone.turn = -1 /\ down[phone.sock] # <<>> /\ phone.sock \in Sockets
  BY DEF Read, AtTheMac, serverVars, Up, Typed, PhoneTyped
<1>2. PICK k \in Sockets : k = phone.sock
  BY <1>1
<1>3. down[k] \in Seq(DownMessage) /\ down[k] # <<>> /\ recorded \in Nat
  BY <1>1, <1>2 DEF Typed, WireTyped, PhoneTyped
<1>4. PICK m \in DownMessage : m = Head(down[k]) /\ m = down[k][1] /\ 1 \in DOMAIN down[k]
  BY <1>3
<1>5. Told(m)
  BY <1>1, <1>2, <1>4 DEF Words, OnTheSocket
<1>6. task[k].at \notin Early \cup {"none"}
  BY <1>3 DEF Words, Quiet
<1>7. Stays => down'[k] = Tail(down[k]) /\ \A j \in Sockets : j # k => down'[j] = down[j]
  BY <1>2 DEF Stays, Typed, WireTyped
<1>8. LetsGo => \A j \in Sockets : down'[j] = down[j] \/ down'[j] = <<>>
  BY DEF LetsGo, Typed, WireTyped
<1>9. Live /\ recorded <= recorded'
  BY <1>1, <1>3 DEF Live
<1>10. CASE m.kind \in Hellos
  <2>1. m \in Hello /\ m.id \in SessionIds /\ m.at \in Nat
    BY <1>10 DEF DownMessage, Said, Notice, Hello, Hellos
  <2>2. PICK c \in Phone : /\ c = Created(phone, m) /\ c.at = phone.at /\ c.id = m.id /\ c.turn = phone.turn
                           /\ c.origin = phone.origin /\ c.settledTo = phone.settledTo /\ c.sent = m.at
                           /\ c.ready = TRUE /\ c.sock = phone.sock
    BY <2>1, PhoneIsWithin, CreatedKeeps
  <2>3. phone' = c /\ Says("offset", m.at) /\ Stays
    BY <1>2, <1>4, <1>10, <2>2 DEF Read, Hellos
  <2>4. sess[m.id].is # "none" /\ sess[m.id].base = phone.origin /\ phone.origin + m.at <= recorded
    BY <1>5, <1>10 DEF Told
  <2>5. /\ \A j \in Sockets : j # k => up'[j] = up[j]
        /\ \/ /\ task[k].at \in Early \cup {"run"}
              /\ \E w \in UpMessage : w.kind = "offset" /\ w.n = m.at /\ up'[k] = Append(up[k], w)
           \/ task[k].at \notin Early \cup {"run"} /\ up'[k] = up[k]
    BY <1>2, <2>1, <2>3, SayingAdds
  <2>6. \A w \in UpMessage : w.kind = "offset" /\ w.n = m.at => \A x \in Nat : Follows(w, x, m.at, phone.origin)
    BY DEF Follows
  <2> HIDE DEF UpMessage
  <2>7. \/ up'[k] = up[k] /\ task[k].at # "run"
        \/ \E w \in UpMessage :
             /\ up'[k] = Append(up[k], w) /\ (w.kind = "audio" => w.n <= recorded)
             /\ \A x \in Nat : (phone.ready => x = phone.sent) => Follows(w, x, phone'.sent, phone.origin)
    <3>1. CASE task[k].at \notin Early \cup {"run"} /\ up'[k] = up[k]
      BY <3>1
    <3>2. CASE \E w \in UpMessage : w.kind = "offset" /\ w.n = m.at /\ up'[k] = Append(up[k], w)
      <4>1. PICK w \in UpMessage : w.kind = "offset" /\ w.n = m.at /\ up'[k] = Append(up[k], w)
        BY <3>2
      <4>2. w.kind # "audio"
        BY <4>1
      <4> QED
        BY <2>2, <2>3, <2>6, <4>1, <4>2
    <3> QED
      BY <2>5, <3>1, <3>2
  <2>8. /\ phone'.at = "up" /\ phone'.sock = k /\ phone'.origin = phone.origin /\ phone'.id = m.id
        /\ phone'.turn = -1 /\ phone'.turn <= recorded /\ phone'.settledTo = phone.settledTo /\ phone'.sent = m.at
    BY <1>1, <1>2, <1>3, <2>2, <2>3
  <2>9. phone.origin + phone'.settledTo <= recorded
    BY <2>8, PhoneIsWithin
  <2> QED
    BY ZenonT(40), <1>1, <1>2, <1>3, <1>6, <1>7, <2>1, <2>3, <2>4, <2>5, <2>7, <2>8, <2>9, StayingWords
<1>11. CASE m.kind \in {"delta", "committed"}
  <2>1. m \in Said
    BY <1>11 DEF DownMessage, Hello, Notice
  <2>2. phone' = Keep(phone, m) /\ Stays /\ up' = up
    BY <1>2, <1>4, <1>11 DEF Read
  <2>3. /\ phone'.at = "up" /\ phone'.id = phone.id /\ phone'.turn = -1 /\ phone'.origin = phone.origin
        /\ phone'.settledTo \in {phone.settledTo, m.at} /\ phone'.sent = phone.sent
        /\ phone'.ready = phone.ready /\ phone'.sock = k
    BY <1>1, <1>2, <2>1, <2>2, PhoneIsWithin, KeepingKeeps
  <2>4. phone.origin + m.at <= recorded
    BY <1>5, <1>11 DEF Told, Saids
  <2>5. phone.origin + phone'.settledTo <= recorded /\ phone.origin + phone'.sent <= recorded /\ phone'.turn <= recorded
    BY <2>3, <2>4, PhoneIsWithin
  <2> QED
    BY <1>1, <1>2, <1>3, <1>6, <1>7, <2>2, <2>3, <2>5, StayingWords
<1>12. CASE m.kind = "completed" /\ m.id \in phone.seen
  <2>1. phone' = phone /\ Stays /\ up' = up
    BY <1>2, <1>4, <1>12 DEF Read
  <2>2. phone.origin + phone.settledTo <= recorded /\ phone.origin + phone.sent <= recorded /\ phone.turn <= recorded
    BY PhoneIsWithin
  <2> QED
    BY <1>1, <1>2, <1>3, <1>6, <1>7, <2>1, <2>2, StayingWords
<1>13. CASE m.kind = "completed" /\ m.id \notin phone.seen
  <2>1. phone' = [Over("done") EXCEPT !.origin = phone.origin, !.covers = phone.covers] /\ Says("close", 0) /\ LetsGo
    BY <1>2, <1>4, <1>13 DEF Read
  <2>2. PICK o \in Phone : /\ o = Over("done") /\ o.at = "done" /\ o.id = 0 /\ o.settledTo = 0 /\ o.sent = 0 /\ o.turn = -1
                           /\ o.ready = FALSE
    BY PhoneIsWithin, HangingUpKeeps DEF PhonePlaces
  <2>3. phone' = [o EXCEPT !.origin = phone.origin, !.covers = phone.covers]
    BY <2>1, <2>2
  <2>4. /\ phone'.at = "done" /\ phone'.id = 0 /\ phone'.origin = phone.origin /\ phone'.settledTo = 0 /\ phone'.sent = 0
        /\ phone'.turn = -1 /\ phone'.ready = FALSE
    BY <2>2, <2>3 DEF Phone
  <2>5. phone'.origin + phone'.settledTo <= recorded' /\ phone'.origin + phone'.sent <= recorded'
    BY <1>1, <2>4, PhoneIsWithin
  <2>6. \A j \in Sockets : up'[j] = up[j] \/ \E w \in UpMessage : w.kind = "close" /\ up'[j] = Append(up[j], w)
    <3> HIDE DEF UpMessage
    <3> QED
      BY <1>1, <2>1, SayingAdds
  <2> QED
    BY <1>1, <1>8, <1>9, <2>1, <2>4, <2>5, <2>6, GoneWords
<1>14. CASE m.kind \notin Hellos \cup Saids
  <2>1. /\ LetsGo /\ up' = up
        /\ \/ phone' = Hangup("down") \/ phone' = Anew(Hangup("down"))
           \/ \E at \in PhonePlaces \ {"up", "down"} : phone' = Over(at)
    BY <1>2, <1>4, <1>14 DEF Read, Hellos, Saids, PhonePlaces
  <2>2. /\ phone'.at # "up" /\ phone'.ready = FALSE /\ phone'.turn = -1
        /\ phone'.id = 0 \/ (phone'.id = phone.id /\ phone'.origin = phone.origin)
        /\ phone'.origin + phone'.settledTo <= recorded' /\ phone'.origin + phone'.sent <= recorded'
    BY <1>1, <2>1, LeftPhone
  <2> QED
    BY <1>1, <1>8, <1>9, <2>1, <2>2, GoneWords
<1> QED
  BY <1>10, <1>11, <1>12, <1>13, <1>14 DEF Saids

\* The words are kept by every step.
LEMMA SteppingWords ==
    ASSUME Typed, Places, Words, [Next]_vars
    PROVE  Words'
<1>1. Typed' /\ Places'
  BY SteppingPlaces
<1>2. CASE ReadPartial \/ UNCHANGED vars
  <2>1. UNCHANGED <<task, sess, up, down, phone, recorded>>
    BY <1>2 DEF ReadPartial, AtTheMac, vars, wire, serverVars, phoneVars
  <2> QED
    BY <1>1, <2>1, RecordingWords
<1>3. CASE (Serve \/ ServerMishap) /\ UNCHANGED phoneVars
  BY <1>1, <1>3, ServingWords
<1>4. CASE PhoneStep
  BY <1>1, <1>4, ConnectWords, LeavingPhoneWords, ReadWords, TurnWords DEF PhoneStep
<1>5. CASE Record \/ Stop
  <2>1. UNCHANGED <<task, sess, up, down, phone>> /\ recorded' \in {recorded, recorded + 1}
    BY <1>5 DEF Record, Stop, AtTheMac, serverVars, wire
  <2> QED
    BY <1>1, <2>1, RecordingWords
<1>6. CASE Cancel \/ PhoneMishap
  BY <1>1, <1>6, LeavingPhoneWords DEF PhoneMishap
<1> QED
  BY <1>2, <1>3, <1>4, <1>5, <1>6 DEF Next, UserStep

\* Before a socket there are no words.
LEMMA BeginningWords ==
    ASSUME Init
    PROVE  Words
<1>1. /\ \A k \in Sockets : up[k] = <<>> /\ down[k] = <<>> /\ task[k] = NoTask
      /\ \A i \in SessionIds : sess[i] = NoSession
      /\ recorded = 0 /\ phone.at = "down" /\ phone.id = 0 /\ phone.origin = 0 /\ phone.settledTo = 0 /\ phone.sent = 0
      /\ phone.turn = -1 /\ phone.ready = FALSE
  BY DEF Init, RealtimeInit, SpeakInit
<1>2. NoTask.at = "none" /\ NoTask.from = 0 /\ NoSession.pcm = <<>> /\ NoSession.log = <<>> /\ NoSession.base = 0
  BY DEF NoTask, NoSession
<1>3. HeardInPlace /\ Logged /\ Unbegun
  BY <1>1, <1>2 DEF HeardInPlace, Logged, Unbegun
<1>4. WiresFollow /\ Quiet /\ PhoneNamed /\ OnTheSocket /\ Turning /\ AudioWithin
  BY <1>1, <1>2 DEF WiresFollow, Quiet, PhoneNamed, OnTheSocket, Turning, AudioWithin
<1>5. PhoneWithin
  BY <1>1 DEF PhoneWithin
<1>6. FromWithin
  BY <1>1, <1>2, RealtimeAssumption DEF FromWithin
<1>7. SessionsWithin
  <2>1. \A i \in SessionIds : Len(sess[i].pcm) = 0 /\ sess[i].base = 0
    BY <1>1, <1>2
  <2> QED
    BY <1>1, <2>1 DEF SessionsWithin
<1> QED
  BY <1>3, <1>4, <1>5, <1>6, <1>7 DEF Words

\* Whatever drops, restarts or is sent again, what is on its way to a session
\* follows on from what it has, what the phone knows of it is so, and nothing
\* is beyond the recording: the inductive invariant of the words.
THEOREM WordsAreKept == Spec => [](Typed /\ Places /\ Words)
<1>1. Init => Typed /\ Places /\ Words
  BY BeginningPlaces, BeginningWords
<1>2. Typed /\ Places /\ Words /\ [Next]_vars => Typed' /\ Places' /\ Words'
  BY SteppingPlaces, SteppingWords
<1> QED
  BY <1>1, <1>2, PTL DEF Spec

\* A session has the samples of the take from the one it began at, each once
\* and in order, over any number of sockets, drops and restarts (`heard`,
\* `hello` and the phone's offsets).
THEOREM TakesAreHeardInPlace == Spec => []HeardInPlace
<1>1. Words => HeardInPlace
  BY DEF Words
<1> QED
  BY <1>1, WordsAreKept, PTL

\* Every variable of the sockets, the sessions and the take has its type: no
\* cursor runs past what there is.
THEOREM TakesAreTyped == Spec => []TypeOK
<1>1. ASSUME Typed, Places, Words
      PROVE  TypeOK
  <2>1. task \in [Sockets -> [at : TaskPlaces, s : {0} \cup SessionIds, from : 0..MaxWords, by : {0} \cup Sockets]]
    <3>1. task \in [Sockets -> Task]
      BY <1>1 DEF Typed, TaskTyped
    <3>2. \A k \in Sockets : task[k].from \in Nat /\ task[k].from <= MaxWords
      BY <1>1, <3>1 DEF Words, FromWithin, Task
    <3>3. \A k \in Sockets : task[k].from \in 0..MaxWords
      BY <3>2, RealtimeAssumption
    <3>4. \A x \in Task : x.from \in 0..MaxWords =>
              x \in [at : TaskPlaces, s : {0} \cup SessionIds, from : 0..MaxWords, by : {0} \cup Sockets]
      BY DEF Task
    <3> QED
      BY <3>1, <3>3, <3>4
  <2>2. \A k \in Sockets : Len(ask[k]) <= 1 /\ \A n \in DOMAIN ask[k] : ask[k][n] \in Sockets
    <3> SUFFICES ASSUME NEW k \in Sockets PROVE Len(ask[k]) <= 1 /\ \A n \in DOMAIN ask[k] : ask[k][n] \in Sockets
      OBVIOUS
    <3>1. CASE ask[k] = <<>>
      BY <3>1
    <3>2. CASE \E j \in Sockets : ask[k] = <<j>>
      BY <3>2
    <3> QED
      BY <1>1, <3>1, <3>2 DEF Typed, TaskTyped
  <2>3. \A i \in SessionIds :
            /\ sess[i].is \in {"none", "kept", "gone"}
            /\ sess[i].doing \in {"nothing", "update", "finish"}
            /\ 0 <= sess[i].settled /\ sess[i].settled <= sess[i].last
            /\ sess[i].last <= sess[i].heard /\ sess[i].heard <= Len(sess[i].pcm)
    BY <1>1 DEF Typed, SessTyped, Session, MarksInOrder
  <2>4. slot \in [SessionIds -> [at : {"none", "on", "off"}, by : {0} \cup Sockets]] /\ open \subseteq Sockets
        /\ mishaps \in 0..MaxMishaps
    BY <1>1 DEF Typed, TaskTyped, WireTyped, PhoneTyped, Slot
  <2>5. RealtimeTypeOK
    BY <2>1, <2>2, <2>3, <2>4 DEF RealtimeTypeOK
  <2>6. phone.turn \in -1..MaxWords
    BY <1>1, PhoneIsWithin
  <2>7. recorded \in 0..MaxWords /\ stopped \in BOOLEAN /\ owed \in BOOLEAN /\ phone.at \in PhonePlaces
        /\ phone.sock \in {0} \cup Sockets /\ phone.id \in {0} \cup SessionIds
    BY <1>1 DEF Typed, PhoneTyped, Phone
  <2>8. SpeakTypeOK
    BY <1>1, <2>6, <2>7, PhoneIsWithin DEF SpeakTypeOK
  <2> QED
    BY <2>5, <2>8 DEF TypeOK
<1> QED
  BY <1>1, WordsAreKept, PTL
=============================================================================
