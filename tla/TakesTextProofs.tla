-------------------------- MODULE TakesTextProofs --------------------------
(***************************************************************************)
(* Theorems about the text of a take (Takes), for any numbers of sockets,  *)
(* words and mishaps: its words come once and in order, and cover what its *)
(* commit did. The inductive invariant (Text) gives each session the       *)
(* history of all that was ever said of it, with the word each message     *)
(* comes up to; the phone has the first e of its session's history, what   *)
(* is on its way to the phone goes on from there, or from before, and what *)
(* the session still has in its log reaches back to there, so that a       *)
(* reconnect leaves nothing out.                                           *)
(***************************************************************************)
EXTENDS TakesProofs

\* What is said of a session tells of its words, a piece at a time: those
\* after the mark x up to the mark y, none beyond what had been heard; and all
\* of them when it is completed.
Piece(m, x, y, base) ==
    /\ x <= y /\ y <= m.at
    /\ m.words = [n \in 1..y - x |-> base + x + n]
    /\ m.kind = "completed" => x = y /\ y = m.at

\* All that was ever said of a session that began at a sample, in the order it
\* was said, and the mark after each: no two are the same event, and each has
\* heard as much as those before it.
Pieces(h, mark, base) ==
    /\ mark[0] = 0
    /\ \A n \in 1..Len(h) : h[n].id <= Len(h) /\ Piece(h[n], mark[n - 1], mark[n], base)
    /\ \A n, o \in 1..Len(h) : h[n].id = h[o].id => n = o
    /\ \A n, o \in 1..Len(h) : n <= o => h[n].at <= h[o].at

\* A session that is kept has settled to where the last of them says, and has
\* the end of them in its log.
Keeps(s, h, mark) ==
    /\ Len(h) = s.events /\ mark[Len(h)] = s.settled
    /\ \A n \in 1..Len(h) : h[n].at <= s.last
    /\ Len(s.log) <= Len(h)
    /\ \A p \in 1..Len(s.log) : s.log[p] = h[Len(h) - Len(s.log) + p]

History(s, h, mark) ==
    Pieces(h, mark, s.base) /\ (s.is = "kept" => Keeps(s, h, mark)) /\ (s.is = "none" => h = <<>>)

\* What a sequence has, and what is said.
LEMMA Elements ==
    ASSUME NEW S, NEW h, h \in Seq(S), NEW l, l = Len(h)
    PROVE  l \in Nat /\ (\A n \in 1..l : h[n] \in S) /\ DOMAIN h = 1..l /\ (h = <<>> <=> l = 0)
OBVIOUS

LEMMA SaidIs ==
    ASSUME NEW m, m \in Said
    PROVE  m.at \in Nat /\ m.id \in Nat /\ m.kind \in Saids /\ m.words \in Seq(Nat)
BY DEF Said, Saids

\* Two sequences put together have the one's elements and then the other's.
LEMMA Joined ==
    ASSUME NEW S, NEW a, NEW b, a \in Seq(S), b \in Seq(S), NEW l, NEW o, l = Len(a), o = Len(b)
    PROVE  /\ l \in Nat /\ o \in Nat /\ a \o b \in Seq(S) /\ Len(a \o b) = l + o
           /\ \A n \in 1..l : (a \o b)[n] = a[n] /\ a[n] \in S
           /\ \A p \in 1..o : (a \o b)[l + p] = b[p] /\ b[p] \in S
           /\ \A n \in 1..l + o : n \in 1..l \/ \E p \in 1..o : n = l + p
<1> DEFINE all == a \o b
<1>1. l \in Nat /\ o \in Nat
  OBVIOUS
<1>2. /\ all \in Seq(S) /\ Len(all) = l + o
      /\ \A n \in 1..l + o : all[n] = IF n <= l THEN a[n] ELSE b[n - l]
  BY ConcatProperties
<1>3. (\A n \in 1..l : a[n] \in S) /\ (\A p \in 1..o : b[p] \in S)
  OBVIOUS
<1> HIDE DEF all
<1>4. \A n \in 1..l : all[n] = a[n]
  BY <1>1, <1>2
<1>5. \A p \in 1..o : all[l + p] = b[p]
  <2> SUFFICES ASSUME NEW p \in 1..o PROVE all[l + p] = b[p]
    OBVIOUS
  <2>1. l + p \in 1..l + o /\ ~(l + p <= l) /\ (l + p) - l = p
    BY <1>1
  <2> QED
    BY <1>2, <2>1
<1>6. \A n \in 1..l + o : n \in 1..l \/ \E p \in 1..o : n = l + p
  <2>1. SUFFICES ASSUME NEW n \in 1..l + o, n \notin 1..l PROVE n - l \in 1..o /\ n = l + (n - l)
    OBVIOUS
  <2> QED
    BY ONLY <1>1, <2>1
<1> QED
  BY <1>1, <1>2, <1>3, <1>4, <1>5, <1>6 DEF all

\* Sequences of one.
LEMMA SinglesJoined ==
    /\ \A a : <<a>> \o <<>> = <<a>>
    /\ \A a, b : <<a>> \o <<b>> = <<a, b>>
    /\ \A a, b, c : <<a, b>> \o <<c>> = <<a, b, c>>
<1>1. ASSUME NEW a PROVE <<a>> \o <<>> = <<a>>
  OBVIOUS
<1>2. ASSUME NEW a, NEW b PROVE <<a>> \o <<b>> = <<a, b>>
  <2>1. <<a>> \in Seq({a, b}) /\ <<b>> \in Seq({a, b}) /\ <<a, b>> \in Seq({a, b}) /\ Len(<<a>>) = 1 /\ Len(<<b>>) = 1
        /\ Len(<<a, b>>) = 2
    OBVIOUS
  <2> DEFINE x == <<a>> \o <<b>>
             y == <<a, b>>
  <2>2. x \in Seq({a, b}) /\ Len(x) = 2 /\ \A i \in 1..2 : x[i] = IF i <= 1 THEN <<a>>[i] ELSE <<b>>[i - 1]
    BY ONLY <2>1, ConcatProperties
  <2>3. x[1] = a /\ x[2] = b /\ y[1] = a /\ y[2] = b
    <3> HIDE DEF x
    <3> QED
      BY <2>2
  <2> HIDE DEF x, y
  <2>4. \A i \in 1..2 : x[i] = y[i]
    BY <2>3
  <2>5. y \in Seq({a, b}) /\ Len(y) = 2
    BY <2>1 DEF y
  <2>6. x = y
    BY <2>2, <2>4, <2>5, SeqEqual
  <2> QED
    BY <2>6 DEF x, y
<1>3. ASSUME NEW a, NEW b, NEW c PROVE <<a, b>> \o <<c>> = <<a, b, c>>
  <2>1. <<a, b>> \in Seq({a, b, c}) /\ <<c>> \in Seq({a, b, c}) /\ <<a, b, c>> \in Seq({a, b, c}) /\ Len(<<a, b>>) = 2
        /\ Len(<<c>>) = 1 /\ Len(<<a, b, c>>) = 3
    OBVIOUS
  <2> DEFINE x == <<a, b>> \o <<c>>
             y == <<a, b, c>>
  <2>2. x \in Seq({a, b, c}) /\ Len(x) = 3 /\ \A i \in 1..3 : x[i] = IF i <= 2 THEN <<a, b>>[i] ELSE <<c>>[i - 2]
    BY ONLY <2>1, ConcatProperties
  <2>3. x[1] = a /\ x[2] = b /\ x[3] = c /\ y[1] = a /\ y[2] = b /\ y[3] = c
    <3> HIDE DEF x
    <3> QED
      BY <2>2
  <2> HIDE DEF x, y
  <2>4. \A i \in 1..3 : x[i] = y[i]
    BY <2>3
  <2>5. y \in Seq({a, b, c}) /\ Len(y) = 3
    BY <2>1 DEF y
  <2>6. x = y
    BY <2>2, <2>4, <2>5, SeqEqual
  <2> QED
    BY <2>6 DEF x, y
<1> QED
  BY <1>1, <1>2, <1>3

\* What is said next goes on where the marks were.
SpeaksOn(h, out, base, mark, next, heard) ==
    /\ heard \in Nat /\ Pieces(h, mark, base) /\ \A n \in 1..Len(h) : h[n].at <= heard
    /\ \A n \in 0..Len(h) : next[n] = mark[n]
    /\ \A p \in 1..Len(out) :
          /\ out[p].at = heard /\ Len(h) < out[p].id /\ out[p].id <= Len(h) + Len(out)
          /\ Piece(out[p], next[Len(h) + p - 1], next[Len(h) + p], base)
    /\ \A p, q \in 1..Len(out) : out[p].id = out[q].id => p = q
LEMMA SayingOn ==
    ASSUME NEW h, NEW out, h \in Seq(Said), out \in Seq(Said), NEW base, NEW mark, NEW next, NEW heard,
           SpeaksOn(h, out, base, mark, next, heard)
    PROVE  Pieces(h \o out, next, base)
<1>0. PICK l, o, all : l = Len(h) /\ o = Len(out) /\ all = h \o out
  OBVIOUS
<1>s. h \in Seq(Said) /\ out \in Seq(Said)
  OBVIOUS
<1> USE DEF SpeaksOn
<1>n. l \in Nat /\ o \in Nat
  BY ONLY <1>0, <1>s, Joined
<1>1. all \in Seq(Said) /\ Len(all) = l + o
  BY <1>0, Joined
<1>2. \A n \in 1..l : all[n] = h[n] /\ h[n] \in Said
  BY <1>0, Joined
<1>3. \A p \in 1..o : all[l + p] = out[p] /\ out[p] \in Said
  BY ONLY <1>0, <1>s, Joined
<1>4. \A n \in 1..l + o : n \in 1..l \/ \E p \in 1..o : n = l + p
  BY ONLY <1>0, <1>s, Joined
<1>5. \A n \in 1..l : h[n].id \in Nat /\ h[n].at \in Nat /\ h[n].id <= l /\ h[n].at <= heard
  BY <1>0, <1>2 DEF Said, Pieces
<1>6. \A p \in 1..o : out[p].id \in Nat /\ out[p].at = heard /\ l < out[p].id /\ out[p].id <= l + o
  BY <1>0, <1>3 DEF Said
<1>7. next[0] = 0
  BY <1>0, <1>n DEF Pieces
<1>8. ASSUME NEW n \in 1..l + o
      PROVE  all[n].id <= l + o /\ Piece(all[n], next[n - 1], next[n], base)
  <2>1. ASSUME n \in 1..l PROVE all[n].id <= l + o /\ Piece(all[n], next[n - 1], next[n], base)
    <3>1. n - 1 \in 0..l /\ n \in 0..l
      BY ONLY <1>n, <2>1
    <3>2. next[n - 1] = mark[n - 1] /\ next[n] = mark[n]
      BY <1>0, <3>1
    <3>3. Piece(h[n], mark[n - 1], mark[n], base)
      BY <1>0, <2>1 DEF Pieces
    <3>4. h[n].id <= l /\ h[n].id \in Nat
      BY <1>5, <2>1
    <3>5. h[n].id <= l + o
      BY ONLY <1>n, <3>4
    <3> QED
      BY <1>2, <2>1, <3>2, <3>3, <3>5
  <2>2. ASSUME NEW p \in 1..o, n = l + p PROVE all[n].id <= l + o /\ Piece(all[n], next[n - 1], next[n], base)
    <3>1. Piece(out[p], next[l + p - 1], next[l + p], base)
      BY <1>0, <2>2
    <3>2. out[p].id <= l + o /\ all[n] = out[p]
      BY <1>3, <1>6, <2>2
    <3> QED
      BY ONLY <1>n, <2>2, <3>1, <3>2
  <2> QED
    BY <1>4, <2>1, <2>2
<1>9. ASSUME NEW n \in 1..l + o, NEW q \in 1..l + o
      PROVE  (all[n].id = all[q].id => n = q) /\ (n <= q => all[n].at <= all[q].at)
  <2>1. ASSUME n \in 1..l, q \in 1..l
        PROVE  (all[n].id = all[q].id => n = q) /\ (n <= q => all[n].at <= all[q].at)
    BY <1>0, <1>2, <2>1 DEF Pieces
  <2>2. ASSUME n \in 1..l, NEW p \in 1..o, q = l + p
        PROVE  (all[n].id = all[q].id => n = q) /\ (n <= q => all[n].at <= all[q].at)
    <3>1. all[n] = h[n] /\ all[q] = out[p] /\ h[n].id <= l /\ h[n].at <= heard /\ out[p].at = heard /\ l < out[p].id
          /\ h[n].id \in Nat /\ out[p].id \in Nat
      BY <1>2, <1>3, <1>5, <1>6, <2>2
    <3> QED
      BY ONLY <2>2, <1>n, <3>1
  <2>3. ASSUME q \in 1..l, NEW p \in 1..o, n = l + p
        PROVE  (all[n].id = all[q].id => n = q) /\ (n <= q => all[n].at <= all[q].at)
    <3>1. all[q] = h[q] /\ all[n] = out[p] /\ h[q].id <= l /\ l < out[p].id
          /\ h[q].id \in Nat /\ out[p].id \in Nat
      BY <1>2, <1>3, <1>5, <1>6, <2>3
    <3>2. q < n
      BY ONLY <1>n, <2>3
    <3> QED
      BY ONLY <1>n, <3>1, <3>2
  <2>4. ASSUME NEW p \in 1..o, n = l + p, NEW r \in 1..o, q = l + r
        PROVE  (all[n].id = all[q].id => n = q) /\ (n <= q => all[n].at <= all[q].at)
    <3>1. all[n] = out[p] /\ all[q] = out[r] /\ out[p].at = heard /\ out[r].at = heard
      BY <1>3, <1>6, <2>4
    <3>2. out[p].id = out[r].id => p = r
      BY <1>0
    <3>3. out[p].at <= out[r].at
      BY <1>6, <3>1
    <3> QED
      BY <2>4, <3>1, <3>2, <3>3
  <2> QED
    BY <1>4, <2>1, <2>2, <2>3, <2>4
<1> QED
  <2>1. Pieces(all, next, base)
    BY ONLY <1>1, <1>7, <1>8, <1>9 DEF Pieces
  <2> QED
    BY <1>0, <2>1

\* A message with an id and a sample.
LEMMA MessageSet ==
    ASSUME NEW m, NEW kind, NEW id, NEW at, m = [kind |-> kind, id |-> 0, at |-> 0, item |-> 0, words |-> <<>>]
    PROVE  [m EXCEPT !.id = id, !.at = at] = [kind |-> kind, id |-> id, at |-> at, item |-> 0, words |-> <<>>]
<1> DEFINE Set == [kind : {kind}, id : {0, id}, at : {0, at}, item : {0}, words : {<<>>}]
           a == [m EXCEPT !.id = id, !.at = at]
           b == [kind |-> kind, id |-> id, at |-> at, item |-> 0, words |-> <<>>]
<1>1. m \in Set /\ b \in Set
  OBVIOUS
<1>2. a \in Set
  BY <1>1
<1>3. m.kind = kind /\ m.item = 0 /\ m.words = <<>>
  OBVIOUS
<1>4. a.kind = kind /\ a.id = id /\ a.at = at /\ a.item = 0 /\ a.words = <<>>
  BY <1>1, <1>3
<1>5. b.kind = kind /\ b.id = id /\ b.at = at /\ b.item = 0 /\ b.words = <<>>
  OBVIOUS
<1>6. a = b
  <2> HIDE DEF a, b
  <2> QED
    BY <1>1, <1>2, <1>4, <1>5
<1> QED
  BY <1>6

\* What an update says goes on where the session had settled.
MarksAfter(s, h, mark, to) ==
    [n \in Nat |-> IF n <= Len(h) THEN mark[n]
                   ELSE IF s.doing = "finish" /\ n = Len(h) + 1 THEN s.settled ELSE to]
LEMMA EventsAre ==
    ASSUME NEW s \in Session, MarksInOrder(s), NEW to \in MaySettle(s), s.doing # "nothing",
           \A n \in DOMAIN s.pcm : s.pcm[n] = s.base + n
    PROVE  LET out == Events(s, to)
           IN  /\ out \in Seq(Said)
               /\ \A p \in 1..Len(out) :
                    /\ out[p].at = s.heard /\ s.events < out[p].id /\ out[p].id <= s.events + Len(out)
                    /\ Piece(out[p], IF p = 1 \/ (s.doing = "finish" /\ p = 2) THEN s.settled ELSE to,
                                     IF s.doing = "finish" /\ p = 1 THEN s.settled ELSE to, s.base)
                    /\ s.doing # "finish" => out[p].kind = "delta"
               /\ \A p, q \in 1..Len(out) : out[p].id = out[q].id => p = q
               /\ out = <<>> => to = s.settled /\ s.doing = "update"
               /\ s.doing = "finish" => Len(out) >= 2
<1> DEFINE out == Events(s, to)
<1>1. /\ s.settled \in Nat /\ s.last \in Nat /\ s.heard \in Nat /\ s.events \in Nat /\ s.base \in Nat
      /\ s.pcm \in Seq(Nat) /\ Len(s.pcm) \in Nat /\ DOMAIN s.pcm = 1..Len(s.pcm)
      /\ s.settled <= s.last /\ s.last <= s.heard /\ s.heard <= Len(s.pcm) /\ s.doing \in {"update", "finish"}
  BY DEF Session, MarksInOrder
<1>2. to \in Nat /\ s.settled <= to /\ to <= s.heard /\ out \in Seq(Said) /\ (s.doing = "finish" => to = s.heard)
  BY <1>1, ListeningKeeps DEF MaySettle
<1> DEFINE words == SubSeq(s.pcm, s.settled + 1, to)
           said == [Event(s, "delta", 1) EXCEPT !.words = words]
           delta == IF to = s.settled THEN <<>> ELSE <<said>>
           first == Event(s, "committed", Len(delta) + 1)
           ending == Event(s, "completed", Len(delta) + 2)
<1>3. words = [n \in 1..to - s.settled |-> s.base + s.settled + n]
  <2>1. s.settled + 1 \in Int /\ to \in Int /\ \A n \in s.settled + 1..to : n \in 1..Len(s.pcm)
    BY <1>1, <1>2
  <2>2. \A n \in s.settled + 1..to : s.pcm[n] \in Nat
    BY SMTT(30), <1>1, <2>1
  <2> DEFINE a == s.settled + 1
  <2>3. /\ words \in Seq(Nat) /\ Len(words) = (IF a <= to THEN to - a + 1 ELSE 0)
        /\ \A n \in 1..to - a + 1 : words[n] = s.pcm[a + n - 1]
    <3>1. a \in Int /\ to \in Int /\ \A n \in a..to : s.pcm[n] \in Nat
      BY <2>1, <2>2
    <3>w. words = SubSeq(s.pcm, a, to)
      OBVIOUS
    <3> HIDE DEF a, words
    <3> QED
      BY ONLY <3>1, <3>w, SubSeqProperties
  <2> HIDE DEF words
  <2>4. Len(words) = to - s.settled /\ to - a + 1 = to - s.settled
    <3>1. s.settled \in Nat /\ to \in Nat /\ s.settled <= to
      BY <1>1, <1>2
    <3>2. Len(words) = IF a <= to THEN to - a + 1 ELSE 0
      BY <2>3
    <3> QED
      BY ONLY <3>1, <3>2
  <2>5. words = [n \in 1..Len(words) |-> words[n]]
    BY <2>3
  <2>6. \A n \in 1..to - s.settled : words[n] = s.base + s.settled + n
    <3> SUFFICES ASSUME NEW n \in 1..to - s.settled PROVE words[n] = s.base + s.settled + n
      OBVIOUS
    <3>0. s.settled \in Nat /\ to \in Nat /\ to <= Len(s.pcm) /\ Len(s.pcm) \in Nat
      <4>1. s.heard <= Len(s.pcm) /\ to <= s.heard /\ s.heard \in Nat
        BY <1>1, <1>2
      <4> QED
        BY ONLY <1>1, <1>2, <4>1
    <3>1. n \in Nat /\ s.settled + n \in 1..Len(s.pcm) /\ a + n - 1 = s.settled + n
      BY ONLY <3>0
    <3>2. words[n] = s.pcm[s.settled + n]
      BY <2>3, <2>4, <3>1
    <3>3. s.pcm[s.settled + n] = s.base + (s.settled + n)
      BY <1>1, <3>1
    <3> QED
      BY <1>1, <3>1, <3>2, <3>3
  <2> QED
    BY <2>4, <2>5, <2>6
<1>4. \A kind, n : Event(s, kind, n) = [kind |-> kind, id |-> s.events + n, at |-> s.heard, item |-> 0, words |-> <<>>]
  <2> SUFFICES ASSUME NEW kind, NEW n
               PROVE  Event(s, kind, n) = [kind |-> kind, id |-> s.events + n, at |-> s.heard, item |-> 0, words |-> <<>>]
    OBVIOUS
  <2> QED
    BY ONLY ZenonT(30), MessageSet DEF Event, Message
<1>5. said = [kind |-> "delta", id |-> s.events + 1, at |-> s.heard, item |-> 0, words |-> words]
  <2> HIDE DEF words
  <2>1. Event(s, "delta", 1) = [kind |-> "delta", id |-> s.events + 1, at |-> s.heard, item |-> 0, words |-> <<>>]
    BY <1>4
  <2> QED
    BY <2>1
<1>6. out = IF s.doing = "update" THEN delta ELSE <<first>> \o delta \o <<ending>>
  BY Zenon DEF Events
<1>7. <<>> = [n \in 1..0 |-> s.base + s.settled + n] /\ <<>> = [n \in 1..0 |-> s.base + to + n]
  <2>1. 1..0 = {}
    OBVIOUS
  <2> QED
    BY <2>1
<1>8. s.settled - s.settled = 0 /\ to - to = 0 /\ s.settled <= s.heard /\ s.settled <= to
  BY <1>1, <1>2
<1>9. /\ \A n : LET m == Event(s, "committed", n)
                IN  m.id = s.events + n /\ m.at = s.heard /\ m.kind = "committed" /\ Piece(m, s.settled, s.settled, s.base)
      /\ to = s.heard => \A n : LET m == Event(s, "completed", n)
                                IN  m.id = s.events + n /\ m.at = s.heard /\ m.kind = "completed" /\ Piece(m, to, to, s.base)
  BY <1>1, <1>2, <1>4, <1>7, <1>8 DEF Piece
<1>10. said.id = s.events + 1 /\ said.at = s.heard /\ said.kind = "delta" /\ Piece(said, s.settled, to, s.base)
  <2> HIDE DEF words, said
  <2> QED
    BY <1>2, <1>3, <1>5 DEF Piece
<1> HIDE DEF words, said
<1> DEFINE Fits(p) ==
        /\ out[p].at = s.heard /\ s.events < out[p].id /\ out[p].id <= s.events + Len(out)
        /\ Piece(out[p], IF p = 1 \/ (s.doing = "finish" /\ p = 2) THEN s.settled ELSE to,
                         IF s.doing = "finish" /\ p = 1 THEN s.settled ELSE to, s.base)
        /\ s.doing # "finish" => out[p].kind = "delta"
<1> DEFINE All == /\ \A p \in 1..Len(out) : Fits(p)
                  /\ \A p, q \in 1..Len(out) : out[p].id = out[q].id => p = q
                  /\ out = <<>> => to = s.settled /\ s.doing = "update"
                  /\ s.doing = "finish" => Len(out) >= 2
<1>11. ASSUME s.doing = "update", to = s.settled PROVE All
  <2>1. out = <<>> /\ Len(out) = 0
    BY <1>6, <1>11
  <2> HIDE DEF out
  <2>2. 1..0 = {}
    OBVIOUS
  <2> QED
    BY <1>11, <2>1, <2>2
<1>12. ASSUME s.doing = "update", to # s.settled PROVE All
  <2>1. out = <<said>>
    BY <1>6, <1>12
  <2>2. Len(out) = 1 /\ out[1] = said /\ out # <<>> /\ 1..1 = {1}
    BY <2>1
  <2> HIDE DEF out
  <2>3. Fits(1)
    BY <1>1, <1>10, <1>12, <2>2
  <2> QED
    BY <1>12, <2>2, <2>3
<1>13. ASSUME s.doing = "finish", to = s.settled PROVE All
  <2>1. delta = <<>> /\ Len(delta) = 0
    BY <1>13
  <2>2. out = <<Event(s, "committed", 1), Event(s, "completed", 2)>>
    <3>1. out = <<first>> \o delta \o <<ending>>
      BY <1>6, <1>13
    <3>2. first = Event(s, "committed", 1) /\ ending = Event(s, "completed", 2)
      BY <2>1
    <3>3. <<first>> \o delta = <<first>> /\ <<first>> \o <<ending>> = <<first, ending>>
      BY ONLY <2>1, SinglesJoined
    <3> QED
      BY <3>1, <3>2, <3>3
  <2> DEFINE a == Event(s, "committed", 1)
             b == Event(s, "completed", 2)
  <2>3. Len(out) = 2 /\ out[1] = a /\ out[2] = b /\ out # <<>> /\ 1..2 = {1, 2}
    BY <2>2
  <2>4. a.id = s.events + 1 /\ a.at = s.heard /\ Piece(a, s.settled, s.settled, s.base)
        /\ b.id = s.events + 2 /\ b.at = s.heard /\ Piece(b, s.settled, to, s.base)
    BY <1>2, <1>9, <1>13
  <2> HIDE DEF out, a, b
  <2>5. Fits(1) /\ Fits(2)
    BY <1>1, <1>13, <2>3, <2>4
  <2>6. out[1].id # out[2].id
    BY <1>1, <2>3, <2>4
  <2> QED
    BY <1>13, <2>3, <2>5, <2>6
<1>14. ASSUME s.doing = "finish", to # s.settled PROVE All
  <2>1. delta = <<said>> /\ Len(delta) = 1
    BY <1>14
  <2>2. out = <<Event(s, "committed", 2), said, Event(s, "completed", 3)>>
    <3>1. out = <<first>> \o delta \o <<ending>>
      BY <1>6, <1>14
    <3>2. first = Event(s, "committed", 2) /\ ending = Event(s, "completed", 3)
      BY <2>1
    <3>3. <<first>> \o <<said>> = <<first, said>> /\ <<first, said>> \o <<ending>> = <<first, said, ending>>
      BY ONLY SinglesJoined
    <3> QED
      BY <2>1, <3>1, <3>2, <3>3
  <2> DEFINE a == Event(s, "committed", 2)
             b == Event(s, "completed", 3)
  <2>3. Len(out) = 3 /\ out[1] = a /\ out[2] = said /\ out[3] = b /\ out # <<>> /\ 1..3 = {1, 2, 3}
    BY <2>2
  <2>4. a.id = s.events + 2 /\ a.at = s.heard /\ Piece(a, s.settled, s.settled, s.base)
        /\ b.id = s.events + 3 /\ b.at = s.heard /\ Piece(b, to, to, s.base)
    BY <1>2, <1>9, <1>14
  <2> HIDE DEF out, a, b
  <2>5. Fits(1) /\ Fits(2) /\ Fits(3)
    BY <1>1, <1>10, <1>14, <2>3, <2>4
  <2>6. out[1].id # out[2].id /\ out[1].id # out[3].id /\ out[2].id # out[3].id
    BY <1>1, <1>10, <2>3, <2>4
  <2> QED
    BY <1>14, <2>3, <2>5, <2>6
<1>15. All
  BY <1>1, <1>11, <1>12, <1>13, <1>14
<1>16. out \in Seq(Said) /\ \A p \in 1..Len(out) : Fits(p)
  BY <1>2, <1>15
<1> QED
  BY <1>15, <1>16, Zenon

\* The session after an update, part by part.
LEMMA ListenedIs ==
    ASSUME NEW s, s \in Session, NEW to, to \in Nat, MarksInOrder(s), to \in MaySettle(s)
    PROVE  /\ Listened(s, to).settled = to /\ Listened(s, to).last = s.heard /\ Listened(s, to).doing = "nothing"
           /\ Listened(s, to).events = s.events + Len(Events(s, to)) /\ Listened(s, to).commit = s.commit
           /\ Listened(s, to).is = s.is /\ Listened(s, to).base = s.base
           /\ Listened(s, to).pcm = s.pcm /\ Listened(s, to).heard = s.heard /\ Listened(s, to).next = s.next
           /\ Listened(s, to).log = s.log \o Events(s, to)
<1> DEFINE out == Events(s, to)
<1>1. out \in Seq(Said)
  BY ListeningKeeps
<1> DEFINE item == IF s.doing = "finish" THEN s.item + 1 ELSE s.item
           log == s.log \o out
           events == s.events + Len(out)
<1>2. Listened(s, to) = [s EXCEPT !.settled = to, !.last = s.heard, !.doing = "nothing",
                                  !.events = events, !.log = log, !.item = item]
  BY DEF Listened, Session
<1> HIDE DEF log, events, item, out
<1>3. /\ Listened(s, to).settled = to /\ Listened(s, to).last = s.heard /\ Listened(s, to).doing = "nothing"
      /\ Listened(s, to).events = events /\ Listened(s, to).commit = s.commit
      /\ Listened(s, to).is = s.is /\ Listened(s, to).base = s.base
      /\ Listened(s, to).pcm = s.pcm /\ Listened(s, to).heard = s.heard /\ Listened(s, to).next = s.next
      /\ Listened(s, to).log = log
  BY ZenonT(40), <1>2 DEF Session
<1> QED
  BY <1>3 DEF log, events, out

\* The history of a session goes on with what an update says.
LEMMA HistoryListens ==
    ASSUME NEW s, s \in Session, MarksInOrder(s), s.is = "kept", s.doing # "nothing", NEW to, to \in MaySettle(s),
           \A n \in DOMAIN s.pcm : s.pcm[n] = s.base + n,
           NEW h, h \in Seq(Said), NEW mark, mark \in [Nat -> Nat], History(s, h, mark)
    PROVE  /\ History(Listened(s, to), h \o Events(s, to), MarksAfter(s, h, mark, to))
           /\ MarksAfter(s, h, mark, to) \in [Nat -> Nat]
           /\ \A n \in 0..Len(h) : MarksAfter(s, h, mark, to)[n] = mark[n]
<1>1. PICK l, out, o, next, all, log, d, log2 :
        /\ l = Len(h) /\ out = Events(s, to) /\ o = Len(out) /\ next = MarksAfter(s, h, mark, to) /\ all = h \o out
        /\ log = s.log /\ d = Len(log) /\ log2 = log \o out
  OBVIOUS
<1>2. /\ s.settled \in Nat /\ s.last \in Nat /\ s.heard \in Nat /\ s.events \in Nat /\ s.base \in Nat
      /\ s.settled <= s.last /\ s.last <= s.heard /\ s.doing \in {"update", "finish"} /\ log \in Seq(Said)
  BY <1>1 DEF Session, MarksInOrder
<1>3. out \in Seq(Said) /\ to \in Nat
  BY <1>1, ListeningKeeps
<1>4. /\ \A p \in 1..o :
            /\ out[p].at = s.heard /\ s.events < out[p].id /\ out[p].id <= s.events + o
            /\ Piece(out[p], IF p = 1 \/ (s.doing = "finish" /\ p = 2) THEN s.settled ELSE to,
                             IF s.doing = "finish" /\ p = 1 THEN s.settled ELSE to, s.base)
      /\ \A p, q \in 1..o : out[p].id = out[q].id => p = q
      /\ out = <<>> => to = s.settled /\ s.doing = "update"
      /\ s.doing = "finish" => o >= 2
  BY ZenonT(20), <1>1, EventsAre
<1>a. l = Len(h) /\ o = Len(out) /\ all = h \o out
  BY ONLY <1>1
<1>b. d = Len(log) /\ o = Len(out) /\ log2 = log \o out
  BY ONLY <1>1
<1>c. log \in Seq(Said) /\ out \in Seq(Said) /\ mark \in [Nat -> Nat] /\ h \in Seq(Said)
  BY <1>2, <1>3
<1>5. l \in Nat /\ o \in Nat /\ d \in Nat
  BY ONLY <1>a, <1>b, <1>c, Elements
<1>d. \A n \in 1..l : h[n].at \in Nat
  <2>1. SUFFICES ASSUME NEW n \in 1..l PROVE h[n] \in Said
    BY SaidIs
  <2> QED
    BY ONLY <1>a, <1>c, Elements
<1>6. /\ Pieces(h, mark, s.base) /\ l = s.events /\ mark[l] = s.settled /\ (\A n \in 1..l : h[n].at <= s.last)
      /\ d <= l /\ \A p \in 1..d : log[p] = h[l - d + p]
  BY <1>1 DEF History, Keeps
<1>7. next = [n \in Nat |-> IF n <= l THEN mark[n] ELSE IF s.doing = "finish" /\ n = l + 1 THEN s.settled ELSE to]
  BY <1>1 DEF MarksAfter
<1>m. mark \in [Nat -> Nat] /\ h \in Seq(Said)
  OBVIOUS
<1>8. next \in [Nat -> Nat]
  BY ONLY <1>2, <1>3, <1>7, <1>m
<1>9. \A n \in 0..l : next[n] = mark[n]
  BY ONLY <1>5, <1>7
<1>10. \A p \in 1..o :
          /\ next[l + p] = IF s.doing = "finish" /\ p = 1 THEN s.settled ELSE to
          /\ next[l + p - 1] = IF p = 1 \/ (s.doing = "finish" /\ p = 2) THEN s.settled ELSE to
  <2>1. SUFFICES ASSUME NEW p \in 1..o
                 PROVE  /\ next[l + p] = IF s.doing = "finish" /\ p = 1 THEN s.settled ELSE to
                        /\ next[l + p - 1] = IF p = 1 \/ (s.doing = "finish" /\ p = 2) THEN s.settled ELSE to
    OBVIOUS
  <2>2. l + p \in Nat /\ ~(l + p <= l) /\ (l + p = l + 1 <=> p = 1)
    BY ONLY <1>5
  <2>3. next[l + p] = IF s.doing = "finish" /\ p = 1 THEN s.settled ELSE to
    BY ONLY <1>7, <2>2
  <2>4. ASSUME p = 1 PROVE next[l + p - 1] = s.settled
    <3>1. l + p - 1 = l /\ l \in 0..l
      BY ONLY <1>5, <2>4
    <3> QED
      BY ONLY <1>6, <1>9, <3>1
  <2>5. ASSUME p # 1
        PROVE  next[l + p - 1] = IF s.doing = "finish" /\ p = 2 THEN s.settled ELSE to
    <3>1. l + p - 1 \in Nat /\ ~(l + p - 1 <= l) /\ (l + p - 1 = l + 1 <=> p = 2)
      BY ONLY <1>5, <2>5
    <3> QED
      BY ONLY <1>7, <3>1
  <2> QED
    BY ONLY <2>3, <2>4, <2>5
<1>11. Pieces(all, next, s.base)
  <2>1. \A n \in 1..l : h[n].at <= s.heard
    <3>1. SUFFICES ASSUME NEW n \in 1..l PROVE h[n].at <= s.heard
      OBVIOUS
    <3>2. h[n].at \in Nat /\ h[n].at <= s.last
      BY ONLY <1>d, <1>6
    <3> QED
      BY ONLY <1>2, <3>2
  <2>2. \A p \in 1..o :
            /\ out[p].at = s.heard /\ l < out[p].id /\ out[p].id <= l + o
            /\ Piece(out[p], next[l + p - 1], next[l + p], s.base)
    BY ONLY <1>4, <1>6, <1>10
  <2> QED
    <3>1. Pieces(h, mark, s.base) /\ s.heard \in Nat /\ \A p, q \in 1..o : out[p].id = out[q].id => p = q
      BY ONLY <1>2, <1>4, <1>6
    <3>2. Pieces(h \o out, next, s.base)
      <4>1. h \in Seq(Said) /\ out \in Seq(Said)
        BY ONLY <1>c
      <4>2. o = Len(out) /\ l = Len(h)
        BY ONLY <1>a
      <4>3. \A n \in 1..Len(h) : h[n].at <= s.heard
        BY ONLY <4>2, <2>1
      <4>4. \A n \in 0..Len(h) : next[n] = mark[n]
        BY ONLY <4>2, <1>9
      <4>5. \A p \in 1..Len(out) :
                /\ out[p].at = s.heard /\ Len(h) < out[p].id /\ out[p].id <= Len(h) + Len(out)
                /\ Piece(out[p], next[Len(h) + p - 1], next[Len(h) + p], s.base)
        BY ONLY <4>2, <2>2
      <4>6. \A p, q \in 1..Len(out) : out[p].id = out[q].id => p = q
        BY ONLY <4>2, <3>1
      <4> QED
        <5>1. SpeaksOn(h, out, s.base, mark, next, s.heard)
          BY ONLY <3>1, <4>3, <4>4, <4>5, <4>6 DEF SpeaksOn
        <5> QED
          BY ONLY <4>1, <5>1, SayingOn
    <3> QED
      BY ONLY <1>a, <3>2
<1>12. /\ all \in Seq(Said) /\ Len(all) = l + o /\ (\A n \in 1..l : all[n] = h[n]) /\ (\A p \in 1..o : all[l + p] = out[p])
       /\ \A n \in 1..l + o : n \in 1..l \/ \E p \in 1..o : n = l + p
  <2>1. h \in Seq(Said) /\ out \in Seq(Said)
    BY ONLY <1>c
  <2>2. all \in Seq(Said) /\ Len(all) = l + o
    BY ONLY <1>a, <2>1, Joined
  <2>3. \A n \in 1..l : all[n] = h[n]
    BY ONLY <1>a, <2>1, Joined
  <2>4. \A p \in 1..o : all[l + p] = out[p]
    BY ONLY <1>a, <2>1, Joined
  <2>5. \A n \in 1..l + o : n \in 1..l \/ \E p \in 1..o : n = l + p
    BY ONLY <1>a, <2>1, Joined
  <2> QED
    BY ONLY <2>2, <2>3, <2>4, <2>5
<1>13. /\ log2 \in Seq(Said) /\ Len(log2) = d + o /\ (\A n \in 1..d : log2[n] = log[n])
       /\ (\A p \in 1..o : log2[d + p] = out[p]) /\ \A n \in 1..d + o : n \in 1..d \/ \E p \in 1..o : n = d + p
  <2>1. log \in Seq(Said) /\ out \in Seq(Said)
    BY ONLY <1>c
  <2>2. log2 \in Seq(Said) /\ Len(log2) = d + o
    BY ONLY <1>b, <2>1, Joined
  <2>3. \A n \in 1..d : log2[n] = log[n]
    BY ONLY <1>b, <2>1, Joined
  <2>4. \A p \in 1..o : log2[d + p] = out[p]
    BY ONLY <1>b, <2>1, Joined
  <2>5. \A n \in 1..d + o : n \in 1..d \/ \E p \in 1..o : n = d + p
    BY ONLY <1>b, <2>1, Joined
  <2> QED
    BY ONLY <2>2, <2>3, <2>4, <2>5
<1>14. PICK t : t = Listened(s, to)
  OBVIOUS
<1>15. t.is = "kept" /\ t.settled = to /\ t.last = s.heard /\ t.events = s.events + o /\ t.base = s.base /\ t.log = log2
  <2>0. s \in Session /\ MarksInOrder(s) /\ to \in Nat /\ to \in MaySettle(s) /\ s.is = "kept"
    BY <1>3
  <2>1. Listened(s, to).log = s.log \o Events(s, to) /\ Listened(s, to).events = s.events + Len(Events(s, to))
    BY ONLY <2>0, ListenedIs
  <2>2. Listened(s, to).settled = to /\ Listened(s, to).last = s.heard /\ Listened(s, to).base = s.base /\ Listened(s, to).is = s.is
    BY ONLY <2>0, ListenedIs
  <2> QED
    BY ONLY <1>1, <1>14, <2>0, <2>1, <2>2
<1>16. next[l + o] = to
  <2>1. ASSUME o = 0 PROVE next[l + o] = to
    <3>1. out = <<>> /\ l + o = l /\ l \in 0..l
      <4>1. out = <<>>
        <5>1. out \in Seq(Said)
          BY ONLY <1>c
        <5>2. o = Len(out)
          BY ONLY <1>a
        <5>3. out = <<>> <=> o = 0
          BY ONLY <5>1, <5>2, Elements
        <5> QED
          BY ONLY <5>3, <2>1
      <4> QED
        BY ONLY <1>5, <2>1, <4>1
    <3> QED
      BY ONLY <1>4, <1>6, <1>9, <3>1
  <2>2. ASSUME o # 0 PROVE next[l + o] = to
    <3>1. o \in 1..o /\ (s.doing = "finish" => o # 1)
      BY ONLY <1>4, <1>5, <2>2
    <3> QED
      BY ONLY <1>10, <3>1
  <2> QED
    BY <2>1, <2>2
<1>17. \A n \in 1..l + o : all[n].at <= s.heard
  <2>1. SUFFICES ASSUME NEW n \in 1..l + o PROVE all[n].at <= s.heard
    OBVIOUS
  <2>2. ASSUME n \in 1..l PROVE all[n].at <= s.heard
    <3>1. h[n].at \in Nat /\ h[n].at <= s.last
      BY ONLY <1>d, <1>6, <2>2
    <3> QED
      BY ONLY <1>2, <1>12, <2>2, <3>1
  <2>3. ASSUME NEW p \in 1..o, n = l + p PROVE all[n].at <= s.heard
    BY ONLY <1>2, <1>4, <1>12, <2>3
  <2> QED
    BY ONLY <1>12, <2>2, <2>3
<1>18. d + o <= l + o /\ \A p \in 1..d + o : log2[p] = all[(l + o) - (d + o) + p]
  <2>1. d + o <= l + o /\ (l + o) - (d + o) = l - d /\ l - d \in Nat
    BY ONLY <1>5, <1>6
  <2>2. ASSUME NEW p \in 1..d PROVE log2[p] = all[l - d + p]
    <3>1. l - d + p \in 1..l
      BY ONLY <1>5, <1>6
    <3> QED
      BY ONLY <1>6, <1>12, <1>13, <3>1
  <2>3. ASSUME NEW n \in 1..o PROVE log2[d + n] = all[l - d + (d + n)]
    <3>1. l - d + (d + n) = l + n
      BY ONLY <1>5
    <3> QED
      BY ONLY <1>12, <1>13, <3>1
  <2>4. \A p \in 1..d + o : log2[p] = all[l - d + p]
    BY ONLY <1>13, <2>2, <2>3
  <2> QED
    BY ONLY <2>1, <2>4
<1>19. History(t, all, next)
  <2>1. Len(t.log) = d + o
    BY <1>13, <1>15
  <2> QED
    BY ONLY <1>6, <1>11, <1>12, <1>15, <1>16, <1>17, <1>18, <1>13 DEF History, Keeps
<1> QED
  BY <1>1, <1>8, <1>9, <1>14, <1>19

\* What is not settled, said or logged leaves the history as it is.
LEMMA HistoryStays ==
    ASSUME NEW s, NEW t, NEW h, NEW mark, History(s, h, mark), t.base = s.base,
           t.is = "none" => s.is = "none",
           t.is = "kept" => /\ s.is = "kept" /\ t.events = s.events /\ t.settled = s.settled
                            /\ t.last = s.last /\ t.log = s.log
    PROVE  History(t, h, mark)
BY DEF History, Keeps

\* A resumed session forgets of its log only what the client had heard when it
\* asked, and so all but the last of what the client has.
Reached(e) == IF e = 0 THEN 0 ELSE e - 1
LEMMA HistoryTrims ==
    ASSUME NEW s, s \in Session, s.is = "kept", NEW h, h \in Seq(Said), NEW mark, History(s, h, mark),
           NEW from, from \in Nat, NEW t, t.is = "kept", t.base = s.base, t.events = s.events, t.settled = s.settled, t.last = s.last,
           t.log = Again(s.log, from)
    PROVE  /\ History(t, h, mark)
           /\ \A e \in 0..Len(h) :
                Len(h) - Len(s.log) <= Reached(e) /\ from <= (IF e = 0 THEN 0 ELSE h[e].at) =>
                    Len(h) - Len(t.log) <= Reached(e)
<1>1. PICK l, log, d, before, c, again : /\ l = Len(h) /\ log = s.log /\ d = Len(log)
                                         /\ before = {n \in DOMAIN log : log[n].at < from}
                                         /\ c = Cardinality(before) /\ again = SubSeq(log, c + 1, d)
  OBVIOUS
<1>2. log \in Seq(Said) /\ l \in Nat /\ d \in Nat /\ DOMAIN log = 1..d
  BY <1>1 DEF Session
<1>3. d <= l /\ (\A p \in 1..d : log[p] = h[l - d + p]) /\ \A n, o \in 1..l : n <= o => h[n].at <= h[o].at
  BY <1>1 DEF History, Keeps, Pieces
<1>h. h \in Seq(Said) /\ from \in Nat
  OBVIOUS
<1>4. \A n \in 1..l : h[n].at \in Nat
  <2>1. SUFFICES ASSUME NEW n \in 1..l PROVE h[n] \in Said
    BY SaidIs
  <2> QED
    BY ONLY <1>1, <1>h, Elements
<1>5. \A p \in 1..d : l - d + p \in 1..l
  BY ONLY <1>2, <1>3
<1>6. before \subseteq 1..d /\ \A n \in before : \A o \in 1..n : o \in before
  <2>1. before \subseteq 1..d
    BY ONLY <1>1, <1>2
  <2>2. SUFFICES ASSUME NEW n, n \in before, NEW o, o \in 1..n PROVE o \in before
    BY <2>1
  <2>3. n \in 1..d /\ o \in 1..d /\ o <= n /\ log[n].at < from
    BY ONLY <1>1, <1>2, <2>1, <2>2
  <2>4. l - d + o <= l - d + n /\ l - d + o \in 1..l /\ l - d + n \in 1..l
    BY ONLY <1>2, <1>5, <2>3
  <2>5. log[o].at <= log[n].at /\ log[o].at \in Nat /\ log[n].at \in Nat
    BY ONLY <1>3, <1>4, <2>3, <2>4
  <2>6. log[o].at < from
    BY ONLY <1>h, <2>3, <2>5
  <2> QED
    BY ONLY <1>1, <1>2, <2>3, <2>6
<1>7. c \in 0..d /\ before = 1..c
  BY ONLY <1>1, <1>2, <1>6, NoGap
<1>8. again = Again(log, from)
  BY ONLY <1>1 DEF Again, FromOn
<1>9. Len(again) = d - c /\ \A p \in 1..d - c : again[p] = log[c + p]
  <2>1. PICK a : a = c + 1
    OBVIOUS
  <2>2. a \in Int /\ d \in Int /\ \A n \in a..d : n \in 1..d
    BY ONLY <1>2, <1>7, <2>1
  <2>3. \A n \in a..d : log[n] \in Said
    BY ONLY <1>1, <1>2, <2>2
  <2>4. again = SubSeq(log, a, d)
    BY ONLY <1>1, <2>1
  <2>5. Len(again) = (IF a <= d THEN d - a + 1 ELSE 0) /\ \A p \in 1..d - a + 1 : again[p] = log[a + p - 1]
    BY ONLY <2>2, <2>3, <2>4, SubSeqProperties
  <2>6. d - a + 1 = d - c /\ (IF a <= d THEN d - a + 1 ELSE 0) = d - c /\ \A p \in 1..d - c : a + p - 1 = c + p
    BY ONLY <1>2, <1>7, <2>1
  <2> QED
    BY ONLY <2>5, <2>6
<1>10. Len(t.log) = d - c /\ \A p \in 1..d - c : t.log[p] = h[l - (d - c) + p]
  <2>1. t.log = again
    BY <1>1, <1>8
  <2>2. SUFFICES ASSUME NEW p \in 1..d - c PROVE again[p] = h[l - (d - c) + p]
    BY <1>9, <2>1
  <2>3. c + p \in 1..d /\ l - d + (c + p) = l - (d - c) + p
    BY ONLY <1>2, <1>7
  <2> QED
    BY ONLY <1>3, <1>9, <2>3
<1>11. d - c <= l
  BY ONLY <1>2, <1>3, <1>7
<1>12. History(t, h, mark)
  <2>1. Len(h) = s.events /\ mark[Len(h)] = s.settled /\ (\A n \in 1..Len(h) : h[n].at <= s.last) /\ Pieces(h, mark, s.base)
    BY DEF History, Keeps
  <2> QED
    BY <1>1, <1>10, <1>11, <2>1 DEF History, Keeps
<1>13. ASSUME NEW e, e \in 0..l, l - d <= Reached(e), from <= (IF e = 0 THEN 0 ELSE h[e].at)
       PROVE  l - (d - c) <= Reached(e)
  <2>1. ASSUME c = 0 PROVE l - (d - c) <= Reached(e)
    <3>1. d - c = d
      BY ONLY <1>2, <2>1
    <3> QED
      BY ONLY <1>13, <3>1
  <2>2. ASSUME c # 0 PROVE l - (d - c) <= Reached(e)
    <3>1. c \in 1..d /\ l - (d - c) = l - d + c
      BY ONLY <1>2, <1>7, <2>2
    <3>2. log[c].at < from /\ l - d + c \in 1..l /\ log[c] = h[l - d + c]
      <4>1. c \in before
        BY ONLY <1>7, <3>1
      <4>2. log[c].at < from
        BY ONLY <1>1, <4>1
      <4> QED
        BY ONLY <1>3, <1>5, <3>1, <4>2
    <3>3. e # 0
      BY ONLY <1>4, <1>13, <1>h, <3>2
    <3>4. e \in 1..l /\ e \in Nat
      BY ONLY <1>2, <1>13, <3>3
    <3>5. h[l - d + c].at < h[e].at /\ h[e].at \in Nat /\ h[l - d + c].at \in Nat
      BY ONLY <1>4, <1>13, <1>h, <3>2, <3>3, <3>4
    <3>6. ~(e <= l - d + c)
      BY ONLY <1>3, <3>2, <3>4, <3>5
    <3>7. Reached(e) = e - 1
      BY ONLY <3>3 DEF Reached
    <3> QED
      BY ONLY <1>2, <1>7, <3>1, <3>4, <3>6, <3>7
  <2> QED
    BY <2>1, <2>2
<1> QED
  BY <1>1, <1>10, <1>12, <1>13

\* The session the phone knows, or is about to be told of.
Coming == down[phone.sock]
Current ==
    IF ~Live THEN 0
    ELSE IF phone.id # 0 THEN phone.id
    ELSE IF phone.at = "up" /\ Coming # <<>> /\ Coming[1].kind \in Hellos THEN Coming[1].id ELSE 0

\* The text is in the order of the take, and misses words only before a
\* session that began.
TextGrows ==
    \A n \in 1..Len(phone.text) - 1 :
        \/ phone.text[n + 1] = phone.text[n] + 1
        \/ /\ phone.text[n + 1] > phone.text[n] + 1
           /\ \E i \in SessionIds : sess[i].is # "none" /\ phone.text[n + 1] = sess[i].base + 1
\* It ends at a mark of the session, or before the session if that is its beginning.
TextEnds(mark) ==
    /\ phone.text # <<>> => phone.text[Len(phone.text)] <= phone.origin + mark
    /\ mark > 0 => phone.text # <<>> /\ phone.text[Len(phone.text)] = phone.origin + mark

\* The phone has of the session's history the first e.
SampleAt(h, e) == IF e = 0 THEN 0 ELSE h[e].at
PhoneHas(H, M, e) ==
    Live =>
        /\ phone.id = 0 => e = 0 /\ phone.seen = {} /\ phone.covers = 0 /\ phone.settledTo = 0 /\ TextEnds(0)
        /\ phone.id # 0 =>
            /\ e <= Len(H[phone.id]) /\ phone.seen = {H[phone.id][n].id : n \in 1..e}
            /\ phone.settledTo = SampleAt(H[phone.id], e)
            /\ TextEnds(M[phone.id][e])

\* What is on its way to the phone goes on from there, or from before, up to
\* the last that was said.
Tells(D, h, g) ==
    \A p \in 1..Len(D) :
        IF D[p].kind \in Saids THEN g[p] = g[p - 1] + 1 /\ g[p] <= Len(h) /\ D[p] = h[g[p]] ELSE g[p] = g[p - 1]
TellsUpTo(D, h, x, y) == \E g \in [0..Len(D) -> Nat] : g[0] = x /\ Tells(D, h, g) /\ g[Len(D)] = y
Tale(H) == IF Current = 0 THEN <<>> ELSE H[Current]
Telling(H, e) ==
    phone.at = "up" =>
        \E x \in 0..e, y \in Nat :
            /\ TellsUpTo(Coming, Tale(H), x, y)
            /\ task[phone.sock].at = "run" => y = sess[task[phone.sock].s].events

\* What the session has still in its log, or will have when it is asked for,
\* reaches back to there.
Behind(H, e) ==
    Current # 0 =>
        /\ \A k \in Sockets : task[k].at \in Early /\ task[k].s = Current => task[k].from <= phone.settledTo
        /\ Kept(Current) => Len(H[Current]) - Len(sess[Current].log) <= Reached(e)

\* A commit was said after all that the phone has it cover, and what comes of
\* it has heard as much.
Committing == phone.covers > 0 \/ (stopped /\ recorded = 0)
Covering(s, h, covers) ==
    /\ s.commit => covers <= s.base + Len(s.pcm)
    /\ s.doing = "finish" => covers <= s.base + s.heard
    /\ \A n \in 1..Len(h) : h[n].kind # "delta" => covers <= s.base + h[n].at
Bare(s, h) == ~s.commit /\ s.doing # "finish" /\ \A n \in 1..Len(h) : h[n].kind = "delta"
Owes(s, h) == Covering(s, h, phone.covers) /\ (Committing \/ Bare(s, h))
Commits(H) == Current # 0 => Owes(sess[Current], H[Current])

Histories(H, M) == \A i \in SessionIds : History(sess[i], H[i], M[i])
Story(H, M, e) ==
    /\ H \in [SessionIds -> Seq(Said)] /\ M \in [SessionIds -> [Nat -> Nat]] /\ e \in Nat
    /\ Histories(H, M) /\ PhoneHas(H, M, e) /\ Telling(H, e) /\ Behind(H, e) /\ Commits(H)
SoFar == \E H, M, e : Story(H, M, e)

\* A socket tells what session it is before it says anything of it, once.
Greeted ==
    phone.at = "up" =>
        /\ \A p \in 1..Len(Coming) :
            Coming[p].kind \in Hellos => p = 1 /\ ~phone.ready /\ (phone.id # 0 => Coming[p].id = phone.id)
        /\ \A p \in 1..Len(Coming) : Coming[p].kind \in Saids => phone.ready \/ Coming[1].kind \in Hellos
        /\ task[phone.sock].at = "run" /\ ~phone.ready =>
            /\ Coming # <<>> /\ Coming[1].kind \in Hellos /\ Coming[1].id = task[phone.sock].s
            /\ Coming[1].at = Len(sess[task[phone.sock].s].pcm)
        /\ phone.ready => phone.id # 0 /\ (task[phone.sock].at = "run" => task[phone.sock].s = phone.id)
Called == \A k \in Sockets : task[k].at \in Early /\ task[k].s # 0 => sess[task[k].s].is # "none"
Unsaid == \A k \in Sockets : task[k].at = "none" \/ (phone.at = "up" /\ phone.sock = k /\ ~phone.ready) => up[k] = <<>>
Opened == phone.at = "up" => phone.sock \in open
TurnsWithin ==
    /\ phone.turn = 0 => stopped /\ recorded = 0
    /\ Live => phone.covers <= recorded /\ (phone.turn # -1 /\ phone.whole => phone.covers <= phone.turn)
Manners ==
    Greeted /\ Called /\ Unsaid /\ Opened /\ TurnsWithin /\ TextGrows /\ CommitCoversWhatThereWas

\* On its way to a session each sample is the next; and a commit comes after
\* what it covers.
Exact(k, f) ==
    /\ Follow(k, f) /\ f[0] = Len(sess[task[k].s].pcm)
    /\ \A p \in 1..Len(up[k]) :
        /\ up[k][p].kind = "offset" => f[p] = f[p - 1]
        /\ up[k][p].kind = "commit" /\ task[k].s = Current =>
            Committing /\ phone.covers <= sess[task[k].s].base + f[p]
Exactly == \A k \in Sockets : task[k].at = "run" => \E f \in [0..Len(up[k]) -> Nat] : Exact(k, f)

Text == SoFar /\ Manners /\ Exactly

\* What the phone is told keeps its place when more is said, or nothing but a notice.
Extends(h, t) == Len(h) <= Len(t) /\ \A n \in 1..Len(h) : t[n] = h[n]
Keeping(D, E) == E = D \/ \E m \in Notice : E = Append(D, m)

LEMMA NoticeIs ==
    ASSUME NEW m, m \in Notice
    PROVE  m \in DownMessage /\ m.kind \notin Saids /\ m.kind \notin Hellos
BY DEF Notice, DownMessage, Saids, Hellos

LEMMA ExtendingTells ==
    ASSUME NEW D, D \in Seq(DownMessage), NEW h, NEW t, h \in Seq(Said), t \in Seq(Said), NEW g, Tells(D, h, g),
           Extends(h, t), g \in [0..Len(D) -> Nat]
    PROVE  Tells(D, t, g)
<1>1. SUFFICES ASSUME NEW p, p \in 1..Len(D)
               PROVE  IF D[p].kind \in Saids THEN g[p] = g[p - 1] + 1 /\ g[p] <= Len(t) /\ D[p] = t[g[p]] ELSE g[p] = g[p - 1]
  BY DEF Tells
<1>2. IF D[p].kind \in Saids THEN g[p] = g[p - 1] + 1 /\ g[p] <= Len(h) /\ D[p] = h[g[p]] ELSE g[p] = g[p - 1]
  BY <1>1 DEF Tells
<1>3. Len(h) \in Nat /\ Len(t) \in Nat /\ Len(h) <= Len(t) /\ (\A n \in 1..Len(h) : t[n] = h[n]) /\ Len(D) \in Nat
  BY DEF Extends
<1>4. g[p] \in Nat /\ g[p - 1] \in Nat
  <2>1. p \in 0..Len(D) /\ p - 1 \in 0..Len(D)
    BY ONLY <1>1, <1>3
  <2> QED
    BY <2>1
<1>5. ASSUME D[p].kind \in Saids PROVE g[p] = g[p - 1] + 1 /\ g[p] <= Len(t) /\ D[p] = t[g[p]]
  <2>1. g[p] \in 1..Len(h) /\ g[p] <= Len(t)
    BY ONLY <1>2, <1>3, <1>4, <1>5
  <2> QED
    BY ONLY <1>2, <1>3, <1>5, <2>1
<1> QED
  BY ONLY <1>2, <1>5

LEMMA KeepingTells ==
    ASSUME NEW D, D \in Seq(DownMessage), NEW E, Keeping(D, E), NEW h, NEW t, h \in Seq(Said), t \in Seq(Said), Extends(h, t),
           NEW x, NEW y, TellsUpTo(D, h, x, y)
    PROVE  TellsUpTo(E, t, x, y)
<1>1. PICK g \in [0..Len(D) -> Nat] : g[0] = x /\ Tells(D, h, g) /\ g[Len(D)] = y
  BY DEF TellsUpTo
<1>2. Tells(D, t, g)
  BY <1>1, ExtendingTells
<1>3. ASSUME E = D PROVE TellsUpTo(E, t, x, y)
  BY <1>1, <1>2, <1>3 DEF TellsUpTo
<1>4. ASSUME NEW m, m \in Notice, E = Append(D, m) PROVE TellsUpTo(E, t, x, y)
  <2>1. PICK l : l = Len(D)
    OBVIOUS
  <2>2. l \in Nat
    BY <2>1
  <2>3. m \in DownMessage /\ m.kind \notin Saids
    BY <1>4, NoticeIs
  <2>4. Len(E) = l + 1 /\ (\A p \in 1..l : E[p] = D[p]) /\ E[l + 1] = m
    BY <1>4, <2>1, <2>3, AppendProperties
  <2>5. PICK next : next = [p \in 0..l + 1 |-> IF p <= l THEN g[p] ELSE g[l]]
    OBVIOUS
  <2>6. g \in [0..l -> Nat] /\ g[l] \in Nat
    BY <1>1, <2>1, <2>2
  <2>7. next \in [0..l + 1 -> Nat] /\ (\A p \in 0..l : next[p] = g[p]) /\ next[l + 1] = g[l]
    BY ONLY <2>2, <2>5, <2>6
  <2>8. ASSUME NEW p, p \in 1..l + 1
        PROVE  IF E[p].kind \in Saids THEN next[p] = next[p - 1] + 1 /\ next[p] <= Len(t) /\ E[p] = t[next[p]]
               ELSE next[p] = next[p - 1]
    <3>1. ASSUME p \in 1..l
          PROVE  IF E[p].kind \in Saids THEN next[p] = next[p - 1] + 1 /\ next[p] <= Len(t) /\ E[p] = t[next[p]]
                 ELSE next[p] = next[p - 1]
      <4>1. p \in 0..l /\ p - 1 \in 0..l
        BY ONLY <2>2, <3>1
      <4>2. next[p] = g[p] /\ next[p - 1] = g[p - 1] /\ E[p] = D[p]
        BY ONLY <2>4, <2>7, <3>1, <4>1
      <4>3. IF D[p].kind \in Saids THEN g[p] = g[p - 1] + 1 /\ g[p] <= Len(t) /\ D[p] = t[g[p]] ELSE g[p] = g[p - 1]
        BY ONLY <1>2, <2>1, <3>1 DEF Tells
      <4> QED
        BY ONLY <4>2, <4>3
    <3>2. ASSUME p = l + 1
          PROVE  IF E[p].kind \in Saids THEN next[p] = next[p - 1] + 1 /\ next[p] <= Len(t) /\ E[p] = t[next[p]]
                 ELSE next[p] = next[p - 1]
      <4>1. p - 1 = l /\ l \in 0..l
        BY ONLY <2>2, <3>2
      <4> QED
        BY ONLY <2>3, <2>4, <2>7, <3>2, <4>1
    <3>3. p \in 1..l \/ p = l + 1
      BY ONLY <2>2, <2>8
    <3> QED
      BY <3>1, <3>2, <3>3
  <2>9. Tells(E, t, next)
    BY ONLY <2>4, <2>8 DEF Tells
  <2>10. next[0] = x /\ next[Len(E)] = y
    <3>1. 0 \in 0..l
      BY ONLY <2>2
    <3> QED
      BY ONLY <1>1, <2>1, <2>4, <2>7, <3>1
  <2>11. next \in [0..Len(E) -> Nat]
    BY ONLY <2>4, <2>7
  <2> QED
    BY ONLY <2>9, <2>10, <2>11 DEF TellsUpTo
<1> QED
  BY <1>3, <1>4 DEF Keeping

\* What is said now is told next; and what is said again is told from where it begins.
LEMMA SayingTells ==
    ASSUME NEW D, D \in Seq(DownMessage), NEW h, h \in Seq(Said), NEW out, out \in Seq(Said),
           NEW x, TellsUpTo(D, h, x, Len(h))
    PROVE  TellsUpTo(D \o out, h \o out, x, Len(h \o out))
<1>1. PICK g \in [0..Len(D) -> Nat] : g[0] = x /\ Tells(D, h, g) /\ g[Len(D)] = Len(h)
  BY DEF TellsUpTo
<1>2. PICK l, o, d, all, E : l = Len(h) /\ o = Len(out) /\ d = Len(D) /\ all = h \o out /\ E = D \o out
  OBVIOUS
<1>3. h \in Seq(Said) /\ out \in Seq(Said)
  OBVIOUS
<1>4. D \in Seq(DownMessage) /\ out \in Seq(DownMessage)
  BY DEF DownMessage
<1>a. l = Len(h) /\ o = Len(out) /\ all = h \o out
  BY ONLY <1>2
<1>b. d = Len(D) /\ o = Len(out) /\ E = D \o out
  BY ONLY <1>2
<1>5. l \in Nat /\ o \in Nat
  BY ONLY <1>a, <1>3, Joined
<1>6. d \in Nat
  BY ONLY <1>b, <1>4, Joined
<1>7. Len(all) = l + o /\ all \in Seq(Said)
  BY ONLY <1>a, <1>3, Joined
<1>8. \A n \in 1..l : all[n] = h[n]
  BY ONLY <1>a, <1>3, Joined
<1>9. \A p \in 1..o : all[l + p] = out[p] /\ out[p] \in Said
  BY ONLY <1>a, <1>3, Joined
<1>10. Len(E) = d + o
  BY ONLY <1>b, <1>4, Joined
<1>11. \A n \in 1..d : E[n] = D[n]
  BY ONLY <1>b, <1>4, Joined
<1>12. \A p \in 1..o : E[d + p] = out[p]
  BY ONLY <1>b, <1>4, Joined
<1>13. \A n \in 1..d + o : n \in 1..d \/ \E p \in 1..o : n = d + p
  <2>1. SUFFICES ASSUME NEW n \in 1..d + o, n \notin 1..d PROVE n - d \in 1..o /\ n = d + (n - d)
    OBVIOUS
  <2> QED
    BY ONLY <1>5, <1>6, <2>1
<1>14. PICK next : next = [p \in 0..d + o |-> IF p <= d THEN g[p] ELSE l + (p - d)]
  OBVIOUS
<1>15. g \in [0..d -> Nat] /\ g[d] = l
  BY <1>1, <1>2
<1>16. next \in [0..d + o -> Nat]
  <2>1. ASSUME NEW p \in 0..d + o PROVE (IF p <= d THEN g[p] ELSE l + (p - d)) \in Nat
    BY ONLY <1>5, <1>6, <1>15
  <2> QED
    BY ONLY <1>14, <2>1
<1>17. \A p \in 0..d : next[p] = g[p]
  BY ONLY <1>5, <1>6, <1>14
<1>18. \A p \in 0..o : next[d + p] = l + p
  <2>1. SUFFICES ASSUME NEW p, p \in 0..o PROVE next[d + p] = l + p
    OBVIOUS
  <2>2. PICK n : n = d + p
    OBVIOUS
  <2>3. n \in 0..d + o /\ (n <= d <=> p = 0) /\ n - d = p
    BY ONLY <1>5, <1>6, <2>1, <2>2
  <2>4. next[n] = IF n <= d THEN g[n] ELSE l + (n - d)
    BY ONLY <1>14, <2>3
  <2>5. ASSUME p = 0 PROVE next[n] = l + p
    <3>1. n = d /\ l + p = l /\ n <= d
      BY ONLY <1>5, <1>6, <2>2, <2>5
    <3> QED
      BY ONLY <1>15, <2>4, <3>1
  <2>6. ASSUME p # 0 PROVE next[n] = l + p
    BY ONLY <2>3, <2>4, <2>6
  <2> QED
    BY ONLY <2>2, <2>5, <2>6
<1>19. Extends(h, all)
  BY ONLY <1>a, <1>5, <1>7, <1>8 DEF Extends
<1>20. Tells(D, all, g)
  BY ONLY <1>1, <1>3, <1>4, <1>7, <1>19, ExtendingTells
<1>21. ASSUME NEW p, p \in 1..d + o
       PROVE  IF E[p].kind \in Saids THEN next[p] = next[p - 1] + 1 /\ next[p] <= Len(all) /\ E[p] = all[next[p]]
              ELSE next[p] = next[p - 1]
  <2>1. ASSUME p \in 1..d
        PROVE  IF E[p].kind \in Saids THEN next[p] = next[p - 1] + 1 /\ next[p] <= Len(all) /\ E[p] = all[next[p]]
               ELSE next[p] = next[p - 1]
    <3>1. p \in 0..d /\ p - 1 \in 0..d
      BY ONLY <1>6, <2>1
    <3>2. next[p] = g[p] /\ next[p - 1] = g[p - 1] /\ E[p] = D[p]
      BY ONLY <1>11, <1>17, <2>1, <3>1
    <3>3. IF D[p].kind \in Saids THEN g[p] = g[p - 1] + 1 /\ g[p] <= Len(all) /\ D[p] = all[g[p]] ELSE g[p] = g[p - 1]
      BY ONLY <1>b, <1>20, <2>1 DEF Tells
    <3> QED
      BY ONLY <3>2, <3>3
  <2>2. ASSUME NEW n, n \in 1..o, p = d + n
        PROVE  E[p].kind \in Saids /\ next[p] = next[p - 1] + 1 /\ next[p] <= Len(all) /\ E[p] = all[next[p]]
    <3>1. n \in 0..o /\ n - 1 \in 0..o /\ p - 1 = d + (n - 1)
      BY ONLY <1>5, <1>6, <2>2
    <3>2. next[p] = l + n /\ next[p - 1] = l + (n - 1)
      BY ONLY <1>18, <2>2, <3>1
    <3>3. next[p] = next[p - 1] + 1 /\ next[p] <= l + o
      BY ONLY <1>5, <2>2, <3>2
    <3>4. E[p] = out[n] /\ all[l + n] = out[n] /\ out[n] \in Said
      BY ONLY <1>9, <1>12, <2>2
    <3>5. E[p].kind \in Saids
      BY ONLY <3>4, SaidIs
    <3> QED
      BY ONLY <1>7, <3>2, <3>3, <3>4, <3>5
  <2> QED
    BY ONLY <1>13, <1>21, <2>1, <2>2
<1>22. Tells(E, all, next)
  BY ONLY <1>10, <1>21 DEF Tells
<1>23. next[0] = x /\ next[d + o] = l + o
  <2>1. 0 \in 0..d /\ o \in 0..o
    BY ONLY <1>5, <1>6
  <2> QED
    BY ONLY <1>1, <1>17, <1>18, <2>1
<1>24. TellsUpTo(E, all, x, Len(all))
  BY ONLY <1>7, <1>10, <1>16, <1>22, <1>23 DEF TellsUpTo
<1> QED
  BY ONLY <1>2, <1>24

LEMMA SayingAgainTells ==
    ASSUME NEW hello, hello \in DownMessage, hello.kind \notin Saids, NEW h, h \in Seq(Said), NEW log, log \in Seq(Said),
           Len(log) <= Len(h), \A p \in 1..Len(log) : log[p] = h[Len(h) - Len(log) + p]
    PROVE  TellsUpTo(<<hello>> \o log, h, Len(h) - Len(log), Len(h))
<1>2. PICK l, d, E, one : l = Len(h) /\ d = Len(log) /\ one = <<hello>> /\ E = one \o log
  OBVIOUS
<1>3. one \in Seq(DownMessage) /\ log \in Seq(DownMessage) /\ Len(one) = 1 /\ one[1] = hello
  BY <1>2 DEF DownMessage
<1>4. l \in Nat /\ d \in Nat /\ d <= l
  BY <1>2
<1>5. Len(E) = 1 + d
  BY ONLY <1>2, <1>3, ConcatProperties
<1>6. \A n \in 1..1 + d : E[n] = IF n <= 1 THEN one[n] ELSE log[n - 1]
  BY ONLY <1>2, <1>3, ConcatProperties
<1>7. PICK next : next = [p \in 0..1 + d |-> IF p = 0 THEN l - d ELSE l - d + (p - 1)]
  OBVIOUS
<1>8. next \in [0..1 + d -> Nat]
  <2>1. ASSUME NEW p \in 0..1 + d PROVE (IF p = 0 THEN l - d ELSE l - d + (p - 1)) \in Nat
    BY ONLY <1>4
  <2> QED
    BY ONLY <1>7, <2>1
<1>9. \A p \in 1..d : log[p] \in Said /\ log[p] = h[l - d + p]
  <2>1. \A p \in 1..d : log[p] \in Said
    BY <1>2, Elements
  <2> QED
    BY <1>2, <2>1
<1>10. ASSUME NEW p, p \in 1..1 + d
       PROVE  IF E[p].kind \in Saids THEN next[p] = next[p - 1] + 1 /\ next[p] <= l /\ E[p] = h[next[p]]
              ELSE next[p] = next[p - 1]
  <2>1. ASSUME p = 1 PROVE E[p].kind \notin Saids /\ next[p] = next[p - 1]
    <3>1. 1 \in 1..1 + d /\ 1 \in 0..1 + d /\ 0 \in 0..1 + d /\ p - 1 = 0 /\ l - d + 0 = l - d /\ 1 - 1 = 0
      BY ONLY <1>4, <2>1
    <3>2. E[1] = hello
      BY ONLY <1>3, <1>6, <3>1
    <3>3. next[1] = l - d /\ next[0] = l - d
      BY ONLY <1>7, <3>1
    <3>4. hello.kind \notin Saids
      OBVIOUS
    <3> QED
      BY ONLY <2>1, <3>1, <3>2, <3>3, <3>4
  <2>2. ASSUME p # 1
        PROVE  E[p].kind \in Saids /\ next[p] = next[p - 1] + 1 /\ next[p] <= l /\ E[p] = h[next[p]]
    <3>1. p - 1 \in 1..d /\ p \in 0..1 + d /\ p - 1 \in 0..1 + d /\ ~(p <= 1) /\ p # 0 /\ p - 1 # 0
      BY ONLY <1>4, <1>10, <2>2
    <3>2. E[p] = log[p - 1] /\ next[p] = l - d + (p - 1) /\ next[p - 1] = l - d + (p - 1 - 1)
      BY ONLY <1>6, <1>7, <1>10, <3>1
    <3>3. next[p] = next[p - 1] + 1 /\ next[p] <= l
      BY ONLY <1>4, <3>1, <3>2
    <3>4. E[p] = h[next[p]] /\ E[p] \in Said
      BY ONLY <1>9, <3>1, <3>2
    <3> QED
      BY ONLY <3>3, <3>4, SaidIs
  <2> QED
    BY <2>1, <2>2
<1>11. Tells(E, h, next)
  BY ONLY <1>2, <1>5, <1>10 DEF Tells
<1>12. next[0] = l - d /\ next[1 + d] = l
  <2>1. PICK n : n = 1 + d
    OBVIOUS
  <2>2. 0 \in 0..1 + d /\ n \in 0..1 + d /\ n # 0 /\ l - d + (n - 1) = l
    BY ONLY <1>4, <2>1
  <2>3. next[0] = l - d
    BY ONLY <1>7, <2>2
  <2>4. next[n] = l - d + (n - 1)
    BY ONLY <1>7, <2>2
  <2> QED
    BY ONLY <2>1, <2>2, <2>3, <2>4
<1> QED
  BY ONLY <1>2, <1>5, <1>8, <1>11, <1>12 DEF TellsUpTo

\* What has been read is told no more.
LEMMA ReadingTells ==
    ASSUME NEW D, D \in Seq(DownMessage), D # <<>>, NEW h, h \in Seq(Said), NEW x, NEW y, x \in Nat, TellsUpTo(D, h, x, y)
    PROVE  /\ Head(D).kind \notin Saids => TellsUpTo(Tail(D), h, x, y)
           /\ Head(D).kind \in Saids =>
                TellsUpTo(Tail(D), h, x + 1, y) /\ x + 1 \in 1..Len(h) /\ Head(D) = h[x + 1]
<1>1. PICK g \in [0..Len(D) -> Nat] : g[0] = x /\ Tells(D, h, g) /\ g[Len(D)] = y
  BY DEF TellsUpTo
<1>2. PICK l, E : l = Len(D) /\ E = Tail(D)
  OBVIOUS
<1>3. l \in Nat /\ l # 0 /\ Head(D) = D[1] /\ Len(E) = l - 1 /\ E \in Seq(DownMessage) /\ \A p \in 1..l - 1 : E[p] = D[p + 1]
  BY <1>2, EmptySeq, HeadTailProperties
<1>4. PICK next : next = [p \in 0..l - 1 |-> g[p + 1]]
  OBVIOUS
<1>5. g \in [0..l -> Nat] /\ Len(h) \in Nat
  BY <1>1, <1>2
<1>6. next \in [0..l - 1 -> Nat] /\ \A p \in 0..l - 1 : next[p] = g[p + 1]
  BY ONLY <1>3, <1>4, <1>5
<1>7. ASSUME NEW p, p \in 1..l - 1
      PROVE  IF E[p].kind \in Saids THEN next[p] = next[p - 1] + 1 /\ next[p] <= Len(h) /\ E[p] = h[next[p]]
             ELSE next[p] = next[p - 1]
  <2>1. p + 1 \in 1..l /\ p \in 0..l - 1 /\ p - 1 \in 0..l - 1 /\ (p - 1) + 1 = p /\ (p + 1) - 1 = p
    BY ONLY <1>3, <1>7
  <2>2. next[p] = g[p + 1] /\ next[p - 1] = g[p] /\ E[p] = D[p + 1]
    BY ONLY <1>3, <1>6, <1>7, <2>1
  <2>3. IF D[p + 1].kind \in Saids
        THEN g[p + 1] = g[p + 1 - 1] + 1 /\ g[p + 1] <= Len(h) /\ D[p + 1] = h[g[p + 1]] ELSE g[p + 1] = g[p + 1 - 1]
    BY ONLY <1>1, <1>2, <2>1 DEF Tells
  <2> QED
    BY ONLY <2>1, <2>2, <2>3
<1>8. Tells(E, h, next)
  BY ONLY <1>3, <1>7 DEF Tells
<1>9. next[0] = g[1] /\ next[l - 1] = g[l]
  <2>1. 0 \in 0..l - 1 /\ l - 1 \in 0..l - 1 /\ 0 + 1 = 1 /\ l - 1 + 1 = l
    BY ONLY <1>3
  <2> QED
    BY ONLY <1>6, <2>1
<1>10. TellsUpTo(E, h, g[1], y)
  BY ONLY <1>1, <1>2, <1>3, <1>6, <1>8, <1>9 DEF TellsUpTo
<1>11. IF D[1].kind \in Saids THEN g[1] = g[1 - 1] + 1 /\ g[1] <= Len(h) /\ D[1] = h[g[1]] ELSE g[1] = g[1 - 1]
  <2>1. 1 \in 1..l
    BY ONLY <1>3
  <2> QED
    BY ONLY <1>1, <1>2, <2>1 DEF Tells
<1>12. 1 - 1 = 0 /\ x \in Nat
  OBVIOUS
<1>13. D[1].kind \notin Saids => g[1] = x
  BY ONLY <1>1, <1>11, <1>12
<1>14. D[1].kind \in Saids => g[1] = x + 1 /\ x + 1 \in 1..Len(h) /\ D[1] = h[x + 1]
  BY ONLY <1>1, <1>5, <1>11, <1>12
<1> QED
  BY ONLY <1>2, <1>3, <1>10, <1>13, <1>14

(***************************************************************************)
(* The session the phone knows                                             *)
(***************************************************************************)
\* It began, where the phone has it begin.
LEMMA CurrentIs ==
    ASSUME Typed, Words
    PROVE  /\ Current \in {0} \cup SessionIds /\ 0 \notin SessionIds
           /\ Current # 0 => Live /\ sess[Current].is # "none" /\ sess[Current].base = phone.origin
           /\ Live /\ phone.id # 0 => Current = phone.id
           /\ ~Live => Current = 0
           /\ phone.at = "down" /\ phone.id = 0 => Current = 0
<1>1. phone.id \in {0} \cup SessionIds /\ 0 \notin SessionIds /\ (phone.at = "up" => phone.sock \in Sockets)
  BY DEF Typed, PhoneTyped, Phone, SessionIds, Sockets
<1>2. phone.id # 0 => sess[phone.id].is # "none" /\ sess[phone.id].base = phone.origin
  BY DEF Words, PhoneNamed
<1>3. ASSUME phone.at = "up", Coming # <<>>, Coming[1].kind \in Hellos
      PROVE  Coming[1].id \in SessionIds /\ sess[Coming[1].id].is # "none" /\ sess[Coming[1].id].base = phone.origin
  <2>1. Coming \in Seq(DownMessage)
    BY <1>1, <1>3 DEF Coming, Typed, WireTyped
  <2>2. 1 \in DOMAIN Coming /\ Coming[1] \in DownMessage
    BY <1>3, <2>1, EmptySeq
  <2>3. Told(Coming[1])
    BY <1>3, <2>2 DEF Coming, Words, OnTheSocket
  <2>4. Coming[1].id \in SessionIds
    BY <1>3, <2>2 DEF DownMessage, Hello, Said, Notice, Hellos
  <2> QED
    BY <1>3, <2>3, <2>4 DEF Told
<1> QED
  BY <1>1, <1>2, <1>3 DEF Current, Live

\* A socket of the phone that runs a session runs that one.
LEMMA RunsCurrent ==
    ASSUME Typed, Words, Greeted, phone.at = "up", task[phone.sock].at = "run"
    PROVE  Current = task[phone.sock].s
<1>1. Live /\ (phone.id # 0 => Current = phone.id)
  BY CurrentIs DEF Live
<1> QED
  BY <1>1 DEF Greeted, Current

\* The histories go on.
Grows(H, M, H2, M2) ==
    \A i \in SessionIds : Extends(H[i], H2[i]) /\ \A n \in 0..Len(H[i]) : M2[i][n] = M[i][n]
Tales == [SessionIds -> Seq(Said)]
Marks == [SessionIds -> [Nat -> Nat]]

LEMMA GrowingIs ==
    ASSUME NEW H, H \in Tales, NEW M
    PROVE  Grows(H, M, H, M)
<1>1. \A i \in SessionIds : H[i] \in Seq(Said) /\ Len(H[i]) \in Nat
  BY DEF Tales
<1> QED
  BY <1>1 DEF Grows, Extends

LEMMA PhoneHasStill ==
    ASSUME Typed, phone' = phone, NEW H, H \in Tales, NEW H2, H2 \in Tales, NEW M, NEW M2, Grows(H, M, H2, M2),
           NEW e, e \in Nat, PhoneHas(H, M, e)
    PROVE  PhoneHas(H2, M2, e)'
<1>0. phone' = phone /\ (Live' <=> Live) /\ (\A mark : TextEnds(mark)' <=> TextEnds(mark))
  BY DEF Live, TextEnds
<1>1. SUFFICES ASSUME Live, phone.id # 0
               PROVE  /\ e <= Len(H2[phone.id]) /\ phone.seen = {H2[phone.id][n].id : n \in 1..e}
                      /\ phone.settledTo = SampleAt(H2[phone.id], e)
                      /\ TextEnds(M2[phone.id][e])
  BY <1>0 DEF PhoneHas
<1>2. PICK i, h, h2 : i = phone.id /\ h = H[i] /\ h2 = H2[i]
  OBVIOUS
<1>3. i \in SessionIds
  BY <1>1, <1>2 DEF Typed, PhoneTyped, Phone
<1>4. h \in Seq(Said) /\ h2 \in Seq(Said)
  BY <1>2, <1>3 DEF Tales
<1>5. Len(h) \in Nat /\ Len(h2) \in Nat
  BY <1>4
<1>6. Len(h) <= Len(h2) /\ (\A n \in 1..Len(h) : h2[n] = h[n]) /\ \A n \in 0..Len(h) : M2[i][n] = M[i][n]
  BY <1>2, <1>3 DEF Grows, Extends
<1>7. e <= Len(h) /\ phone.seen = {h[n].id : n \in 1..e} /\ phone.settledTo = SampleAt(h, e) /\ TextEnds(M[i][e])
  BY <1>1, <1>2 DEF PhoneHas
<1>8. e \in Nat /\ e \in 0..Len(h) /\ e <= Len(h2) /\ (\A n \in 1..e : n \in 1..Len(h)) /\ (e # 0 => e \in 1..Len(h))
  BY <1>5, <1>6, <1>7
<1>9. \A n \in 1..e : h2[n] = h[n]
  BY ONLY <1>6, <1>8
<1>10. SampleAt(h2, e) = SampleAt(h, e)
  BY ONLY <1>6, <1>8 DEF SampleAt
<1>11. {h2[n].id : n \in 1..e} = {h[n].id : n \in 1..e}
  BY ONLY <1>9
<1>12. M2[i][e] = M[i][e]
  BY ONLY <1>6, <1>8
<1> QED
  BY ONLY <1>2, <1>7, <1>8, <1>10, <1>11, <1>12

\* What the server does not do to the phone's socket, and to one not answered yet.
Earlier(k) ==
    /\ task'[k].at = "none" <=> task[k].at = "none"
    /\ task'[k].at \in Early => task[k].at \in Early /\ task'[k].s = task[k].s /\ task'[k].from = task[k].from
    /\ up[k] = <<>> => up'[k] = <<>>
Onward(k) ==
    /\ task'[k].at = "run" =>
        /\ task[k].at = "run" /\ task'[k].s = task[k].s
        /\ up[k] = <<>> => sess'[task[k].s].pcm = sess[task[k].s].pcm
    /\ Extends(down[k], down'[k])
    /\ \A p \in 1..Len(down'[k]) :
        \/ p \in 1..Len(down[k])
        \/ /\ down'[k][p].kind \notin Hellos
           /\ down'[k][p].kind \in Saids => task'[k].at = "run"
Since(s, t) == s.is # "none" => t.is # "none" /\ t.base = s.base

LEMMA ComingOn ==
    ASSUME Typed, Typed', NEW k, k \in Sockets, Onward(k)
    PROVE  /\ Len(down[k]) \in Nat /\ Len(down'[k]) \in Nat /\ Len(down[k]) <= Len(down'[k])
           /\ \A p \in 1..Len(down[k]) : down'[k][p] = down[k][p] /\ p \in 1..Len(down'[k])
           /\ down[k] = <<>> <=> Len(down[k]) = 0
           /\ down'[k] = <<>> <=> Len(down'[k]) = 0
<1>1. PICK D, E : D = down[k] /\ E = down'[k]
  OBVIOUS
<1>2. D \in Seq(DownMessage) /\ E \in Seq(DownMessage)
  BY <1>1 DEF Typed, WireTyped
<1>3. Len(D) \in Nat /\ Len(E) \in Nat /\ (D = <<>> <=> Len(D) = 0) /\ (E = <<>> <=> Len(E) = 0)
  BY ONLY <1>2, EmptySeq
<1>4. Len(D) <= Len(E) /\ \A p \in 1..Len(D) : E[p] = D[p]
  BY <1>1 DEF Onward, Extends
<1>5. \A p \in 1..Len(D) : p \in 1..Len(E)
  BY ONLY <1>3, <1>4
<1> QED
  BY ONLY <1>1, <1>3, <1>4, <1>5

LEMMA CurrentStill ==
    ASSUME Typed, Typed', phone' = phone, phone.at = "up" => Onward(phone.sock)
    PROVE  Current' = Current
<1>1. phone.at = "up" => phone.sock \in Sockets
  BY DEF Typed, PhoneTyped
<1>2. ASSUME phone.at = "up" PROVE (Coming' # <<>> /\ Coming'[1].kind \in Hellos) <=> (Coming # <<>> /\ Coming[1].kind \in Hellos)
  <2>1. PICK k \in Sockets : k = phone.sock
    BY <1>1, <1>2
  <2>2. Onward(k) /\ Coming = down[k] /\ Coming' = down'[k]
    BY <1>2, <2>1 DEF Coming
  <2>3. ASSUME Coming # <<>> PROVE Coming' # <<>> /\ Coming'[1] = Coming[1]
    <3>1. 1 \in 1..Len(down[k]) /\ 1 \in 1..Len(down'[k])
      BY <2>2, <2>3, ComingOn
    <3> QED
      BY <2>2, <3>1, ComingOn
  <2>4. ASSUME Coming = <<>>, Coming' # <<>> PROVE Coming'[1].kind \notin Hellos
    <3>1. 1 \in 1..Len(down'[k]) /\ 1 \notin 1..Len(down[k])
      BY <2>2, <2>4, ComingOn
    <3> QED
      BY <2>2, <3>1 DEF Onward
  <2> QED
    BY <2>3, <2>4
<1>3. ASSUME phone.at = "up", Coming # <<>>, Coming[1].kind \in Hellos
      PROVE  Coming'[1] = Coming[1]
  <2>1. PICK k \in Sockets : k = phone.sock
    BY <1>1, <1>3
  <2>2. Onward(k) /\ Coming = down[k] /\ Coming' = down'[k]
    BY <1>3, <2>1 DEF Coming
  <2>3. 1 \in 1..Len(down[k])
    BY <1>3, <2>2, ComingOn
  <2> QED
    BY <2>2, <2>3, ComingOn
<1> QED
  BY <1>2, <1>3 DEF Current, Live

LEMMA GreetedStill ==
    ASSUME Typed, Typed', Words, Manners, phone' = phone, phone.at = "up" => Onward(phone.sock)
    PROVE  Greeted'
<1>1. SUFFICES ASSUME phone.at = "up"
      PROVE /\ \A p \in 1..Len(Coming') :
                Coming'[p].kind \in Hellos => p = 1 /\ ~phone.ready /\ (phone.id # 0 => Coming'[p].id = phone.id)
            /\ \A p \in 1..Len(Coming') : Coming'[p].kind \in Saids => phone.ready \/ Coming'[1].kind \in Hellos
            /\ task'[phone.sock].at = "run" /\ ~phone.ready =>
                /\ Coming' # <<>> /\ Coming'[1].kind \in Hellos /\ Coming'[1].id = task'[phone.sock].s
                /\ Coming'[1].at = Len(sess'[task'[phone.sock].s].pcm)
            /\ phone.ready => phone.id # 0 /\ (task'[phone.sock].at = "run" => task'[phone.sock].s = phone.id)
  BY DEF Greeted
<1>2. PICK k \in Sockets : k = phone.sock
  BY <1>1 DEF Typed, PhoneTyped
<1>3. Onward(k) /\ Coming = down[k] /\ Coming' = down'[k]
  BY <1>1, <1>2 DEF Coming
<1>4. /\ \A p \in 1..Len(down[k]) :
            down[k][p].kind \in Hellos => p = 1 /\ ~phone.ready /\ (phone.id # 0 => down[k][p].id = phone.id)
      /\ \A p \in 1..Len(down[k]) : down[k][p].kind \in Saids => phone.ready \/ down[k][1].kind \in Hellos
      /\ task[k].at = "run" /\ ~phone.ready =>
            /\ down[k] # <<>> /\ down[k][1].kind \in Hellos /\ down[k][1].id = task[k].s
            /\ down[k][1].at = Len(sess[task[k].s].pcm)
      /\ phone.ready => phone.id # 0 /\ (task[k].at = "run" => task[k].s = phone.id)
  BY <1>1, <1>2, <1>3 DEF Manners, Greeted
<1>5. /\ Len(down[k]) \in Nat /\ Len(down'[k]) \in Nat /\ Len(down[k]) <= Len(down'[k])
      /\ \A p \in 1..Len(down[k]) : down'[k][p] = down[k][p] /\ p \in 1..Len(down'[k])
      /\ down[k] = <<>> <=> Len(down[k]) = 0
      /\ down'[k] = <<>> <=> Len(down'[k]) = 0
  BY <1>3, ComingOn
<1>6. /\ task'[k].at = "run" =>
            /\ task[k].at = "run" /\ task'[k].s = task[k].s
            /\ up[k] = <<>> => sess'[task[k].s].pcm = sess[task[k].s].pcm
      /\ \A p \in 1..Len(down'[k]) :
            \/ p \in 1..Len(down[k])
            \/ down'[k][p].kind \notin Hellos /\ (down'[k][p].kind \in Saids => task'[k].at = "run")
  BY <1>3 DEF Onward
<1>7. ~phone.ready => up[k] = <<>>
  BY <1>1, <1>2 DEF Manners, Unsaid
<1>8. down[k] # <<>> => 1 \in 1..Len(down[k])
  BY ONLY <1>5
<1>9. \A p \in 1..Len(down'[k]) :
            down'[k][p].kind \in Hellos => p = 1 /\ ~phone.ready /\ (phone.id # 0 => down'[k][p].id = phone.id)
  BY ONLY <1>4, <1>5, <1>6
<1>10. task'[k].at = "run" /\ ~phone.ready =>
            /\ down'[k] # <<>> /\ down'[k][1].kind \in Hellos /\ down'[k][1].id = task'[k].s
            /\ down'[k][1].at = Len(sess'[task'[k].s].pcm)
  <2>1. SUFFICES ASSUME task'[k].at = "run", ~phone.ready
        PROVE  /\ down'[k] # <<>> /\ down'[k][1].kind \in Hellos /\ down'[k][1].id = task'[k].s
               /\ down'[k][1].at = Len(sess'[task'[k].s].pcm)
    OBVIOUS
  <2>2. task[k].at = "run" /\ task'[k].s = task[k].s /\ sess'[task[k].s].pcm = sess[task[k].s].pcm
    BY ONLY <1>6, <1>7, <2>1
  <2>3. /\ down[k] # <<>> /\ down[k][1].kind \in Hellos /\ down[k][1].id = task[k].s
        /\ down[k][1].at = Len(sess[task[k].s].pcm)
    BY ONLY <1>4, <2>1, <2>2
  <2>4. 1 \in 1..Len(down[k]) /\ down'[k] # <<>> /\ down'[k][1] = down[k][1]
    BY ONLY <1>5, <1>8, <2>3
  <2> QED
    BY ONLY <2>2, <2>3, <2>4
<1>11. ASSUME NEW p, p \in 1..Len(down'[k]), down'[k][p].kind \in Saids PROVE phone.ready \/ down'[k][1].kind \in Hellos
  <2>1. ASSUME p \in 1..Len(down[k]) PROVE phone.ready \/ down'[k][1].kind \in Hellos
    <3>1. 1 \in 1..Len(down[k])
      BY ONLY <1>5, <2>1
    <3> QED
      BY ONLY <1>4, <1>5, <1>11, <2>1, <3>1
  <2>2. ASSUME p \notin 1..Len(down[k]) PROVE phone.ready \/ down'[k][1].kind \in Hellos
    BY ONLY <1>6, <1>10, <1>11, <2>2
  <2> QED
    BY ONLY <2>1, <2>2
<1>12. phone.ready => phone.id # 0 /\ (task'[k].at = "run" => task'[k].s = phone.id)
  BY ONLY <1>4, <1>6
<1> QED
  BY <1>2, <1>3, <1>9, <1>10, <1>11, <1>12

LEMMA MannersStill ==
    ASSUME Typed, Typed', Words, Manners, UNCHANGED <<phoneVars, open>>, \A k \in Sockets : Earlier(k),
           \A i \in SessionIds : Since(sess[i], sess'[i]), Greeted'
    PROVE  Manners'
<1>1. phone' = phone /\ recorded' = recorded /\ stopped' = stopped /\ open' = open /\ (Live' <=> Live)
  BY DEF phoneVars, Live
<1>2. Called'
  <2>1. SUFFICES ASSUME NEW k \in Sockets, task'[k].at \in Early, task'[k].s # 0 PROVE sess'[task'[k].s].is # "none"
    BY DEF Called
  <2>2. task[k].at \in Early /\ task'[k].s = task[k].s
    BY <2>1 DEF Earlier
  <2>3. task[k].s \in SessionIds
    BY <2>1, <2>2 DEF Typed, TaskTyped, Task
  <2>4. sess[task[k].s].is # "none"
    BY <2>1, <2>2 DEF Manners, Called
  <2> QED
    BY <2>2, <2>3, <2>4 DEF Since
<1>3. Unsaid'
  BY <1>1 DEF Manners, Unsaid, Earlier
<1>4. Opened' /\ TurnsWithin' /\ CommitCoversWhatThereWas'
  BY <1>1 DEF Manners, Opened, TurnsWithin, CommitCoversWhatThereWas
<1>5. TextGrows'
  <2>1. \A i \in SessionIds : sess[i].is # "none" => sess'[i].is # "none" /\ sess'[i].base = sess[i].base
    BY DEF Since
  <2> QED
    BY <1>1, <2>1 DEF Manners, TextGrows
<1> QED
  BY <1>2, <1>3, <1>4, <1>5 DEF Manners

LEMMA TaleIs ==
    ASSUME Typed, Words, NEW H, H \in Tales
    PROVE  Tale(H) \in Seq(Said) /\ (Current # 0 => Tale(H) = H[Current] /\ Current \in SessionIds)
BY CurrentIs DEF Tale, Tales

LEMMA TaleGrows ==
    ASSUME Typed, Words, NEW H, H \in Tales, NEW H2, H2 \in Tales, NEW M, NEW M2, Grows(H, M, H2, M2), Current' = Current
    PROVE  /\ Extends(Tale(H), Tale(H2)')
           /\ Tale(H) \in Seq(Said) /\ Tale(H2)' \in Seq(Said)
<1>1. PICK i : i = Current
  OBVIOUS
<1>2. Tale(H) = (IF i = 0 THEN <<>> ELSE H[i]) /\ Tale(H2)' = (IF i = 0 THEN <<>> ELSE H2[i])
  BY <1>1 DEF Tale
<1>3. i \in {0} \cup SessionIds
  BY <1>1, CurrentIs
<1>4. ASSUME i = 0 PROVE Extends(Tale(H), Tale(H2)') /\ Tale(H) \in Seq(Said) /\ Tale(H2)' \in Seq(Said)
  <2>1. Tale(H) = <<>> /\ Tale(H2)' = <<>>
    BY <1>2, <1>4
  <2> QED
    BY ONLY <2>1 DEF Extends
<1>5. ASSUME i # 0 PROVE Extends(Tale(H), Tale(H2)') /\ Tale(H) \in Seq(Said) /\ Tale(H2)' \in Seq(Said)
  <2>1. i \in SessionIds /\ Tale(H) = H[i] /\ Tale(H2)' = H2[i]
    BY <1>2, <1>3, <1>5
  <2>2. Extends(H[i], H2[i])
    BY <2>1 DEF Grows
  <2>3. H[i] \in Seq(Said) /\ H2[i] \in Seq(Said)
    BY <2>1 DEF Tales
  <2> QED
    BY ONLY <2>1, <2>2, <2>3
<1> QED
  BY <1>4, <1>5

LEMMA TellingStill ==
    ASSUME Typed, Typed', Words, phone' = phone, Current' = Current,
           NEW H, H \in Tales, NEW H2, H2 \in Tales, NEW M, NEW M2, Grows(H, M, H2, M2), NEW e, Telling(H, e),
           phone.at = "up" =>
                /\ Keeping(down[phone.sock], down'[phone.sock])
                /\ task'[phone.sock].at = "run" =>
                    task[phone.sock].at = "run" /\ sess'[task'[phone.sock].s].events = sess[task[phone.sock].s].events
    PROVE  Telling(H2, e)'
<1>1. SUFFICES ASSUME phone.at = "up"
               PROVE  \E x \in 0..e, y \in Nat :
                        /\ TellsUpTo(Coming', Tale(H2)', x, y)
                        /\ task'[phone.sock].at = "run" => y = sess'[task'[phone.sock].s].events
  BY DEF Telling
<1>2. PICK k \in Sockets : k = phone.sock
  BY <1>1 DEF Typed, PhoneTyped
<1>3. PICK x \in 0..e, y \in Nat :
        /\ TellsUpTo(Coming, Tale(H), x, y)
        /\ task[k].at = "run" => y = sess[task[k].s].events
  BY <1>1, <1>2 DEF Telling
<1>4. Extends(Tale(H), Tale(H2)') /\ Tale(H) \in Seq(Said) /\ Tale(H2)' \in Seq(Said)
  BY TaleGrows
<1>5. Coming = down[k] /\ Coming' = down'[k] /\ down[k] \in Seq(DownMessage)
  BY <1>2 DEF Coming, Typed, WireTyped
<1>6. /\ Keeping(down[k], down'[k])
      /\ task'[k].at = "run" => task[k].at = "run" /\ sess'[task'[k].s].events = sess[task[k].s].events
  BY <1>1, <1>2
<1>7. TellsUpTo(down'[k], Tale(H2)', x, y)
  <2>1. TellsUpTo(down[k], Tale(H), x, y)
    BY <1>3, <1>5
  <2> QED
    BY ONLY <1>4, <1>5, <1>6, <2>1, KeepingTells
<1>8. task'[k].at = "run" => y = sess'[task'[k].s].events
  BY ONLY <1>3, <1>6
<1> QED
  BY <1>2, <1>5, <1>7, <1>8

LEMMA BehindStill ==
    ASSUME Typed, Typed', Words, phone' = phone, Current' = Current, \A k \in Sockets : Earlier(k), NEW H, NEW H2, NEW e,
           Behind(H, e),
           \A i \in SessionIds :
                sess'[i].is = "kept" =>
                    Kept(i) /\ Len(H2[i]) - Len(sess'[i].log) = Len(H[i]) - Len(sess[i].log)
    PROVE  Behind(H2, e)'
<1>1. SUFFICES ASSUME Current # 0
               PROVE  /\ \A k \in Sockets : task'[k].at \in Early /\ task'[k].s = Current => task'[k].from <= phone.settledTo
                      /\ sess'[Current].is = "kept" => Len(H2[Current]) - Len(sess'[Current].log) <= Reached(e)
  BY DEF Behind, Kept
<1>2. PICK i : i = Current
  OBVIOUS
<1>3. i \in SessionIds
  BY <1>1, <1>2, CurrentIs
<1>4. /\ \A k \in Sockets : task[k].at \in Early /\ task[k].s = i => task[k].from <= phone.settledTo
      /\ Kept(i) => Len(H[i]) - Len(sess[i].log) <= Reached(e)
  BY <1>1, <1>2 DEF Behind
<1>5. \A k \in Sockets : task'[k].at \in Early /\ task'[k].s = i => task'[k].from <= phone.settledTo
  BY <1>4 DEF Earlier
<1>6. sess'[i].is = "kept" => Len(H2[i]) - Len(sess'[i].log) <= Reached(e)
  BY <1>3, <1>4
<1> QED
  BY <1>2, <1>5, <1>6

\* A step that says nothing of a session leaves the text where it is.
Mild(s, t) ==
    /\ t.base = s.base /\ (t.is = "none" <=> s.is = "none")
    /\ t.is = "kept" =>
        s.is = "kept" /\ t.events = s.events /\ t.settled = s.settled /\ t.last = s.last /\ t.log = s.log

LEMMA CalmText ==
    ASSUME Typed, Typed', Places', Words, Words', SoFar, Manners, UNCHANGED <<phoneVars, open>>,
           \A k \in Sockets : Earlier(k) /\ Onward(k) /\ Keeping(down[k], down'[k]),
           \A i \in SessionIds : Mild(sess[i], sess'[i]),
           Current # 0 => \A h \in Seq(Said) : Owes(sess[Current], h) => Owes(sess[Current], h)'
    PROVE  SoFar' /\ Manners'
<1>1. phone' = phone /\ recorded' = recorded /\ stopped' = stopped
  BY DEF phoneVars
<1>2. phone.at = "up" => phone.sock \in Sockets
  BY DEF Typed, PhoneTyped
<1>3. Current' = Current
  BY <1>1, <1>2, CurrentStill
<1>4. PICK H, M, e : Story(H, M, e)
  BY DEF SoFar
<1>5. H \in Tales /\ M \in Marks /\ e \in Nat /\ Histories(H, M) /\ PhoneHas(H, M, e) /\ Telling(H, e) /\ Behind(H, e)
      /\ Commits(H)
  BY <1>4 DEF Story, Tales, Marks
<1>6. Grows(H, M, H, M)
  BY <1>5, GrowingIs
<1>7. Histories(H, M)'
  <2>1. SUFFICES ASSUME NEW i, i \in SessionIds PROVE History(sess'[i], H[i], M[i])
    BY DEF Histories
  <2>2. History(sess[i], H[i], M[i])
    BY <1>5, <2>1 DEF Histories
  <2>3. Mild(sess[i], sess'[i])
    BY <2>1
  <2> QED
    BY ONLY <2>2, <2>3, HistoryStays DEF Mild
<1>8. PhoneHas(H, M, e)'
  BY <1>1, <1>5, <1>6, PhoneHasStill
<1>9. Telling(H, e)'
  <2>1. ASSUME phone.at = "up"
        PROVE  /\ Keeping(down[phone.sock], down'[phone.sock])
               /\ task'[phone.sock].at = "run" =>
                    task[phone.sock].at = "run" /\ sess'[task'[phone.sock].s].events = sess[task[phone.sock].s].events
    <3>1. PICK k \in Sockets : k = phone.sock
      BY <1>2, <2>1
    <3>2. Keeping(down[k], down'[k]) /\ Onward(k)
      OBVIOUS
    <3>3. ASSUME task'[k].at = "run"
          PROVE  task[k].at = "run" /\ sess'[task'[k].s].events = sess[task[k].s].events
      <4>1. task[k].at = "run" /\ task'[k].s = task[k].s
        BY <3>2, <3>3 DEF Onward
      <4>2. Kept(task[k].s)' /\ task[k].s \in SessionIds
        <5>1. Places' 
          OBVIOUS
        <5> QED
          BY <3>3, <4>1, <5>1 DEF Places, HeldOrHad, HereIsOn, Has
      <4> QED
        BY <4>1, <4>2 DEF Mild, Kept
    <3> QED
      BY <3>1, <3>2, <3>3
  <2> QED
    BY <1>1, <1>3, <1>5, <1>6, <2>1, TellingStill
<1>10. Behind(H, e)'
  <2>1. \A i \in SessionIds :
            sess'[i].is = "kept" => Kept(i) /\ Len(H[i]) - Len(sess'[i].log) = Len(H[i]) - Len(sess[i].log)
    BY DEF Mild, Kept
  <2> QED
    BY <1>1, <1>3, <1>5, <2>1, BehindStill
<1>11. Commits(H)'
  <2>1. ASSUME Current # 0 PROVE Owes(sess[Current], H[Current])'
    <3>1. PICK i : i = Current
      OBVIOUS
    <3>2. i \in SessionIds
      BY <2>1, <3>1, CurrentIs
    <3>3. H[i] \in Seq(Said)
      BY <1>5, <3>2 DEF Tales
    <3>4. Owes(sess[i], H[i])
      BY <1>5, <2>1, <3>1 DEF Commits
    <3>5. Owes(sess[Current], H[i])'
      BY <2>1, <3>1, <3>3, <3>4
    <3>6. H[Current'] = H[i]
      BY <1>3, <3>1
    <3> QED
      BY <3>5, <3>6 DEF Owes, Covering, Bare
  <2> QED
    BY <1>3, <2>1 DEF Commits
<1>12. SoFar'
  <2>1. Story(H, M, e)'
    BY <1>5, <1>7, <1>8, <1>9, <1>10, <1>11 DEF Story, Tales, Marks
  <2> QED
    BY <2>1 DEF SoFar
<1>13. Manners'
  <2>1. Greeted'
    BY <1>1, <1>2, GreetedStill
  <2>2. \A i \in SessionIds : Since(sess[i], sess'[i])
    BY DEF Mild, Since
  <2> QED
    BY <2>1, <2>2, MannersStill
<1> QED
  BY <1>12, <1>13

\* What the server does to a session it hears nothing for.
Promises(s, t) ==
    /\ t.base = s.base
    /\ t.commit => s.commit /\ Len(s.pcm) <= Len(t.pcm)
    /\ t.doing = "finish" => (s.doing = "finish" /\ t.heard = s.heard) \/ (s.commit /\ t.heard = Len(s.pcm))
Unheard(s, t) == Mild(s, t) /\ Promises(s, t) /\ (t.is = "kept" => t.pcm = s.pcm)

LEMMA PromisesOwe ==
    ASSUME NEW s, s \in Session, NEW t, t \in Session, Promises(s, t), PhoneTyped, NEW h, Owes(s, h)
    PROVE  Owes(t, h)
<1>1. PICK c, b, l, m : c = phone.covers /\ b = s.base /\ l = Len(s.pcm) /\ m = Len(t.pcm)
  OBVIOUS
<1>2. c \in Nat /\ b \in Nat /\ l \in Nat /\ m \in Nat
  <2>1. phone.covers \in Nat
    BY DEF PhoneTyped, Phone
  <2>2. s.base \in Nat /\ s.pcm \in Seq(Nat) /\ t.pcm \in Seq(Nat)
    BY DEF Session
  <2> QED
    BY ONLY <1>1, <2>1, <2>2
<1>3. /\ t.base = b /\ t.commit => s.commit /\ l <= m
      /\ t.doing = "finish" => (s.doing = "finish" /\ t.heard = s.heard) \/ (s.commit /\ t.heard = l)
  BY <1>1 DEF Promises
<1>4. /\ s.commit => c <= b + l
      /\ s.doing = "finish" => c <= b + s.heard
      /\ \A n \in 1..Len(h) : h[n].kind # "delta" => c <= b + h[n].at
  BY <1>1 DEF Owes, Covering
<1>5. t.base = b /\ (t.commit => s.commit /\ l <= m)
  BY <1>1 DEF Promises
<1>6. t.commit => c <= b + m
  BY ONLY <1>2, <1>4, <1>5
<1>7. t.doing = "finish" => c <= b + t.heard
  BY ONLY <1>3, <1>4
<1>8. Covering(t, h, c)
  BY ONLY <1>1, <1>4, <1>5, <1>6, <1>7 DEF Covering
<1>9. Committing \/ Bare(t, h)
  <2>1. Committing \/ Bare(s, h)
    BY DEF Owes
  <2>2. Bare(s, h) => Bare(t, h)
    BY <1>3, <1>5 DEF Bare
  <2> QED
    BY <2>1, <2>2
<1> QED
  BY <1>1, <1>8, <1>9 DEF Owes

LEMMA UnheardIs ==
    ASSUME NEW s, s \in Session, MarksInOrder(s)
    PROVE  /\ Unheard(s, s) /\ Unheard(s, Begin(s))
           /\ s.is # "none" => Unheard(s, Ended(s))
           /\ s.is = "none" /\ s.base = 0 => Unheard(s, NoSession)
<1>1. Unheard(s, s)
  BY DEF Unheard, Mild, Promises, Session
<1>2. Unheard(s, Begin(s))
  <2>1. PICK n, finish : /\ n = IF Len(s.pcm) - s.heard < MostAtOnce THEN Len(s.pcm) ELSE s.heard + MostAtOnce
                         /\ finish = (s.commit /\ n = Len(s.pcm))
    OBVIOUS
  <2>2. PICK doing, commit : doing = (IF finish THEN "finish" ELSE "update") /\ commit = (s.commit /\ ~finish)
    OBVIOUS
  <2>3. Begin(s) = [s EXCEPT !.heard = n, !.doing = doing, !.commit = commit]
    BY <2>1, <2>2 DEF Begin
  <2>4. /\ Begin(s).is = s.is /\ Begin(s).base = s.base /\ Begin(s).pcm = s.pcm /\ Begin(s).log = s.log
        /\ Begin(s).events = s.events /\ Begin(s).settled = s.settled /\ Begin(s).last = s.last
        /\ Begin(s).heard = n /\ Begin(s).doing = doing /\ Begin(s).commit = commit
    BY ZenonT(40), <2>3 DEF Session
  <2>5. (doing = "finish" => s.commit /\ n = Len(s.pcm)) /\ (commit => s.commit) /\ Len(s.pcm) <= Len(s.pcm)
    <3>1. finish => s.commit /\ n = Len(s.pcm)
      BY Zenon, <2>1
    <3>2. (doing = "finish" => finish) /\ (commit => s.commit)
      BY Zenon, <2>2
    <3>3. Len(s.pcm) <= Len(s.pcm)
      BY DEF Session
    <3> QED
      BY ONLY <3>1, <3>2, <3>3
  <2> QED
    BY ONLY <2>4, <2>5 DEF Unheard, Mild, Promises
<1>3. ASSUME s.is # "none" PROVE Unheard(s, Ended(s))
  <2>1. Ended(s).is = "gone" /\ Ended(s).base = s.base /\ Ended(s).commit = FALSE /\ Ended(s).doing = "nothing"
    BY DEF Ended, NoSession
  <2> QED
    BY <1>3, <2>1 DEF Unheard, Mild, Promises
<1>4. ASSUME s.is = "none", s.base = 0 PROVE Unheard(s, NoSession)
  BY <1>4 DEF Unheard, Mild, Promises, NoSession
<1> QED
  BY <1>1, <1>2, <1>3, <1>4

LEMMA KeepingIs ==
    ASSUME NEW D, D \in Seq(DownMessage), NEW E, E \in Seq(DownMessage), Keeping(D, E)
    PROVE  Extends(D, E) /\ \A p \in 1..Len(E) : p \in 1..Len(D) \/ (E[p].kind \notin Hellos /\ E[p].kind \notin Saids)
<1>1. ASSUME E = D PROVE Extends(D, E) /\ \A p \in 1..Len(E) : p \in 1..Len(D)
  <2>1. Len(D) \in Nat
    OBVIOUS
  <2> QED
    BY ONLY <1>1, <2>1 DEF Extends
<1>2. ASSUME NEW m, m \in Notice, E = Append(D, m)
      PROVE  Extends(D, E) /\ \A p \in 1..Len(E) : p \in 1..Len(D) \/ (E[p].kind \notin Hellos /\ E[p].kind \notin Saids)
  <2>1. m \in DownMessage /\ m.kind \notin Saids /\ m.kind \notin Hellos
    BY <1>2, NoticeIs
  <2>2. Len(E) = Len(D) + 1 /\ (\A p \in 1..Len(D) : E[p] = D[p]) /\ E[Len(D) + 1] = m /\ Len(D) \in Nat
    BY <1>2, <2>1, AppendProperties
  <2>3. PICK l : l = Len(D)
    OBVIOUS
  <2>4. \A p \in 1..l + 1 : p \in 1..l \/ p = l + 1
    BY <2>2, <2>3
  <2>5. Len(D) <= Len(E)
    BY <2>2
  <2> QED
    BY ONLY <2>1, <2>2, <2>3, <2>4, <2>5 DEF Extends
<1> QED
  BY <1>1, <1>2 DEF Keeping

\* A step that reads nothing and says nothing but a notice.
LEMMA QuietText ==
    ASSUME Typed, Typed', Places', Words, Words', Text, UNCHANGED <<phoneVars, open>>,
           \A j \in Sockets : Remains(j) /\ (up'[j] = up[j] \/ up'[j] = <<>>) /\ Keeping(down[j], down'[j]),
           \A i \in SessionIds : Unheard(sess[i], sess'[i])
    PROVE  Text'
<1>1. phone' = phone /\ recorded' = recorded /\ stopped' = stopped
  BY DEF phoneVars
<1>2. \A k \in Sockets : task'[k].at = "run" => task'[k].s \in SessionIds /\ sess'[task'[k].s].is = "kept"
  BY DEF Places, HeldOrHad, HereIsOn, Has, Kept
<1>3. \A k \in Sockets : Earlier(k)
  BY DEF Remains, Earlier
<1>4. \A k \in Sockets :
        task'[k].at = "run" =>
            /\ task[k].at = "run" /\ task'[k].s = task[k].s /\ up'[k] = up[k]
            /\ sess'[task[k].s].pcm = sess[task[k].s].pcm /\ sess'[task[k].s].base = sess[task[k].s].base
            /\ sess'[task[k].s].next = sess[task[k].s].next
  BY <1>2 DEF Remains, Unheard, Mild
<1>5. ASSUME NEW k, k \in Sockets PROVE Onward(k)
  <2>1. down[k] \in Seq(DownMessage) /\ down'[k] \in Seq(DownMessage) /\ Keeping(down[k], down'[k])
    BY <1>5 DEF Typed, WireTyped
  <2>2. Extends(down[k], down'[k])
        /\ \A p \in 1..Len(down'[k]) :
            p \in 1..Len(down[k]) \/ (down'[k][p].kind \notin Hellos /\ down'[k][p].kind \notin Saids)
    BY ONLY <2>1, KeepingIs
  <2>3. task'[k].at = "run" =>
            task[k].at = "run" /\ task'[k].s = task[k].s /\ sess'[task[k].s].pcm = sess[task[k].s].pcm
    BY <1>4, <1>5
  <2> QED
    BY ONLY <2>2, <2>3 DEF Onward
<1>6. Current' = Current
  <2>1. phone.at = "up" => Onward(phone.sock)
    BY <1>5 DEF Typed, PhoneTyped
  <2> QED
    BY <1>1, <2>1, CurrentStill
<1>7. ASSUME Current # 0, NEW h, h \in Seq(Said), Owes(sess[Current], h) PROVE Owes(sess[Current], h)'
  <2>1. PICK i : i = Current
    OBVIOUS
  <2>2. i \in SessionIds
    BY <1>7, <2>1, CurrentIs
  <2>3. sess[i] \in Session /\ sess'[i] \in Session /\ Promises(sess[i], sess'[i]) /\ PhoneTyped
    BY <2>2 DEF Typed, SessTyped, Unheard
  <2>4. Owes(sess[i], h)
    BY <1>7, <2>1
  <2>5. Owes(sess'[i], h)
    BY ONLY <2>3, <2>4, PromisesOwe
  <2>6. sess'[Current'] = sess'[i]
    BY <1>6, <2>1
  <2> QED
    BY <1>1, <2>5, <2>6 DEF Owes, Committing
<1>8. SoFar' /\ Manners'
  <2>1. \A i \in SessionIds : Mild(sess[i], sess'[i])
    BY DEF Unheard
  <2>2. SoFar /\ Manners
    BY DEF Text
  <2>3. Current # 0 => \A h \in Seq(Said) : Owes(sess[Current], h) => Owes(sess[Current], h)'
    BY <1>7
  <2> QED
    BY <1>3, <1>5, <2>1, <2>2, <2>3, CalmText
<1>9. Exactly'
  <2>1. SUFFICES ASSUME NEW k, k \in Sockets, task'[k].at = "run"
                 PROVE  \E f \in [0..Len(up'[k]) -> Nat] : Exact(k, f)'
    BY DEF Exactly
  <2>2. /\ task[k].at = "run" /\ task'[k].s = task[k].s /\ up'[k] = up[k]
        /\ sess'[task[k].s].pcm = sess[task[k].s].pcm /\ sess'[task[k].s].base = sess[task[k].s].base
        /\ sess'[task[k].s].next = sess[task[k].s].next
    BY <1>4, <2>1
  <2>3. PICK f \in [0..Len(up[k]) -> Nat] : Exact(k, f)
    BY <2>1, <2>2 DEF Text, Exactly
  <2>4. Exact(k, f)'
    BY <1>1, <1>6, <2>2, <2>3 DEF Exact, Follow, Committing
  <2> QED
    BY <2>2, <2>3, <2>4
<1> QED
  BY <1>8, <1>9 DEF Text

LEMMA NoticesKeep ==
    ASSUME WireTyped, NEW k \in Sockets,
           NEW kind \in {"session_not_found", "audio_gap", "session_taken", "failed", "too_far_behind"},
           Sent(k, <<Message(kind)>>)
    PROVE  \A j \in Sockets : Keeping(down[j], down'[j])
<1>1. PICK m : m = Message(kind)
  OBVIOUS
<1>2. m \in Notice /\ m \in DownMessage
  BY <1>1, MessagesAre, NoticeIs
<1>3. down[k] \o <<m>> = Append(down[k], m)
  <2>1. down[k] \in Seq(DownMessage)
    BY DEF WireTyped
  <2> QED
    BY ONLY <1>2, <2>1, AppendIsConcat
<1>4. down' = IF k \in open THEN [down EXCEPT ![k] = Append(down[k], m)] ELSE down
  BY <1>1, <1>3 DEF Sent
<1>5. \A j \in Sockets : down'[j] = down[j] \/ (j = k /\ down'[j] = Append(down[j], m))
  BY <1>4 DEF WireTyped
<1> QED
  BY <1>2, <1>5 DEF Keeping

LEMMA SilenceKeeps ==
    ASSUME UNCHANGED down
    PROVE  \A j \in Sockets : Keeping(down[j], down'[j])
BY DEF Keeping

\* What a step makes of the sessions it hears nothing for.
LEMMA AllUnheard ==
    ASSUME Typed, Words
    PROVE  /\ UNCHANGED sess => \A i \in SessionIds : Unheard(sess[i], sess'[i])
           /\ \A i \in SessionIds : \A s :
                sess' = [sess EXCEPT ![i] = s] /\ Unheard(sess[i], s) =>
                    \A h \in SessionIds : Unheard(sess[h], sess'[h])
           /\ \A i \in SessionIds : sess[i] \in Session /\ MarksInOrder(sess[i])
<1>1. \A i \in SessionIds : sess[i] \in Session /\ MarksInOrder(sess[i])
  BY DEF Typed, SessTyped
<1>2. \A i \in SessionIds : Unheard(sess[i], sess[i])
  BY <1>1, UnheardIs
<1>3. sess \in [SessionIds -> Session]
  BY DEF Typed, SessTyped
<1> QED
  BY <1>1, <1>2, <1>3

LEMMA AskingText ==
    ASSUME Typed, Typed', Places', Words, Words', Text, UNCHANGED phoneVars, NEW k \in Sockets,
           Reconnect(k) \/ StopWaiting(k) \/ TimeIsUp(k)
    PROVE  Text'
<1>1. UNCHANGED <<up, open, sess>> /\ task[k].at \in {"new", "ask", "late"} /\ (task[k].at # "new" \/ task[k].s # 0)
  BY DEF Reconnect, StopWaiting, TimeIsUp, Smoothly
<1>2. \A i \in SessionIds : Unheard(sess[i], sess'[i])
  BY <1>1, AllUnheard
<1>3. CASE NotFound(k)
  <2>1. task'[k].at = "over" /\ task'[k].from = 0 /\ \A j \in Sockets : j # k => task'[j] = task[j]
    BY <1>3 DEF NotFound, NoTask, Typed, TaskTyped
  <2>2. \A j \in Sockets : Keeping(down[j], down'[j])
    BY <1>3, NoticesKeep DEF NotFound, Typed
  <2>3. \A j \in Sockets : Remains(j)
    BY <1>1, <2>1 DEF Early, Remains
  <2> QED
    BY <1>1, <1>2, <2>2, <2>3, QuietText
<1>4. CASE \E at \in {"given", "ask", "late"} : task' = [task EXCEPT ![k].at = at] /\ UNCHANGED down
  <2>1. /\ task'[k].at \in {"given", "ask", "late"} /\ task'[k].from = task[k].from /\ task'[k].s = task[k].s
        /\ \A j \in Sockets : j # k => task'[j] = task[j]
    BY <1>4 DEF Typed, TaskTyped, Task
  <2>2. \A j \in Sockets : Remains(j)
    BY <1>1, <2>1 DEF Early, Remains
  <2> QED
    BY <1>1, <1>2, <1>4, <2>2, SilenceKeeps, QuietText
<1> QED
  BY <1>3, <1>4 DEF Reconnect, StopWaiting, TimeIsUp, Take

LEMMA ForgetText ==
    ASSUME Typed, Typed', Places, Places', Words, Words', Text, UNCHANGED <<phoneVars, open>>, NEW k \in Sockets,
           Running(k) \/ task[k].at = "settle", NEW at \in {"over", "bye"}, Forget(k, at),
           \A j \in Sockets : up'[j] = up[j] \/ (j = k /\ up'[j] = <<>>),
           \A j \in Sockets : Keeping(down[j], down'[j])
    PROVE  Text'
<1>1. task[k].s \in SessionIds /\ task[k].at \in {"run", "settle"}
  BY DEF Running, Places, HereIsOn
<1>2. PICK i \in SessionIds : i = task[k].s
  BY <1>1
<1>3. task'[k].at = at /\ task'[k].from = 0 /\ \A j \in Sockets : j # k => task'[j] = task[j]
  BY DEF Forget, NoTask, Typed, TaskTyped
<1>4. sess' = [sess EXCEPT ![i] = Ended(sess[i])]
  BY <1>2 DEF Forget
<1>5. sess[i].is # "none"
  BY <1>1, <1>2 DEF Places, HeldOrHad, Has, Kept
<1>6. \A h \in SessionIds : Unheard(sess[h], sess'[h])
  BY <1>4, <1>5, AllUnheard, UnheardIs
<1>7. \A h \in SessionIds : h # i => sess'[h] = sess[h]
  BY <1>4 DEF Typed, SessTyped
<1>8. \A j \in Sockets : j # k /\ task[j].at = "run" => task[j].s \in SessionIds /\ task[j].s # i
  BY <1>1, <1>2 DEF Places, OneEach, HereIsOn, Has
<1>9. \A j \in Sockets : Remains(j)
  <2> SUFFICES ASSUME NEW j \in Sockets
               PROVE  Remains(j)
    OBVIOUS
  <2>1. CASE j = k
    BY <1>1, <1>3, <2>1 DEF Early, Remains
  <2>2. CASE j # k
    BY <1>3, <1>7, <1>8, <2>2 DEF Remains
  <2> QED
    BY <2>1, <2>2
<1> QED
  BY <1>6, <1>9, QuietText

LEMMA LeavingText ==
    ASSUME Typed, Typed', Places, Places', Words, Words', Text, UNCHANGED phoneVars, NEW k \in Sockets,
           Drops(k) \/ AskedFor(k)
    PROVE  Text'
<1>1. UNCHANGED <<down, sess, open>> /\ ReadsNoMore(k) /\ task[k].at = "run"
  BY DEF Drops, AskedFor, Running
<1>2. \A j \in Sockets : (j # k => up'[j] = up[j]) /\ (up'[j] = up[j] \/ up'[j] = <<>>)
  BY <1>1 DEF ReadsNoMore, Typed, WireTyped
<1>3. task'[k].at = "settle" /\ task'[k].from = task[k].from /\ \A j \in Sockets : j # k => task'[j] = task[j]
  <2>1. CASE Drops(k)
    BY <2>1 DEF Drops, Typed, TaskTyped, Task
  <2>2. CASE AskedFor(k)
    <3>1. PICK by : by = Head(ask[k])
      OBVIOUS
    <3>2. task' = [task EXCEPT ![k].at = "settle", ![k].by = by]
      BY <2>2, <3>1 DEF AskedFor
    <3> QED
      BY <3>2 DEF Typed, TaskTyped, Task
  <2> QED
    BY <2>1, <2>2
<1>4. \A j \in Sockets : Remains(j)
  BY <1>1, <1>2, <1>3, Remaining DEF Early
<1> QED
  BY <1>1, <1>2, <1>4, AllUnheard, SilenceKeeps, QuietText

LEMMA FailsText ==
    ASSUME Typed, Typed', Places, Places', Words, Words', Text, UNCHANGED phoneVars, NEW k \in Sockets, Fails(k)
    PROVE  Text'
<1>1. PICK kind \in {"failed", "too_far_behind"} : Sent(k, <<Message(kind)>>)
  BY DEF Fails
<1>2. \A j \in Sockets : Keeping(down[j], down'[j])
  BY <1>1, NoticesKeep DEF Typed
<1>3. \A j \in Sockets : up'[j] = up[j] \/ (j = k /\ up'[j] = <<>>)
  BY DEF Fails, ReadsNoMore, Typed, WireTyped
<1> QED
  BY <1>2, <1>3, ForgetText DEF Fails

LEMMA TickText ==
    ASSUME Typed, Typed', Places, Places', Words, Words', Text, UNCHANGED phoneVars, NEW k \in Sockets, Tick(k)
    PROVE  Text'
<1>1. task[k].s \in SessionIds
  BY DEF Tick, Running, Places, HereIsOn
<1>2. PICK i \in SessionIds : i = task[k].s
  BY <1>1
<1>3. sess' = [sess EXCEPT ![i] = Begin(sess[i])] /\ UNCHANGED <<down, task, up, open>>
  BY <1>2 DEF Tick, Smoothly
<1>4. sess[i] \in Session /\ MarksInOrder(sess[i])
  BY AllUnheard
<1>5. Unheard(sess[i], Begin(sess[i])) /\ Begin(sess[i]).next = sess[i].next
  BY <1>4, UnheardIs, BeginningKeeps
<1>6. \A h \in SessionIds : Unheard(sess[h], sess'[h])
  BY <1>3, <1>5, AllUnheard
<1>7. \A h \in SessionIds : sess'[h].next = sess[h].next
  BY <1>3, <1>5 DEF Typed, SessTyped
<1>8. \A j \in Sockets : task[j].at = "run" => task[j].s \in SessionIds
  BY DEF Places, HereIsOn
<1>9. \A j \in Sockets : Remains(j)
  BY <1>3, <1>7, <1>8, Remaining
<1> QED
  BY <1>3, <1>6, <1>9, SilenceKeeps, QuietText

LEMMA ByeText ==
    ASSUME Typed, Typed', Places, Places', Words, Words', Text, UNCHANGED phoneVars, NEW k \in Sockets, Bye(k)
    PROVE  Text'
<1>1. task'[k].at = "over" /\ task'[k].from = task[k].from /\ task[k].at = "bye"
      /\ \A j \in Sockets : j # k => task'[j] = task[j]
  BY DEF Bye, Typed, TaskTyped, Task
<1>2. UNCHANGED <<sess, up, open>>
  BY DEF Bye, Smoothly
<1>3. \A j \in Sockets : Keeping(down[j], down'[j])
  BY NoticesKeep DEF Bye, Typed
<1>4. \A j \in Sockets : Remains(j)
  BY <1>1, <1>2, Remaining DEF Early
<1> QED
  BY <1>2, <1>3, <1>4, AllUnheard, QuietText

LEMMA LettingGoText ==
    ASSUME Typed, Typed', Places, Places', Words, Words', Text, UNCHANGED phoneVars, NEW i \in SessionIds, LetGo(i)
    PROVE  Text'
<1>1. sess' = [sess EXCEPT ![i] = Ended(sess[i])] /\ UNCHANGED <<task, up, down, open>>
  BY DEF LetGo, wire
<1>2. sess[i].is # "none"
  BY DEF LetGo, Places, HeldOrHad, Kept
<1>3. \A h \in SessionIds : Unheard(sess[h], sess'[h])
  BY <1>1, <1>2, AllUnheard, UnheardIs
<1>4. \A j \in Sockets : task[j].at = "run" => task[j].s \in SessionIds /\ task[j].s # i
  BY DEF LetGo, Places, HereIsOn
<1>5. \A h \in SessionIds : h # i => sess'[h] = sess[h]
  BY <1>1 DEF Typed, SessTyped
<1>6. \A j \in Sockets : Remains(j)
  BY <1>1, <1>4, <1>5, Remaining
<1> QED
  BY <1>1, <1>3, <1>6, SilenceKeeps, QuietText

LEMMA RestartText ==
    ASSUME Typed, Typed', Places, Places', Words, Words', Text, UNCHANGED phoneVars, Restart
    PROVE  Text'
<1>1. \A j \in Sockets : up'[j] = <<>> /\ task'[j] = IF task[j].at = "none" THEN NoTask ELSE [NoTask EXCEPT !.at = "over"]
  BY DEF Restart
<1>2. UNCHANGED <<down, open>>
  BY DEF Restart
<1>3. \A j \in Sockets : Remains(j)
  BY <1>1 DEF Remains, NoTask, Early
<1>4. \A h \in SessionIds : Unheard(sess[h], sess'[h])
  <2> SUFFICES ASSUME NEW h \in SessionIds PROVE Unheard(sess[h], sess'[h])
    OBVIOUS
  <2>1. sess[h] \in Session /\ MarksInOrder(sess[h])
    BY AllUnheard
  <2>2. CASE sess[h].is = "none"
    <3>1. sess'[h] = NoSession
      BY <2>2 DEF Restart
    <3>2. sess[h].base = 0
      BY <2>2 DEF Words, Unbegun
    <3> QED
      BY <2>1, <2>2, <3>1, <3>2, UnheardIs
  <2>3. CASE sess[h].is # "none"
    <3>1. sess'[h] = Ended(sess[h])
      BY <2>3 DEF Restart
    <3> QED
      BY <2>1, <2>3, <3>1, UnheardIs
  <2> QED
    BY <2>2, <2>3
<1> QED
  BY <1>1, <1>2, <1>3, <1>4, SilenceKeeps, QuietText

LEMMA InEither ==
    ASSUME NEW l, l \in Nat, NEW o, o \in Nat
    PROVE  \A n \in 1..l + o : n \in 1..l \/ \E p \in 1..o : n = l + p
<1>1. SUFFICES ASSUME NEW n \in 1..l + o, n \notin 1..l PROVE n - l \in 1..o /\ n = l + (n - l)
  OBVIOUS
<1> QED
  BY <1>1

\* What an update says of a session: its history goes on, and a commit's end
\* is said when it has heard what the commit covers.
LEMMA ListenedOwes ==
    ASSUME NEW s, s \in Session, MarksInOrder(s), s.doing # "nothing", NEW to, to \in MaySettle(s),
           \A n \in DOMAIN s.pcm : s.pcm[n] = s.base + n, PhoneTyped, NEW h, h \in Seq(Said), Owes(s, h)
    PROVE  Owes(Listened(s, to), h \o Events(s, to))
<1>1. PICK l, out, o, all, t, c : /\ l = Len(h) /\ out = Events(s, to) /\ o = Len(out) /\ all = h \o out
                                  /\ t = Listened(s, to) /\ c = phone.covers
  OBVIOUS
<1>2. s \in Session /\ MarksInOrder(s) /\ to \in MaySettle(s) /\ h \in Seq(Said)
  OBVIOUS
<1>3. out \in Seq(Said) /\ to \in Nat
  BY <1>1, <1>2, ListeningKeeps
<1>4. t.commit = s.commit /\ t.doing = "nothing" /\ t.base = s.base /\ t.pcm = s.pcm
  BY ONLY <1>1, <1>2, <1>3, ListenedIs
<1>5. \A p \in 1..o : out[p].at = s.heard /\ (s.doing # "finish" => out[p].kind = "delta")
  BY <1>1, EventsAre
<1>a. l = Len(h) /\ o = Len(out) /\ all = h \o out
  BY ONLY <1>1
<1>6. Len(all) = l + o
  BY ONLY <1>a, <1>2, <1>3, Joined
<1>7. \A n \in 1..l : all[n] = h[n]
  BY ONLY <1>a, <1>2, <1>3, Joined
<1>8. \A p \in 1..o : all[l + p] = out[p]
  BY ONLY <1>a, <1>2, <1>3, Joined
<1>9. \A n \in 1..l + o : n \in 1..l \/ \E p \in 1..o : n = l + p
  <2>1. l \in Nat /\ o \in Nat
    BY ONLY <1>a, <1>2, <1>3, Joined
  <2> QED
    BY ONLY <2>1, InEither
<1>10. /\ s.commit => c <= s.base + Len(s.pcm)
       /\ s.doing = "finish" => c <= s.base + s.heard
       /\ \A n \in 1..l : h[n].kind # "delta" => c <= s.base + h[n].at
       /\ Committing \/ Bare(s, h)
  BY <1>1 DEF Owes, Covering
<1>11. \A n \in 1..l + o : all[n].kind # "delta" => c <= t.base + all[n].at
  <2>1. SUFFICES ASSUME NEW n, n \in 1..l + o, all[n].kind # "delta" PROVE c <= t.base + all[n].at
    OBVIOUS
  <2>2. ASSUME n \in 1..l PROVE c <= t.base + all[n].at
    BY ONLY <1>4, <1>7, <1>10, <2>1, <2>2
  <2>3. ASSUME NEW p, p \in 1..o, n = l + p PROVE c <= t.base + all[n].at
    <3>1. all[n] = out[p] /\ out[p].at = s.heard /\ s.doing = "finish"
      BY ONLY <1>5, <1>8, <2>1, <2>3
    <3> QED
      BY ONLY <1>4, <1>10, <3>1
  <2> QED
    BY ONLY <1>9, <2>1, <2>2, <2>3
<1>12. Covering(t, all, c)
  <2>1. t.commit => c <= t.base + Len(t.pcm)
    BY ONLY <1>4, <1>10
  <2> QED
    BY ONLY <1>4, <1>6, <1>11, <2>1 DEF Covering
<1>13. Bare(s, h) => Bare(t, all)
  <2>1. SUFFICES ASSUME Bare(s, h) PROVE Bare(t, all)
    OBVIOUS
  <2>2. ~s.commit /\ s.doing # "finish" /\ \A n \in 1..l : h[n].kind = "delta"
    BY <1>1, <2>1 DEF Bare
  <2>3. \A n \in 1..l + o : all[n].kind = "delta"
    <3>1. SUFFICES ASSUME NEW n, n \in 1..l + o PROVE all[n].kind = "delta"
      OBVIOUS
    <3>2. ASSUME n \in 1..l PROVE all[n].kind = "delta"
      BY ONLY <1>7, <2>2, <3>2
    <3>3. ASSUME NEW p, p \in 1..o, n = l + p PROVE all[n].kind = "delta"
      BY ONLY <1>5, <1>8, <2>2, <3>3
    <3> QED
      BY ONLY <1>9, <3>1, <3>2, <3>3
  <2> QED
    BY ONLY <1>4, <1>6, <2>2, <2>3 DEF Bare
<1>14. Owes(t, all)
  BY <1>1, <1>10, <1>12, <1>13 DEF Owes
<1> QED
  BY <1>1, <1>14

SaysMore(s, t, h, all, mark, next) ==
    /\ all \in Seq(Said) /\ Extends(h, all)
    /\ next \in [Nat -> Nat] /\ \A n \in 0..Len(h) : next[n] = mark[n]
    /\ History(t, all, next)
    /\ Owes(s, h) => Owes(t, all)
    /\ t.events = Len(all) /\ s.events = Len(h)
    /\ t.is = "kept" /\ t.base = s.base /\ t.pcm = s.pcm /\ t.next = s.next
    /\ Len(all) - Len(t.log) = Len(h) - Len(s.log)
LEMMA SayingMore ==
    ASSUME NEW s, s \in Session, MarksInOrder(s), s.is = "kept", s.doing # "nothing", NEW to, to \in MaySettle(s),
           \A n \in DOMAIN s.pcm : s.pcm[n] = s.base + n, PhoneTyped, NEW h, h \in Seq(Said),
           NEW mark, mark \in [Nat -> Nat], History(s, h, mark), NEW t, t \in {Listened(s, to), Begin(Listened(s, to))}
    PROVE  SaysMore(s, t, h, h \o Events(s, to), mark, MarksAfter(s, h, mark, to))
<1>1. PICK out, l, all, next, u : /\ out = Events(s, to) /\ all = h \o out /\ l = Len(h)
                                  /\ next = MarksAfter(s, h, mark, to) /\ u = Listened(s, to)
  OBVIOUS
<1>2. out \in Seq(Said) /\ u \in Session /\ MarksInOrder(u) /\ u.is = "kept" /\ u.base = s.base /\ u.pcm = s.pcm
      /\ u.next = s.next /\ u.log = s.log \o out
  BY <1>1, ListeningKeeps
<1>3. History(u, all, next) /\ next \in [Nat -> Nat] /\ \A n \in 0..l : next[n] = mark[n]
  <2>1. /\ s \in Session /\ MarksInOrder(s) /\ s.is = "kept" /\ s.doing # "nothing" /\ to \in MaySettle(s)
        /\ h \in Seq(Said) /\ mark \in [Nat -> Nat] /\ History(s, h, mark)
    OBVIOUS
  <2>2. \A n \in DOMAIN s.pcm : s.pcm[n] = s.base + n
    OBVIOUS
  <2>3. History(u, all, next)
    BY ONLY <1>1, <2>1, <2>2, HistoryListens
  <2>4. next \in [Nat -> Nat]
    BY ONLY <1>1, <2>1, <2>2, HistoryListens
  <2>5. \A n \in 0..l : next[n] = mark[n]
    <3>1. SUFFICES ASSUME NEW n, n \in 0..l PROVE next[n] = mark[n]
      OBVIOUS
    <3>2. l \in Nat /\ n \in Nat /\ n <= l
      <4>1. l \in Nat
        BY ONLY <1>1, <2>1, Elements
      <4> QED
        BY ONLY <3>1, <4>1
    <3>3. next[n] = IF n <= Len(h) THEN mark[n] ELSE IF s.doing = "finish" /\ n = Len(h) + 1 THEN s.settled ELSE to
      BY ONLY <1>1, <3>2 DEF MarksAfter
    <3> QED
      BY ONLY <1>1, <3>2, <3>3
  <2> QED
    BY ONLY <2>3, <2>4, <2>5
<1>4. Owes(s, h) => Owes(u, all)
  BY <1>1, ListenedOwes
<1>5. Unheard(u, u) /\ Unheard(u, Begin(u)) /\ Begin(u) \in Session /\ Begin(u).is = "kept" /\ Begin(u).base = u.base
      /\ Begin(u).pcm = u.pcm /\ Begin(u).next = u.next /\ Begin(u).log = u.log
  BY <1>2, UnheardIs, BeginningKeeps
<1>6. t \in {u, Begin(u)}
  BY <1>1
<1>7. Unheard(u, t) /\ t \in Session /\ t.is = "kept" /\ t.base = s.base /\ t.pcm = s.pcm /\ t.next = s.next
      /\ t.log = s.log \o out
  BY ONLY <1>2, <1>5, <1>6
<1>8. History(t, all, next)
  BY ONLY <1>3, <1>7, HistoryStays DEF Unheard, Mild
<1>9. Owes(s, h) => Owes(t, all)
  <2>1. Promises(u, t) /\ PhoneTyped
    BY <1>7 DEF Unheard
  <2> QED
    BY ONLY <1>2, <1>4, <1>7, <2>1, PromisesOwe
<1>10. t.events = Len(all) /\ s.events = Len(h)
  BY <1>7, <1>8 DEF History, Keeps
<1>11. h \in Seq(Said) /\ s.log \in Seq(Said)
  BY DEF Session
<1>12. all \in Seq(Said) /\ Len(all) = Len(h) + Len(out) /\ Len(t.log) = Len(s.log) + Len(out)
       /\ Len(h) \in Nat /\ Len(out) \in Nat /\ Len(s.log) \in Nat
  <2>1. all \in Seq(Said) /\ Len(all) = Len(h) + Len(out)
    BY ONLY <1>1, <1>2, <1>11, Joined
  <2>2. Len(t.log) = Len(s.log) + Len(out)
    BY ONLY <1>2, <1>7, <1>11, Joined
  <2>3. Len(h) \in Nat /\ Len(out) \in Nat /\ Len(s.log) \in Nat
    BY ONLY <1>2, <1>11
  <2>4. all \in Seq(Said)
    BY ONLY <2>1
  <2> QED
    BY ONLY <2>1, <2>2, <2>3
<1>13. \A n \in 1..Len(h) : all[n] = h[n]
  BY ONLY <1>1, <1>2, <1>11, Joined
<1>14. Extends(h, all)
  BY ONLY <1>12, <1>13 DEF Extends
<1>15. Len(all) - Len(t.log) = Len(h) - Len(s.log)
  BY ONLY <1>12
<1> QED
  BY ONLY <1>1, <1>3, <1>7, <1>8, <1>9, <1>10, <1>12, <1>14, <1>15 DEF SaysMore

\* What is sent on a socket that is open is what is on its way then.
LEMMA SentIs ==
    ASSUME WireTyped, NEW k, k \in Sockets, NEW out, Sent(k, out)
    PROVE  /\ \A j \in Sockets : j # k => down'[j] = down[j]
           /\ down'[k] = IF k \in open THEN down[k] \o out ELSE down[k]
BY DEF WireTyped, Sent

LEMMA SayingOnward ==
    ASSUME Typed, NEW k, k \in Sockets, NEW out, out \in Seq(Said), down'[k] \in {down[k], down[k] \o out},
           task[k].at = "run", task'[k] = task[k], sess'[task[k].s].pcm = sess[task[k].s].pcm
    PROVE  Onward(k)
<1>1. PICK D, E, l, o : D = down[k] /\ E = D \o out /\ l = Len(D) /\ o = Len(out)
  OBVIOUS
<1>2. D \in Seq(DownMessage) /\ out \in Seq(DownMessage)
  BY <1>1 DEF Typed, WireTyped, DownMessage
<1>3. Len(E) = l + o /\ l \in Nat /\ o \in Nat
  BY ONLY <1>1, <1>2, Joined
<1>4. \A n \in 1..l : E[n] = D[n]
  BY ONLY <1>1, <1>2, Joined
<1>5. \A p \in 1..o : E[l + p] = out[p]
  BY ONLY <1>1, <1>2, Joined
<1>6. \A p \in 1..o : out[p].kind \notin Hellos
  <2>1. SUFFICES ASSUME NEW p, p \in 1..o PROVE out[p].kind \notin Hellos
    OBVIOUS
  <2>2. out[p] \in Said
    BY <1>1, <2>1, Elements
  <2> QED
    BY ONLY <2>2 DEF Said, Hellos
<1>7. \A n \in 1..l + o : n \in 1..l \/ E[n].kind \notin Hellos
  <2>1. SUFFICES ASSUME NEW n, n \in 1..l + o, n \notin 1..l PROVE E[n].kind \notin Hellos
    OBVIOUS
  <2>2. PICK p \in 1..o : n = l + p
    BY ONLY <1>3, <2>1, InEither
  <2> QED
    BY ONLY <1>5, <1>6, <2>2
<1>8. Extends(D, E) /\ Extends(D, D)
  <2>1. l <= l + o /\ l <= l
    BY ONLY <1>3
  <2> QED
    BY ONLY <1>1, <1>3, <1>4, <2>1 DEF Extends
<1>9. down'[k] = D \/ down'[k] = E
  BY <1>1
<1>10. Extends(down[k], down'[k]) /\ \A p \in 1..Len(down'[k]) : p \in 1..Len(down[k]) \/ down'[k][p].kind \notin Hellos
  BY ONLY <1>1, <1>3, <1>7, <1>8, <1>9
<1>11. task'[k].at = "run" /\ task'[k].s = task[k].s
  OBVIOUS
<1> QED
  BY <1>10, <1>11 DEF Onward

LEMMA StayingOnward ==
    ASSUME Typed, NEW k, k \in Sockets, down'[k] = down[k],
           task'[k].at = "run" => task[k].at = "run" /\ task'[k].s = task[k].s /\ sess'[task[k].s].pcm = sess[task[k].s].pcm
    PROVE  Onward(k)
<1>1. Len(down[k]) \in Nat
  BY DEF Typed, WireTyped
<1> QED
  BY <1>1 DEF Onward, Extends

\* The text of a take goes on when an update says what it has settled.
LEMMA ListeningText ==
    ASSUME Typed, Typed', Places, Places', Words, Words', Text, UNCHANGED <<phoneVars, open, up>>, NEW k, k \in Sockets,
           NEW i, i \in SessionIds, HasHere(k, i), sess[i].doing # "nothing", NEW to, to \in MaySettle(sess[i]),
           NEW t, t \in {Listened(sess[i], to), Begin(Listened(sess[i], to))}, sess' = [sess EXCEPT ![i] = t],
           \A j \in Sockets : Remains(j),
           \/ task[k].at = "run" /\ UNCHANGED task /\ Sent(k, Events(sess[i], to))
           \/ task[k].at = "settle" /\ task'[k].at # "run" /\ UNCHANGED down
    PROVE  Text'
<1>1. phone' = phone /\ recorded' = recorded /\ stopped' = stopped /\ open' = open /\ up' = up
  BY DEF phoneVars
<1>2. PICK H, M, e : Story(H, M, e)
  BY DEF Text, SoFar
<1>3. H \in Tales /\ M \in Marks /\ e \in Nat /\ Histories(H, M) /\ PhoneHas(H, M, e) /\ Telling(H, e) /\ Behind(H, e)
      /\ Commits(H)
  BY <1>2 DEF Story, Tales, Marks
<1>4. PICK s, out, h, mark, all, next :
        /\ s = sess[i] /\ out = Events(s, to) /\ h = H[i] /\ mark = M[i] /\ all = h \o out
        /\ next = MarksAfter(s, h, mark, to)
  OBVIOUS
<1>5. PICK H2, M2 : H2 = [H EXCEPT ![i] = all] /\ M2 = [M EXCEPT ![i] = next]
  OBVIOUS
<1>6. /\ s \in Session /\ MarksInOrder(s) /\ s.is = "kept" /\ s.doing # "nothing" /\ to \in MaySettle(s)
      /\ h \in Seq(Said) /\ mark \in [Nat -> Nat] /\ History(s, h, mark) /\ PhoneTyped
      /\ t \in {Listened(s, to), Begin(Listened(s, to))}
      /\ \A n \in DOMAIN s.pcm : s.pcm[n] = s.base + n
  <2>1. s \in Session /\ MarksInOrder(s) /\ PhoneTyped
    BY <1>4 DEF Typed, SessTyped
  <2>2. s.is = "kept"
    BY <1>4 DEF Places, HeldOrHad, Has, HasHere, Kept
  <2>3. h \in Seq(Said) /\ mark \in [Nat -> Nat] /\ History(s, h, mark)
    BY <1>3, <1>4 DEF Tales, Marks, Histories
  <2>4. \A n \in DOMAIN s.pcm : s.pcm[n] = s.base + n
    BY <1>4 DEF Words, HeardInPlace
  <2> QED
    BY <1>4, <2>1, <2>2, <2>3, <2>4
<1>7. out \in Seq(Said) /\ Len(out) \in Nat
  BY <1>4, <1>6, ListeningKeeps
<1>8. /\ all \in Seq(Said) /\ Extends(h, all) /\ next \in [Nat -> Nat] /\ (\A n \in 0..Len(h) : next[n] = mark[n])
      /\ History(t, all, next) /\ (Owes(s, h) => Owes(t, all)) /\ t.events = Len(all) /\ s.events = Len(h)
      /\ t.is = "kept" /\ t.base = s.base /\ t.pcm = s.pcm /\ t.next = s.next
      /\ Len(all) - Len(t.log) = Len(h) - Len(s.log)
  <2>1. SaysMore(s, t, h, all, mark, next)
    BY ONLY <1>4, <1>6, SayingMore
  <2> QED
    BY ONLY <2>1 DEF SaysMore
<1>9. /\ H2 \in Tales /\ H2[i] = all /\ \A j \in SessionIds : j # i => H2[j] = H[j]
      /\ M2 \in Marks /\ M2[i] = next /\ \A j \in SessionIds : j # i => M2[j] = M[j]
  BY <1>3, <1>5, <1>8 DEF Tales, Marks
<1>10. sess'[i] = t /\ \A j \in SessionIds : j # i => sess'[j] = sess[j]
  BY DEF Typed, SessTyped
<1>11. Grows(H, M, H2, M2)
  <2>1. SUFFICES ASSUME NEW j, j \in SessionIds PROVE Extends(H[j], H2[j]) /\ \A n \in 0..Len(H[j]) : M2[j][n] = M[j][n]
    BY DEF Grows
  <2>2. CASE j = i
    BY <1>4, <1>8, <1>9, <2>2
  <2>3. CASE j # i
    BY <1>3, <1>9, <2>1, <2>3, GrowingIs DEF Grows
  <2> QED
    BY <2>2, <2>3
<1>12. Histories(H2, M2)'
  <2>1. SUFFICES ASSUME NEW j, j \in SessionIds PROVE History(sess'[j], H2[j], M2[j])
    BY DEF Histories
  <2>2. CASE j = i
    BY <1>8, <1>9, <1>10, <2>2
  <2>3. CASE j # i
    BY <1>3, <1>9, <1>10, <2>1, <2>3 DEF Histories
  <2> QED
    BY <2>2, <2>3
<1>13. \A j \in Sockets : task'[j].at = "run" => task[j].at = "run" /\ task'[j].s = task[j].s /\ task[j].s \in SessionIds
  BY DEF Remains, Places, HereIsOn
<1>14. \A j \in SessionIds : sess'[j].pcm = sess[j].pcm /\ sess'[j].base = sess[j].base /\ sess'[j].next = sess[j].next
                               /\ (sess[j].is # "none" => sess'[j].is # "none")
  BY <1>4, <1>8, <1>10
<1>15. \A j \in Sockets : Earlier(j)
  BY <1>1 DEF Remains, Earlier
<1>16. /\ \A j \in Sockets : j # k => down'[j] = down[j]
       /\ down'[k] \in {down[k], down[k] \o out}
       /\ task[k].at = "run" /\ k \in open => down'[k] = down[k] \o out
       /\ task'[k].at = "run" => task'[k] = task[k]
       /\ task[k].at # "run" => down'[k] = down[k] /\ task'[k].at # "run"
       /\ task'[k].at # "run" => down'[k] = down[k]
  <2>1. ASSUME task[k].at = "run", UNCHANGED task, Sent(k, out)
        PROVE  /\ \A j \in Sockets : j # k => down'[j] = down[j]
               /\ down'[k] = IF k \in open THEN down[k] \o out ELSE down[k]
    BY <2>1, SentIs DEF Typed
  <2>2. CASE task[k].at = "run" /\ UNCHANGED task /\ Sent(k, Events(sess[i], to))
    BY <1>4, <2>1, <2>2
  <2>3. CASE task[k].at = "settle" /\ task'[k].at # "run" /\ UNCHANGED down
    BY <2>3
  <2> QED
    BY <2>2, <2>3
<1>17. \A j \in Sockets : Onward(j)
  <2>1. SUFFICES ASSUME NEW j, j \in Sockets PROVE Onward(j)
    OBVIOUS
  <2>2. CASE j = k /\ task'[k].at = "run"
    <3>1. task[k].at = "run" /\ task'[k] = task[k] /\ down'[k] \in {down[k], down[k] \o out} /\ task[k].s \in SessionIds
      BY <1>13, <1>16, <2>2
    <3>2. sess'[task[k].s].pcm = sess[task[k].s].pcm
      BY <1>14, <3>1
    <3> QED
      BY <1>7, <2>2, <3>1, <3>2, SayingOnward
  <2>3. CASE ~(j = k /\ task'[k].at = "run")
    <3>1. down'[j] = down[j]
      BY <1>16, <2>1, <2>3
    <3> QED
      BY <1>13, <1>14, <2>1, <3>1, StayingOnward
  <2> QED
    BY <2>2, <2>3
<1>18. phone.at = "up" => phone.sock \in Sockets
  BY DEF Typed, PhoneTyped
<1>19. Current' = Current
  BY <1>1, <1>17, <1>18, CurrentStill
<1>20. PhoneHas(H2, M2, e)'
  BY <1>1, <1>3, <1>9, <1>11, PhoneHasStill
<1>21. Telling(H2, e)'
  <2>1. CASE phone.at = "up" /\ phone.sock = k /\ task[k].at = "run" /\ task'[k].at = "run"
    <3>1. k \in open /\ Greeted
      BY <2>1 DEF Text, Manners, Opened
    <3>2. down'[k] = down[k] \o out /\ task'[k] = task[k]
      BY <1>16, <2>1, <3>1
    <3>3. Current = i
      BY <2>1, <3>1, RunsCurrent DEF HasHere
    <3>4. Tale(H) = h /\ Tale(H2)' = all
      <4>1. i # 0
        BY DEF SessionIds, Sockets
      <4> QED
        BY <1>4, <1>9, <1>19, <3>3, <4>1 DEF Tale
    <3>5. PICK x \in 0..e, y \in Nat : TellsUpTo(Coming, Tale(H), x, y) /\ (task[k].at = "run" => y = sess[task[k].s].events)
      BY <1>3, <2>1 DEF Telling
    <3>6. TellsUpTo(down[k], h, x, Len(h)) /\ down[k] \in Seq(DownMessage)
      <4>1. y = Len(h) /\ Coming = down[k]
        BY <1>4, <1>8, <2>1, <3>5 DEF HasHere, Coming
      <4> QED
        BY <3>4, <3>5, <4>1 DEF Typed, WireTyped
    <3>7. TellsUpTo(down[k] \o out, h \o out, x, Len(h \o out))
      BY ONLY <1>6, <1>7, <3>6, SayingTells
    <3>8. sess'[task'[k].s].events = Len(all) /\ Len(all) \in Nat
      <4>1. task'[k].s = i
        BY <3>2 DEF HasHere
      <4>2. Len(all) \in Nat
        BY ONLY <1>8
      <4> QED
        BY <1>8, <1>10, <4>1, <4>2
    <3>9. TellsUpTo(Coming', Tale(H2)', x, Len(all))
      BY <1>1, <1>4, <2>1, <3>2, <3>4, <3>7 DEF Coming
    <3> QED
      BY <1>1, <2>1, <3>8, <3>9 DEF Telling
  <2>2. CASE ~(phone.at = "up" /\ phone.sock = k /\ task[k].at = "run" /\ task'[k].at = "run")
    <3>1. ASSUME phone.at = "up"
          PROVE  /\ Keeping(down[phone.sock], down'[phone.sock])
                 /\ task'[phone.sock].at = "run" =>
                        task[phone.sock].at = "run" /\ sess'[task'[phone.sock].s].events = sess[task[phone.sock].s].events
      <4>1. PICK j \in Sockets : j = phone.sock
        BY <1>18, <3>1
      <4>2. down'[j] = down[j]
        BY <1>13, <1>16, <2>2, <3>1, <4>1
      <4>3. ASSUME task'[j].at = "run" PROVE task[j].at = "run" /\ sess'[task'[j].s].events = sess[task[j].s].events
        <5>1. task[j].at = "run" /\ task'[j].s = task[j].s /\ task[j].s \in SessionIds
          BY <1>13, <4>3
        <5>2. j # k
          BY <2>2, <3>1, <4>1, <4>3, <5>1
        <5>3. task[j].s # i
          BY <5>1, <5>2 DEF Places, OneEach, Has, HasHere
        <5> QED
          BY <1>10, <5>1, <5>3
      <4> QED
        BY <4>1, <4>2, <4>3 DEF Keeping
    <3> QED
      BY <1>1, <1>3, <1>9, <1>11, <1>19, <3>1, TellingStill
  <2> QED
    BY <2>1, <2>2
<1>22. Behind(H2, e)'
  <2>1. ASSUME NEW j \in SessionIds, sess'[j].is = "kept"
        PROVE  Kept(j) /\ Len(H2[j]) - Len(sess'[j].log) = Len(H[j]) - Len(sess[j].log)
    <3>1. CASE j = i
      BY <1>4, <1>6, <1>8, <1>9, <1>10, <3>1 DEF Kept
    <3>2. CASE j # i
      BY <1>9, <1>10, <2>1, <3>2 DEF Kept
    <3> QED
      BY <3>1, <3>2
  <2> QED
    BY <1>1, <1>3, <1>15, <1>19, <2>1, BehindStill
<1>23. Commits(H2)'
  <2>1. SUFFICES ASSUME Current # 0 PROVE Owes(sess[Current], H2[Current])'
    BY <1>19 DEF Commits
  <2>2. PICK j : j = Current
    OBVIOUS
  <2>3. j \in SessionIds /\ Owes(sess[j], H[j])
    BY <1>3, <2>1, <2>2, CurrentIs DEF Commits
  <2>4. Owes(sess'[j], H2[j])
    <3>1. CASE j = i
      <4>1. sess[j] = s /\ H[j] = h /\ sess'[j] = t /\ H2[j] = all
        BY <1>4, <1>9, <1>10, <3>1
      <4> QED
        BY ONLY <1>8, <2>3, <4>1
    <3>2. CASE j # i
      BY <1>9, <1>10, <2>3, <3>2
    <3> QED
      BY <3>1, <3>2
  <2>5. sess'[Current'] = sess'[j] /\ H2[Current'] = H2[j]
    BY <1>19, <2>2
  <2> QED
    BY <1>1, <2>4, <2>5 DEF Owes, Covering, Bare, Committing
<1>24. SoFar'
  <2>1. Story(H2, M2, e)'
    BY <1>3, <1>9, <1>12, <1>20, <1>21, <1>22, <1>23 DEF Story, Tales, Marks
  <2> QED
    BY <2>1 DEF SoFar
<1>25. Manners'
  <2>1. Greeted'
    BY <1>1, <1>17, <1>18, GreetedStill DEF Text
  <2>2. \A j \in SessionIds : Since(sess[j], sess'[j])
    BY <1>14 DEF Since
  <2> QED
    BY <1>15, <2>1, <2>2, MannersStill DEF Text
<1>26. Exactly'
  <2>1. SUFFICES ASSUME NEW j, j \in Sockets, task'[j].at = "run"
                 PROVE  \E f \in [0..Len(up'[j]) -> Nat] : Exact(j, f)'
    BY DEF Exactly
  <2>2. /\ task[j].at = "run" /\ task'[j].s = task[j].s /\ up'[j] = up[j]
        /\ sess'[task[j].s].pcm = sess[task[j].s].pcm /\ sess'[task[j].s].base = sess[task[j].s].base
        /\ sess'[task[j].s].next = sess[task[j].s].next
    BY <1>1, <1>13, <1>14, <2>1
  <2>3. PICK f \in [0..Len(up[j]) -> Nat] : Exact(j, f)
    BY <2>1, <2>2 DEF Text, Exactly
  <2>4. Exact(j, f)'
    BY <1>1, <1>19, <2>2, <2>3 DEF Exact, Follow, Committing
  <2> QED
    BY <2>2, <2>3, <2>4
<1> QED
  BY <1>24, <1>25, <1>26 DEF Text

LEMMA UpdatedText ==
    ASSUME Typed, Typed', Places, Places', Words, Words', Text, UNCHANGED phoneVars, NEW k \in Sockets, Updated(k)
    PROVE  Text'
<1>1. task[k].s \in SessionIds /\ task[k].at = "run"
  BY DEF Updated, Running, Places, HereIsOn
<1>2. PICK i \in SessionIds : i = task[k].s
  BY <1>1
<1>3. sess[i] \in Session /\ MarksInOrder(sess[i])
  BY AllUnheard
<1>4. PICK to \in MaySettle(sess[i]) :
        /\ sess' = [sess EXCEPT ![i] = LET s == Listened(sess[i], to)
                                       IN  IF s.commit \/ Len(s.pcm) - s.heard >= MostAtOnce THEN Begin(s) ELSE s]
        /\ Sent(k, Events(sess[i], to))
  BY <1>2 DEF Updated, Mine
<1>5. UNCHANGED <<task, up, open>> /\ sess[i].doing # "nothing"
  BY <1>2 DEF Updated, Smoothly, Mine
<1>6. PICK t : t = LET s == Listened(sess[i], to)
                   IN  IF s.commit \/ Len(s.pcm) - s.heard >= MostAtOnce THEN Begin(s) ELSE s
  OBVIOUS
<1>7. t \in {Listened(sess[i], to), Begin(Listened(sess[i], to))} /\ sess' = [sess EXCEPT ![i] = t]
  BY <1>4, <1>6
<1>8. t.next = sess[i].next
  BY <1>3, <1>6, UpdatingKeeps
<1>9. \A h \in SessionIds : sess'[h].next = sess[h].next
  BY <1>7, <1>8 DEF Typed, SessTyped
<1>10. \A j \in Sockets : task[j].at = "run" => task[j].s \in SessionIds
  BY DEF Places, HereIsOn
<1>11. \A j \in Sockets : Remains(j)
  BY <1>5, <1>9, <1>10, Remaining
<1>12. HasHere(k, i)
  BY <1>1, <1>2 DEF HasHere
<1> QED
  BY <1>1, <1>4, <1>5, <1>7, <1>11, <1>12, ListeningText

LEMMA SettleText ==
    ASSUME Typed, Typed', Places, Places', Words, Words', Text, UNCHANGED phoneVars, NEW k \in Sockets, Settle(k)
    PROVE  Text'
<1>1. task[k].at = "settle" /\ task[k].s \in SessionIds /\ UNCHANGED <<up, down, open>>
  BY DEF Settle, wire, Places, HereIsOn
<1>2. PICK i \in SessionIds : i = task[k].s
  BY <1>1
<1>3. sess[i] \in Session /\ MarksInOrder(sess[i])
  BY AllUnheard
<1>4. \A j \in Sockets : task[j].at = "run" => task[j].s \in SessionIds
  BY DEF Places, HereIsOn
<1>5. CASE HandOn(k) /\ UNCHANGED sess
  <2>1. \A j \in Sockets : Remains(j)
    BY <1>1, <1>5, HandingOnRemains
  <2> QED
    BY <1>1, <1>5, <2>1, AllUnheard, SilenceKeeps, QuietText
<1>6. CASE /\ HandOn(k) /\ sess[i].doing # "nothing"
           /\ \E to \in MaySettle(sess[i]) : sess' = [sess EXCEPT ![i] = Listened(sess[i], to)]
  <2>1. PICK to \in MaySettle(sess[i]) : sess' = [sess EXCEPT ![i] = Listened(sess[i], to)]
    BY <1>6
  <2>2. PICK t : t = Listened(sess[i], to)
    OBVIOUS
  <2>3. t.next = sess[i].next
    BY <1>3, <2>2, ListeningKeeps
  <2>4. sess' = [sess EXCEPT ![i] = t] /\ t \in {Listened(sess[i], to), Begin(Listened(sess[i], to))}
    BY <2>1, <2>2
  <2>5. \A h \in SessionIds : sess'[h].next = sess[h].next
    BY <2>3, <2>4 DEF Typed, SessTyped
  <2>6. \A j \in Sockets : task[j].at = "run" => sess'[task[j].s].next = sess[task[j].s].next
    BY <1>4, <2>5
  <2>7. \A j \in Sockets : Remains(j)
    BY <1>1, <1>6, <2>6, HandingOnRemains
  <2>8. task'[k].at # "run" /\ HasHere(k, i)
    BY <1>1, <1>2, <2>7 DEF Remains, HasHere
  <2> QED
    BY <1>1, <1>6, <2>4, <2>7, <2>8, ListeningText
<1>7. CASE Forget(k, IF task[k].by = 0 THEN "over" ELSE "bye")
  <2>1. PICK at \in {"over", "bye"} : Forget(k, at)
    BY <1>7
  <2> QED
    BY <1>1, <2>1, SilenceKeeps, ForgetText
<1> QED
  BY <1>2, <1>5, <1>6, <1>7 DEF Settle, Mine

\* A session that takes a message in: what it owes, and where it comes to.
TakesIn(s, t, m) ==
    /\ t.is = s.is /\ t.base = s.base /\ t.log = s.log /\ t.heard = s.heard /\ t.events = s.events
    /\ t.settled = s.settled /\ t.last = s.last /\ t.doing = s.doing
    /\ t.commit => s.commit \/ m.kind = "commit"
    /\ Len(s.pcm) <= Len(t.pcm)
    /\ \A y \in Nat :
        s.next = Len(s.pcm) /\ Follows(m, s.next, y, s.base) /\ (m.kind = "offset" => y = s.next) =>
            t.next = y /\ Len(t.pcm) = y
LEMMA TakingOwes ==
    ASSUME NEW s, s \in Session, NEW t, t \in Session, NEW m, TakesIn(s, t, m), PhoneTyped,
           m.kind = "commit" => Committing /\ phone.covers <= s.base + Len(s.pcm), NEW h, Owes(s, h)
    PROVE  Owes(t, h)
<1>1. PICK c, b, l, n : c = phone.covers /\ b = s.base /\ l = Len(s.pcm) /\ n = Len(t.pcm)
  OBVIOUS
<1>2. c \in Nat /\ b \in Nat /\ l \in Nat /\ n \in Nat
  <2>1. phone.covers \in Nat
    BY DEF PhoneTyped, Phone
  <2>2. s.base \in Nat /\ s.pcm \in Seq(Nat) /\ t.pcm \in Seq(Nat)
    BY DEF Session
  <2> QED
    BY ONLY <1>1, <2>1, <2>2
<1>3. /\ t.base = b /\ t.heard = s.heard /\ t.doing = s.doing /\ (t.commit => s.commit \/ m.kind = "commit") /\ l <= n
      /\ m.kind = "commit" => Committing /\ c <= b + l
  BY <1>1 DEF TakesIn
<1>4. /\ s.commit => c <= b + l
      /\ s.doing = "finish" => c <= b + s.heard
      /\ \A p \in 1..Len(h) : h[p].kind # "delta" => c <= b + h[p].at
  BY <1>1 DEF Owes, Covering
<1>5. t.commit => c <= b + n
  BY ONLY <1>2, <1>3, <1>4
<1>6. Covering(t, h, c)
  BY ONLY <1>1, <1>3, <1>4, <1>5 DEF Covering
<1>7. Committing \/ Bare(t, h)
  <2>1. Committing \/ Bare(s, h)
    BY DEF Owes
  <2>2. m.kind # "commit" /\ Bare(s, h) => Bare(t, h)
    BY <1>3 DEF Bare
  <2> QED
    BY <1>3, <2>1, <2>2
<1> QED
  BY <1>1, <1>6, <1>7 DEF Owes

LEMMA ReadWire ==
    ASSUME Typed, NEW k, k \in Sockets, up[k] # <<>>, up' = [up EXCEPT ![k] = Tail(up[k])]
    PROVE  /\ \A j \in Sockets : j # k => up'[j] = up[j]
           /\ \E l \in Nat :
                /\ Len(up[k]) = l + 1 /\ Len(up'[k]) = l /\ Head(up[k]) = up[k][1]
                /\ \A p \in 1..l : up'[k][p] = up[k][p + 1]
<1>1. up[k] \in Seq(UpMessage) /\ up'[k] = Tail(up[k]) /\ \A j \in Sockets : j # k => up'[j] = up[j]
  BY DEF Typed, WireTyped
<1>2. PICK u, v : u = up[k] /\ v = Tail(u)
  OBVIOUS
<1>3. u \in Seq(UpMessage) /\ u # <<>>
  BY <1>1, <1>2
<1>4. Head(u) = u[1] /\ Len(v) = Len(u) - 1 /\ \A p \in 1..Len(u) - 1 : v[p] = u[p + 1]
  BY ONLY <1>2, <1>3, HeadTailProperties
<1>5. Len(u) \in Nat /\ Len(u) # 0
  BY ONLY <1>3, EmptySeq
<1>6. PICK l : l = Len(u) - 1
  OBVIOUS
<1>7. l \in Nat /\ Len(u) = l + 1 /\ Len(v) = l
  BY ONLY <1>4, <1>5, <1>6
<1>8. \A p \in 1..l : v[p] = u[p + 1]
  BY ONLY <1>4, <1>6
<1>9. /\ Len(up[k]) = l + 1 /\ Len(up'[k]) = l /\ Head(up[k]) = up[k][1]
      /\ \A p \in 1..l : up'[k][p] = up[k][p + 1]
  BY <1>1, <1>2, <1>4, <1>7, <1>8
<1> QED
  BY ONLY <1>1, <1>7, <1>9

\* The samples on their way to it are from then on as they were.
LEMMA TakingExact ==
    ASSUME Typed, NEW k, k \in Sockets, NEW i, i \in SessionIds, task[k].s = i, up[k] # <<>>,
           up' = [up EXCEPT ![k] = Tail(up[k])], UNCHANGED <<phoneVars, task>>, Current' = Current,
           TakesIn(sess[i], sess'[i], Head(up[k])), NEW f, f \in [0..Len(up[k]) -> Nat], Exact(k, f)
    PROVE  \E g \in [0..Len(up'[k]) -> Nat] : Exact(k, g)'
<1>1. PICK l \in Nat : /\ Len(up[k]) = l + 1 /\ Len(up'[k]) = l /\ Head(up[k]) = up[k][1]
                       /\ \A p \in 1..l : up'[k][p] = up[k][p + 1]
  BY ReadWire
<1>2. PICK u, v, s, t, c : u = up[k] /\ v = up'[k] /\ s = sess[i] /\ t = sess'[i] /\ c = (i = Current)
  OBVIOUS
<1>3. phone' = phone /\ (Committing' <=> Committing) /\ task' = task
  BY DEF phoneVars, Committing
<1>4. l \in Nat /\ Len(u) = l + 1 /\ Len(v) = l /\ Head(u) = u[1] /\ \A p \in 1..l : v[p] = u[p + 1]
  BY <1>1, <1>2
<1>5. /\ f[0] = s.next /\ f[0] = Len(s.pcm)
      /\ \A p \in 1..l + 1 : Follows(u[p], f[p - 1], f[p], s.base)
      /\ \A p \in 1..l + 1 :
            /\ u[p].kind = "offset" => f[p] = f[p - 1]
            /\ u[p].kind = "commit" /\ c => Committing /\ phone.covers <= s.base + f[p]
      /\ phone.at = "up" /\ phone.sock = k /\ phone.ready => f[l + 1] = phone.sent
  BY <1>2, <1>4 DEF Exact, Follow
<1>6. f \in [0..l + 1 -> Nat] /\ TakesIn(s, t, Head(u))
  BY <1>2, <1>4
<1>7. PICK g : g = [x \in 0..l |-> f[x + 1]]
  OBVIOUS
<1>8. g \in [0..l -> Nat] /\ \A x \in 0..l : g[x] = f[x + 1]
  BY ONLY <1>4, <1>6, <1>7
<1>9. g[0] = t.next /\ g[0] = Len(t.pcm) /\ t.base = s.base
  <2>1. 1 \in 1..l + 1 /\ 0 \in 0..l /\ 1 - 1 = 0 /\ 0 + 1 = 1 /\ 1 \in 0..l + 1
    BY ONLY <1>4
  <2>2. Follows(u[1], f[0], f[1], s.base) /\ (u[1].kind = "offset" => f[1] = f[0])
    BY ONLY <1>5, <2>1
  <2>3. f[1] \in Nat /\ g[0] = f[1]
    BY ONLY <1>6, <1>8, <2>1
  <2> QED
    BY ONLY <1>4, <1>5, <1>6, <2>2, <2>3 DEF TakesIn
<1>10. ASSUME NEW p, p \in 1..l
       PROVE  /\ Follows(v[p], g[p - 1], g[p], t.base)
              /\ v[p].kind = "offset" => g[p] = g[p - 1]
              /\ v[p].kind = "commit" /\ c => Committing /\ phone.covers <= t.base + g[p]
  <2>1. p + 1 \in 1..l + 1 /\ p \in 0..l /\ p - 1 \in 0..l /\ (p + 1) - 1 = p /\ (p - 1) + 1 = p
    BY ONLY <1>4, <1>10
  <2>2. /\ Follows(u[p + 1], f[p], f[p + 1], s.base)
        /\ u[p + 1].kind = "offset" => f[p + 1] = f[p]
        /\ u[p + 1].kind = "commit" /\ c => Committing /\ phone.covers <= s.base + f[p + 1]
    BY ONLY <1>5, <2>1
  <2>3. g[p - 1] = f[p] /\ g[p] = f[p + 1] /\ v[p] = u[p + 1]
    BY ONLY <1>4, <1>8, <1>10, <2>1
  <2> QED
    BY ONLY <1>9, <2>2, <2>3
<1>11. phone.at = "up" /\ phone.sock = k /\ phone.ready => g[l] = phone.sent
  <2>1. l \in 0..l
    BY ONLY <1>4
  <2> QED
    BY ONLY <1>5, <1>8, <2>1
<1>12. Exact(k, g)'
  BY <1>2, <1>3, <1>4, <1>9, <1>10, <1>11 DEF Exact, Follow
<1> QED
  BY <1>2, <1>4, <1>8, <1>12

LEMMA TakingText ==
    ASSUME Typed, Typed', Places, Places', Words, Words', Text, UNCHANGED <<phoneVars, open, task>>, NEW k, k \in Sockets,
           NEW i, i \in SessionIds, task[k].at = "run", task[k].s = i, up[k] # <<>>, up' = [up EXCEPT ![k] = Tail(up[k])],
           NEW t, sess' = [sess EXCEPT ![i] = t], TakesIn(sess[i], t, Head(up[k])),
           \A j \in Sockets : Keeping(down[j], down'[j])
    PROVE  Text'
<1>1. phone' = phone /\ recorded' = recorded /\ stopped' = stopped /\ task' = task /\ (Committing' <=> Committing)
  BY DEF phoneVars, Committing
<1>2. \A j \in Sockets : j # k /\ task[j].at = "run" => task[j].s \in SessionIds /\ task[j].s # i
  BY DEF Places, OneEach, HereIsOn, Has
<1>3. sess'[i] = t /\ \A h \in SessionIds : h # i => sess'[h] = sess[h]
  BY DEF Typed, SessTyped
<1>4. \A j \in Sockets : j # k => up'[j] = up[j]
  BY ReadWire
<1>5. \A h \in SessionIds : Mild(sess[h], sess'[h])
  BY <1>3 DEF Mild, TakesIn
<1>6. \A j \in Sockets : Earlier(j)
  BY <1>1, <1>4 DEF Earlier
<1>7. ASSUME NEW j, j \in Sockets PROVE Onward(j)
  <2>1. down[j] \in Seq(DownMessage) /\ down'[j] \in Seq(DownMessage) /\ Keeping(down[j], down'[j])
    BY <1>7 DEF Typed, WireTyped
  <2>2. Extends(down[j], down'[j])
        /\ \A p \in 1..Len(down'[j]) :
            p \in 1..Len(down[j]) \/ (down'[j][p].kind \notin Hellos /\ down'[j][p].kind \notin Saids)
    BY ONLY <2>1, KeepingIs
  <2>3. task'[j].at = "run" =>
            /\ task[j].at = "run" /\ task'[j].s = task[j].s
            /\ up[j] = <<>> => sess'[task[j].s].pcm = sess[task[j].s].pcm
    BY <1>1, <1>2, <1>3, <1>7
  <2> QED
    BY ONLY <2>2, <2>3 DEF Onward
<1>8. Current' = Current
  <2>1. phone.at = "up" => Onward(phone.sock)
    BY <1>7 DEF Typed, PhoneTyped
  <2> QED
    BY <1>1, <2>1, CurrentStill
<1>9. PICK f \in [0..Len(up[k]) -> Nat] : Exact(k, f)
  BY DEF Text, Exactly
<1>10. Head(up[k]).kind = "commit" /\ i = Current => Committing /\ phone.covers <= sess[i].base + Len(sess[i].pcm)
  <2>1. PICK l \in Nat : Len(up[k]) = l + 1 /\ Head(up[k]) = up[k][1]
    BY ReadWire
  <2>2. PICK m : m = Head(up[k])
    OBVIOUS
  <2>3. 1 \in 1..Len(up[k]) /\ 1 - 1 = 0
    BY <2>1
  <2>4. Follows(m, f[0], f[1], sess[i].base) /\ f[0] = Len(sess[i].pcm)
        /\ (m.kind = "commit" /\ i = Current => Committing /\ phone.covers <= sess[i].base + f[1])
    BY <1>9, <2>1, <2>2, <2>3 DEF Exact, Follow
  <2> QED
    BY ONLY <2>2, <2>4 DEF Follows
<1>11. ASSUME Current # 0, NEW h, h \in Seq(Said), Owes(sess[Current], h) PROVE Owes(sess[Current], h)'
  <2>1. PICK c : c = Current
    OBVIOUS
  <2>2. c \in SessionIds
    BY <1>11, <2>1, CurrentIs
  <2>3. Owes(sess[c], h)
    BY <1>11, <2>1
  <2>4. Owes(sess'[c], h)
    <3>1. CASE c # i
      BY <1>3, <2>2, <2>3, <3>1
    <3>2. CASE c = i
      <4>1. sess[i] \in Session /\ t \in Session /\ PhoneTyped
        BY <1>3 DEF Typed, SessTyped
      <4>2. PICK m : m = Head(up[k])
        OBVIOUS
      <4>3. m.kind = "commit" => Committing /\ phone.covers <= sess[i].base + Len(sess[i].pcm)
        BY <1>10, <2>1, <3>2, <4>2
      <4>4. TakesIn(sess[i], t, m) /\ Owes(sess[i], h)
        BY <2>3, <3>2, <4>2
      <4>5. Owes(t, h)
        BY ONLY <1>11, <4>1, <4>3, <4>4, TakingOwes
      <4> QED
        BY <1>3, <3>2, <4>5
    <3> QED
      BY <3>1, <3>2
  <2>5. sess'[Current'] = sess'[c]
    BY <1>8, <2>1
  <2> QED
    BY <1>1, <2>4, <2>5 DEF Owes, Committing
<1>12. SoFar' /\ Manners'
  <2>1. SoFar /\ Manners
    BY DEF Text
  <2>2. Current # 0 => \A h \in Seq(Said) : Owes(sess[Current], h) => Owes(sess[Current], h)'
    BY <1>11
  <2> QED
    BY <1>5, <1>6, <1>7, <2>1, <2>2, CalmText
<1>13. Exactly'
  <2>1. SUFFICES ASSUME NEW j, j \in Sockets, task[j].at = "run"
                 PROVE  \E g \in [0..Len(up'[j]) -> Nat] : Exact(j, g)'
    BY <1>1 DEF Exactly
  <2>2. CASE j = k
    <3>1. TakesIn(sess[i], sess'[i], Head(up[k]))
      BY <1>3
    <3> QED
      BY <1>8, <1>9, <2>2, <3>1, TakingExact
  <2>3. CASE j # k
    <3>1. PICK g \in [0..Len(up[j]) -> Nat] : Exact(j, g)
      BY <2>1 DEF Text, Exactly
    <3>2. up'[j] = up[j] /\ sess'[task[j].s] = sess[task[j].s]
      BY <1>2, <1>3, <1>4, <2>1, <2>3
    <3>3. Exact(j, g)'
      BY <1>1, <1>8, <3>1, <3>2 DEF Exact, Follow, Committing
    <3> QED
      BY <3>1, <3>2, <3>3
  <2> QED
    BY <2>2, <2>3
<1> QED
  BY <1>12, <1>13 DEF Text

LEMMA ReceiveText ==
    ASSUME Typed, Typed', Places, Places', Words, Words', Text, UNCHANGED phoneVars, NEW k \in Sockets, Receive(k)
    PROVE  Text'
<1>1. task[k].at = "run" /\ task[k].s \in SessionIds /\ up[k] # <<>> /\ open' = open
  BY DEF Receive, Running, Places, HereIsOn
<1>2. PICK i : i = task[k].s
  OBVIOUS
<1>3. i \in SessionIds /\ sess[i] \in Session
  BY <1>1, <1>2 DEF Typed, SessTyped
<1>4. PICK m : m = Head(up[k])
  OBVIOUS
<1>5. sess[i].next \in Nat /\ sess[i].pcm \in Seq(Nat) /\ m \in UpMessage
  BY <1>1, <1>3, <1>4, ReadingKeeps DEF Session, Typed
<1>6. CASE m.kind = "audio"
  <2>1. /\ sess' = [sess EXCEPT ![i] = Hear(sess[i], m.n)]
        /\ Sent(k, IF Gap(sess[i]) THEN <<Message("audio_gap")>> ELSE <<>>)
        /\ up' = [up EXCEPT ![k] = Tail(up[k])] /\ task' = task
    BY <1>2, <1>4, <1>6 DEF Receive
  <2>2. PICK t : t = Hear(sess[i], m.n)
    OBVIOUS
  <2>3. PICK pcm : pcm = IF sess[i].next = Len(sess[i].pcm) THEN Append(sess[i].pcm, m.n) ELSE sess[i].pcm
    OBVIOUS
  <2>4. t = [sess[i] EXCEPT !.next = sess[i].next + 1, !.pcm = pcm]
    BY <2>2, <2>3 DEF Hear
  <2>5. /\ t.is = sess[i].is /\ t.base = sess[i].base /\ t.log = sess[i].log /\ t.heard = sess[i].heard
        /\ t.events = sess[i].events /\ t.settled = sess[i].settled /\ t.last = sess[i].last /\ t.doing = sess[i].doing
        /\ t.commit = sess[i].commit /\ t.next = sess[i].next + 1 /\ t.pcm = pcm
    BY ZenonT(40), <1>3, <2>4 DEF Session
  <2>6. (sess[i].next = Len(sess[i].pcm) => Len(pcm) = sess[i].next + 1) /\ Len(sess[i].pcm) <= Len(pcm)
    <3>1. PICK p, x : p = sess[i].pcm /\ x = m.n
      OBVIOUS
    <3>2. p \in Seq(Nat) /\ x \in Nat
      BY <1>5, <3>1 DEF UpMessage
    <3>3. Len(p) \in Nat /\ Len(Append(p, x)) = Len(p) + 1
      BY ONLY <3>2, AppendProperties
    <3>4. pcm = IF sess[i].next = Len(p) THEN Append(p, x) ELSE p
      BY <2>3, <3>1
    <3> QED
      BY ONLY <1>5, <3>1, <3>3, <3>4
  <2>7. TakesIn(sess[i], t, m)
    <3>1. \A y \in Nat :
            sess[i].next = Len(sess[i].pcm) /\ Follows(m, sess[i].next, y, sess[i].base)
            /\ (m.kind = "offset" => y = sess[i].next) => t.next = y /\ Len(t.pcm) = y
      BY <1>6, <2>5, <2>6 DEF Follows
    <3> QED
      BY <2>5, <2>6, <3>1 DEF TakesIn
  <2>8. \A j \in Sockets : Keeping(down[j], down'[j])
    <3>1. CASE Gap(sess[i])
      <4>1. Sent(k, <<Message("audio_gap")>>)
        BY <2>1, <3>1
      <4> QED
        BY <4>1, NoticesKeep DEF Typed
    <3>2. CASE ~Gap(sess[i])
      <4>1. Sent(k, <<>>)
        BY <2>1, <3>2
      <4>2. down[k] \o <<>> = down[k]
        <5>1. PICK D : D = down[k]
          OBVIOUS
        <5>2. D \in Seq(DownMessage)
          BY <5>1 DEF Typed, WireTyped
        <5>3. D \o <<>> = D
          BY ONLY <5>2, ConcatEmptySeq
        <5> QED
          BY <5>1, <5>3
      <4>3. \A j \in Sockets : down'[j] = down[j]
        BY <4>1, <4>2, SentIs DEF Typed
      <4> QED
        BY <4>3 DEF Keeping
    <3> QED
      BY <3>1, <3>2
  <2>9. sess' = [sess EXCEPT ![i] = t] /\ TakesIn(sess[i], t, Head(up[k]))
    BY <1>4, <2>1, <2>2, <2>7
  <2> QED
    BY <1>1, <1>2, <1>3, <2>1, <2>8, <2>9, TakingText
<1>7. CASE m.kind = "offset" \/ m.kind = "commit"
  <2>1. up' = [up EXCEPT ![k] = Tail(up[k])] /\ task' = task /\ down' = down
    BY <1>2, <1>4, <1>7 DEF Receive
  <2>2. PICK t : t = IF m.kind = "offset" THEN [sess[i] EXCEPT !.next = m.n] ELSE [sess[i] EXCEPT !.commit = TRUE]
    OBVIOUS
  <2>3. sess' = [sess EXCEPT ![i] = t]
    <3>1. CASE m.kind = "offset"
      <4>1. sess' = [sess EXCEPT ![i].next = m.n]
        BY <1>2, <1>4, <3>1 DEF Receive
      <4> QED
        BY <2>2, <3>1, <4>1
    <3>2. CASE m.kind = "commit"
      <4>1. sess' = [sess EXCEPT ![i].commit = TRUE]
        BY <1>2, <1>4, <3>2 DEF Receive
      <4> QED
        BY <2>2, <3>2, <4>1
    <3> QED
      BY <1>7, <3>1, <3>2
  <2>4. /\ t.is = sess[i].is /\ t.base = sess[i].base /\ t.log = sess[i].log /\ t.heard = sess[i].heard
        /\ t.events = sess[i].events /\ t.settled = sess[i].settled /\ t.last = sess[i].last /\ t.doing = sess[i].doing
        /\ t.pcm = sess[i].pcm /\ t.next = (IF m.kind = "offset" THEN m.n ELSE sess[i].next)
        /\ (t.commit => sess[i].commit \/ m.kind = "commit")
    BY <1>3, <1>7, <2>2 DEF Session
  <2>5. TakesIn(sess[i], t, m)
    <3>1. \A y \in Nat :
            sess[i].next = Len(sess[i].pcm) /\ Follows(m, sess[i].next, y, sess[i].base)
            /\ (m.kind = "offset" => y = sess[i].next) => t.next = y /\ Len(t.pcm) = y
      BY <1>7, <2>4 DEF Follows
    <3>2. Len(sess[i].pcm) <= Len(t.pcm)
      BY <1>5, <2>4
    <3> QED
      BY <2>4, <3>1, <3>2 DEF TakesIn
  <2>6. TakesIn(sess[i], t, Head(up[k]))
    BY <1>4, <2>5
  <2> QED
    BY <1>1, <1>2, <1>3, <2>1, <2>3, <2>6, SilenceKeeps, TakingText
<1>8. CASE m.kind = "close"
  <2>1. Forget(k, "over") /\ ReadsNoMore(k) /\ down' = down
    BY <1>2, <1>4, <1>8 DEF Receive
  <2>2. \A j \in Sockets : up'[j] = up[j] \/ (j = k /\ up'[j] = <<>>)
    BY <2>1 DEF ReadsNoMore, Typed, WireTyped
  <2> QED
    BY <1>1, <2>1, <2>2, SilenceKeeps, ForgetText DEF Running
<1> QED
  BY <1>5, <1>6, <1>7, <1>8 DEF UpMessage

\* A socket's session begins, or goes on: what the history of it is, and
\* what it still owes the phone.
Starts(t, i, k, H, M, e) ==
    /\ History(t, H[i], M[i])
    /\ Current = i \/ (phone.at = "up" /\ phone.sock = k) =>
        /\ Len(H[i]) - Len(t.log) <= Reached(e)
        /\ Owes(t, H[i])
        /\ \A j \in Sockets : task[j].at \in Early /\ task[j].s = i => task[j].from <= phone.settledTo
Started(k, i, t) ==
    /\ task[k].at \in Early /\ task[k].s \in {0, i} /\ task'[k].at = "run" /\ task'[k].s = i
    /\ \A j \in Sockets : j # k => task'[j] = task[j]
    /\ sess' = [sess EXCEPT ![i] = t] /\ Since(sess[i], t)
    /\ t.is = "kept" /\ t.next = Len(t.pcm)
    /\ \E hello \in Hello : hello.id = i /\ hello.at = Len(t.pcm) /\ Sent(k, <<hello>> \o t.log)

\* The phone's socket greets it first.
LEMMA StartingGreets ==
    ASSUME Typed, Typed', Words, Words', Manners, UNCHANGED <<phoneVars, open>>, NEW k, k \in Sockets,
           NEW i, i \in SessionIds, NEW t, Started(k, i, t), phone.at = "up", phone.sock = k,
           NEW h, h \in Seq(Said), Len(t.log) <= Len(h),
           \A p \in 1..Len(t.log) : t.log[p] = h[Len(h) - Len(t.log) + p]
    PROVE  /\ Current' = i /\ Greeted' /\ (phone.id = 0 => Current = 0) /\ (phone.id # 0 => Current = i)
           /\ TellsUpTo(Coming', h, Len(h) - Len(t.log), Len(h))
<1>1. PICK hello \in Hello : hello.id = i /\ hello.at = Len(t.pcm) /\ Sent(k, <<hello>> \o t.log)
  BY DEF Started
<1>2. PICK D, out : D = down'[k] /\ out = <<hello>> \o t.log
  OBVIOUS
<1>3. k \in open /\ down[k] = <<>> /\ task[k].at \in Early
  BY DEF Manners, Opened, Words, Quiet, Started
<1>4. phone' = phone /\ ~phone.ready /\ phone.id \in {0, i} /\ i # 0
  BY <1>3 DEF phoneVars, Words, OnTheSocket, Started, SessionIds, Sockets
<1>5. sess'[i] = t /\ t \in Session
  BY DEF Started, Typed, SessTyped
<1>6. t.log \in Seq(Said)
  BY <1>5 DEF Session
<1>7. hello \in DownMessage /\ hello.kind \in Hellos /\ hello.kind \notin Saids
  BY <1>1 DEF Hello, DownMessage, Hellos, Saids
<1>8. D = out
  <2>1. <<hello>> \in Seq(DownMessage) /\ t.log \in Seq(DownMessage)
    BY <1>6, <1>7 DEF DownMessage
  <2>2. out \in Seq(DownMessage)
    BY ONLY <1>2, <2>1, ConcatProperties
  <2>3. <<>> \o out = out
    BY ONLY <2>2, ConcatEmptySeq
  <2>4. down'[k] = down[k] \o out
    BY <1>1, <1>2, <1>3, SentIs DEF Typed
  <2> QED
    BY <1>2, <1>3, <2>3, <2>4
<1>9. TellsUpTo(D, h, Len(h) - Len(t.log), Len(h))
  <2>1. h \in Seq(Said) /\ Len(t.log) <= Len(h) /\ \A p \in 1..Len(t.log) : t.log[p] = h[Len(h) - Len(t.log) + p]
    OBVIOUS
  <2> QED
    BY ONLY <1>2, <1>6, <1>7, <1>8, <2>1, SayingAgainTells
<1>10. /\ D # <<>> /\ D[1] = hello
       /\ \A p \in 1..Len(D) : p # 1 => D[p].kind \notin Hellos
  <2>1. PICK one, log : one = <<hello>> /\ log = t.log
    OBVIOUS
  <2>2. one \in Seq(DownMessage) /\ log \in Seq(DownMessage) /\ log \in Seq(Said) /\ Len(one) = 1 /\ one[1] = hello /\ D = one \o log
    BY <1>2, <1>6, <1>7, <1>8, <2>1 DEF DownMessage
  <2>3. D \in Seq(DownMessage) /\ Len(D) = 1 + Len(log)
        /\ \A p \in 1..1 + Len(log) : D[p] = IF p <= 1 THEN one[p] ELSE log[p - 1]
    BY ONLY <2>2, ConcatProperties
  <2>4. Len(log) \in Nat
    BY ONLY <2>2
  <2>5. D # <<>> /\ D[1] = hello
    <3>1. 1 \in 1..1 + Len(log) /\ Len(D) # 0
      BY ONLY <2>3, <2>4
    <3> QED
      BY ONLY <2>2, <2>3, <3>1, EmptySeq
  <2>6. ASSUME NEW p, p \in 1..Len(D), p # 1 PROVE D[p].kind \notin Hellos
    <3>1. p - 1 \in 1..Len(log) /\ ~(p <= 1) /\ p \in 1..1 + Len(log)
      BY ONLY <2>3, <2>4, <2>6
    <3>2. D[p] = log[p - 1] /\ log[p - 1] \in Said
      BY ONLY <2>2, <2>3, <3>1
    <3>3. D[p].kind \in Saids
      BY ONLY <3>2, SaidIs
    <3> QED
      BY ONLY <3>3 DEF Saids, Hellos
  <2> QED
    BY ONLY <2>5, <2>6
<1>11. Coming' = D /\ Coming = <<>>
  BY <1>2, <1>3, <1>4 DEF Coming
<1>12. Current' = i /\ (phone.id = 0 => Current = 0) /\ (phone.id # 0 => Current = i)
  BY <1>1, <1>4, <1>7, <1>10, <1>11 DEF Current, Live
<1>13. Greeted'
  <2>1. task'[k].at = "run" /\ task'[k].s = i
    BY DEF Started
  <2> QED
    BY <1>1, <1>4, <1>5, <1>7, <1>10, <1>11, <2>1 DEF Greeted
<1> QED
  BY <1>9, <1>11, <1>12, <1>13

\* The sockets that are not answered hear no session before they are.
LEMMA StartingExact ==
    ASSUME Typed, Words, NEW k, k \in Sockets, NEW i, i \in SessionIds, NEW t, Started(k, i, t), UNCHANGED <<phoneVars, up>>
    PROVE  \E f \in [0..Len(up'[k]) -> Nat] : Exact(k, f)'
<1>1. PICK n, l : n = Len(t.pcm) /\ l = Len(up[k])
  OBVIOUS
<1>2. task[k].at \in Early /\ up' = up /\ phone' = phone
  BY DEF Started, phoneVars
<1>3. \A p \in DOMAIN up[k] : up[k][p].kind = "close"
  BY <1>2 DEF Words, Quiet
<1>4. up[k] \in Seq(UpMessage) /\ l \in Nat /\ DOMAIN up[k] = 1..l
  BY <1>1 DEF Typed, WireTyped
<1>5. sess'[i] = t /\ t.next = n /\ task'[k].s = i
  BY <1>1 DEF Started, Typed, SessTyped
<1>6. n \in Nat
  <2>1. \E hello \in Hello : hello.at = n
    BY <1>1 DEF Started
  <2> QED
    BY <2>1 DEF Hello
<1>7. PICK f : f = [p \in 0..l |-> n]
  OBVIOUS
<1>8. f \in [0..l -> Nat] /\ \A p \in 0..l : f[p] = n
  BY <1>6, <1>7
<1>9. f[0] = n /\ \A p \in 1..l : f[p] = n /\ f[p - 1] = n
  <2>1. 0 \in 0..l /\ \A p \in 1..l : p \in 0..l /\ p - 1 \in 0..l
    BY ONLY <1>4
  <2> QED
    BY ONLY <1>8, <2>1
<1>10. phone.at = "up" /\ phone.sock = k => ~phone.ready
  BY <1>2 DEF Words, OnTheSocket
<1>11. Exact(k, f)'
  BY <1>1, <1>2, <1>3, <1>4, <1>5, <1>9, <1>10 DEF Exact, Follow, Follows
<1> QED
  BY <1>1, <1>2, <1>8, <1>11

LEMMA StartingText ==
    ASSUME Typed, Typed', Places, Places', Words, Words', Text, UNCHANGED <<phoneVars, open, up>>, NEW k, k \in Sockets,
           NEW i, i \in SessionIds, NEW t, Started(k, i, t),
           NEW H, NEW M, NEW e, Story(H, M, e), Starts(t, i, k, H, M, e)
    PROVE  Text'
<1>1. phone' = phone /\ recorded' = recorded /\ stopped' = stopped /\ open' = open /\ up' = up /\ (Committing' <=> Committing)
  BY DEF phoneVars, Committing
<1>2. /\ task[k].at \in Early /\ task[k].s \in {0, i} /\ task'[k].at = "run" /\ task'[k].s = i
      /\ \A j \in Sockets : j # k => task'[j] = task[j]
  BY DEF Started
<1>3. sess'[i] = t /\ (\A h \in SessionIds : h # i => sess'[h] = sess[h]) /\ t \in Session
  BY DEF Started, Typed, SessTyped
<1>4. \A j \in Sockets : j # k /\ task[j].at = "run" => task[j].s \in SessionIds /\ task[j].s # i
  BY <1>2 DEF Places, OneEach, HereIsOn, Has
<1>5. \A j \in Sockets : j # k => down'[j] = down[j]
  BY SentIs DEF Started, Typed
<1>6. H \in Tales /\ M \in Marks /\ e \in Nat /\ Histories(H, M) /\ PhoneHas(H, M, e) /\ Telling(H, e) /\ Behind(H, e)
      /\ Commits(H)
  BY DEF Story, Tales, Marks
<1>7. Grows(H, M, H, M)
  BY <1>6, GrowingIs
<1>8. PICK h : h = H[i]
  OBVIOUS
<1>9. h \in Seq(Said) /\ Len(h) \in Nat
  BY <1>6, <1>8 DEF Tales
<1>10. /\ Len(h) = t.events /\ Len(t.log) <= Len(h) /\ Len(t.log) \in Nat
       /\ \A p \in 1..Len(t.log) : t.log[p] = h[Len(h) - Len(t.log) + p]
  <2>1. t.is = "kept" /\ History(t, h, M[i])
    BY <1>8 DEF Started, Starts
  <2>2. t.log \in Seq(Said)
    BY <1>3 DEF Session
  <2>3. Keeps(t, h, M[i])
    BY <2>1 DEF History
  <2>4. Len(t.log) \in Nat
    BY <2>2
  <2> QED
    BY ONLY <2>3, <2>4 DEF Keeps
<1>11. ASSUME NEW j, j \in Sockets, j # k PROVE Onward(j)
  <2>1. task'[j].at = "run" => task[j].at = "run" /\ task'[j].s = task[j].s /\ sess'[task[j].s].pcm = sess[task[j].s].pcm
    BY <1>2, <1>3, <1>4, <1>11
  <2> QED
    BY <1>5, <1>11, <2>1, StayingOnward
<1>m. PICK mine \in BOOLEAN : mine = (phone.at = "up" /\ phone.sock = k)
  OBVIOUS
<1>12. ASSUME mine PROVE Greeted' /\ Current' = i /\ Telling(H, e)' /\ Behind(H, e)' /\ Commits(H)'
  <2>0. phone.at = "up" /\ phone.sock = k
    BY <1>m, <1>12
  <2>1. /\ Current' = i /\ Greeted' /\ (phone.id = 0 => Current = 0) /\ (phone.id # 0 => Current = i)
        /\ TellsUpTo(Coming', h, Len(h) - Len(t.log), Len(h))
    BY <1>1, <1>9, <1>10, <2>0, StartingGreets DEF Text
  <2>3. Telling(H, e)'
    <3>1. Tale(H)' = h /\ i # 0
      BY <1>8, <2>1 DEF Tale, SessionIds, Sockets
    <3>2. Len(h) - Len(t.log) <= Reached(e)
      BY <1>8, <2>0 DEF Starts
    <3>3. Len(h) - Len(t.log) \in 0..e /\ Len(h) \in Nat
      BY ONLY <1>6, <1>9, <1>10, <3>2 DEF Reached
    <3>4. Len(h) = sess'[task'[k].s].events
      BY <1>2, <1>3, <1>10
    <3>5. TellsUpTo(Coming', Tale(H)', Len(h) - Len(t.log), Len(h))
      BY <2>1, <3>1
    <3> QED
      BY <1>1, <2>0, <3>3, <3>4, <3>5 DEF Telling
  <2>4. Behind(H, e)'
    <3>1. \A j \in Sockets : task'[j].at \in Early => task[j].at \in Early /\ task'[j].s = task[j].s /\ task'[j].from = task[j].from
      BY <1>2 DEF Early
    <3>2. /\ Len(H[i]) - Len(t.log) <= Reached(e)
          /\ \A j \in Sockets : task[j].at \in Early /\ task[j].s = i => task[j].from <= phone.settledTo
      BY <2>0 DEF Starts
    <3> QED
      BY <1>1, <1>3, <2>1, <3>1, <3>2 DEF Behind
  <2>5. Commits(H)'
    <3>1. Owes(t, h) /\ sess'[Current'] = t /\ H[Current'] = h
      BY <1>3, <1>8, <2>0, <2>1 DEF Starts
    <3> QED
      BY <1>1, <3>1 DEF Commits, Owes
  <2> QED
    BY <2>1, <2>3, <2>4, <2>5
<1>13. ASSUME ~mine PROVE Greeted' /\ Current' = Current /\ Telling(H, e)' /\ Behind(H, e)' /\ Commits(H)'
  <2>1. phone.at = "up" => phone.sock \in Sockets /\ phone.sock # k
    BY <1>m, <1>13 DEF Typed, PhoneTyped
  <2>2. phone.at = "up" => Onward(phone.sock)
    BY <1>11, <2>1
  <2>3. Current' = Current
    BY <1>1, <2>2, CurrentStill
  <2>4. Greeted'
    BY <1>1, <2>2, GreetedStill DEF Text
  <2>5. Telling(H, e)'
    <3>1. ASSUME phone.at = "up"
          PROVE  /\ Keeping(down[phone.sock], down'[phone.sock])
                 /\ task'[phone.sock].at = "run" =>
                      task[phone.sock].at = "run" /\ sess'[task'[phone.sock].s].events = sess[task[phone.sock].s].events
      <4>1. PICK j : j = phone.sock
        OBVIOUS
      <4>2. j \in Sockets /\ j # k
        BY <2>1, <3>1, <4>1
      <4>3. down'[j] = down[j] /\ task'[j] = task[j]
        BY <1>2, <1>5, <4>2
      <4>4. task[j].at = "run" => sess'[task[j].s] = sess[task[j].s]
        BY <1>3, <1>4, <4>2
      <4> QED
        BY <4>1, <4>3, <4>4 DEF Keeping
    <3> QED
      BY <1>1, <1>6, <1>7, <2>3, <3>1, TellingStill
  <2>6. Behind(H, e)'
    <3>1. \A j \in Sockets : task'[j].at \in Early => task[j].at \in Early /\ task'[j].s = task[j].s /\ task'[j].from = task[j].from
      BY <1>2 DEF Early
    <3>2. Current = i => Len(H[i]) - Len(t.log) <= Reached(e)
      BY DEF Starts
    <3>3. Current # 0 /\ Current # i => sess'[Current] = sess[Current]
      BY <1>3, CurrentIs
    <3> QED
      BY <1>1, <1>3, <1>6, <2>3, <3>1, <3>2, <3>3 DEF Behind, Kept
  <2>7. Commits(H)'
    <3>1. ASSUME Current # 0 PROVE Owes(sess'[Current], H[Current])
      <4>1. CASE Current = i
        BY <1>3, <4>1 DEF Starts
      <4>2. CASE Current # i
        <5>1. sess'[Current] = sess[Current]
          BY <1>3, <3>1, <4>2, CurrentIs
        <5> QED
          BY <1>6, <3>1, <5>1 DEF Commits
      <4> QED
        BY <4>1, <4>2
    <3> QED
      BY <1>1, <2>3, <3>1 DEF Commits, Owes
  <2> QED
    BY <2>3, <2>4, <2>5, <2>6, <2>7
<1>14. Greeted' /\ Telling(H, e)' /\ Behind(H, e)' /\ Commits(H)' /\ (Current' = i \/ Current' = Current)
  BY <1>12, <1>13
<1>15. Histories(H, M)'
  <2>1. SUFFICES ASSUME NEW j, j \in SessionIds PROVE History(sess'[j], H[j], M[j])
    BY DEF Histories
  <2>2. CASE j = i
    BY <1>3, <2>2 DEF Starts
  <2>3. CASE j # i
    BY <1>3, <1>6, <2>1, <2>3 DEF Histories
  <2> QED
    BY <2>2, <2>3
<1>16. PhoneHas(H, M, e)'
  BY <1>1, <1>6, <1>7, PhoneHasStill
<1>17. SoFar'
  <2>1. Story(H, M, e)'
    BY <1>6, <1>14, <1>15, <1>16 DEF Story, Tales, Marks
  <2> QED
    BY <2>1 DEF SoFar
<1>18. Manners'
  <2>1. \A j \in Sockets : Earlier(j)
    BY <1>1, <1>2 DEF Earlier, Early
  <2>2. \A j \in SessionIds : Since(sess[j], sess'[j])
    BY <1>3 DEF Started, Since
  <2> QED
    BY <1>14, <2>1, <2>2, MannersStill DEF Text
<1>19. Exactly'
  <2>1. SUFFICES ASSUME NEW j, j \in Sockets, task'[j].at = "run"
                 PROVE  \E g \in [0..Len(up'[j]) -> Nat] : Exact(j, g)'
    BY DEF Exactly
  <2>2. CASE j = k
    BY <1>1, <2>2, StartingExact
  <2>3. CASE j # k
    <3>1. task'[j] = task[j] /\ task[j].at = "run" /\ task[j].s # i
      BY <1>2, <1>4, <2>1, <2>3
    <3>2. PICK g \in [0..Len(up[j]) -> Nat] : Exact(j, g)
      BY <2>1, <3>1 DEF Text, Exactly
    <3>3. up'[j] = up[j] /\ sess'[task[j].s] = sess[task[j].s]
      BY <1>1, <1>3, <1>4, <2>1, <2>3, <3>1
    <3>4. task[j].s = Current' => task[j].s = Current
      BY <1>14, <3>1
    <3>5. Exact(j, g)'
      BY <1>1, <3>1, <3>2, <3>3, <3>4 DEF Exact, Follow
    <3> QED
      BY <3>2, <3>3, <3>5
  <2> QED
    BY <2>2, <2>3
<1> QED
  BY <1>17, <1>18, <1>19 DEF Text

LEMMA FreshText ==
    ASSUME Typed, Typed', Places, Places', Words, Words', Text, UNCHANGED phoneVars, NEW k \in Sockets, Fresh(k)
    PROVE  Text'
<1>1. task[k].at = "new" /\ task[k].s = 0 /\ up' = up /\ open' = open /\ sess[k].is = "none" /\ k \in SessionIds /\ k # 0
  BY DEF Fresh, Smoothly, Places, NotYet, SessionIds, Sockets
<1>2. PICK t : t = [NoSession EXCEPT !.is = "kept", !.base = task[k].from]
  OBVIOUS
<1>3. /\ t.is = "kept" /\ t.base = task[k].from /\ t.pcm = <<>> /\ t.log = <<>> /\ t.next = 0 /\ t.events = 0
      /\ t.settled = 0 /\ t.commit = FALSE /\ t.doing = "nothing"
  BY <1>2 DEF NoSession
<1>4. Started(k, k, t)
  <2>1. task'[k].at = "run" /\ task'[k].s = k /\ \A j \in Sockets : j # k => task'[j] = task[j]
    BY DEF Fresh, Typed, TaskTyped, Task
  <2>2. \E hello \in Hello : hello.id = k /\ hello.at = Len(t.pcm) /\ Sent(k, <<hello>> \o t.log)
    <3>1. PICK hello : hello = [Message("created") EXCEPT !.id = k, !.item = 1]
      OBVIOUS
    <3>2. hello \in Hello /\ hello.id = k /\ hello.at = 0
      BY <1>1, <3>1, MessagesAre DEF Message
    <3>3. Sent(k, <<hello>>) /\ <<hello>> \o <<>> = <<hello>>
      BY <3>1, SinglesJoined DEF Fresh
    <3>4. Len(t.pcm) = 0 /\ t.log = <<>>
      BY <1>3
    <3> QED
      BY <3>2, <3>3, <3>4
  <2>3. sess' = [sess EXCEPT ![k] = t] /\ Since(sess[k], t) /\ t.next = Len(t.pcm)
    BY <1>1, <1>2, <1>3 DEF Fresh, Since
  <2> QED
    BY <1>1, <1>3, <2>1, <2>2, <2>3 DEF Started, Early
<1>5. PICK H, M, e : Story(H, M, e)
  BY DEF Text, SoFar
<1>6. H[k] = <<>> /\ M[k][0] = 0
  <2>1. History(sess[k], H[k], M[k])
    BY <1>1, <1>5 DEF Story, Histories
  <2> QED
    BY <1>1, <2>1 DEF History, Pieces
<1>7. Starts(t, k, k, H, M, e)
  <2>1. History(t, <<>>, M[k])
    BY <1>3, <1>6 DEF History, Pieces, Keeps
  <2>2. Current # k
    BY <1>1, CurrentIs
  <2>3. Len(H[k]) - Len(t.log) <= Reached(e)
    BY <1>3, <1>5, <1>6 DEF Story, Reached
  <2>4. phone.at = "up" /\ phone.sock = k => Owes(t, <<>>)
    <3>1. SUFFICES ASSUME phone.at = "up", phone.sock = k PROVE Owes(t, <<>>)
      OBVIOUS
    <3>2. phone.id = 0
      BY <1>1, <3>1 DEF Words, OnTheSocket, Early
    <3>3. phone.covers = 0
      BY <1>5, <3>1, <3>2 DEF Story, PhoneHas, Live
    <3>4. Covering(t, <<>>, 0)
      BY <1>3 DEF Covering, Typed, TaskTyped, Task
    <3>5. Bare(t, <<>>)
      BY <1>3 DEF Bare
    <3> QED
      BY <3>3, <3>4, <3>5 DEF Owes
  <2>5. \A j \in Sockets : ~(task[j].at \in Early /\ task[j].s = k)
    BY <1>1 DEF Text, Manners, Called
  <2> QED
    BY <1>6, <2>1, <2>2, <2>3, <2>4, <2>5 DEF Starts
<1> QED
  BY <1>1, <1>4, <1>5, <1>7, StartingText

LEMMA ResumeText ==
    ASSUME Typed, Typed', Places, Places', Words, Words', Text, UNCHANGED phoneVars, NEW k \in Sockets, Resume(k)
    PROVE  Text'
<1>1. PICK i \in SessionIds : i = task[k].s
  BY ZenonT(40) DEF Resume, Places, Named
<1>2. task[k].at = "given" /\ up' = up /\ open' = open /\ sess[i].is = "kept"
  BY <1>1 DEF Resume, Smoothly, Places, HeldOrHad, Has, Kept
<1>3. sess[i] \in Session /\ task[k].from \in Nat
  BY DEF Typed, SessTyped, TaskTyped, Task
<1>4. sess[i].pcm \in Seq(Nat) /\ Len(sess[i].pcm) \in Nat /\ sess[i].log \in Seq(Said) /\ sess[i].item \in Nat
  BY <1>3 DEF Session
<1>5. PICK log, n : log = Again(sess[i].log, task[k].from) /\ n = Len(sess[i].pcm)
  OBVIOUS
<1>6. PICK t : t = [sess[i] EXCEPT !.next = n, !.log = log]
  OBVIOUS
<1>7. /\ t.is = "kept" /\ t.base = sess[i].base /\ t.pcm = sess[i].pcm /\ t.heard = sess[i].heard /\ t.log = log
      /\ t.next = n /\ t.events = sess[i].events /\ t.settled = sess[i].settled /\ t.last = sess[i].last
      /\ t.commit = sess[i].commit /\ t.doing = sess[i].doing
  BY ZenonT(40), <1>2, <1>3, <1>6 DEF Session
<1>8. Started(k, i, t)
  <2>1. task'[k].at = "run" /\ task'[k].s = i /\ \A j \in Sockets : j # k => task'[j] = task[j]
    BY <1>1 DEF Resume, Typed, TaskTyped, Task
  <2>2. sess' = [sess EXCEPT ![i] = t]
    BY <1>1, <1>5, <1>6 DEF Resume
  <2>3. \E hello \in Hello : hello.id = i /\ hello.at = Len(t.pcm) /\ Sent(k, <<hello>> \o t.log)
    <3>1. PICK hello : hello = [Message("resumed") EXCEPT !.id = i, !.at = n, !.item = sess[i].item]
      OBVIOUS
    <3>2. hello \in Hello /\ hello.id = i /\ hello.at = n
      BY <1>4, <1>5, <3>1, MessagesAre DEF Message
    <3>3. Sent(k, <<hello>> \o log)
      BY <1>1, <1>5, <3>1 DEF Resume
    <3> QED
      BY <1>5, <1>7, <3>2, <3>3
  <2> QED
    BY <1>1, <1>2, <1>5, <1>7, <2>1, <2>2, <2>3 DEF Started, Early, Since
<1>9. PICK H, M, e : Story(H, M, e)
  BY DEF Text, SoFar
<1>10. PICK h, mark, from : h = H[i] /\ mark = M[i] /\ from = task[k].from
  OBVIOUS
<1>11. h \in Seq(Said) /\ e \in Nat
  BY <1>9, <1>10 DEF Story
<1>12. PICK s : s = sess[i]
  OBVIOUS
<1>13. /\ s \in Session /\ s.is = "kept" /\ History(s, h, mark) /\ from \in Nat
       /\ t.is = "kept" /\ t.base = s.base /\ t.events = s.events /\ t.settled = s.settled /\ t.last = s.last
       /\ t.log = Again(s.log, from)
  BY <1>2, <1>3, <1>5, <1>7, <1>9, <1>10, <1>12 DEF Story, Histories
<1>14. /\ History(t, h, mark)
       /\ \A x \in 0..Len(h) :
            Len(h) - Len(s.log) <= Reached(x) /\ from <= (IF x = 0 THEN 0 ELSE h[x].at) =>
                Len(h) - Len(t.log) <= Reached(x)
  BY ONLY <1>11, <1>13, HistoryTrims
<1>15. phone.at = "up" /\ phone.sock = k => Current = i
  <2>1. phone.at = "up" /\ phone.sock = k => i = phone.id /\ i # 0 /\ Live
    BY <1>1, <1>2 DEF Words, OnTheSocket, Early, SessionIds, Sockets, Live
  <2> QED
    BY <2>1, CurrentIs
<1>16. ASSUME Current = i
       PROVE  /\ Len(h) - Len(t.log) <= Reached(e)
              /\ Owes(t, h)
              /\ \A j \in Sockets : task[j].at \in Early /\ task[j].s = i => task[j].from <= phone.settledTo
  <2>1. i # 0 /\ Live
    BY <1>16, CurrentIs DEF SessionIds, Sockets
  <2>2. \A j \in Sockets : task[j].at \in Early /\ task[j].s = i => task[j].from <= phone.settledTo
    BY <1>9, <1>16, <2>1 DEF Story, Behind
  <2>3. Len(h) - Len(s.log) <= Reached(e)
    BY <1>2, <1>9, <1>10, <1>12, <1>16, <2>1 DEF Story, Behind, Kept
  <2>4. e \in 0..Len(h) /\ phone.settledTo = (IF e = 0 THEN 0 ELSE h[e].at)
    <3>1. CASE phone.id = 0
      <4>1. e = 0 /\ phone.settledTo = 0
        BY <1>9, <2>1, <3>1 DEF Story, PhoneHas
      <4> QED
        BY <1>11, <4>1
    <3>2. CASE phone.id # 0
      <4>1. phone.id = i
        BY <1>16, <2>1, <3>2, CurrentIs
      <4>2. e <= Len(h) /\ phone.settledTo = SampleAt(h, e)
        BY <1>9, <1>10, <2>1, <3>2, <4>1 DEF Story, PhoneHas
      <4> QED
        BY <1>11, <4>2 DEF SampleAt
    <3> QED
      BY <3>1, <3>2
  <2>5. from <= phone.settledTo
    BY <1>1, <1>2, <1>10, <2>2 DEF Early
  <2>6. Len(h) - Len(t.log) <= Reached(e)
    BY ONLY <1>14, <2>3, <2>4, <2>5
  <2>7. Owes(t, h)
    <3>1. Owes(s, h)
      BY <1>9, <1>10, <1>12, <1>16, <2>1 DEF Story, Commits
    <3>2. t.commit = s.commit /\ t.doing = s.doing /\ t.base = s.base /\ t.pcm = s.pcm /\ t.heard = s.heard
      BY <1>7, <1>12
    <3> QED
      BY ONLY <3>1, <3>2 DEF Owes, Covering, Bare
  <2> QED
    BY <2>2, <2>6, <2>7
<1>17. Starts(t, i, k, H, M, e)
  BY <1>10, <1>14, <1>15, <1>16 DEF Starts
<1> QED
  BY <1>2, <1>8, <1>9, <1>17, StartingText

\* What the server does, and what happens to it, keeps the text.
LEMMA ServingText ==
    ASSUME Typed, Typed', Places, Places', Words, Words', Text, UNCHANGED phoneVars, Serve \/ ServerMishap
    PROVE  Text'
<1>1. ASSUME NEW k \in Sockets, ServerStep(k)
      PROVE  Text'
  BY <1>1, FreshText, AskingText, ResumeText, ReceiveText, TickText, UpdatedText, LeavingText, SettleText, ByeText
     DEF ServerStep
<1>2. ASSUME ServerMishap
      PROVE  Text'
  BY <1>2, RestartText, FailsText, LeavingText, AskingText, LettingGoText DEF ServerMishap
<1> QED
  BY <1>1, <1>2 DEF Serve

(***************************************************************************)
(* What the phone does to the text                                         *)
(***************************************************************************)
\* What it says follows on from what it said, and covers what it covered.
Reaches(k, x) ==
    /\ phone.at = "up" /\ phone.sock = k /\ phone.ready => x = phone.sent
    /\ up[k] = <<>> => x = Len(sess[task[k].s].pcm)
Comes(k, m, x, y) ==
    /\ Follows(m, x, y, sess[task[k].s].base)
    /\ m.kind = "offset" => y = x
    /\ m.kind = "commit" /\ task[k].s = Current' => Committing' /\ phone'.covers <= sess[task[k].s].base + y
    /\ phone'.at = "up" /\ phone'.sock = k /\ phone'.ready => y = phone'.sent
Covers(k) ==
    task[k].s = Current' => task[k].s = Current /\ (Committing => Committing' /\ phone'.covers = phone.covers)
SaysNext(k) ==
    \/ /\ up'[k] = up[k]
       /\ phone'.at = "up" /\ phone'.sock = k /\ phone'.ready =>
            phone.at = "up" /\ phone.sock = k /\ phone.ready /\ phone'.sent = phone.sent
    \/ \E m \in UpMessage :
        up'[k] = Append(up[k], m) /\ \A x \in Nat : Reaches(k, x) => \E y \in Nat : Comes(k, m, x, y)

LEMMA AppendingExact ==
    ASSUME Typed, UNCHANGED <<task, sess>>, NEW k, k \in Sockets, Covers(k), NEW m, m \in UpMessage,
           up'[k] = Append(up[k], m), NEW f, f \in [0..Len(up[k]) -> Nat], Exact(k, f),
           \A x \in Nat : Reaches(k, x) => \E y \in Nat : Comes(k, m, x, y)
    PROVE  \E g \in [0..Len(up'[k]) -> Nat] : Exact(k, g)'
<1>1. PICK u, v, l, base : u = up[k] /\ v = up'[k] /\ l = Len(u) /\ base = sess[task[k].s].base
  OBVIOUS
<1>2. u \in Seq(UpMessage) /\ v = Append(u, m) /\ m \in UpMessage
  BY <1>1 DEF Typed, WireTyped
<1>3. l \in Nat /\ Len(v) = l + 1 /\ v[l + 1] = m /\ (\A p \in 1..l : v[p] = u[p]) /\ (u = <<>> <=> l = 0)
  BY ONLY <1>1, <1>2, AppendProperties, EmptySeq
<1>4. /\ f[0] = sess[task[k].s].next /\ f[0] = Len(sess[task[k].s].pcm)
      /\ \A p \in 1..l : Follows(u[p], f[p - 1], f[p], base)
      /\ \A p \in 1..l :
            /\ u[p].kind = "offset" => f[p] = f[p - 1]
            /\ u[p].kind = "commit" /\ task[k].s = Current => Committing /\ phone.covers <= base + f[p]
      /\ phone.at = "up" /\ phone.sock = k /\ phone.ready => f[l] = phone.sent
  BY <1>1 DEF Exact, Follow
<1>5. f \in [0..l -> Nat]
  BY <1>1
<1>6. f[l] \in Nat /\ Reaches(k, f[l])
  <2>1. f[l] \in Nat /\ (u = <<>> => f[l] = f[0])
    BY ONLY <1>3, <1>5
  <2> QED
    BY <1>1, <1>4, <2>1 DEF Reaches
<1>7. PICK y \in Nat : Comes(k, m, f[l], y)
  BY <1>6
<1>8. PICK g : g = [p \in 0..l + 1 |-> IF p = l + 1 THEN y ELSE f[p]]
  OBVIOUS
<1>9. g \in [0..l + 1 -> Nat] /\ g[l + 1] = y /\ (\A p \in 0..l : g[p] = f[p]) /\ g[0] = f[0]
  BY ONLY <1>3, <1>5, <1>7, <1>8
<1>10. ASSUME NEW p, p \in 1..l + 1
       PROVE  /\ Follows(v[p], g[p - 1], g[p], base)
              /\ v[p].kind = "offset" => g[p] = g[p - 1]
              /\ v[p].kind = "commit" /\ task[k].s = Current' => Committing' /\ phone'.covers <= base + g[p]
  <2>1. CASE p \in 1..l
    <3>1. p \in 0..l /\ p - 1 \in 0..l
      BY ONLY <1>3, <2>1
    <3>2. v[p] = u[p] /\ g[p] = f[p] /\ g[p - 1] = f[p - 1]
      BY ONLY <1>3, <1>9, <2>1, <3>1
    <3>3. /\ Follows(u[p], f[p - 1], f[p], base)
          /\ u[p].kind = "offset" => f[p] = f[p - 1]
          /\ u[p].kind = "commit" /\ task[k].s = Current => Committing /\ phone.covers <= base + f[p]
      BY ONLY <1>4, <2>1
    <3>4. task[k].s = Current' => task[k].s = Current /\ (Committing => Committing' /\ phone'.covers = phone.covers)
      BY DEF Covers
    <3> QED
      BY <3>2, <3>3, <3>4
  <2>2. CASE p = l + 1
    <3>1. p - 1 = l /\ l \in 0..l
      BY ONLY <1>3, <2>2
    <3>2. v[p] = m /\ g[p] = y /\ g[p - 1] = f[l]
      BY ONLY <1>3, <1>9, <2>2, <3>1
    <3> QED
      BY <1>1, <1>7, <3>2 DEF Comes
  <2> QED
    BY <1>3, <1>10, <2>1, <2>2
<1>11. phone'.at = "up" /\ phone'.sock = k /\ phone'.ready => g[l + 1] = phone'.sent
  BY <1>7, <1>9 DEF Comes
<1>12. Exact(k, g)'
  BY <1>1, <1>3, <1>4, <1>9, <1>10, <1>11 DEF Exact, Follow
<1> QED
  BY <1>1, <1>3, <1>9, <1>12

LEMMA SpeakingExact ==
    ASSUME Typed, Exactly, UNCHANGED <<task, sess>>,
           \A k \in Sockets : task[k].at = "run" => Covers(k) /\ SaysNext(k)
    PROVE  Exactly'
<1>1. SUFFICES ASSUME NEW k, k \in Sockets, task[k].at = "run"
               PROVE  \E g \in [0..Len(up'[k]) -> Nat] : Exact(k, g)'
  BY DEF Exactly
<1>2. PICK f \in [0..Len(up[k]) -> Nat] : Exact(k, f)
  BY <1>1 DEF Exactly
<1>3. Covers(k) /\ SaysNext(k)
  BY <1>1
<1>4. CASE /\ up'[k] = up[k]
           /\ phone'.at = "up" /\ phone'.sock = k /\ phone'.ready =>
                phone.at = "up" /\ phone.sock = k /\ phone.ready /\ phone'.sent = phone.sent
  <2>1. Exact(k, f)'
    BY <1>2, <1>3, <1>4 DEF Exact, Follow, Covers
  <2> QED
    BY <1>2, <1>4, <2>1
<1>5. CASE \E m \in UpMessage :
            up'[k] = Append(up[k], m) /\ \A x \in Nat : Reaches(k, x) => \E y \in Nat : Comes(k, m, x, y)
  BY <1>1, <1>2, <1>3, <1>5, AppendingExact
<1> QED
  BY <1>3, <1>4, <1>5 DEF SaysNext

\* A phone that keeps of its session what it had keeps the story.
SameToThePhone ==
    /\ phone'.at = phone.at /\ phone'.sock = phone.sock /\ phone'.id = phone.id /\ phone'.origin = phone.origin
    /\ phone'.settledTo = phone.settledTo /\ phone'.seen = phone.seen /\ phone'.text = phone.text
    /\ phone'.ready = phone.ready
LEMMA SameText ==
    ASSUME Typed, Words, SoFar, Manners, UNCHANGED <<task, sess, down, open>>, SameToThePhone, phone.at # "done",
           phone.id = 0 => phone'.covers = phone.covers,
           Current # 0 => \A h \in Seq(Said) : Owes(sess[Current], h) => Owes(sess[Current], h)'
    PROVE  SoFar' /\ Greeted' /\ Called' /\ Opened' /\ TextGrows' /\ CommitCoversWhatThereWas' /\ Current' = Current
<1> USE DEF SameToThePhone
<1>1. Current' = Current /\ (Live' <=> Live) /\ Coming' = Coming /\ (\A mark : TextEnds(mark)' <=> TextEnds(mark))
  BY DEF Current, Live, Coming, TextEnds
<1>2. PICK H, M, e : Story(H, M, e)
  BY DEF SoFar
<1>3. H \in [SessionIds -> Seq(Said)] /\ M \in [SessionIds -> [Nat -> Nat]] /\ e \in Nat
      /\ Histories(H, M) /\ PhoneHas(H, M, e) /\ Telling(H, e) /\ Behind(H, e) /\ Commits(H)
  BY <1>2 DEF Story
<1>4. Histories(H, M)'
  BY <1>3 DEF Histories
<1>5. PhoneHas(H, M, e)'
  BY <1>1, <1>3 DEF PhoneHas
<1>6. Telling(H, e)'
  BY <1>1, <1>3 DEF Telling, Tale
<1>7. Behind(H, e)'
  BY <1>1, <1>3 DEF Behind, Kept
<1>8. Commits(H)'
  <2>1. ASSUME Current # 0 PROVE Owes(sess[Current], H[Current])'
    <3>1. H[Current] \in Seq(Said)
      BY <1>3, <2>1, CurrentIs
    <3>2. PICK h : h = H[Current]
      OBVIOUS
    <3>3. Owes(sess[Current], h)'
      BY <1>3, <2>1, <3>1, <3>2 DEF Commits
    <3> QED
      BY <1>1, <3>2, <3>3 DEF Owes, Covering, Bare
  <2> QED
    BY <1>1, <2>1 DEF Commits
<1>9. SoFar'
  <2>1. Story(H, M, e)'
    BY <1>3, <1>4, <1>5, <1>6, <1>7, <1>8 DEF Story
  <2> QED
    BY <2>1 DEF SoFar
<1>10. Greeted' /\ Called' /\ Opened' /\ TextGrows'
  BY <1>1 DEF Manners, Greeted, Called, Opened, TextGrows
<1>11. CommitCoversWhatThereWas'
  BY DEF CommitCoversWhatThereWas
<1> QED
  BY <1>1, <1>9, <1>10, <1>11

LEMMA RecordingText ==
    ASSUME Typed, Typed', Words, Text, Record \/ Stop
    PROVE  Text'
<1>1. UNCHANGED <<task, sess, up, down, open, phone>> /\ ~stopped /\ recorded' \in {recorded, recorded + 1} /\ recorded \in Nat
      /\ phone.at \in {"down", "up", "offline"}
  BY DEF Record, Stop, AtTheMac, serverVars, wire, Typed, PhoneTyped
<1>2. phone' = phone /\ (Committing => Committing')
  <2>1. phone' = phone /\ phone'.covers = phone.covers /\ ~stopped
    BY <1>1
  <2> QED
    BY ONLY <2>1 DEF Committing
<1>3. ASSUME NEW h, Owes(sess[Current], h) PROVE Owes(sess[Current], h)'
  BY ZenonT(20), <1>1, <1>2, <1>3 DEF Owes, Covering, Bare, Current, Coming, Live
<1>4. SameToThePhone /\ phone.at # "done" /\ SoFar /\ Manners /\ Exactly
  BY <1>1, <1>2 DEF SameToThePhone, Text
<1>5. SoFar' /\ Greeted' /\ Called' /\ Opened' /\ TextGrows' /\ CommitCoversWhatThereWas' /\ Current' = Current
  BY <1>1, <1>2, <1>3, <1>4, SameText
<1>6. Unsaid'
  BY <1>1, <1>2, <1>4 DEF Manners, Unsaid
<1>7. TurnsWithin'
  <2>1. phone.covers \in Nat
    BY DEF Typed, PhoneTyped, Phone
  <2>2. phone.turn # 0
    BY <1>1, <1>4 DEF Manners, TurnsWithin
  <2>3. Live => phone.covers <= recorded'
    BY <1>1, <1>4, <2>1 DEF Manners, TurnsWithin
  <2> QED
    BY <1>2, <1>4, <2>2, <2>3 DEF Manners, TurnsWithin, Live
<1>8. Exactly'
  <2>1. \A k \in Sockets : Covers(k) /\ SaysNext(k)
    BY <1>1, <1>2, <1>5 DEF Covers, SaysNext
  <2> QED
    BY <1>1, <1>4, <2>1, SpeakingExact
<1> QED
  BY <1>5, <1>6, <1>7, <1>8 DEF Text, Manners

LEMMA LookText ==
    ASSUME Typed, Typed', Words, Text, LookAtFile
    PROVE  Text'
<1>1. UNCHANGED <<task, sess, up, down, open, recorded, stopped>> /\ phone.at = "up" /\ phone.ready
  BY DEF LookAtFile, AtTheMac, serverVars, wire, Up
<1>2. PICK to \in Nat, whole \in BOOLEAN :
        /\ phone' = [phone EXCEPT !.turn = to, !.whole = whole]
        /\ whole => to = recorded
        /\ to = 0 => stopped /\ recorded = 0
  <2>1. phone.origin + phone.sent + 1 \in Nat /\ phone.origin + phone.sent \in Nat /\ recorded \in Nat
        /\ phone.origin + phone.sent + 1 # 0
    BY PhoneIsWithin
  <2>2. \A to \in phone.origin + phone.sent + 1..recorded : to \in Nat /\ to # 0 /\ (to = recorded) \in BOOLEAN
    BY <2>1
  <2>3. ASSUME NEW to, to \in phone.origin + phone.sent + 1..recorded,
               phone' = [phone EXCEPT !.turn = to, !.whole = to = recorded]
        PROVE  \E n \in Nat, whole \in BOOLEAN :
                /\ phone' = [phone EXCEPT !.turn = n, !.whole = whole]
                /\ whole => n = recorded
                /\ n = 0 => stopped /\ recorded = 0
    <3>1. PICK whole \in BOOLEAN : whole = (to = recorded)
      OBVIOUS
    <3> QED
      BY <2>2, <2>3, <3>1
  <2>4. ASSUME MayCommit, phone' = [phone EXCEPT !.turn = recorded, !.whole = TRUE]
        PROVE  \E n \in Nat, whole \in BOOLEAN :
                /\ phone' = [phone EXCEPT !.turn = n, !.whole = whole]
                /\ whole => n = recorded
                /\ n = 0 => stopped /\ recorded = 0
    BY <2>1, <2>4 DEF MayCommit
  <2> QED
    BY <2>3, <2>4 DEF LookAtFile
<1>3. /\ SameToThePhone /\ phone'.turn = to /\ phone'.whole = whole /\ phone'.covers = phone.covers /\ phone'.sent = phone.sent
      /\ phone'.ready = phone.ready /\ phone'.at = phone.at /\ phone'.sock = phone.sock
  BY <1>2 DEF SameToThePhone, Typed, PhoneTyped, Phone
<1>4. SoFar /\ Manners /\ Exactly /\ phone.at # "done" /\ (Committing' <=> Committing)
  <2>1. stopped' = stopped /\ recorded' = recorded /\ phone'.covers = phone.covers
    BY <1>1, <1>3
  <2>2. Committing' <=> Committing
    BY ONLY <2>1 DEF Committing
  <2>3. phone.at # "done"
    BY <1>1
  <2> QED
    BY <2>2, <2>3 DEF Text
<1>5. ASSUME NEW h, Owes(sess[Current], h) PROVE Owes(sess[Current], h)'
  BY ZenonT(20), <1>1, <1>3, <1>4, <1>5 DEF Owes, Covering, Bare, Current, Coming, Live, SameToThePhone
<1>6. SoFar' /\ Greeted' /\ Called' /\ Opened' /\ TextGrows' /\ CommitCoversWhatThereWas' /\ Current' = Current
  BY <1>1, <1>3, <1>4, <1>5, SameText
<1>7. Unsaid'
  BY <1>1, <1>3, <1>4 DEF Manners, Unsaid
<1>8. TurnsWithin'
  <2>1. phone.covers <= recorded
    BY <1>1, <1>4 DEF Manners, TurnsWithin, Live
  <2> QED
    BY <1>1, <1>2, <1>3, <2>1 DEF TurnsWithin
<1>9. Exactly'
  <2>1. \A k \in Sockets : Covers(k) /\ SaysNext(k)
    BY <1>1, <1>3, <1>4, <1>6 DEF Covers, SaysNext
  <2> QED
    BY <1>1, <1>4, <2>1, SpeakingExact
<1> QED
  BY <1>6, <1>7, <1>8, <1>9 DEF Text, Manners

\* A turn is of a phone that is ready, on a socket that runs the session it
\* knows or has ended.
LEMMA TurningIs ==
    ASSUME Typed, Places, Words, phone.at = "up", phone.ready
    PROVE  /\ phone.sock \in Sockets /\ task[phone.sock].at \notin Early \cup {"none"}
           /\ task[phone.sock].at = "run" =>
                task[phone.sock].s \in SessionIds /\ sess[task[phone.sock].s].base = phone.origin
<1>1. phone.sock \in Sockets
  BY DEF Typed, PhoneTyped
<1> QED
  BY <1>1 DEF Words, OnTheSocket, Places, HereIsOn

LEMMA SendText ==
    ASSUME Typed, Typed', Places, Words, Text, SendAudio
    PROVE  Text'
<1>1. UNCHANGED <<task, sess, down, open, recorded, stopped>> /\ phone.at = "up" /\ phone.turn > phone.origin + phone.sent
  BY DEF SendAudio, AtTheMac, serverVars, Up
<1>2. phone.ready /\ phone.sent \in Nat /\ phone.origin \in Nat
  <2>1. phone.turn # -1
    BY <1>1, PhoneIsWithin
  <2> QED
    BY <2>1, PhoneIsWithin DEF Words, Turning
<1>3. PICK k \in Sockets : k = phone.sock
  BY <1>1 DEF Typed, PhoneTyped
<1>4. PICK n \in Nat, sent \in Nat : n = phone.origin + phone.sent + 1 /\ sent = phone.sent + 1
  BY <1>2
<1>5. phone' = [phone EXCEPT !.sent = sent] /\ Says("audio", n)
  BY <1>4 DEF SendAudio
<1>6. /\ SameToThePhone /\ phone'.turn = phone.turn /\ phone'.whole = phone.whole /\ phone'.covers = phone.covers
      /\ phone'.sent = sent /\ phone'.ready = phone.ready /\ phone'.at = phone.at /\ phone'.sock = phone.sock
  BY <1>5 DEF SameToThePhone, Typed, PhoneTyped, Phone
<1>7. SoFar /\ Manners /\ Exactly /\ phone.at # "done" /\ (Committing' <=> Committing)
  <2>1. stopped' = stopped /\ recorded' = recorded /\ phone'.covers = phone.covers
    BY <1>1, <1>6
  <2>2. Committing' <=> Committing
    BY ONLY <2>1 DEF Committing
  <2>3. phone.at # "done"
    BY <1>1
  <2> QED
    BY <2>2, <2>3 DEF Text
<1>8. ASSUME NEW h, Owes(sess[Current], h) PROVE Owes(sess[Current], h)'
  BY ZenonT(20), <1>1, <1>6, <1>7, <1>8 DEF Owes, Covering, Bare, Current, Coming, Live, SameToThePhone
<1>9. SoFar' /\ Greeted' /\ Called' /\ Opened' /\ TextGrows' /\ CommitCoversWhatThereWas' /\ Current' = Current
  BY <1>1, <1>6, <1>7, <1>8, SameText
<1>10. /\ \A j \in Sockets : j # k => up'[j] = up[j]
       /\ \/ /\ task[k].at \in Early \cup {"run"}
             /\ \E m \in UpMessage : m.kind = "audio" /\ m.n = n /\ up'[k] = Append(up[k], m)
          \/ task[k].at \notin Early \cup {"run"} /\ up'[k] = up[k]
  BY <1>3, <1>5, SayingAdds
<1>11. /\ task[k].at \notin Early \cup {"none"}
       /\ task[k].at = "run" => sess[task[k].s].base = phone.origin
  BY <1>1, <1>2, <1>3, TurningIs
<1>12. Unsaid'
  BY <1>1, <1>2, <1>3, <1>6, <1>7, <1>10, <1>11 DEF Manners, Unsaid
<1>13. TurnsWithin'
  BY <1>1, <1>6, <1>7 DEF Manners, TurnsWithin, Live
<1>14. Exactly'
  <2>1. ASSUME NEW j, j \in Sockets, task[j].at = "run" PROVE Covers(j) /\ SaysNext(j)
    <3>1. Covers(j)
      BY <1>6, <1>7, <1>9 DEF Covers
    <3>2. CASE j # k
      BY <1>3, <1>6, <1>10, <2>1, <3>1, <3>2 DEF SaysNext
    <3>3. CASE j = k
      <4>1. PICK m \in UpMessage : m.kind = "audio" /\ m.n = n /\ up'[k] = Append(up[k], m)
        <5> HIDE DEF UpMessage
        <5> QED
          BY <1>10, <2>1, <3>3
      <4>2. ASSUME NEW x \in Nat, Reaches(k, x) PROVE Comes(k, m, x, sent)
        <5>1. x = phone.sent
          BY <1>1, <1>2, <1>3, <4>2 DEF Reaches
        <5>2. m.n = phone.origin + x + 1 /\ sent = x + 1 /\ sess[task[k].s].base = phone.origin
          BY <1>4, <1>11, <2>1, <3>3, <4>1, <5>1
        <5> QED
          BY <1>6, <4>1, <5>2 DEF Comes, Follows
      <4> HIDE DEF UpMessage
      <4> QED
        BY <3>1, <3>3, <4>1, <4>2 DEF SaysNext
    <3> QED
      BY <3>2, <3>3
  <2> QED
    BY <1>1, <1>7, <2>1, SpeakingExact
<1> QED
  BY <1>9, <1>12, <1>13, <1>14 DEF Text, Manners

LEMMA EndTurnText ==
    ASSUME Typed, Typed', Places, Words, Text, EndTurn
    PROVE  Text'
<1>1. /\ UNCHANGED <<task, sess, down, open, recorded, stopped>> /\ phone.at = "up" /\ phone.turn # -1
      /\ phone.turn <= phone.origin + phone.sent
  <2>1. phone.origin + phone.sent \in Nat /\ phone.turn \in Int /\ phone.origin + phone.sent >= phone.turn
    BY PhoneIsWithin DEF EndTurn
  <2> QED
    BY <2>1 DEF EndTurn, AtTheMac, serverVars, Up
<1>2. phone.ready /\ phone.turn \in Nat /\ phone.sent \in Nat /\ phone.origin \in Nat /\ phone.covers \in Nat
      /\ phone.turn <= recorded /\ recorded \in Nat
  BY <1>1, PhoneIsWithin DEF Words, Turning, Phone
<1>3. PICK k \in Sockets : k = phone.sock
  BY <1>1 DEF Typed, PhoneTyped
<1>4. PICK covers : covers = IF phone.covers = 0 THEN phone.turn ELSE phone.covers
  OBVIOUS
<1>5. \/ MayCommit /\ phone.whole /\ Says("commit", 0)
         /\ phone' = [phone EXCEPT !.turn = -1, !.whole = FALSE, !.commitSent = TRUE, !.covers = covers]
      \/ phone' = [phone EXCEPT !.turn = -1, !.whole = FALSE] /\ up' = up
  BY <1>4 DEF EndTurn
<1>6. /\ SameToThePhone /\ phone'.turn = -1 /\ phone'.whole = FALSE
      /\ phone'.sent = phone.sent /\ phone'.ready = phone.ready /\ phone'.at = phone.at /\ phone'.sock = phone.sock
  <2>1. CASE phone' = [phone EXCEPT !.turn = -1, !.whole = FALSE, !.commitSent = TRUE, !.covers = covers]
    BY ZenonT(40), <2>1 DEF SameToThePhone, Typed, PhoneTyped, Phone
  <2>2. CASE phone' = [phone EXCEPT !.turn = -1, !.whole = FALSE]
    BY ZenonT(40), <2>2 DEF SameToThePhone, Typed, PhoneTyped, Phone
  <2> QED
    BY <1>5, <2>1, <2>2
<1>7. \/ phone.whole /\ Says("commit", 0) /\ phone'.covers = covers
      \/ phone'.covers = phone.covers /\ up' = up
  <2>1. CASE /\ phone.whole /\ Says("commit", 0)
             /\ phone' = [phone EXCEPT !.turn = -1, !.whole = FALSE, !.commitSent = TRUE, !.covers = covers]
    BY <2>1 DEF Typed, PhoneTyped, Phone
  <2>2. CASE phone' = [phone EXCEPT !.turn = -1, !.whole = FALSE] /\ up' = up
    BY <2>2 DEF Typed, PhoneTyped, Phone
  <2> QED
    BY <1>5, <2>1, <2>2
<1>8. SoFar /\ Manners /\ Exactly /\ phone.at # "done"
  BY <1>1 DEF Text
<1>9. /\ phone.turn = 0 => stopped /\ recorded = 0
      /\ phone.covers <= recorded /\ (phone.whole => phone.covers <= phone.turn)
  BY <1>1, <1>8 DEF Manners, TurnsWithin, Live
<1>10. Committing => Committing' /\ phone'.covers = phone.covers
  BY <1>1, <1>2, <1>4, <1>7, <1>9 DEF Committing
<1>11. \/ phone'.covers = phone.covers /\ (Committing => Committing')
       \/ ~Committing /\ Committing'
  BY <1>1, <1>2, <1>4, <1>7, <1>9 DEF Committing
<1>12. ASSUME NEW h, Owes(sess[Current], h) PROVE Owes(sess[Current], h)'
  <2>1. Current' = Current /\ sess' = sess
    BY <1>1, <1>6 DEF Current, Coming, Live, SameToThePhone
  <2>2. PICK s : s = sess[Current]
    OBVIOUS
  <2>3. Covering(s, h, phone.covers) /\ (Committing \/ Bare(s, h))
    BY <1>12, <2>2 DEF Owes
  <2>4. Covering(s, h, phone'.covers) /\ (Committing' \/ Bare(s, h))
    <3>1. CASE phone'.covers = phone.covers /\ (Committing => Committing')
      BY <2>3, <3>1
    <3>2. CASE ~Committing /\ Committing'
      BY <2>3, <3>2 DEF Bare, Covering
    <3> QED
      BY <1>11, <3>1, <3>2
  <2> QED
    BY <2>1, <2>2, <2>4 DEF Owes, Covering, Bare
<1>13. SoFar' /\ Greeted' /\ Called' /\ Opened' /\ TextGrows' /\ CommitCoversWhatThereWas' /\ Current' = Current
  <2>1. phone.id # 0
    BY <1>1, <1>2, <1>8 DEF Manners, Greeted
  <2> QED
    BY <1>1, <1>6, <1>8, <1>12, <2>1, SameText
<1>14. /\ \A j \in Sockets : j # k => up'[j] = up[j]
       /\ \/ /\ phone.whole /\ phone'.covers = covers /\ task[k].at \in Early \cup {"run"}
             /\ \E m \in UpMessage : m.kind = "commit" /\ up'[k] = Append(up[k], m)
          \/ up'[k] = up[k]
  <2> HIDE DEF UpMessage
  <2>1. CASE up' = up
    BY <2>1
  <2>2. CASE phone.whole /\ phone'.covers = covers /\ Says("commit", 0)
    BY <1>3, <2>2, SayingAdds
  <2> QED
    BY <1>7, <2>1, <2>2
<1>15. /\ task[k].at \notin Early \cup {"none"}
       /\ task[k].at = "run" => sess[task[k].s].base = phone.origin
  BY <1>1, <1>2, <1>3, TurningIs
<1>16. Unsaid'
  <2> HIDE DEF UpMessage
  <2> QED
    BY <1>1, <1>2, <1>3, <1>6, <1>8, <1>14, <1>15 DEF Manners, Unsaid
<1>17. TurnsWithin'
  <2>1. phone'.covers <= recorded
    BY <1>2, <1>4, <1>7, <1>9
  <2> QED
    BY <1>1, <1>6, <2>1 DEF TurnsWithin
<1>18. Exactly'
  <2>1. ASSUME NEW j, j \in Sockets, task[j].at = "run" PROVE Covers(j) /\ SaysNext(j)
    <3>1. Covers(j)
      BY <1>10, <1>13 DEF Covers
    <3>2. CASE up'[j] = up[j]
      BY <1>6, <3>1, <3>2 DEF SaysNext
    <3>3. CASE up'[j] # up[j]
      <4>0. j = k
        <5> HIDE DEF UpMessage
        <5> QED
          BY ONLY <1>14, <2>1, <3>3
      <4>1. j = k /\ phone.whole /\ phone'.covers = covers
        <5> HIDE DEF UpMessage
        <5> QED
          BY <1>14, <3>3, <4>0
      <4>2. PICK m \in UpMessage : m.kind = "commit" /\ up'[k] = Append(up[k], m)
        <5> HIDE DEF UpMessage
        <5> QED
          BY <1>14, <3>3, <4>1
      <4>3. Committing' /\ phone'.covers <= phone.origin + phone.sent
        BY <1>1, <1>2, <1>4, <1>9, <4>1 DEF Committing
      <4>4. ASSUME NEW x \in Nat, Reaches(k, x) PROVE Comes(k, m, x, phone.sent)
        <5>1. x = phone.sent
          BY <1>1, <1>2, <1>3, <4>4 DEF Reaches
        <5>2. sess[task[k].s].base = phone.origin
          BY <1>15, <2>1, <4>1
        <5> QED
          BY <1>6, <4>2, <4>3, <5>1, <5>2 DEF Comes, Follows
      <4> HIDE DEF UpMessage
      <4> QED
        BY <1>2, <3>1, <4>1, <4>2, <4>4 DEF SaysNext
    <3> QED
      BY <3>2, <3>3
  <2> QED
    BY <1>1, <1>8, <2>1, SpeakingExact
<1> QED
  BY <1>13, <1>16, <1>17, <1>18 DEF Text, Manners

\* Nothing tells of nothing.
LEMMA SilenceTells == \A h : TellsUpTo(<<>>, h, 0, 0)
<1>1. Len(<<>>) = 0 /\ 1..0 = {}
  OBVIOUS
<1>2. PICK g : g = [p \in 0..0 |-> 0]
  OBVIOUS
<1>3. g \in [0..Len(<<>>) -> Nat] /\ g[0] = 0 /\ g[Len(<<>>)] = 0
  BY <1>1, <1>2
<1>4. \A h : Tells(<<>>, h, g)
  BY <1>1 DEF Tells
<1> QED
  BY <1>3, <1>4 DEF TellsUpTo

LEMMA ConnectText ==
    ASSUME Typed, Typed', Places, Words, Text, Connect
    PROVE  Text'
<1>1. PICK k \in Sockets :
        /\ task[k].at = "none" /\ phone' = [phone EXCEPT !.at = "up", !.sock = k]
        /\ task' = [task EXCEPT ![k] = [NoTask EXCEPT !.at = "new", !.s = phone.id,
                    !.from = IF phone.id = 0 THEN phone.origin ELSE phone.settledTo]]
  BY ConnectTyped
<1>2. phone.at = "down" /\ UNCHANGED <<recorded, stopped, up, down, sess>> /\ phone'.sock \in open'
  <2>1. phone.at = "down" /\ UNCHANGED <<recorded, stopped, up, down, sess>>
    BY DEF Connect
  <2>2. \E j : phone' = [phone EXCEPT !.at = "up", !.sock = j] /\ open' = open \cup {j}
    BY DEF Connect
  <2>3. phone'.sock \in open'
    BY <2>2 DEF Typed, PhoneTyped, Phone
  <2> QED
    BY <2>1, <2>3
<1>3. /\ phone'.at = "up" /\ phone'.sock = k /\ phone'.id = phone.id /\ phone'.origin = phone.origin
      /\ phone'.settledTo = phone.settledTo /\ phone'.seen = phone.seen /\ phone'.text = phone.text
      /\ phone'.turn = phone.turn /\ phone'.ready = phone.ready /\ phone'.whole = phone.whole /\ phone'.covers = phone.covers
  BY <1>1 DEF Typed, PhoneTyped, Phone
<1>4. ~phone.ready /\ Live /\ Live' /\ (Committing' <=> Committing) /\ (\A mark : TextEnds(mark)' <=> TextEnds(mark))
  BY <1>2, <1>3 DEF Words, Turning, Live, Committing, TextEnds
<1>5. PICK from : from = IF phone.id = 0 THEN phone.origin ELSE phone.settledTo
  OBVIOUS
<1>6. /\ task'[k].at = "new" /\ task'[k].s = phone.id /\ task'[k].from = from
      /\ \A j \in Sockets : j # k => task'[j] = task[j]
  BY <1>1, <1>5 DEF Typed, TaskTyped, NoTask
<1>7. SoFar /\ Manners /\ Exactly
  BY DEF Text
<1>8. up[k] = <<>> /\ down[k] = <<>> /\ Coming' = <<>>
  <2>1. up[k] = <<>> /\ down[k] = <<>>
    BY <1>1, <1>7 DEF Manners, Unsaid, Words, Quiet
  <2> QED
    BY <1>2, <1>3, <2>1 DEF Coming
<1>9. Current' = Current /\ Current = phone.id
  <2>1. Current = phone.id
    BY <1>2, <1>4 DEF Current
  <2>2. Current' = phone'.id
    BY <1>4, <1>8 DEF Current
  <2> QED
    BY <1>3, <2>1, <2>2
<1>10. PICK H, M, e : Story(H, M, e)
  BY <1>7 DEF SoFar
<1>11. H \in [SessionIds -> Seq(Said)] /\ M \in [SessionIds -> [Nat -> Nat]] /\ e \in Nat
       /\ Histories(H, M) /\ PhoneHas(H, M, e) /\ Telling(H, e) /\ Behind(H, e) /\ Commits(H)
  BY <1>10 DEF Story
<1>12. Histories(H, M)'
  BY <1>2, <1>11 DEF Histories
<1>13. PhoneHas(H, M, e)'
  BY <1>3, <1>4, <1>11 DEF PhoneHas
<1>14. Telling(H, e)'
  <2>1. 0 \in 0..e /\ 0 \in Nat
    BY <1>11
  <2>2. TellsUpTo(Coming', Tale(H)', 0, 0)
    BY <1>8, SilenceTells
  <2>3. task'[phone'.sock].at # "run"
    BY <1>3, <1>6
  <2> QED
    BY <2>1, <2>2, <2>3 DEF Telling
<1>15. Behind(H, e)'
  <2>1. SUFFICES ASSUME Current # 0
                 PROVE  /\ \A j \in Sockets : task'[j].at \in Early /\ task'[j].s = Current => task'[j].from <= phone'.settledTo
                        /\ Kept(Current) => Len(H[Current]) - Len(sess[Current].log) <= Reached(e)
    BY <1>2, <1>9 DEF Behind, Kept
  <2>2. from = phone.settledTo /\ phone.settledTo \in Nat
    BY <1>5, <1>9, <2>1, PhoneIsWithin
  <2>3. /\ \A j \in Sockets : task[j].at \in Early /\ task[j].s = Current => task[j].from <= phone.settledTo
        /\ Kept(Current) => Len(H[Current]) - Len(sess[Current].log) <= Reached(e)
    BY <1>11, <2>1 DEF Behind
  <2>4. ASSUME NEW j, j \in Sockets, task'[j].at \in Early /\ task'[j].s = Current PROVE task'[j].from <= phone'.settledTo
    <3>1. CASE j = k
      BY <1>3, <1>6, <2>2, <3>1
    <3>2. CASE j # k
      BY <1>3, <1>6, <2>3, <2>4, <3>2
    <3> QED
      BY <3>1, <3>2
  <2> QED
    BY <2>3, <2>4
<1>16. Commits(H)'
  <2>1. ASSUME Current # 0 PROVE Owes(sess[Current], H[Current])'
    <3>1. Owes(sess[Current], H[Current])
      BY <1>11, <2>1 DEF Commits
    <3> QED
      BY <1>2, <1>3, <1>4, <1>9, <3>1 DEF Owes, Covering, Bare
  <2> QED
    BY <1>9, <2>1 DEF Commits
<1>17. SoFar'
  <2>1. Story(H, M, e)'
    BY <1>11, <1>12, <1>13, <1>14, <1>15, <1>16 DEF Story
  <2> QED
    BY <2>1 DEF SoFar
<1>18. Greeted'
  <2>1. Len(Coming') = 0 /\ 1..0 = {}
    BY <1>8
  <2> QED
    BY <1>3, <1>4, <1>6, <2>1 DEF Greeted
<1>19. Called'
  BY <1>2, <1>6, <1>7 DEF Manners, Called, Words, PhoneNamed
<1>20. Unsaid'
  BY <1>2, <1>3, <1>6, <1>7, <1>8 DEF Manners, Unsaid
<1>21. Opened' /\ TurnsWithin' /\ CommitCoversWhatThereWas'
  BY <1>2, <1>3, <1>4, <1>7 DEF Manners, Opened, TurnsWithin, CommitCoversWhatThereWas
<1>22. TextGrows'
  BY <1>2, <1>3, <1>7 DEF Manners, TextGrows
<1>23. Exactly'
  <2>1. SUFFICES ASSUME NEW j, j \in Sockets, task'[j].at = "run"
                 PROVE  \E f \in [0..Len(up'[j]) -> Nat] : Exact(j, f)'
    BY DEF Exactly
  <2>2. j # k /\ task'[j] = task[j] /\ up'[j] = up[j]
    BY <1>2, <1>6, <2>1
  <2>3. PICK f \in [0..Len(up[j]) -> Nat] : Exact(j, f)
    BY <1>7, <2>1, <2>2 DEF Exactly
  <2>4. Exact(j, f)'
    BY <1>2, <1>3, <1>4, <1>9, <2>2, <2>3 DEF Exact, Follow
  <2> QED
    BY <2>2, <2>3, <2>4
<1> QED
  BY <1>17, <1>18, <1>19, <1>20, <1>21, <1>22, <1>23 DEF Text, Manners

\* What a phone that leaves keeps of its text.
LEMMA LeavingHas ==
    ASSUME phone \in Phone, NEW at, at \in PhonePlaces
    PROVE  /\ Hangup(at).seen = phone.seen /\ Hangup(at).text = phone.text /\ Hangup(at).covers = phone.covers
           /\ Hangup(at).whole = FALSE
           /\ Over(at).seen = {} /\ Over(at).text = phone.text /\ Over(at).covers = 0
           /\ Over(at).whole = FALSE
           /\ Anew(Hangup(at)).seen = {} /\ Anew(Hangup(at)).text = phone.text /\ Anew(Hangup(at)).covers = 0
<1> DEFINE h == [phone EXCEPT !.at = at, !.sock = 0, !.turn = -1, !.whole = FALSE, !.ready = FALSE,
                              !.commitSent = FALSE]
<1>1. Hangup(at) = h
  BY DEF Hangup
<1>2. h \in Phone /\ h.seen = phone.seen /\ h.text = phone.text /\ h.covers = phone.covers /\ h.whole = FALSE
  BY DEF Phone
<1> HIDE DEF h
<1>3. Over(at) = [h EXCEPT !.id = 0, !.origin = 0, !.settledTo = 0, !.sent = 0, !.seen = {},
                           !.committed = FALSE, !.covers = 0]
  BY <1>1 DEF Over
<1> DEFINE o == [h EXCEPT !.id = 0, !.origin = 0, !.settledTo = 0, !.sent = 0, !.seen = {},
                          !.committed = FALSE, !.covers = 0]
<1>4. o.seen = {} /\ o.text = h.text /\ o.covers = 0 /\ o.whole = FALSE
  BY <1>2 DEF Phone
<1>5. PICK origin : origin = h.origin + h.settledTo
  OBVIOUS
<1>6. Anew(h) = [h EXCEPT !.origin = origin, !.settledTo = 0, !.sent = 0, !.id = 0, !.seen = {},
                          !.committed = FALSE, !.covers = 0]
  BY <1>2, <1>5 DEF Anew, Phone
<1>7. Anew(h).seen = {} /\ Anew(h).text = h.text /\ Anew(h).covers = 0
  BY <1>2, <1>6 DEF Phone
<1> QED
  BY <1>1, <1>2, <1>3, <1>4, <1>7

\* Nothing is said, or that the phone goes.
Closes ==
    \A k \in Sockets :
        up'[k] = up[k] \/ (task[k].at # "none" /\ \E m \in UpMessage : m.kind = "close" /\ up'[k] = Append(up[k], m))
LEMMA ClosingExact ==
    ASSUME Typed, Exactly, UNCHANGED <<task, sess>>, Closes, phone'.at # "up",
           \A k \in Sockets : task[k].at = "run" => Covers(k)
    PROVE  Exactly'
<1>1. ASSUME NEW k, k \in Sockets, task[k].at = "run" PROVE SaysNext(k)
  <2>1. CASE up'[k] = up[k]
    BY <2>1 DEF SaysNext
  <2>2. CASE \E m \in UpMessage : m.kind = "close" /\ up'[k] = Append(up[k], m)
    <3>1. PICK m \in UpMessage : m.kind = "close" /\ up'[k] = Append(up[k], m)
      BY <2>2
    <3>2. \A x \in Nat : Comes(k, m, x, x)
      BY <3>1 DEF Comes, Follows
    <3> HIDE DEF UpMessage
    <3> QED
      BY <3>1, <3>2 DEF SaysNext
  <2> HIDE DEF UpMessage
  <2> QED
    BY <1>1, <2>1, <2>2 DEF Closes
<1> QED
  BY <1>1, SpeakingExact

\* A phone without a socket has said nothing it should not have, and is owed no
\* greeting.
LEMMA SocketlessManners ==
    ASSUME Typed, Manners, UNCHANGED <<task, sess>>, Closes, phone'.at # "up", phone'.turn = -1, TextGrows',
           CommitCoversWhatThereWas', Live' => phone'.covers <= recorded'
    PROVE  Manners'
<1>1. Greeted' /\ Opened'
  BY DEF Greeted, Opened
<1>2. Called'
  BY DEF Manners, Called
<1>3. Unsaid'
  BY DEF Manners, Unsaid, Closes
<1>4. TurnsWithin'
  BY DEF TurnsWithin
<1> QED
  BY <1>1, <1>2, <1>3, <1>4 DEF Manners

\* A phone that leaves its socket keeps what it has of its session.
LEMMA HungUpText ==
    ASSUME Typed, Typed', Places, Words, Text, UNCHANGED <<task, sess, up, recorded, stopped>>, phone.at = "up",
           phone' = Hangup("down")
    PROVE  Text'
<1>1. "down" \in PhonePlaces /\ phone \in Phone
  BY DEF PhonePlaces, Typed, PhoneTyped
<1>2. /\ phone'.at = "down" /\ phone'.id = phone.id /\ phone'.origin = phone.origin /\ phone'.settledTo = phone.settledTo
      /\ phone'.turn = -1 /\ phone'.seen = phone.seen /\ phone'.text = phone.text /\ phone'.covers = phone.covers
  BY <1>1, HangingUpKeeps, LeavingHas
<1>3. Live /\ Live' /\ SoFar /\ Manners /\ Exactly /\ (\A mark : TextEnds(mark)' <=> TextEnds(mark))
  BY <1>2 DEF Live, Text, TextEnds
<1>4. Current' = phone.id /\ (phone.id # 0 => Current' = Current)
  <2>1. Current' = phone'.id
    BY <1>2, <1>3 DEF Current
  <2> QED
    BY <1>2, <1>3, <2>1, CurrentIs
<1>5. PICK H, M, e : Story(H, M, e)
  BY <1>3 DEF SoFar
<1>6. H \in [SessionIds -> Seq(Said)] /\ M \in [SessionIds -> [Nat -> Nat]] /\ e \in Nat
      /\ Histories(H, M) /\ PhoneHas(H, M, e) /\ Behind(H, e) /\ Commits(H)
  BY <1>5 DEF Story
<1>7. Histories(H, M)'
  BY <1>6 DEF Histories
<1>8. PhoneHas(H, M, e)'
  <2>1. CASE phone.id = 0
    <3>1. e = 0 /\ phone.seen = {} /\ phone.covers = 0 /\ phone.settledTo = 0 /\ TextEnds(0)
      BY <1>3, <1>6, <2>1 DEF PhoneHas
    <3>2. TextEnds(0)'
      BY <1>3, <3>1
    <3> QED
      BY <1>2, <2>1, <3>1, <3>2 DEF PhoneHas
  <2>2. CASE phone.id # 0
    <3>1. PICK i, mark : i = phone.id /\ mark = M[i][e]
      OBVIOUS
    <3>2. e <= Len(H[i]) /\ phone.seen = {H[i][n].id : n \in 1..e} /\ phone.settledTo = SampleAt(H[i], e) /\ TextEnds(mark)
      BY <1>3, <1>6, <2>2, <3>1 DEF PhoneHas
    <3>3. TextEnds(mark)'
      BY <1>3, <3>2
    <3> QED
      BY <1>2, <2>2, <3>1, <3>2, <3>3 DEF PhoneHas
  <2> QED
    BY <2>1, <2>2
<1>9. Telling(H, e)'
  BY <1>2 DEF Telling
<1>10. Behind(H, e)'
  BY <1>2, <1>4, <1>6 DEF Behind, Kept
<1>11. UNCHANGED stopped
  OBVIOUS
<1>12. Committing' <=> Committing
  BY <1>2, <1>11 DEF Committing
<1>13. Commits(H)'
  BY <1>2, <1>4, <1>6, <1>12 DEF Commits, Owes, Covering, Bare
<1>14. SoFar'
  <2>1. Story(H, M, e)'
    BY <1>6, <1>7, <1>8, <1>9, <1>10, <1>13 DEF Story
  <2> QED
    BY <2>1 DEF SoFar
<1>15. Manners'
  <2>1. TextGrows' /\ CommitCoversWhatThereWas' /\ phone'.covers <= recorded'
    BY <1>2, <1>3 DEF Manners, TextGrows, CommitCoversWhatThereWas, TurnsWithin
  <2>2. Closes
    BY DEF Closes
  <2> QED
    BY <1>2, <1>3, <2>1, <2>2, SocketlessManners
<1>16. Exactly'
  <2>1. \A k \in Sockets : task[k].at = "run" => Covers(k)
    <3>1. \A k \in Sockets : task[k].at = "run" => task[k].s # 0
      BY DEF Places, HereIsOn, SessionIds, Sockets
    <3> QED
      BY <1>2, <1>4, <1>12, <3>1 DEF Covers
  <2>2. Closes
    BY DEF Closes
  <2> QED
    BY <1>2, <1>3, <2>1, <2>2, ClosingExact
<1> QED
  BY <1>14, <1>15, <1>16 DEF Text

\* A phone that gave up its session begins where it has settled.
LEMMA AnewText ==
    ASSUME Typed, Typed', Places, Words, Text, UNCHANGED <<task, sess, up>>, phone.at = "up",
           phone' = Anew(Hangup("down"))
    PROVE  Text'
<1>1. "down" \in PhonePlaces /\ phone \in Phone /\ Hangup("down") \in Phone
  BY HangingUpKeeps DEF PhonePlaces, Typed, PhoneTyped
<1>2. /\ phone'.at = "down" /\ phone'.id = 0 /\ phone'.origin = phone.origin + phone.settledTo /\ phone'.settledTo = 0
      /\ phone'.turn = -1 /\ phone'.seen = {} /\ phone'.text = phone.text /\ phone'.covers = 0
  <2>1. PICK h \in Phone : h = Hangup("down") /\ h.at = "down" /\ h.turn = -1 /\ h.origin = phone.origin /\ h.settledTo = phone.settledTo
    BY <1>1, HangingUpKeeps
  <2>2. phone' = Anew(h)
    BY <2>1
  <2>3. Anew(h).at = "down" /\ Anew(h).id = 0 /\ Anew(h).turn = -1 /\ Anew(h).origin = phone.origin + phone.settledTo
        /\ Anew(h).settledTo = 0
    BY <2>1, BeginningAnewKeeps
  <2>4. Anew(h).seen = {} /\ Anew(h).text = phone.text /\ Anew(h).covers = 0
    BY <1>1, <2>1, LeavingHas
  <2> QED
    BY <2>2, <2>3, <2>4
<1>3. Live /\ Live' /\ SoFar /\ Manners /\ Exactly
  BY <1>2 DEF Live, Text
<1>4. Current' = 0
  BY <1>2 DEF Current
<1>5. PICK H, M, e : Story(H, M, e)
  BY <1>3 DEF SoFar
<1>6. H \in [SessionIds -> Seq(Said)] /\ M \in [SessionIds -> [Nat -> Nat]] /\ e \in Nat
      /\ Histories(H, M) /\ PhoneHas(H, M, e)
  BY <1>5 DEF Story
<1>7. phone.text # <<>> => phone.text[Len(phone.text)] <= phone.origin + phone.settledTo
  <2>1. SUFFICES ASSUME phone.text # <<>> PROVE phone.text[Len(phone.text)] <= phone.origin + phone.settledTo
    OBVIOUS
  <2>2. PICK last : last = phone.text[Len(phone.text)]
    OBVIOUS
  <2>3. last \in Nat /\ phone.origin \in Nat /\ phone.settledTo \in Nat
    <3>1. phone.text \in Seq(Nat)
      BY DEF Typed, PhoneTyped, Phone
    <3>2. Len(phone.text) \in 1..Len(phone.text)
      BY <2>1, <3>1, EmptySeq
    <3> QED
      BY <2>2, <3>1, <3>2, PhoneIsWithin
  <2>4. CASE phone.id = 0
    <3>1. last <= phone.origin + 0
      BY <1>3, <1>6, <2>1, <2>2, <2>4 DEF PhoneHas, TextEnds
    <3> QED
      BY <2>2, <2>3, <3>1
  <2>5. CASE phone.id # 0
    <3>1. PICK i \in SessionIds : i = phone.id
      BY <2>5 DEF Typed, PhoneTyped, Phone
    <3>2. PICK h, mark : h = H[i] /\ mark = M[i]
      OBVIOUS
    <3>3. h \in Seq(Said) /\ mark \in [Nat -> Nat] /\ Pieces(h, mark, sess[i].base)
      BY <1>6, <3>2 DEF Histories, History
    <3>4. e <= Len(h) /\ phone.settledTo = SampleAt(h, e) /\ last <= phone.origin + mark[e]
      BY <1>3, <1>6, <2>1, <2>2, <2>5, <3>1, <3>2 DEF PhoneHas, TextEnds
    <3>5. mark[e] <= phone.settledTo
      <4>1. CASE e = 0
        BY <2>3, <3>3, <4>1 DEF Pieces
      <4>2. CASE e # 0
        <5>1. e \in 1..Len(h) /\ phone.settledTo = h[e].at
          BY <1>6, <3>3, <3>4, <4>2 DEF SampleAt
        <5>2. Piece(h[e], mark[e - 1], mark[e], sess[i].base)
          BY <3>3, <5>1 DEF Pieces
        <5> QED
          BY <5>1, <5>2 DEF Piece
      <4> QED
        BY <4>1, <4>2
    <3>6. mark[e] \in Nat
      BY <1>6, <3>3
    <3> QED
      BY <2>2, <2>3, <3>4, <3>5, <3>6
  <2> QED
    BY <2>4, <2>5
<1>8. PhoneHas(H, M, 0)'
  <2>1. TextEnds(0)'
    BY <1>2, <1>7, PhoneIsWithin DEF TextEnds
  <2> QED
    BY <1>2, <2>1 DEF PhoneHas
<1>9. SoFar'
  <2>1. Histories(H, M)' /\ Telling(H, 0)' /\ Behind(H, 0)' /\ Commits(H)'
    BY <1>2, <1>4, <1>6 DEF Histories, Telling, Behind, Commits
  <2>2. Story(H, M, 0)'
    BY <1>6, <1>8, <2>1 DEF Story
  <2> QED
    BY <2>2 DEF SoFar
<1>10. Manners'
  <2>1. TextGrows' /\ CommitCoversWhatThereWas'
    BY <1>2, <1>3 DEF Manners, TextGrows, CommitCoversWhatThereWas
  <2>2. phone'.covers <= recorded'
    BY <1>2 DEF Typed, PhoneTyped
  <2>3. Closes
    BY DEF Closes
  <2> QED
    BY <1>2, <1>3, <2>1, <2>2, <2>3, SocketlessManners
<1>11. Exactly'
  <2>1. \A k \in Sockets : task[k].at = "run" => Covers(k)
    <3>1. \A k \in Sockets : task[k].at = "run" => task[k].s # 0
      BY DEF Places, HereIsOn, SessionIds, Sockets
    <3> QED
      BY <1>4, <3>1 DEF Covers
  <2>2. Closes
    BY DEF Closes
  <2> QED
    BY <1>2, <1>3, <2>1, <2>2, ClosingExact
<1> QED
  BY <1>9, <1>10, <1>11 DEF Text

\* A take that is over has its text, or another that grows as well.
LEMMA GoneText ==
    ASSUME Typed, Typed', Places, Words, Text, UNCHANGED <<task, sess>>, Closes, ~Live', phone'.turn = -1, TextGrows',
           CommitCoversWhatThereWas'
    PROVE  Text'
<1>1. Current' = 0 /\ phone'.at # "up" /\ SoFar /\ Manners /\ Exactly
  BY DEF Current, Live, Text
<1>2. SoFar'
  <2>1. PICK H, M, e : Story(H, M, e)
    BY <1>1 DEF SoFar
  <2>2. Story(H, M, e)'
    BY <1>1, <2>1 DEF Story, Histories, PhoneHas, Telling, Behind, Commits
  <2> QED
    BY <2>2 DEF SoFar
<1>3. Manners'
  BY <1>1, SocketlessManners
<1>4. Exactly'
  <2>1. \A k \in Sockets : task[k].at = "run" => Covers(k)
    <3>1. \A k \in Sockets : task[k].at = "run" => task[k].s # 0
      BY DEF Places, HereIsOn, SessionIds, Sockets
    <3> QED
      BY <1>1, <3>1 DEF Covers
  <2> QED
    BY <1>1, <2>1, ClosingExact
<1> QED
  BY <1>2, <1>3, <1>4 DEF Text

\* A take that is over for one reason or another.
LEMMA OverText ==
    ASSUME Typed, Typed', Places, Words, Text, UNCHANGED <<task, sess>>, Closes,
           NEW at, at \in PhonePlaces \ {"up", "down", "done"}, phone' = Over(at)
    PROVE  Text'
<1>1. phone \in Phone /\ at \in PhonePlaces
  BY DEF Typed, PhoneTyped
<1>2. phone'.at = at /\ phone'.turn = -1 /\ phone'.text = phone.text
  BY <1>1, HangingUpKeeps, LeavingHas
<1>3. ~Live' /\ CommitCoversWhatThereWas'
  BY <1>2 DEF Live, CommitCoversWhatThereWas
<1>4. TextGrows'
  BY <1>2 DEF Text, Manners, TextGrows
<1> QED
  BY <1>2, <1>3, <1>4, GoneText

LEMMA LeavingPhoneText ==
    ASSUME Typed, Typed', Places, Words, Text, OutOfReach \/ Refused \/ Leave \/ Cancel \/ SendWhole
    PROVE  Text'
<1>1. UNCHANGED <<task, sess>> /\ phone \in Phone
  BY DEF OutOfReach, Refused, Leave, Cancel, SendWhole, AtTheMac, serverVars, Typed, PhoneTyped
<1>2. UNCHANGED up => Closes
  BY DEF Closes
<1>3. CASE OutOfReach \/ Refused
  <2>1. PICK at \in PhonePlaces \ {"up", "down", "done"} : phone' = Over(at)
    BY <1>3 DEF OutOfReach, Refused, PhonePlaces
  <2>2. UNCHANGED up
    BY <1>3 DEF OutOfReach, Refused, wire
  <2> QED
    BY <1>1, <1>2, <2>1, <2>2, OverText
<1>4. CASE Leave
  <2>1. UNCHANGED <<up, recorded, stopped>> /\ phone.at = "up" /\ phone' = Hangup("down")
    BY <1>4 DEF Leave, Up
  <2> QED
    BY <1>1, <2>1, HungUpText
<1>5. CASE Cancel
  <2>1. PICK o \in Phone : o = Over("cancelled") /\ o.at = "cancelled" /\ o.turn = -1 /\ phone' = [o EXCEPT !.text = <<>>]
    BY <1>1, <1>5, HangingUpKeeps DEF Cancel, PhonePlaces
  <2>2. phone'.at = "cancelled" /\ phone'.turn = -1 /\ phone'.text = <<>>
    BY <2>1 DEF Phone
  <2>3. ~Live' /\ CommitCoversWhatThereWas'
    BY <2>2 DEF Live, CommitCoversWhatThereWas
  <2>4. TextGrows'
    <3>1. Len(phone'.text) = 0 /\ 1..0 - 1 = {}
      BY <2>2
    <3> QED
      BY <3>1 DEF TextGrows
  <2>5. Closes
    <3>1. CASE phone.at = "up"
      <4>1. Says("close", 0) /\ phone.sock \in Sockets
        BY <1>5, <3>1 DEF Cancel, Up, Typed, PhoneTyped
      <4> HIDE DEF UpMessage
      <4>2. /\ \A j \in Sockets : j # phone.sock => up'[j] = up[j]
            /\ \/ /\ task[phone.sock].at \in Early \cup {"run"}
                  /\ \E m \in UpMessage : m.kind = "close" /\ m.n = 0 /\ up'[phone.sock] = Append(up[phone.sock], m)
               \/ task[phone.sock].at \notin Early \cup {"run"} /\ up'[phone.sock] = up[phone.sock]
        BY <4>1, SayingAdds
      <4> QED
        BY <4>2 DEF Closes, Early
    <3>2. CASE phone.at # "up"
      BY <1>2, <1>5, <3>2 DEF Cancel, Up, wire
    <3> QED
      BY <3>1, <3>2
  <2> QED
    BY <1>1, <2>2, <2>3, <2>4, <2>5, GoneText
<1>6. CASE SendWhole
  <2>1. UNCHANGED <<up, recorded>> /\ phone.at = "offline" /\ recorded \in Nat
    BY <1>6 DEF SendWhole, wire, Typed, PhoneTyped
  <2>2. PICK text : text = [n \in 1..recorded |-> n]
    OBVIOUS
  <2>3. phone' = [phone EXCEPT !.at = "sent", !.text = text] \/ phone' = [phone EXCEPT !.at = "failed"]
    BY <1>6, <2>2 DEF SendWhole
  <2>4. phone'.at \in {"sent", "failed"} /\ phone'.turn = phone.turn /\ phone'.text \in {text, phone.text}
    BY <1>1, <2>3 DEF Phone
  <2>5. ~Live' /\ CommitCoversWhatThereWas'
    BY <2>4 DEF Live, CommitCoversWhatThereWas
  <2>6. phone'.turn = -1
    BY <2>1, <2>4 DEF Words, Turning
  <2>7. TextGrows'
    <3>1. CASE phone'.text = phone.text
      BY <1>1, <3>1 DEF Text, Manners, TextGrows
    <3>2. CASE phone'.text = text
      <4>1. text \in Seq(Nat) /\ Len(text) = recorded
        BY <2>1, <2>2
      <4>2. \A n \in 1..recorded - 1 : text[n] = n /\ text[n + 1] = n + 1
        BY <2>1, <2>2
      <4> QED
        BY <3>2, <4>1, <4>2 DEF TextGrows
    <3> QED
      BY <2>4, <3>1, <3>2
  <2> QED
    BY <1>1, <1>2, <2>1, <2>5, <2>6, <2>7, GoneText
<1> QED
  BY <1>3, <1>4, <1>5, <1>6

(***************************************************************************)
(* What the phone reads                                                    *)
(***************************************************************************)
\* A phone that reads of what comes is greeted once.
ReadsOn ==
    /\ phone.at = "up" /\ phone'.at = "up" /\ phone'.sock = phone.sock /\ phone'.ready
    /\ phone'.id # 0 /\ (task[phone.sock].at = "run" => task[phone.sock].s = phone'.id)
    /\ phone'.turn = phone.turn /\ phone'.covers = phone.covers /\ phone'.whole = phone.whole
    /\ down[phone.sock] # <<>> /\ down'[phone.sock] = Tail(down[phone.sock])
    /\ \A j \in Sockets : j # phone.sock => up'[j] = up[j]
LEMMA ReadingManners ==
    ASSUME Typed, Words, Manners, UNCHANGED <<task, sess, open, recorded, stopped>>, ReadsOn, TextGrows'
    PROVE  Manners'
<1>1. PICK k \in Sockets : k = phone.sock
  BY DEF ReadsOn, Typed, PhoneTyped
<1>2. PICK D, E : D = down[k] /\ E = down'[k]
  OBVIOUS
<1>3. D \in Seq(DownMessage) /\ D # <<>> /\ E = Tail(D) /\ Coming = D /\ Coming' = E
  BY <1>1, <1>2 DEF ReadsOn, Coming, Typed, WireTyped
<1>4. Len(E) \in Nat /\ Len(D) \in Nat /\ Len(E) = Len(D) - 1 /\ \A p \in 1..Len(D) - 1 : E[p] = D[p + 1]
  BY ONLY <1>3, EmptySeq, HeadTailProperties
<1>5. ASSUME NEW p, p \in 1..Len(E) PROVE E[p].kind \notin Hellos
  <2>1. p + 1 \in 1..Len(D) /\ p + 1 # 1 /\ E[p] = D[p + 1]
    BY ONLY <1>4, <1>5
  <2>2. \A n \in 1..Len(D) : D[n].kind \in Hellos => n = 1
    BY <1>3 DEF Manners, Greeted, ReadsOn
  <2> QED
    BY ONLY <2>1, <2>2
<1>6. Greeted'
  BY <1>3, <1>5 DEF Greeted, ReadsOn
<1>7. task[k].at # "none"
  BY <1>2, <1>3 DEF Words, Quiet
<1>8. Called' /\ Opened' /\ TurnsWithin' /\ CommitCoversWhatThereWas'
  BY DEF Manners, Called, Opened, TurnsWithin, CommitCoversWhatThereWas, ReadsOn, Live
<1>9. Unsaid'
  BY <1>1, <1>7 DEF Manners, Unsaid, ReadsOn
<1> QED
  BY <1>6, <1>8, <1>9 DEF Manners

\* A session's greeting has the phone go on from where the session is.
LEMMA HelloText ==
    ASSUME Typed, Typed', Places, Words, Text, UNCHANGED <<task, sess, open, recorded, stopped>>, ReadsOn, phone.turn = -1,
           NEW m, m \in Hello, m = Head(down[phone.sock]), phone'.id = m.id, phone'.sent = m.at,
           phone'.origin = phone.origin, phone'.settledTo = phone.settledTo, phone'.seen = phone.seen,
           phone'.text = phone.text, Says("offset", m.at)
    PROVE  Text'
<1>1. PICK k \in Sockets : k = phone.sock
  BY DEF ReadsOn, Typed, PhoneTyped
<1>2. phone.at = "up" /\ phone'.at = "up" /\ Live /\ Live' /\ SoFar /\ Manners /\ Exactly /\ phone'.covers = phone.covers
      /\ (Committing' <=> Committing) /\ (\A mark : TextEnds(mark)' <=> TextEnds(mark))
  BY DEF ReadsOn, Live, Text, Committing, TextEnds
<1>3. Coming \in Seq(DownMessage) /\ Coming # <<>> /\ m = Coming[1] /\ 1 \in 1..Len(Coming) /\ Coming = down[k] /\ Coming' = Tail(Coming)
  <2>1. Coming \in Seq(DownMessage) /\ Coming # <<>> /\ Coming = down[k] /\ m = Head(Coming) /\ Coming' = Tail(Coming)
    BY <1>1 DEF ReadsOn, Coming, Typed, WireTyped
  <2>2. PICK D : D = Coming
    OBVIOUS
  <2>3. D \in Seq(DownMessage) /\ D # <<>> /\ m = Head(D)
    BY <2>1, <2>2
  <2>4. m = D[1] /\ 1 \in 1..Len(D)
    BY ONLY <2>3, EmptySeq
  <2> QED
    BY <2>1, <2>2, <2>4
<1>4. m.kind \in Hellos /\ m.kind \notin Saids /\ m.id \in SessionIds /\ m.at \in Nat
  BY DEF Hello, Hellos, Saids
<1>5. ~phone.ready /\ (phone.id # 0 => m.id = phone.id)
  BY <1>2, <1>3, <1>4 DEF Manners, Greeted
<1>6. Current = m.id /\ Current' = m.id
  <2>1. m.id # 0
    BY <1>4 DEF SessionIds, Sockets
  <2>2. Current' = m.id
    BY <1>2, <2>1 DEF Current
  <2>3. Current = m.id
    BY <1>2, <1>3, <1>4, <1>5 DEF Current
  <2> QED
    BY <2>2, <2>3
<1>7. PICK H, M, e : Story(H, M, e)
  BY <1>2 DEF SoFar
<1>8. H \in [SessionIds -> Seq(Said)] /\ M \in [SessionIds -> [Nat -> Nat]] /\ e \in Nat
      /\ Histories(H, M) /\ PhoneHas(H, M, e) /\ Telling(H, e) /\ Behind(H, e) /\ Commits(H)
  BY <1>7 DEF Story
<1>9. PICK i \in SessionIds : i = m.id
  BY <1>4
<1>10. Histories(H, M)'
  BY <1>8 DEF Histories
<1>11. PhoneHas(H, M, e)'
  <2>1. PICK h, mark : h = H[i] /\ mark = M[i][e]
    OBVIOUS
  <2>2. e <= Len(h) /\ phone.seen = {h[n].id : n \in 1..e} /\ phone.settledTo = SampleAt(h, e) /\ TextEnds(mark)
    <3>1. CASE phone.id = 0
      <4>1. e = 0 /\ phone.seen = {} /\ phone.settledTo = 0 /\ TextEnds(0)
        BY <1>2, <1>8, <3>1 DEF PhoneHas
      <4>2. h \in Seq(Said) /\ mark = 0
        BY <1>8, <2>1, <4>1 DEF Histories, History, Pieces
      <4>3. 1..0 = {} /\ Len(h) \in Nat
        BY <4>2
      <4> QED
        BY <4>1, <4>2, <4>3 DEF SampleAt
    <3>2. CASE phone.id # 0
      <4>1. phone.id = i
        BY <1>5, <1>9, <3>2
      <4> QED
        BY <1>2, <1>8, <2>1, <3>2, <4>1 DEF PhoneHas
    <3> QED
      BY <3>1, <3>2
  <2>3. TextEnds(mark)'
    BY <1>2, <2>2
  <2>4. phone'.id = i /\ i # 0
    BY <1>9 DEF SessionIds, Sockets
  <2> QED
    BY <2>1, <2>2, <2>3, <2>4 DEF PhoneHas
<1>12. Telling(H, e)'
  <2>1. PICK x \in 0..e, y \in Nat :
            /\ TellsUpTo(Coming, Tale(H), x, y)
            /\ task[phone.sock].at = "run" => y = sess[task[phone.sock].s].events
    BY <1>2, <1>8 DEF Telling
  <2>2. Tale(H)' = Tale(H) /\ Tale(H) \in Seq(Said)
    BY <1>4, <1>6, <1>8, <1>9 DEF Tale
  <2>3. PICK D, h : D = Coming /\ h = Tale(H)
    OBVIOUS
  <2>4. D \in Seq(DownMessage) /\ D # <<>> /\ h \in Seq(Said) /\ x \in Nat /\ TellsUpTo(D, h, x, y) /\ Head(D).kind \notin Saids
    <3>1. Head(D) = m
      BY <1>1, <1>3, <2>3
    <3>2. D \in Seq(DownMessage) /\ D # <<>> /\ Head(D).kind \notin Saids
      BY <1>3, <1>4, <2>3, <3>1
    <3>3. x \in Nat
      BY <1>8
    <3>4. h \in Seq(Said) /\ TellsUpTo(D, h, x, y)
      BY <2>1, <2>2, <2>3
    <3> QED
      BY <3>2, <3>3, <3>4
  <2>5. TellsUpTo(Tail(D), h, x, y)
    BY ONLY <2>4, ReadingTells
  <2>6. TellsUpTo(Coming', Tale(H)', x, y)
    BY <1>3, <2>2, <2>3, <2>5
  <2>7. task'[phone'.sock].at = "run" => y = sess'[task'[phone'.sock].s].events
    BY <2>1 DEF ReadsOn
  <2> QED
    BY <2>6, <2>7 DEF Telling
<1>13. Behind(H, e)'
  BY ZenonT(20), <1>6, <1>8 DEF Behind, Kept
<1>14. Commits(H)'
  BY ZenonT(20), <1>2, <1>6, <1>8 DEF Commits, Owes, Covering, Bare
<1>15. SoFar'
  <2>1. Story(H, M, e)'
    BY <1>8, <1>10, <1>11, <1>12, <1>13, <1>14 DEF Story
  <2> QED
    BY <2>1 DEF SoFar
<1>16. Manners'
  <2>1. TextGrows'
    BY <1>2 DEF Manners, TextGrows
  <2> QED
    BY <1>2, <2>1, ReadingManners
<1>17. up[k] = <<>>
  BY <1>1, <1>2, <1>5 DEF Manners, Unsaid
<1>18. task[k].at = "run" => \E w \in UpMessage : w.kind = "offset" /\ w.n = m.at /\ up'[k] = Append(up[k], w)
  <2> HIDE DEF UpMessage
  <2>1. \/ /\ task[k].at \in Early \cup {"run"}
           /\ \E w \in UpMessage : w.kind = "offset" /\ w.n = m.at /\ up'[k] = Append(up[k], w)
        \/ task[k].at \notin Early \cup {"run"} /\ up'[k] = up[k]
    BY <1>1, <1>4, SayingAdds
  <2> QED
    BY <2>1
<1>19. Exactly'
  <2>1. ASSUME NEW j, j \in Sockets, task[j].at = "run" PROVE Covers(j) /\ SaysNext(j)
    <3>1. Covers(j)
      BY <1>2, <1>6 DEF Covers
    <3>2. CASE j # k
      BY <1>1, <2>1, <3>1, <3>2 DEF SaysNext, ReadsOn
    <3>3. CASE j = k
      <4>1. PICK w \in UpMessage : w.kind = "offset" /\ w.n = m.at /\ up'[k] = Append(up[k], w)
        <5> HIDE DEF UpMessage
        <5> QED
          BY <1>18, <2>1, <3>3
      <4>2. m.at = Len(sess[task[k].s].pcm)
        BY <1>1, <1>2, <1>3, <1>5, <2>1, <3>3 DEF Manners, Greeted
      <4>3. ASSUME NEW x \in Nat, Reaches(k, x) PROVE Comes(k, w, x, m.at)
        <5>1. x = m.at
          BY <1>17, <4>2, <4>3 DEF Reaches
        <5> QED
          BY <4>1, <5>1 DEF Comes, Follows
      <4> HIDE DEF UpMessage
      <4> QED
        BY <1>4, <3>1, <3>3, <4>1, <4>3 DEF SaysNext
    <3> QED
      BY <3>2, <3>3
  <2> QED
    BY <1>2, <2>1, SpeakingExact
<1> QED
  BY <1>15, <1>16, <1>19 DEF Text

\* A phone that keeps a settled event it has not had, and one that is told of
\* its session.
LEMMA KeepHas ==
    ASSUME NEW p, p \in Phone, NEW m, m \in Said
    PROVE  /\ Keep(p, m).covers = p.covers /\ Keep(p, m).whole = p.whole
           /\ m.id \in p.seen => Keep(p, m) = p
           /\ m.id \notin p.seen => /\ Keep(p, m).seen = p.seen \cup {m.id} /\ Keep(p, m).settledTo = m.at
                                    /\ Keep(p, m).text = p.text \o m.words
<1> DEFINE seen == p.seen \cup {m.id}
           text == p.text \o m.words
           committed == p.committed \/ m.kind = "committed"
           q == [p EXCEPT !.seen = seen, !.settledTo = m.at, !.text = text, !.committed = committed]
<1>1. Keep(p, m) = IF m.id \in p.seen THEN p ELSE q
  BY Zenon DEF Keep
<1> HIDE DEF seen, text, committed
<1>2. q.covers = p.covers /\ q.whole = p.whole /\ q.seen = seen /\ q.settledTo = m.at /\ q.text = text
  BY DEF Phone
<1> HIDE DEF q
<1> QED
  BY <1>1, <1>2 DEF seen, text

LEMMA CreatedHas ==
    ASSUME NEW p, p \in Phone, NEW m, m \in Hello
    PROVE  Created(p, m).seen = p.seen /\ Created(p, m).text = p.text /\ Created(p, m).covers = p.covers
           /\ Created(p, m).whole = p.whole
<1> DEFINE committed == p.committed \/ (m.kind = "resumed" /\ m.item # 1)
           q == [p EXCEPT !.ready = TRUE, !.id = m.id, !.sent = m.at, !.committed = committed]
<1>1. Created(p, m) = q
  BY Zenon DEF Created
<1> HIDE DEF committed
<1>2. q.seen = p.seen /\ q.text = p.text /\ q.covers = p.covers /\ q.whole = p.whole
  BY DEF Phone
<1> QED
  BY <1>1, <1>2

\* What is said to the phone now: one that it had, or the next.
Hears(h, e, m, x, y) ==
    /\ x \in 0..e /\ y \in Nat /\ TellsUpTo(Tail(Coming), h, x + 1, y)
    /\ task[phone.sock].at = "run" => y = sess[task[phone.sock].s].events
    /\ x + 1 \in 1..Len(h) /\ m = h[x + 1]
    /\ m.id \in phone.seen => x + 1 <= e
    /\ m.id \notin phone.seen => x = e
LEMMA HearingIs ==
    ASSUME Typed, Words, Manners, phone.at = "up", Coming # <<>>, NEW m, m = Head(Coming), m.kind \in Saids,
           NEW H, NEW M, NEW e, Story(H, M, e)
    PROVE  /\ phone.ready /\ phone.id \in SessionIds /\ phone.id # 0 /\ Current = phone.id
           /\ \E x, y : Hears(H[phone.id], e, m, x, y)
<1>1. PICK D : D = Coming
  OBVIOUS
<1>2. D \in Seq(DownMessage) /\ D # <<>> /\ m = Head(D)
  BY <1>1 DEF Coming, Typed, WireTyped, PhoneTyped
<1>3. m = D[1] /\ 1 \in 1..Len(D)
  BY ONLY <1>2, EmptySeq
<1>4. phone.ready
  <2>1. m.kind \notin Hellos
    BY DEF Saids, Hellos
  <2> QED
    BY <1>1, <1>3, <2>1 DEF Manners, Greeted
<1>5. phone.id \in SessionIds /\ phone.id # 0 /\ Current = phone.id /\ Live
  <2>1. phone.id # 0 /\ phone.id \in {0} \cup SessionIds
    BY <1>4 DEF Manners, Greeted, Typed, PhoneTyped, Phone
  <2>2. Live
    BY DEF Live
  <2> QED
    BY <2>1, <2>2, CurrentIs
<1>6. PICK i \in SessionIds : i = phone.id
  BY <1>5
<1>7. H \in [SessionIds -> Seq(Said)] /\ e \in Nat /\ Histories(H, M) /\ PhoneHas(H, M, e) /\ Telling(H, e)
  BY DEF Story
<1>8. PICK h, mark : h = H[i] /\ mark = M[i]
  OBVIOUS
<1>9. h \in Seq(Said) /\ Pieces(h, mark, sess[i].base) /\ Tale(H) = h
  BY <1>5, <1>6, <1>7, <1>8 DEF Histories, History, Tale
<1>10. e <= Len(h) /\ phone.seen = {h[n].id : n \in 1..e}
  BY <1>5, <1>6, <1>7, <1>8 DEF PhoneHas
<1>11. PICK x \in 0..e, y \in Nat :
          /\ TellsUpTo(D, h, x, y)
          /\ task[phone.sock].at = "run" => y = sess[task[phone.sock].s].events
  BY <1>1, <1>7, <1>9 DEF Telling
<1>12. x \in Nat /\ e \in Nat /\ Head(D).kind \in Saids
  BY <1>2, <1>7
<1>13. TellsUpTo(Tail(D), h, x + 1, y) /\ x + 1 \in 1..Len(h) /\ Head(D) = h[x + 1]
  <2>1. TellsUpTo(D, h, x, y) /\ h \in Seq(Said)
    BY <1>9, <1>11
  <2> QED
    BY ONLY <1>2, <1>12, <2>1, ReadingTells
<1>14. PICK n : n = x + 1
  OBVIOUS
<1>15. n \in 1..Len(h) /\ m = h[n]
  BY <1>2, <1>13, <1>14
<1>16. m.id \in phone.seen => n <= e
  <2>1. \A p, q \in 1..Len(h) : h[p].id = h[q].id => p = q
    BY <1>9 DEF Pieces
  <2>2. Len(h) \in Nat
    BY <1>9
  <2> QED
    BY ONLY <1>10, <1>12, <1>15, <2>1, <2>2
<1>17. m.id \notin phone.seen => x = e
  <2>1. x <= e
    BY <1>12
  <2>2. x # e => n \in 1..e
    BY ONLY <1>12, <1>14, <2>1
  <2> QED
    BY ONLY <1>10, <1>15, <2>2
<1>18. Hears(h, e, m, x, y)
  BY <1>1, <1>11, <1>13, <1>14, <1>15, <1>16, <1>17 DEF Hears
<1> QED
  BY <1>4, <1>5, <1>6, <1>8, <1>18

\* Words that come after those of a mark, up to another.
AddsTo(text, all, origin, y) ==
    /\ all # <<>> => all[Len(all)] <= origin + y
    /\ y > 0 => all # <<>> /\ all[Len(all)] = origin + y
    /\ \A n \in 1..Len(all) - 1 :
        \/ n \in 1..Len(text) - 1 /\ all[n] = text[n] /\ all[n + 1] = text[n + 1]
        \/ all[n + 1] = all[n] + 1
        \/ all[n + 1] > all[n] + 1 /\ all[n + 1] = origin + 1
LEMMA AddingWords ==
    ASSUME NEW text, text \in Seq(Nat), NEW origin, origin \in Nat, NEW x, x \in Nat, NEW y, y \in Nat, x <= y,
           NEW words, words = [n \in 1..y - x |-> origin + x + n], NEW all, all = text \o words,
           text # <<>> => text[Len(text)] <= origin + x,
           x > 0 => text # <<>> /\ text[Len(text)] = origin + x
    PROVE  AddsTo(text, all, origin, y)
<1>0. PICK l, o : l = Len(text) /\ o = y - x
  OBVIOUS
<1>1. o \in Nat /\ x + o = y
  BY <1>0
<1>2. words \in Seq(Nat) /\ Len(words) = o /\ \A p \in 1..o : words[p] = origin + x + p
  <2>1. words = [n \in 1..o |-> origin + x + n]
    BY <1>0
  <2>2. \A n \in 1..o : origin + x + n \in Nat
    OBVIOUS
  <2> QED
    BY ONLY <1>1, <2>1, <2>2
<1>3. text \in Seq(Nat)
  OBVIOUS
<1>4. /\ l \in Nat /\ all \in Seq(Nat) /\ Len(all) = l + o
      /\ \A n \in 1..l : all[n] = text[n] /\ text[n] \in Nat
      /\ \A p \in 1..o : all[l + p] = words[p]
      /\ \A n \in 1..l + o : n \in 1..l \/ \E p \in 1..o : n = l + p
  <2>1. all = text \o words /\ o = Len(words)
    BY <1>2
  <2>2. /\ l \in Nat /\ o \in Nat /\ text \o words \in Seq(Nat) /\ Len(text \o words) = l + o
        /\ \A n \in 1..l : (text \o words)[n] = text[n] /\ text[n] \in Nat
        /\ \A p \in 1..o : (text \o words)[l + p] = words[p] /\ words[p] \in Nat
        /\ \A n \in 1..l + o : n \in 1..l \/ \E p \in 1..o : n = l + p
    <3>1. l = Len(text) /\ o = Len(words) /\ text \in Seq(Nat) /\ words \in Seq(Nat)
      BY <1>0, <1>2
    <3>2. PICK S : S = Nat
      OBVIOUS
    <3>3. text \in Seq(S) /\ words \in Seq(S)
      BY <3>1, <3>2
    <3>4. l \in Nat /\ o \in Nat /\ text \o words \in Seq(S) /\ Len(text \o words) = l + o
      BY ONLY <3>1, <3>3, Joined
    <3>5. \A n \in 1..l : (text \o words)[n] = text[n] /\ text[n] \in S
      BY ONLY <3>1, <3>3, Joined
    <3>6. \A p \in 1..o : (text \o words)[l + p] = words[p] /\ words[p] \in S
      BY ONLY <3>1, <3>3, Joined
    <3>7. \A n \in 1..l + o : n \in 1..l \/ \E p \in 1..o : n = l + p
      BY ONLY <3>4, InEither
    <3> QED
      BY ONLY <3>2, <3>4, <3>5, <3>6, <3>7
  <2> QED
    BY <2>1, <2>2
<1>5. (text = <<>> <=> l = 0) /\ (all = <<>> <=> l + o = 0)
  BY ONLY <1>0, <1>3, <1>4, EmptySeq
<1>6. l # 0 => text[l] <= origin + x /\ text[l] \in Nat /\ all[l] = text[l]
  <2>1. l # 0 => text[l] <= origin + x
    BY <1>0, <1>5
  <2>2. l # 0 => l \in 1..l
    BY ONLY <1>4
  <2> QED
    BY ONLY <1>4, <2>1, <2>2
<1>7. x > 0 => l # 0 /\ text[l] = origin + x
  BY <1>0, <1>5
<1>8. o # 0 => all[l + o] = origin + y
  <2>1. o # 0 => o \in 1..o
    BY ONLY <1>1
  <2>2. o # 0 => all[l + o] = origin + x + o
    BY ONLY <1>2, <1>4, <2>1
  <2>3. origin + x + o = origin + y
    BY <1>1
  <2> QED
    BY ONLY <2>2, <2>3
<1>n. origin \in Nat /\ x \in Nat /\ y \in Nat
  OBVIOUS
<1>9. l + o # 0 => all[l + o] <= origin + y
  <2>1. CASE o = 0
    <3>1. l + o = l /\ y = x
      BY ONLY <1>1, <1>4, <1>n, <2>1
    <3> QED
      BY ONLY <1>6, <3>1
  <2>2. CASE o # 0
    BY ONLY <1>8, <1>n, <2>2
  <2> QED
    BY <2>1, <2>2
<1>10. y > 0 => l + o # 0 /\ all[l + o] = origin + y
  <2>1. CASE o = 0
    <3>1. l + o = l /\ y = x
      BY ONLY <1>1, <1>4, <1>n, <2>1
    <3> QED
      BY ONLY <1>6, <1>7, <3>1
  <2>2. CASE o # 0
    <3>1. l + o # 0
      BY ONLY <1>1, <1>4, <2>2
    <3> QED
      BY ONLY <1>8, <2>2, <3>1
  <2> QED
    BY <2>1, <2>2
<1>11. ASSUME NEW n, n \in 1..l + o - 1
       PROVE  \/ n \in 1..l - 1 /\ all[n] = text[n] /\ all[n + 1] = text[n + 1]
              \/ all[n + 1] = all[n] + 1
              \/ all[n + 1] > all[n] + 1 /\ all[n + 1] = origin + 1
  <2>1. CASE n \in 1..l - 1
    <3>1. n \in 1..l /\ n + 1 \in 1..l
      BY ONLY <1>4, <2>1
    <3> QED
      BY ONLY <1>4, <2>1, <3>1
  <2>2. CASE n = l
    <3>1. l # 0 /\ 1 \in 1..o
      BY ONLY <1>1, <1>4, <1>11, <2>2
    <3>2. all[n + 1] = origin + x + 1 /\ all[n] = text[l]
      BY ONLY <1>2, <1>4, <1>6, <2>2, <3>1
    <3> QED
      BY ONLY <1>6, <1>7, <1>n, <3>1, <3>2
  <2>3. CASE n \notin 1..l
    <3>1. PICK p : p = n - l
      OBVIOUS
    <3>2. p \in 1..o /\ p + 1 \in 1..o /\ n = l + p /\ n + 1 = l + (p + 1)
      BY ONLY <1>1, <1>4, <1>11, <2>3, <3>1
    <3>3. all[n] = words[p] /\ all[n + 1] = words[p + 1]
      <4>1. PICK q : q = p + 1
        OBVIOUS
      <4>2. all[l + q] = words[q] /\ all[l + p] = words[p]
        BY ONLY <1>4, <3>2, <4>1
      <4> QED
        BY ONLY <3>2, <4>1, <4>2
    <3>4. words[p] = origin + x + p /\ words[p + 1] = origin + x + (p + 1)
      BY ONLY <1>2, <3>2
    <3> QED
      BY ONLY <1>n, <3>2, <3>3, <3>4
  <2>4. n \in 1..l - 1 \/ n = l \/ n \notin 1..l
    BY ONLY <1>4, <1>11
  <2> QED
    BY <2>1, <2>2, <2>3, <2>4
<1>12. /\ all # <<>> => all[Len(all)] <= origin + y
       /\ y > 0 => all # <<>> /\ all[Len(all)] = origin + y
  <2>1. Len(all) = l + o
    BY <1>4
  <2> QED
    BY ONLY <1>5, <1>9, <1>10, <2>1
<1>13. 1..Len(all) - 1 = 1..l + o - 1 /\ 1..l - 1 = 1..Len(text) - 1
  BY <1>0, <1>4
<1> QED
  BY ONLY <1>11, <1>12, <1>13 DEF AddsTo

\* A settled event of the phone's session goes on where its text ends, or was
\* had already.
LEMMA HeardText ==
    ASSUME Typed, Typed', Places, Words, Text, UNCHANGED <<task, sess, open, recorded, stopped, up>>, ReadsOn,
           NEW m, m \in Said, m = Head(down[phone.sock]),
           phone'.id = phone.id, phone'.sent = phone.sent, phone'.origin = phone.origin,
           m.id \in phone.seen =>
                phone'.seen = phone.seen /\ phone'.settledTo = phone.settledTo /\ phone'.text = phone.text,
           m.id \notin phone.seen =>
                phone'.seen = phone.seen \cup {m.id} /\ phone'.settledTo = m.at /\ phone'.text = phone.text \o m.words
    PROVE  Text'
<1>1. PICK k \in Sockets : k = phone.sock
  BY DEF ReadsOn, Typed, PhoneTyped
<1>2. phone.at = "up" /\ phone'.at = "up" /\ Live /\ Live' /\ SoFar /\ Manners /\ Exactly /\ phone'.covers = phone.covers
      /\ (Committing' <=> Committing)
  BY DEF ReadsOn, Live, Text, Committing
<1>3. Coming \in Seq(DownMessage) /\ Coming # <<>> /\ m = Head(Coming) /\ Coming' = Tail(Coming)
  BY <1>1 DEF ReadsOn, Coming, Typed, WireTyped
<1>4. m.kind \in Saids /\ m.at \in Nat /\ m.id \in Nat
  BY SaidIs
<1>5. PICK H, M, e : Story(H, M, e)
  BY <1>2 DEF SoFar
<1>6. H \in [SessionIds -> Seq(Said)] /\ M \in [SessionIds -> [Nat -> Nat]] /\ e \in Nat
      /\ Histories(H, M) /\ PhoneHas(H, M, e) /\ Behind(H, e) /\ Commits(H)
  BY <1>5 DEF Story
<1>7. /\ phone.ready /\ phone.id \in SessionIds /\ phone.id # 0 /\ Current = phone.id
      /\ \E x, y : Hears(H[phone.id], e, m, x, y)
  BY <1>2, <1>3, <1>4, <1>5, HearingIs
<1>8. PICK i \in SessionIds : i = phone.id
  BY <1>7
<1>9. PICK h, mark : h = H[i] /\ mark = M[i]
  OBVIOUS
<1>10. PICK x, y : Hears(h, e, m, x, y)
  BY <1>7, <1>8, <1>9
<1>11. h \in Seq(Said) /\ mark \in [Nat -> Nat] /\ Pieces(h, mark, phone.origin)
  <2>1. sess[i].base = phone.origin
    BY <1>7, <1>8, CurrentIs
  <2> QED
    BY <1>6, <1>9, <2>1 DEF Histories, History
<1>12. e <= Len(h) /\ phone.seen = {h[n].id : n \in 1..e} /\ phone.settledTo = SampleAt(h, e) /\ TextEnds(mark[e])
  BY <1>2, <1>6, <1>7, <1>8, <1>9 DEF PhoneHas
<1>13. /\ x \in 0..e /\ y \in Nat /\ TellsUpTo(Coming', h, x + 1, y)
       /\ task[phone.sock].at = "run" => y = sess[task[phone.sock].s].events
       /\ x + 1 \in 1..Len(h) /\ m = h[x + 1]
       /\ m.id \in phone.seen => x + 1 <= e
       /\ m.id \notin phone.seen => x = e
  BY <1>3, <1>10 DEF Hears
<1>14. Current' = i /\ Current = i /\ i # 0
  BY <1>2, <1>7, <1>8 DEF Current
<1>15. PICK g : g = IF m.id \in phone.seen THEN e ELSE e + 1
  OBVIOUS
<1>16. x \in Nat /\ Len(h) \in Nat /\ e \in Nat
  BY <1>6, <1>11, <1>13
<1>17. g \in Nat /\ x + 1 \in 0..g /\ e <= g /\ g <= Len(h)
  <2>1. CASE m.id \in phone.seen
    BY ONLY <1>12, <1>13, <1>15, <1>16, <2>1
  <2>2. CASE m.id \notin phone.seen
    BY ONLY <1>12, <1>13, <1>15, <1>16, <2>2
  <2> QED
    BY <2>1, <2>2
<1>18. m.id \notin phone.seen => g = e + 1 /\ g \in 1..Len(h) /\ m = h[g] /\ Piece(m, mark[e], mark[g], phone.origin)
  <2>1. ASSUME m.id \notin phone.seen PROVE g = e + 1 /\ g \in 1..Len(h) /\ m = h[g]
    BY ONLY <1>13, <1>15, <1>16, <2>1
  <2>2. ASSUME m.id \notin phone.seen PROVE Piece(m, mark[e], mark[g], phone.origin)
    <3>1. g = e + 1 /\ g \in 1..Len(h) /\ m = h[g] /\ g - 1 = e
      BY <1>16, <2>1, <2>2
    <3>2. Piece(h[g], mark[g - 1], mark[g], phone.origin)
      BY <1>11, <3>1 DEF Pieces
    <3> QED
      BY <3>1, <3>2
  <2> QED
    BY <2>1, <2>2
<1>t. phone.text \in Seq(Nat) /\ phone.origin \in Nat
  BY DEF Typed, PhoneTyped, Phone
<1>19. m.id \notin phone.seen => AddsTo(phone.text, phone'.text, phone.origin, mark[g])
  <2> SUFFICES ASSUME m.id \notin phone.seen PROVE AddsTo(phone.text, phone'.text, phone.origin, mark[g])
    OBVIOUS
  <2>1. PICK text, origin, all, words, a, b : text = phone.text /\ origin = phone.origin /\ all = phone'.text
                                              /\ words = m.words /\ a = mark[e] /\ b = mark[g]
    OBVIOUS
  <2>2. text \in Seq(Nat) /\ origin \in Nat /\ a \in Nat /\ b \in Nat
    BY <1>t, <1>11, <1>16, <1>17, <2>1
  <2>3. a <= b /\ words = [n \in 1..b - a |-> origin + a + n] /\ all = text \o words
    BY <1>18, <2>1 DEF Piece
  <2>4. (text # <<>> => text[Len(text)] <= origin + a) /\ (a > 0 => text # <<>> /\ text[Len(text)] = origin + a)
    BY <1>12, <2>1 DEF TextEnds
  <2>5. AddsTo(text, all, origin, b)
    BY ONLY <2>2, <2>3, <2>4, AddingWords
  <2> QED
    BY ONLY <2>1, <2>5
<1>20. phone.settledTo \in Nat /\ phone.settledTo <= phone'.settledTo
  <2>1. phone.settledTo \in Nat
    BY DEF Typed, PhoneTyped, Phone
  <2>2. CASE m.id \in phone.seen
    BY <2>1, <2>2
  <2>3. CASE m.id \notin phone.seen /\ e = 0
    <3>1. phone.settledTo = 0 /\ phone'.settledTo = m.at
      BY <1>12, <2>3 DEF SampleAt
    <3> QED
      BY <1>4, <3>1
  <2>4. CASE m.id \notin phone.seen /\ e # 0
    <3>1. e \in 1..Len(h) /\ g \in 1..Len(h) /\ e <= g /\ m = h[g]
      BY <1>12, <1>16, <1>17, <1>18, <2>4
    <3>2. phone.settledTo = h[e].at /\ phone'.settledTo = h[g].at
      BY <1>12, <2>4, <3>1 DEF SampleAt
    <3>3. h[e].at <= h[g].at
      BY <1>11, <3>1 DEF Pieces
    <3> QED
      BY <2>1, <3>2, <3>3
  <2> QED
    BY <2>2, <2>3, <2>4
<1>21. PhoneHas(H, M, g)'
  <2>1. PICK last : last = mark[g]
    OBVIOUS
  <2>2. CASE m.id \in phone.seen
    <3>1. g = e /\ TextEnds(last)
      BY <1>12, <1>15, <2>1, <2>2
    <3>2. TextEnds(last)'
      BY <2>2, <3>1 DEF TextEnds
    <3> QED
      BY <1>7, <1>8, <1>9, <1>12, <2>1, <2>2, <3>1, <3>2 DEF PhoneHas
  <2>3. CASE m.id \notin phone.seen
    <3>1. TextEnds(last)'
      BY <1>19, <2>1, <2>3 DEF TextEnds, AddsTo
    <3>2. phone'.seen = {h[n].id : n \in 1..g}
      <4>1. 1..g = 1..e \cup {g} /\ m = h[g]
        BY <1>16, <1>17, <1>18, <2>3
      <4>2. phone.seen = {h[n].id : n \in 1..e} /\ phone'.seen = phone.seen \cup {m.id}
        BY <1>12, <2>3
      <4> QED
        BY ONLY <4>1, <4>2
    <3>3. phone'.settledTo = SampleAt(h, g)
      BY <1>16, <1>18, <2>3 DEF SampleAt
    <3> QED
      BY <1>7, <1>8, <1>9, <1>17, <2>1, <2>3, <3>1, <3>2, <3>3 DEF PhoneHas
  <2> QED
    BY <2>2, <2>3
<1>22. Telling(H, g)'
  <2>1. Tale(H)' = h
    BY <1>9, <1>14 DEF Tale
  <2>2. PICK n \in 0..g : n = x + 1
    BY <1>17
  <2>3. TellsUpTo(Coming', h, n, y)
    BY <1>13, <2>2
  <2>4. task'[phone'.sock].at = "run" => y = sess'[task'[phone'.sock].s].events
    BY <1>13 DEF ReadsOn
  <2> QED
    BY <1>13, <2>1, <2>3, <2>4 DEF Telling
<1>23. Behind(H, g)'
  <2>1. Reached(e) <= Reached(g) /\ Reached(e) \in Nat /\ Reached(g) \in Nat
    BY <1>16, <1>17 DEF Reached
  <2>2. PICK w : w = Len(h) - Len(sess[i].log)
    OBVIOUS
  <2>3. w \in Int
    <3>1. Len(sess[i].log) \in Nat
      BY DEF Typed, SessTyped, Session
    <3> QED
      BY <1>16, <2>2, <3>1
  <2>4. Kept(i) => w <= Reached(e)
    BY <1>6, <1>9, <1>14, <2>2 DEF Behind
  <2>5. Kept(i) => w <= Reached(g)
    BY ONLY <2>1, <2>3, <2>4
  <2>6. ASSUME NEW j, j \in Sockets, task[j].at \in Early, task[j].s = i PROVE task[j].from <= phone'.settledTo
    <3>1. task[j].from <= phone.settledTo /\ task[j].from \in Nat
      BY <1>6, <1>14, <2>6 DEF Behind, Typed, TaskTyped, Task
    <3>2. phone'.settledTo \in Nat
      BY <1>4, <1>20
    <3> QED
      BY ONLY <1>20, <3>1, <3>2
  <2> QED
    BY <1>9, <1>14, <2>2, <2>5, <2>6 DEF Behind, Kept
<1>24. SoFar'
  <2>1. Commits(H)'
    BY <1>2, <1>6, <1>14 DEF Commits, Owes, Covering, Bare
  <2>2. Histories(H, M)'
    BY <1>6 DEF Histories
  <2>3. Story(H, M, g)'
    BY <1>6, <1>17, <1>21, <1>22, <1>23, <2>1, <2>2 DEF Story
  <2> QED
    BY <2>3 DEF SoFar
<1>25. Manners'
  <2>1. TextGrows'
    <3>1. TextGrows
      BY <1>2 DEF Manners
    <3>2. CASE m.id \in phone.seen
      BY <3>1, <3>2 DEF TextGrows
    <3>3. CASE m.id \notin phone.seen
      <4>1. sess[i].is # "none" /\ sess[i].base = phone.origin
        BY <1>14, CurrentIs
      <4> QED
        BY ZenonT(30), <1>19, <3>1, <3>3, <4>1 DEF TextGrows, AddsTo
    <3> QED
      BY <3>2, <3>3
  <2> QED
    BY <1>2, <2>1, ReadingManners
<1>26. Exactly'
  <2>1. ASSUME NEW j, j \in Sockets, task[j].at = "run" PROVE Covers(j) /\ SaysNext(j)
    <3>1. Covers(j)
      BY <1>2, <1>14 DEF Covers
    <3> QED
      BY <1>7, <3>1 DEF SaysNext, ReadsOn
  <2> QED
    BY <1>2, <2>1, SpeakingExact
<1> QED
  BY <1>24, <1>25, <1>26 DEF Text

\* A take that ends live covers what there was when it was committed.
LEMMA DoneText ==
    ASSUME Typed, Typed', Places, Words, Text, UNCHANGED <<task, sess>>, phone.at = "up", Coming # <<>>,
           NEW m, m \in Said, m = Head(Coming), m.kind = "completed", m.id \notin phone.seen, Says("close", 0),
           phone' = [Over("done") EXCEPT !.origin = phone.origin, !.covers = phone.covers]
    PROVE  Text'
<1>1. PICK k \in Sockets : k = phone.sock
  BY DEF Typed, PhoneTyped
<1>2. /\ phone'.at = "done" /\ phone'.turn = -1 /\ phone'.text = phone.text /\ phone'.origin = phone.origin
      /\ phone'.covers = phone.covers
  <2>1. "done" \in PhonePlaces /\ phone \in Phone
    BY DEF PhonePlaces, Typed, PhoneTyped
  <2>2. PICK o \in Phone : o = Over("done") /\ o.at = "done" /\ o.turn = -1 /\ o.text = phone.text
    BY <2>1, HangingUpKeeps, LeavingHas
  <2>3. phone' = [o EXCEPT !.origin = phone.origin, !.covers = phone.covers]
    BY <2>2
  <2> QED
    BY <2>2, <2>3 DEF Phone
<1>3. SoFar /\ Manners /\ Live
  BY DEF Text, Live
<1>4. PICK H, M, e : Story(H, M, e)
  BY <1>3 DEF SoFar
<1>5. H \in [SessionIds -> Seq(Said)] /\ M \in [SessionIds -> [Nat -> Nat]] /\ e \in Nat
      /\ Histories(H, M) /\ PhoneHas(H, M, e) /\ Commits(H)
  BY <1>4 DEF Story
<1>6. /\ phone.ready /\ phone.id \in SessionIds /\ phone.id # 0 /\ Current = phone.id
      /\ \E x, y : Hears(H[phone.id], e, m, x, y)
  <2>1. m.kind \in Saids
    BY SaidIs
  <2> QED
    BY <1>3, <1>4, <2>1, HearingIs
<1>7. PICK i \in SessionIds : i = phone.id
  BY <1>6
<1>8. PICK h, mark : h = H[i] /\ mark = M[i]
  OBVIOUS
<1>9. PICK x, y : Hears(h, e, m, x, y)
  BY <1>6, <1>7, <1>8
<1>10. h \in Seq(Said) /\ mark \in [Nat -> Nat] /\ Pieces(h, mark, phone.origin) /\ sess[i].base = phone.origin
  <2>1. sess[i].base = phone.origin
    BY <1>6, <1>7, CurrentIs
  <2> QED
    BY <1>5, <1>8, <2>1 DEF Histories, History
<1>11. TextEnds(mark[e])
  BY <1>3, <1>5, <1>6, <1>7, <1>8 DEF PhoneHas
<1>12. e + 1 \in 1..Len(h) /\ m = h[e + 1]
  BY <1>9 DEF Hears
<1>13. PICK n : n = e + 1
  OBVIOUS
<1>14. mark[e] = m.at
  <2>0. n - 1 = e /\ m = h[n] /\ n \in 1..Len(h)
    <3>1. e \in Nat
      BY <1>5
    <3> QED
      BY ONLY <1>12, <1>13, <3>1
  <2>1. Piece(h[n], mark[n - 1], mark[n], phone.origin) /\ n - 1 = e /\ m = h[n]
    BY <1>10, <2>0 DEF Pieces
  <2> QED
    BY <2>1 DEF Piece
<1>15. phone.covers <= phone.origin + m.at
  <2>1. Covering(sess[i], h, phone.covers)
    BY <1>5, <1>6, <1>7, <1>8 DEF Commits, Owes
  <2>2. h[n].kind # "delta" /\ n \in 1..Len(h) /\ m = h[n]
    BY <1>12, <1>13
  <2> QED
    BY <1>10, <2>1, <2>2 DEF Covering
<1>16. CommitCoversWhatThereWas'
  <2> SUFFICES ASSUME phone.covers > phone.origin
               PROVE  phone.text # <<>> /\ phone.text[Len(phone.text)] >= phone.covers
    BY <1>2 DEF CommitCoversWhatThereWas
  <2>1. phone.covers \in Nat /\ phone.origin \in Nat /\ m.at \in Nat
    BY SaidIs DEF Typed, PhoneTyped, Phone
  <2>2. mark[e] > 0
    BY <1>14, <1>15, <2>1
  <2>3. phone.text # <<>> /\ phone.text[Len(phone.text)] = phone.origin + m.at
    BY <1>11, <1>14, <2>2 DEF TextEnds
  <2> QED
    BY <1>15, <2>1, <2>3
<1>17. Closes
  <2> HIDE DEF UpMessage
  <2>1. /\ \A j \in Sockets : j # phone.sock => up'[j] = up[j]
        /\ \/ /\ task[phone.sock].at \in Early \cup {"run"}
              /\ \E w \in UpMessage : w.kind = "close" /\ w.n = 0 /\ up'[phone.sock] = Append(up[phone.sock], w)
           \/ task[phone.sock].at \notin Early \cup {"run"} /\ up'[phone.sock] = up[phone.sock]
    BY <1>1, SayingAdds
  <2> QED
    BY <2>1 DEF Closes, Early
<1>18. ~Live' /\ TextGrows'
  BY <1>2, <1>3 DEF Live, Manners, TextGrows
<1> QED
  BY <1>2, <1>16, <1>17, <1>18, GoneText

LEMMA ReadText ==
    ASSUME Typed, Typed', Places, Words, Text, Read
    PROVE  Text'
<1>1. UNCHANGED <<task, sess, recorded, stopped>> /\ phone.at = "up" /\ phone.turn = -1 /\ down[phone.sock] # <<>>
      /\ phone.sock \in Sockets /\ phone \in Phone
  BY DEF Read, AtTheMac, serverVars, Up, Typed, PhoneTyped
<1>2. PICK k \in Sockets : k = phone.sock
  BY <1>1
<1>3. down[k] \in Seq(DownMessage) /\ down[k] # <<>> /\ Coming = down[k]
  BY <1>1, <1>2 DEF Coming, Typed, WireTyped
<1>4. PICK m \in DownMessage : m = Head(down[k]) /\ m = down[k][1]
  BY <1>3
<1>5. Stays => UNCHANGED open /\ down'[k] = Tail(down[k])
  BY <1>2 DEF Stays, Typed, WireTyped
<1>6. Manners
  BY DEF Text
<1>7. phone.ready /\ task[k].at = "run" => task[k].s = phone.id
  BY <1>1, <1>2, <1>6 DEF Manners, Greeted
<1>8. CASE m.kind \in Hellos
  <2>1. m \in Hello /\ m.id \in SessionIds /\ m.id # 0 /\ m.at \in Nat
    BY <1>8 DEF DownMessage, Said, Notice, Hello, Hellos, SessionIds, Sockets
  <2>2. PICK c \in Phone : /\ c = Created(phone, m) /\ c.at = phone.at /\ c.id = m.id /\ c.turn = phone.turn
                           /\ c.origin = phone.origin /\ c.settledTo = phone.settledTo /\ c.sent = m.at
                           /\ c.ready = TRUE /\ c.sock = phone.sock
    BY <1>1, <2>1, CreatedKeeps
  <2>3. c.seen = phone.seen /\ c.text = phone.text /\ c.covers = phone.covers /\ c.whole = phone.whole
    BY <1>1, <2>1, <2>2, CreatedHas
  <2>4. phone' = c /\ Says("offset", m.at) /\ Stays
    BY <1>2, <1>4, <1>8, <2>2 DEF Read, Hellos
  <2>5. task[k].at = "run" => task[k].s = m.id
    <3>1. Coming # <<>> /\ Coming[1] = m /\ 1 \in 1..Len(Coming)
      <4>1. PICK D : D = Coming
        OBVIOUS
      <4>2. D \in Seq(DownMessage) /\ D # <<>>
        BY <1>3, <4>1
      <4>3. 1 \in 1..Len(D)
        BY ONLY <4>2, EmptySeq
      <4> QED
        BY <1>3, <1>4, <4>1, <4>3
    <3>2. ~phone.ready
      BY <1>1, <1>6, <1>8, <3>1 DEF Manners, Greeted
    <3> QED
      BY <1>1, <1>2, <1>6, <3>1, <3>2 DEF Manners, Greeted
  <2>6. \A j \in Sockets : j # phone.sock => up'[j] = up[j]
    <3> HIDE DEF UpMessage
    <3> QED
      BY <1>1, <2>1, <2>4, SayingAdds
  <2>7. ReadsOn
    BY <1>1, <1>2, <1>5, <2>1, <2>2, <2>3, <2>4, <2>5, <2>6 DEF ReadsOn
  <2>8. /\ phone'.id = m.id /\ phone'.sent = m.at /\ phone'.origin = phone.origin /\ phone'.settledTo = phone.settledTo
        /\ phone'.seen = phone.seen /\ phone'.text = phone.text
    BY <2>2, <2>3, <2>4
  <2>9. m = Head(down[phone.sock]) /\ UNCHANGED <<task, sess, open, recorded, stopped>>
    BY <1>1, <1>2, <1>4, <1>5, <2>4
  <2> QED
    BY <1>1, <2>1, <2>4, <2>7, <2>8, <2>9, HelloText
<1>9. CASE m.kind \in {"delta", "committed"} \/ (m.kind = "completed" /\ m.id \in phone.seen)
  <2>1. m \in Said /\ m.kind \in Saids /\ Head(Coming) = m
    BY <1>2, <1>3, <1>4, <1>9 DEF DownMessage, Hello, Notice, Saids
  <2>2. PICK c \in Phone : c = Keep(phone, m)
    BY <1>1, <2>1, KeepingKeeps
  <2>3. phone' = c /\ Stays /\ up' = up
    <3>1. CASE m.kind \in {"delta", "committed"}
      BY <1>2, <1>4, <2>2, <3>1 DEF Read
    <3>2. CASE m.kind = "completed" /\ m.id \in phone.seen
      <4>1. Keep(phone, m) = phone
        BY <1>1, <2>1, <3>2, KeepHas
      <4>2. phone' = phone /\ Stays /\ up' = up
        BY <1>2, <1>4, <3>2 DEF Read
      <4> QED
        BY <2>2, <4>1, <4>2
    <3> QED
      BY <1>9, <3>1, <3>2
  <2>4. /\ phone'.at = phone.at /\ phone'.id = phone.id /\ phone'.turn = phone.turn /\ phone'.origin = phone.origin
        /\ phone'.sent = phone.sent /\ phone'.ready = phone.ready /\ phone'.sock = phone.sock
    BY <1>1, <2>1, <2>2, <2>3, KeepingKeeps
  <2>5. /\ phone'.covers = phone.covers /\ phone'.whole = phone.whole
        /\ m.id \in phone.seen =>
                phone'.seen = phone.seen /\ phone'.settledTo = phone.settledTo /\ phone'.text = phone.text
        /\ m.id \notin phone.seen =>
                phone'.seen = phone.seen \cup {m.id} /\ phone'.settledTo = m.at /\ phone'.text = phone.text \o m.words
    <3>1. /\ c.covers = phone.covers /\ c.whole = phone.whole
          /\ m.id \in phone.seen => c = phone
          /\ m.id \notin phone.seen =>
                c.seen = phone.seen \cup {m.id} /\ c.settledTo = m.at /\ c.text = phone.text \o m.words
      <4>1. phone \in Phone /\ m \in Said
        BY <1>1, <2>1
      <4> QED
        BY ONLY <2>2, <4>1, KeepHas
    <3> QED
      BY <2>3, <3>1
  <2>6. phone.ready /\ phone.id # 0
    <3>1. PICK H, M, e : Story(H, M, e)
      BY DEF Text, SoFar
    <3> QED
      BY <1>1, <1>3, <1>6, <2>1, <3>1, HearingIs
  <2>7. ReadsOn
    BY <1>1, <1>2, <1>5, <1>7, <2>3, <2>4, <2>5, <2>6 DEF ReadsOn
  <2>8. m = Head(down[phone.sock]) /\ UNCHANGED <<task, sess, open, recorded, stopped, up>>
    BY <1>1, <1>2, <1>4, <1>5, <2>3
  <2> QED
    BY <2>1, <2>4, <2>5, <2>7, <2>8, HeardText
<1>10. CASE m.kind = "completed" /\ m.id \notin phone.seen
  <2>1. phone' = [Over("done") EXCEPT !.origin = phone.origin, !.covers = phone.covers] /\ Says("close", 0)
    BY <1>2, <1>4, <1>10 DEF Read
  <2>2. m \in Said /\ m = Head(Coming) /\ Coming # <<>>
    BY <1>3, <1>4, <1>10 DEF DownMessage, Hello, Notice
  <2> QED
    BY <1>1, <1>10, <2>1, <2>2, DoneText
<1>11. CASE m.kind \notin Hellos \cup Saids
  <2>1. /\ up' = up
        /\ \/ phone' = Hangup("down") \/ phone' = Anew(Hangup("down"))
           \/ \E at \in PhonePlaces \ {"up", "down", "done"} : phone' = Over(at)
    BY <1>2, <1>4, <1>11 DEF Read, Hellos, Saids, PhonePlaces
  <2>2. Closes
    BY <2>1 DEF Closes
  <2>3. CASE phone' = Hangup("down")
    BY <1>1, <2>1, <2>3, HungUpText
  <2>4. CASE phone' = Anew(Hangup("down"))
    BY <1>1, <2>1, <2>4, AnewText
  <2>5. CASE \E at \in PhonePlaces \ {"up", "down", "done"} : phone' = Over(at)
    BY <1>1, <2>2, <2>5, OverText
  <2> QED
    BY <2>1, <2>3, <2>4, <2>5
<1> QED
  BY <1>8, <1>9, <1>10, <1>11 DEF Saids

\* The text is kept by every step.
LEMMA SteppingText ==
    ASSUME Typed, Places, Words, Text, [Next]_vars
    PROVE  Text'
<1>1. Typed' /\ Places' /\ Words'
  BY SteppingPlaces, SteppingWords
<1>2. CASE ReadPartial \/ UNCHANGED vars
  <2>1. UNCHANGED <<task, sess, up, down, open, phone, recorded, stopped>>
    BY <1>2 DEF ReadPartial, AtTheMac, vars, wire, serverVars, phoneVars
  <2>2. Coming' = Coming /\ Current' = Current /\ (Live' <=> Live) /\ (Committing' <=> Committing)
        /\ (\A mark : TextEnds(mark)' <=> TextEnds(mark))
    BY <2>1 DEF Coming, Current, Live, Committing, TextEnds
  <2>3. SoFar'
    <3>1. PICK H, M, e : Story(H, M, e)
      BY DEF Text, SoFar
    <3>2. Histories(H, M)' /\ Telling(H, e)' /\ Behind(H, e)' /\ Commits(H)'
      BY <2>1, <2>2, <3>1 DEF Story, Histories, Telling, Tale, Behind, Kept, Commits, Owes, Covering, Bare
    <3>3. PhoneHas(H, M, e)'
      BY <2>1, <3>1 DEF Story, PhoneHas, Live, TextEnds
    <3>4. Story(H, M, e)'
      BY <3>1, <3>2, <3>3 DEF Story
    <3> QED
      BY <3>4 DEF SoFar
  <2>4. Manners'
    BY <2>1, <2>2 DEF Text, Manners, Greeted, Called, Unsaid, Opened, TurnsWithin, TextGrows, CommitCoversWhatThereWas
  <2>5. Exactly'
    BY <2>1, <2>2 DEF Text, Exactly, Exact, Follow
  <2> QED
    BY <2>3, <2>4, <2>5 DEF Text
<1>3. CASE (Serve \/ ServerMishap) /\ UNCHANGED phoneVars
  BY <1>1, <1>3, SteppingPlaces, ServingText
<1>4. CASE PhoneStep
  BY <1>1, <1>4, ConnectText, LeavingPhoneText, ReadText, LookText, SendText, EndTurnText DEF PhoneStep
<1>5. CASE UserStep \/ PhoneMishap
  BY <1>1, <1>5, RecordingText, LeavingPhoneText DEF UserStep, PhoneMishap
<1> QED
  BY <1>2, <1>3, <1>4, <1>5 DEF Next

\* Before a socket there is no text.
LEMMA BeginningText ==
    ASSUME Init
    PROVE  Text
<1>1. /\ \A k \in Sockets : up[k] = <<>> /\ down[k] = <<>> /\ task[k] = NoTask
      /\ \A i \in SessionIds : sess[i] = NoSession
      /\ phone.at = "down" /\ phone.id = 0 /\ phone.origin = 0 /\ phone.settledTo = 0 /\ recorded = 0
      /\ phone.turn = -1 /\ phone.ready = FALSE /\ phone.seen = {} /\ phone.text = <<>> /\ phone.covers = 0
  BY DEF Init, RealtimeInit, SpeakInit
<1>2. NoTask.at = "none" /\ NoSession.is = "none"
  BY DEF NoTask, NoSession
<1>3. PICK H, M : H = [i \in SessionIds |-> <<>>] /\ M = [i \in SessionIds |-> [n \in Nat |-> 0]]
  OBVIOUS
<1>4. H \in [SessionIds -> Seq(Said)] /\ M \in [SessionIds -> [Nat -> Nat]]
  BY <1>3
<1>5. Histories(H, M)
  <2> SUFFICES ASSUME NEW i \in SessionIds PROVE History(sess[i], H[i], M[i])
    BY DEF Histories
  <2>1. H[i] = <<>> /\ M[i][0] = 0 /\ sess[i].is = "none"
    BY <1>1, <1>2, <1>3
  <2>2. Len(H[i]) = 0 /\ 1..0 = {}
    BY <2>1
  <2> QED
    BY <2>1, <2>2 DEF History, Pieces
<1>6. Current = 0
  BY <1>1 DEF Current
<1>7. TextEnds(0)
  BY <1>1 DEF TextEnds
<1>8. PhoneHas(H, M, 0)
  BY <1>1, <1>7 DEF PhoneHas
<1>9. Telling(H, 0) /\ Behind(H, 0) /\ Commits(H)
  BY <1>1, <1>6 DEF Telling, Behind, Commits
<1>10. SoFar
  <2>1. Story(H, M, 0)
    BY <1>4, <1>5, <1>8, <1>9 DEF Story
  <2> QED
    BY <2>1 DEF SoFar
<1>11. Greeted /\ Opened /\ CommitCoversWhatThereWas
  BY <1>1 DEF Greeted, Opened, CommitCoversWhatThereWas
<1>12. Called /\ Unsaid /\ Exactly
  BY <1>1, <1>2 DEF Called, Unsaid, Exactly, Early
<1>13. TurnsWithin
  BY <1>1 DEF TurnsWithin, Live
<1>14. TextGrows
  <2>1. Len(phone.text) = 0 /\ 1..0 - 1 = {}
    BY <1>1
  <2> QED
    BY <2>1 DEF TextGrows
<1> QED
  BY <1>10, <1>11, <1>12, <1>13, <1>14 DEF Text, Manners

\* Over any number of sockets, drops, reconnects and restarts, what the phone
\* has of its session is a beginning of all that was ever said of it, what is on
\* its way goes on from there, and a commit comes after what it covers: the
\* inductive invariant of the text.
THEOREM TextIsKept == Spec => [](Typed /\ Places /\ Words /\ Text)
<1>1. Init => Typed /\ Places /\ Words /\ Text
  BY BeginningPlaces, BeginningWords, BeginningText
<1>2. Typed /\ Places /\ Words /\ Text /\ [Next]_vars => Typed' /\ Places' /\ Words' /\ Text'
  BY SteppingPlaces, SteppingWords, SteppingText
<1> QED
  BY <1>1, <1>2, PTL DEF Spec

\* A settled word comes into the text once and in its order, whatever is sent
\* again after a reconnect (`hello`, `heard`), and words are missing only
\* before a session that began anew (`anew`).
THEOREM TakesWordsInOrder == Spec => []WordsOnceInOrder
<1>1. Text => WordsOnceInOrder
  BY DEF Text, Manners, TextGrows, WordsOnceInOrder
<1> QED
  BY <1>1, TextIsKept, PTL

\* A take that ended live has the last word there was in its file when the
\* phone committed (`on`), over whatever sockets and updates it took.
THEOREM TakesCoverTheirCommit == Spec => []CommitCoversWhatThereWas
<1>1. Text => CommitCoversWhatThereWas
  BY DEF Text, Manners
<1> QED
  BY <1>1, TextIsKept, PTL
=============================================================================
