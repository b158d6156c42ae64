--------------------------- MODULE FairQueueProofs ---------------------------
(***************************************************************************)
(* Theorems about the scheduler's queue, for any accounts, any limits and  *)
(* any number of arrivals.                                                 *)
(***************************************************************************)
EXTENDS FairQueue, Counting, SequenceTheorems

(***************************************************************************)
(* What the operators return                                               *)
(***************************************************************************)

\* What is left of a log is its end, from the first that is not a minute old.
LEMMA YoungIsTheEnd ==
    ASSUME NEW log \in Seq(Nat), NEW at \in Nat
    PROVE  /\ Young(log, at) \in Seq(Nat)
           /\ \E c \in 0..Len(log) :
                /\ Len(Young(log, at)) = Len(log) - c
                /\ \A i \in 1..(Len(log) - c) : Young(log, at)[i] = log[c + i]
                /\ \A i \in 1..c : at - log[i] >= Minute
                /\ c < Len(log) => at - log[c + 1] < Minute
<1> DEFINE old == {i \in DOMAIN log : \A h \in 1..i : at - log[h] >= Minute}
           c == Cardinality(old)
<1>1. /\ DOMAIN log = 1..Len(log) /\ Len(log) \in Nat
      /\ \A i \in 1..Len(log) : log[i] \in Nat
  BY LenProperties, ElementOfSeq
<1>2. old \in SUBSET (1..Len(log)) /\ \A i \in old : \A h \in 1..i : h \in old
  BY <1>1
<1>3. \A i \in 1..Len(log) : i \in old <=> \A h \in 1..i : at - log[h] >= Minute
  BY <1>1
<1>4. Young(log, at) = SubSeq(log, c + 1, Len(log))
  BY DEF Young
<1> HIDE DEF old
<1>5. c \in 0..Len(log) /\ old = 1..c
  BY <1>1, <1>2, NoGap
<1> HIDE DEF c
<1>6. /\ Young(log, at) \in Seq(Nat)
      /\ Len(Young(log, at)) = Len(log) - c
      /\ \A i \in 1..(Len(log) - c) : Young(log, at)[i] = log[c + i]
  <2> DEFINE m == c + 1
             n == Len(log)
  <2>1. m = c + 1 /\ n = Len(log) /\ Young(log, at) = SubSeq(log, m, n)
    BY <1>4
  <2> HIDE DEF m, n
  <2>2. m \in Int /\ n \in Int /\ \A i \in m..n : log[i] \in Nat
    BY <1>1, <1>5, <2>1
  <2>3. SubSeq(log, m, n) \in Seq(Nat)
    BY <2>2, SubSeqProperties, Zenon
  <2>4. Len(SubSeq(log, m, n)) = n - c
    <3>1. Len(SubSeq(log, m, n)) = IF m <= n THEN n - m + 1 ELSE 0
      BY <2>2, SubSeqProperties
    <3>2. c \in Nat /\ n \in Nat /\ c <= n /\ m = c + 1
      BY <1>1, <1>5, <2>1
    <3> QED
      BY <3>1, <3>2
  <2>5. ASSUME NEW i \in 1..(n - c) PROVE SubSeq(log, m, n)[i] = log[c + i]
    <3>1. i \in 1..(n - m + 1) /\ m + i - 1 = c + i
      BY <1>1, <1>5, <2>1
    <3>2. SubSeq(log, m, n)[i] = log[m + i - 1]
      BY <2>2, <3>1, SubSeqProperties
    <3> QED
      BY <3>1, <3>2
  <2> QED
    BY <2>1, <2>3, <2>4, <2>5
<1>7. \A i \in 1..c : at - log[i] >= Minute
  BY <1>1, <1>3, <1>5
<1>8. ASSUME c < Len(log) PROVE at - log[c + 1] < Minute
  <2>1. c + 1 \in 1..Len(log) /\ c + 1 \notin old
    BY <1>1, <1>5, <1>8
  <2>2. PICK h \in 1..(c + 1) : ~(at - log[h] >= Minute)
    BY <1>3, <2>1
  <2>3. h = c + 1
    BY <1>5, <1>7, <2>2
  <2>4. log[c + 1] \in Nat /\ Minute \in Nat
    BY <1>1, <2>1, FairQueueAssumption
  <2> QED
    BY <2>2, <2>3, <2>4
<1> QED
  BY <1>5, <1>6, <1>7, <1>8

\* Forgetting and noting leave every account a log of stamps.
LEMMA PacingType ==
    ASSUME TypeOK, NEW who \in Owners
    PROVE  /\ Forget(who) \in [Accounts -> Seq(Nat)]
           /\ \A log \in [Accounts -> Seq(Nat)] : Note(log, who) \in [Accounts -> Seq(Nat)]
<1>1. CASE who \in Accounts
  <2>1. Young(asked[who], now) \in Seq(Nat)
    BY <1>1, YoungIsTheEnd DEF TypeOK
  <2>2. \A log \in [Accounts -> Seq(Nat)] : Append(log[who], now) \in Seq(Nat)
    BY <1>1, AppendProperties DEF TypeOK
  <2> QED
    BY <1>1, <2>1, <2>2 DEF Forget, Note, TypeOK
<1>2. CASE who \notin Accounts
  BY <1>2 DEF Forget, Note, TypeOK
<1> QED
  BY <1>1, <1>2

\* The job whose turn it is waits, and has nothing before it but other
\* accounts' generations, with only generations in between.
LEMMA TurnIsInOrder ==
    ASSUME NEW queue, queue \subseteq Job, NEW last, NEW j, IsTurn(queue, last, j)
    PROVE  /\ j \in queue
           /\ \A i \in queue : i.n < j.n =>
                IsGeneration(i) /\ IsGeneration(j) /\ i.who # j.who
<1>1. j \in queue
  BY DEF IsTurn, Candidates, Stretch
<1>2. ASSUME NEW i \in queue, i.n < j.n
      PROVE  IsGeneration(i) /\ IsGeneration(j) /\ i.who # j.who
  <2>1. i.n \in Nat /\ j.n \in Nat
    BY <1>1 DEF Job
  <2>2. j \in Candidates(queue)
    BY <1>2, <2>1 DEF IsTurn
  <2>3. /\ \A k \in queue : k.n <= j.n => IsGeneration(k)
        /\ \A k \in Stretch(queue) : k.who = j.who => j.n <= k.n
    BY <2>2 DEF Candidates, Stretch
  <2>4. i \in Stretch(queue)
    <3> SUFFICES ASSUME NEW k \in queue, k.n <= i.n PROVE IsGeneration(k)
      BY DEF Stretch
    <3>1. k.n \in Nat
      BY DEF Job
    <3> QED
      BY <1>2, <2>1, <2>3, <3>1
  <2> QED
    BY <1>1, <1>2, <2>1, <2>3, <2>4
<1> QED
  BY <1>1, <1>2

\* Whoever has the turn was served no later than any account that has a
\* candidate.
LEMMA TurnIsLeastServed ==
    ASSUME NEW queue, NEW last \in [Owners -> Nat], NEW j, IsTurn(queue, last, j),
           NEW i \in Candidates(queue), i.who \in Owners, j.who \in Owners
    PROVE  last[j.who] <= last[i.who]
<1>1. Stretch(queue) # {}
  BY DEF Candidates
<1>2. GoesBefore(last, j, i)
  BY <1>1 DEF IsTurn
<1> QED
  BY <1>2 DEF GoesBefore

(***************************************************************************)
(* Types                                                                   *)
(***************************************************************************)

\* Every operation on the queue keeps every variable's type.
THEOREM TypeCorrect == Spec => []TypeOK
<1>1. Init => TypeOK
  <2> SUFFICES ASSUME Init PROVE TypeOK
    OBVIOUS
  <2>1. <<>> \in Seq(Nat)
    BY EmptySeq
  <2> QED
    BY <2>1 DEF Init, TypeOK
<1>2. TypeOK /\ [Next]_vars => TypeOK'
  <2> SUFFICES ASSUME TypeOK, [Next]_vars PROVE TypeOK'
    OBVIOUS
  <2> USE TurnsAssumption
  <2>1. ASSUME NEW who \in Owners \cup {NoTicket}, NEW entry \in Entries,
               Push(who, entry),
               asked' \in [Accounts -> Seq(Nat)], letIn' \in [Accounts -> Seq(Nat)]
        PROVE  TypeOK'
    BY <2>1 DEF Push, TypeOK, Job
  <2>2. ASSUME NEW who \in Owners, Request(who) PROVE TypeOK'
    <3>1. asked' \in [Accounts -> Seq(Nat)] /\ letIn' \in [Accounts -> Seq(Nat)]
      BY <2>2, PacingType DEF Request, TypeOK
    <3> QED
      BY <2>1, <2>2, <3>1 DEF Request, Entries
  <2>3. ASSUME NEW who \in Owners, Ask(who) PROVE TypeOK'
    BY <2>3, PacingType DEF Ask, core, TypeOK
  <2>4. ASSUME NEW who \in Owners, Continue(who) PROVE TypeOK'
    BY <2>1, <2>4 DEF Continue, Entries, TypeOK
  <2>5. CASE Submit
    BY <2>1, <2>5 DEF Submit, Entries, TypeOK
  <2>6. ASSUME NEW j \in jobs, Take(j) PROVE TypeOK'
    <3>1. j \in Job /\ j.n \in 1..arrivals
      BY <2>6 DEF TypeOK
    <3>2. CASE IsGeneration(j)
      <4>1. j.who \in Owners
        BY <3>1, <3>2 DEF IsGeneration, Job
      <4>2. passed' \in [Owners -> [Owners -> Nat]]
        <5>1. passed' = [a \in Owners |-> [b \in Owners |->
                            IF a = j.who THEN 0
                            ELSE IF b = j.who /\ a \in {c.who : c \in Candidates(jobs)}
                                 THEN passed[a][b] + 1
                                 ELSE passed[a][b]]]
          BY <2>6, <3>2, Zenon DEF Take
        <5>2. \A a, b \in Owners : passed[a][b] \in Nat
          BY DEF TypeOK
        <5>3. \A a, b \in Owners : passed[a][b] + 1 \in Nat
          BY <5>2
        <5> QED
          BY <5>1, <5>2, <5>3
      <4>3. served' \in [Owners -> Nat] /\ turn' \in Nat
        <5>1. turn' = turn + 1 /\ served' = [served EXCEPT ![j.who] = turn + 1]
          BY <2>6, <3>2 DEF Take
        <5>2. turn \in Nat /\ served \in [Owners -> Nat]
          BY DEF TypeOK
        <5> QED
          BY <4>1, <5>1, <5>2
      <4> QED
        BY <2>6, <3>1, <4>2, <4>3 DEF Take, pacing, TypeOK
    <3>3. CASE ~IsGeneration(j)
      BY <2>6, <3>1, <3>3 DEF Take, pacing, TypeOK
    <3> QED
      BY <3>2, <3>3
  <2>7. ASSUME NEW who \in Owners, NEW gone \in SUBSET jobs, Cancel(who, gone)
        PROVE  TypeOK'
    BY <2>7 DEF Cancel, pacing, TypeOK
  <2>8. CASE Close
    BY <2>8 DEF Close, pacing, TypeOK
  <2>9. CASE Tick
    BY <2>9 DEF Tick, core, TypeOK
  <2>10. CASE UNCHANGED vars
    BY <2>10 DEF vars, TypeOK
  <2> QED
    BY <2>2, <2>3, <2>4, <2>5, <2>6, <2>7, <2>8, <2>9, <2>10 DEF Next
<1> QED
  BY <1>1, <1>2, PTL DEF Spec

(***************************************************************************)
(* Turns                                                                   *)
(*                                                                         *)
(* That nobody goes twice before somebody who waits is not inductive: it   *)
(* says nothing of who is served next. What makes it so is that whoever    *)
(* has gone once has by that been served later than the one who waits, and *)
(* the turn is never theirs again until the other has had one.             *)
(***************************************************************************)
Owed(a, b) == passed[a][b] = 0 \/ (passed[a][b] = 1 /\ served[a] < served[b])

TurnInv ==
    /\ TypeOK
    /\ \A a \in Owners : served[a] <= turn
    /\ \A a, b \in Owners : Owed(a, b)

\* Taking the job whose turn it is leaves everybody owed at most what they
\* were owed.
LEMMA TakeKeepsTurns ==
    ASSUME TurnInv, TypeOK', NEW j \in jobs, Take(j)
    PROVE  TurnInv'
<1>1. CASE ~IsGeneration(j)
  BY <1>1 DEF TurnInv, Take, Owed
<1>2. CASE IsGeneration(j)
  <2> DEFINE waiting == {c.who : c \in Candidates(jobs)}
  <2>1. j.who \in Owners /\ turn \in Nat /\ served \in [Owners -> Nat]
    BY <1>2 DEF TurnInv, TypeOK, IsGeneration, Job
  <2>2. /\ served' = [served EXCEPT ![j.who] = turn + 1]
        /\ turn' = turn + 1
    BY <1>2 DEF Take
  <2>3. \A a \in Owners : served'[a] <= turn'
    BY <2>1, <2>2 DEF TurnInv
  <2>4. ASSUME NEW a \in Owners, NEW b \in Owners PROVE Owed(a, b)'
    <3>1. passed'[a][b] = IF a = j.who THEN 0
                          ELSE IF b = j.who /\ a \in waiting THEN passed[a][b] + 1
                          ELSE passed[a][b]
      BY <1>2 DEF Take
    <3>2. Owed(a, b) /\ served[a] <= turn /\ served[b] <= turn
      BY DEF TurnInv
    <3>3. CASE a = j.who
      BY <3>1, <3>3 DEF Owed
    <3>4. CASE a # j.who /\ b # j.who
      BY <2>1, <2>2, <3>1, <3>2, <3>4 DEF Owed
    <3>5. CASE a # j.who /\ b = j.who /\ a \notin waiting
      <4>1. served'[b] = turn + 1 /\ served'[a] = served[a] /\ passed'[a][b] = passed[a][b]
        BY <2>1, <2>2, <3>1, <3>5
      <4> QED
        BY <2>1, <3>2, <4>1 DEF Owed
    <3>6. CASE a # j.who /\ b = j.who /\ a \in waiting
      <4>1. PICK c \in Candidates(jobs) : c.who = a
        BY <3>6
      <4>2. IsTurn(jobs, served, j)
        BY DEF Take
      <4>3. served[b] <= served[a]
        BY <2>1, <3>6, <4>1, <4>2, TurnIsLeastServed
      <4>4. passed[a][b] = 0
        BY <2>1, <3>2, <4>3 DEF Owed
      <4>5. served'[b] = turn + 1 /\ served'[a] = served[a] /\ passed'[a][b] = 1
        BY <2>1, <2>2, <3>1, <3>6, <4>4
      <4> QED
        BY <2>1, <3>2, <4>5 DEF Owed
    <3> QED
      BY <3>3, <3>4, <3>5, <3>6
  <2> QED
    BY <2>3, <2>4 DEF TurnInv
<1> QED
  BY <1>1, <1>2

\* Between two turns of an account that has something to run, every other
\* has at most one: round-robin, for any number of accounts, whatever is
\* queued, cancelled or taken in between.
THEOREM TurnsAlternate == Spec => []NobodyGoesTwiceBefore
<1>1. Init => \A a \in Owners : served[a] <= turn /\ \A b \in Owners : Owed(a, b)
  BY DEF Init, Owed
<1>2. TypeOK' /\ TurnInv /\ [Next]_vars => TurnInv'
  <2> SUFFICES ASSUME TypeOK', TurnInv, [Next]_vars PROVE TurnInv'
    OBVIOUS
  <2>1. ASSUME NEW j \in jobs, Take(j) PROVE TurnInv'
    BY <2>1, TakeKeepsTurns
  <2>2. ASSUME UNCHANGED <<served, turn, passed>> PROVE TurnInv'
    BY <2>2 DEF TurnInv, Owed
  <2>3. ASSUME NEW who \in Owners, Request(who) \/ Ask(who) \/ Continue(who)
        PROVE  TurnInv'
    BY <2>2, <2>3 DEF Request, Ask, Continue, Push, core
  <2>4. ASSUME NEW who \in Owners, NEW gone \in SUBSET jobs, Cancel(who, gone)
        PROVE  TurnInv'
    BY <2>2, <2>4 DEF Cancel
  <2>5. CASE Submit \/ Close \/ Tick \/ UNCHANGED vars
    BY <2>2, <2>5 DEF Submit, Push, Close, Tick, core, vars
  <2> QED
    BY <2>1, <2>3, <2>4, <2>5 DEF Next
<1>3. TurnInv => NobodyGoesTwiceBefore
  BY DEF TurnInv, Owed, NobodyGoesTwiceBefore
<1>4. TypeOK /\ (\A a \in Owners : served[a] <= turn /\ \A b \in Owners : Owed(a, b)) => TurnInv
  BY DEF TurnInv
<1> QED
  BY <1>1, <1>2, <1>3, <1>4, TypeCorrect, PTL DEF Spec

(***************************************************************************)
(* Order                                                                   *)
(***************************************************************************)

\* Nothing passes a load or an unload, a load passes nothing, and an
\* account's own generations run in the order they arrived.
THEOREM NothingPasses == Spec => []OrderIsKept
<1>1. Init => OrderIsKept
  BY DEF Init, OrderIsKept
<1>2. TypeOK /\ OrderIsKept /\ [Next]_vars => OrderIsKept'
  <2> SUFFICES ASSUME TypeOK, OrderIsKept, [Next]_vars PROVE OrderIsKept'
    OBVIOUS
  <2>1. ASSUME jobs' \subseteq jobs, started' = started PROVE OrderIsKept'
    BY <2>1 DEF OrderIsKept
  <2>2. ASSUME NEW who, NEW entry, Push(who, entry) PROVE OrderIsKept'
    <3>1. \A s \in started : s.n <= arrivals
      BY DEF TypeOK
    <3>2. \A i \in jobs' : i \in jobs \/ i.n = arrivals + 1
      BY <2>2 DEF Push
    <3>3. \A s \in started : s.n \in Nat
      BY DEF TypeOK, Job
    <3> QED
      BY <2>2, <3>1, <3>2, <3>3 DEF Push, OrderIsKept, TypeOK
  <2>3. ASSUME NEW j \in jobs, Take(j) PROVE OrderIsKept'
    <3>1. \A i \in jobs : i.n < j.n => IsGeneration(i) /\ IsGeneration(j) /\ i.who # j.who
      BY <2>3, TurnIsInOrder DEF Take, TypeOK
    <3> QED
      BY <2>3, <3>1 DEF Take, OrderIsKept
  <2>4. ASSUME NEW who \in Owners, Request(who) \/ Ask(who) \/ Continue(who)
        PROVE  OrderIsKept'
    BY <2>1, <2>2, <2>4 DEF Request, Ask, Continue, core
  <2>5. ASSUME NEW who \in Owners, NEW gone \in SUBSET jobs, Cancel(who, gone)
        PROVE  OrderIsKept'
    BY <2>1, <2>5 DEF Cancel
  <2>6. CASE Submit
    BY <2>2, <2>6 DEF Submit
  <2>7. CASE Close \/ Tick \/ UNCHANGED vars
    BY <2>1, <2>7 DEF Close, Tick, core, vars
  <2> QED
    BY <2>3, <2>4, <2>5, <2>6, <2>7 DEF Next
<1> QED
  BY <1>1, <1>2, TypeCorrect, PTL DEF Spec

(***************************************************************************)
(* Bounds                                                                  *)
(*                                                                         *)
(* The requests that wait are finitely many generations; the limit, which  *)
(* is held against every generation, is thereby held against them.         *)
(***************************************************************************)
BoundsInv ==
    /\ IsFiniteSet(jobs)
    /\ \A j \in jobs : j.entry = "request" => IsGeneration(j)
    /\ RequestsWithinBounds

\* A queue whose requests are some of what they were keeps within bounds.
LEMMA FewerKeepBounds ==
    ASSUME BoundsInv, Requests(jobs') \subseteq Requests(jobs)
    PROVE  RequestsWithinBounds'
<1>1. IsFiniteSet(Requests(jobs))
  BY NoLarger DEF BoundsInv, Requests
<1>2. Limit > 0 => Cardinality(Requests(jobs')) <= Limit
  BY <1>1, NoLarger, TurnsAssumption DEF BoundsInv, RequestsWithinBounds
<1>3. ASSUME NEW a \in Accounts, Share > 0
      PROVE  Cardinality(Theirs(Requests(jobs'), a)) <= Share
  <2>1. IsFiniteSet(Theirs(Requests(jobs), a))
    BY <1>1, NoLarger DEF Theirs
  <2>2. Theirs(Requests(jobs'), a) \subseteq Theirs(Requests(jobs), a)
    BY DEF Theirs
  <2>3. Cardinality(Theirs(Requests(jobs), a)) <= Share
    BY <1>3 DEF BoundsInv, RequestsWithinBounds
  <2> QED
    BY <2>1, <2>2, <2>3, NoLarger, TurnsAssumption
<1> QED
  BY <1>2, <1>3 DEF RequestsWithinBounds

\* A request that found room is within bounds once it is in.
LEMMA OneMoreKeepsBounds ==
    ASSUME BoundsInv, NEW who \in Owners, HasRoom(jobs, who),
           NEW x, x.who = who, jobs' = jobs \cup {x}
    PROVE  RequestsWithinBounds'
<1>1. IsFiniteSet(jobs) /\ IsFiniteSet(Requests(jobs)) /\ IsFiniteSet(Generations(jobs))
  BY NoLarger DEF BoundsInv, Requests, Generations
<1>2. Requests(jobs') \subseteq Requests(jobs) \cup {x}
  BY DEF Requests
<1>3. ASSUME Limit > 0 PROVE Cardinality(Requests(jobs')) <= Limit
  <2>1. Requests(jobs) \subseteq Generations(jobs)
    BY DEF Requests, Generations, BoundsInv
  <2>2. Cardinality(Requests(jobs)) <= Cardinality(Generations(jobs))
    BY <1>1, <2>1, NoLarger
  <2>3. Cardinality(Generations(jobs)) < Limit
    BY <1>1, <1>3, NoLarger, TurnsAssumption DEF HasRoom, Full
  <2>4. /\ Cardinality(Requests(jobs')) <= Cardinality(Requests(jobs)) + 1
        /\ Cardinality(Requests(jobs')) \in Nat
    BY <1>1, <1>2, OneMore
  <2>5. Cardinality(Requests(jobs)) \in Nat /\ Cardinality(Generations(jobs)) \in Nat
    BY <1>1, FS_CardinalityType
  <2> QED
    BY <2>2, <2>3, <2>4, <2>5, TurnsAssumption
<1>4. ASSUME NEW a \in Accounts, Share > 0
      PROVE  Cardinality(Theirs(Requests(jobs'), a)) <= Share
  <2>1. IsFiniteSet(Theirs(jobs, a)) /\ IsFiniteSet(Theirs(Requests(jobs), a))
    BY <1>1, NoLarger DEF Theirs
  <2>2. CASE a = who
    <3>1. Cardinality(Theirs(jobs, a)) < Share
      BY <1>4, <2>1, <2>2, NoLarger, TurnsAssumption DEF HasRoom, OverShare
    <3>2. Theirs(Requests(jobs), a) \subseteq Theirs(jobs, a)
      BY DEF Theirs, Requests
    <3>3. Cardinality(Theirs(Requests(jobs), a)) <= Cardinality(Theirs(jobs, a))
      BY <2>1, <3>2, NoLarger
    <3>4. Theirs(Requests(jobs'), a) \subseteq Theirs(Requests(jobs), a) \cup {x}
      BY <1>2 DEF Theirs
    <3>5. /\ Cardinality(Theirs(Requests(jobs'), a)) <= Cardinality(Theirs(Requests(jobs), a)) + 1
          /\ Cardinality(Theirs(Requests(jobs'), a)) \in Nat
      BY <2>1, <3>4, OneMore
    <3>6. Cardinality(Theirs(Requests(jobs), a)) \in Nat /\ Cardinality(Theirs(jobs, a)) \in Nat
      BY <2>1, FS_CardinalityType
    <3> QED
      BY <3>1, <3>3, <3>5, <3>6, TurnsAssumption
  <2>3. CASE a # who
    <3>1. Theirs(Requests(jobs'), a) = Theirs(Requests(jobs), a)
      BY <2>3 DEF Theirs, Requests
    <3> QED
      BY <1>4, <3>1 DEF BoundsInv, RequestsWithinBounds
  <2> QED
    BY <2>2, <2>3
<1> QED
  BY <1>3, <1>4 DEF RequestsWithinBounds

\* The requests in the queue are within the limit and each account's within
\* its share, whatever continued work is queued beside them.
THEOREM QueueIsBounded == Spec => []RequestsWithinBounds
<1>1. Init => BoundsInv
  <2> SUFFICES ASSUME Init PROVE BoundsInv
    OBVIOUS
  <2>1. jobs = {} /\ Requests(jobs) = {} /\ \A a \in Accounts : Theirs(Requests(jobs), a) = {}
    BY DEF Init, Requests, Theirs
  <2>2. IsFiniteSet({}) /\ Cardinality({}) = 0
    BY FS_EmptySet
  <2> QED
    BY <2>1, <2>2, TurnsAssumption DEF BoundsInv, RequestsWithinBounds
<1>2. BoundsInv /\ [Next]_vars => BoundsInv'
  <2> SUFFICES ASSUME BoundsInv, [Next]_vars PROVE BoundsInv'
    OBVIOUS
  <2>1. ASSUME jobs' \subseteq jobs PROVE BoundsInv'
    <3>1. IsFiniteSet(jobs') /\ \A j \in jobs' : j.entry = "request" => IsGeneration(j)
      BY <2>1, NoLarger DEF BoundsInv
    <3>2. Requests(jobs') \subseteq Requests(jobs)
      BY <2>1 DEF Requests
    <3> QED
      BY <3>1, <3>2, FewerKeepBounds DEF BoundsInv
  <2>2. ASSUME NEW who, NEW entry, Push(who, entry), entry # "request"
        PROVE  BoundsInv'
    <3>1. PICK x : x.entry = entry /\ jobs' = jobs \cup {x}
      BY <2>2 DEF Push
    <3>2. IsFiniteSet(jobs')
      BY <3>1, FS_AddElement DEF BoundsInv
    <3>3. Requests(jobs') \subseteq Requests(jobs)
      BY <2>2, <3>1 DEF Requests
    <3>4. \A j \in jobs' : j.entry = "request" => IsGeneration(j)
      BY <2>2, <3>1 DEF BoundsInv
    <3> QED
      BY <3>2, <3>3, <3>4, FewerKeepBounds DEF BoundsInv
  <2>3. ASSUME NEW who \in Owners, Request(who) PROVE BoundsInv'
    <3>1. PICK x : x.who = who /\ jobs' = jobs \cup {x}
      BY <2>3 DEF Request, Push
    <3>2. IsFiniteSet(jobs')
      BY <3>1, FS_AddElement DEF BoundsInv
    <3>3. RequestsWithinBounds'
      BY <2>3, <3>1, OneMoreKeepsBounds DEF Request
    <3>4. \A j \in jobs' : j.entry = "request" => IsGeneration(j)
      BY <3>1, TurnsAssumption DEF BoundsInv, IsGeneration
    <3> QED
      BY <3>2, <3>3, <3>4 DEF BoundsInv
  <2>4. ASSUME NEW who \in Owners, Ask(who) \/ Continue(who) PROVE BoundsInv'
    BY <2>1, <2>2, <2>4 DEF Ask, Continue, core
  <2>5. CASE Submit
    BY <2>2, <2>5 DEF Submit
  <2>6. ASSUME NEW j \in jobs, Take(j) PROVE BoundsInv'
    BY <2>1, <2>6 DEF Take
  <2>7. ASSUME NEW who \in Owners, NEW gone \in SUBSET jobs, Cancel(who, gone)
        PROVE  BoundsInv'
    BY <2>1, <2>7 DEF Cancel
  <2>8. CASE Close \/ Tick \/ UNCHANGED vars
    BY <2>1, <2>8 DEF Close, Tick, core, vars
  <2> QED
    BY <2>3, <2>4, <2>5, <2>6, <2>7, <2>8 DEF Next
<1>3. BoundsInv => RequestsWithinBounds
  BY DEF BoundsInv
<1> QED
  BY <1>1, <1>2, <1>3, PTL DEF Spec

(***************************************************************************)
(* The rate                                                                *)
(*                                                                         *)
(* That no minute has more than Rate of an account is not inductive: the   *)
(* queue only asks what it has not forgotten. What makes it so is that the *)
(* log it keeps is the end of all it ever let in, that what it forgot is a *)
(* minute old, and that both are in the order of time.                     *)
(***************************************************************************)
Remembers(log, all, at) ==
    /\ log \in Seq(Nat) /\ all \in Seq(Nat) /\ at \in Nat
    /\ \E k \in 0..Len(all) :
        /\ Len(log) = Len(all) - k
        /\ \A i \in 1..Len(log) : log[i] = all[k + i]
        /\ \A i \in 1..k : at - all[i] >= Minute
    /\ \A i, j \in 1..Len(all) : i <= j => all[i] <= all[j]
    /\ \A i \in 1..Len(all) : all[i] <= at
    /\ \A i \in 1..Len(all) : i + Rate <= Len(all) => all[i + Rate] - all[i] >= Minute

\* What is forgotten is a minute old.
LEMMA ForgettingRemembers ==
    ASSUME NEW log, NEW all, NEW at, Remembers(log, all, at)
    PROVE  /\ Remembers(Young(log, at), all, at)
           /\ \A i \in 1..Len(Young(log, at)) : at - Young(log, at)[i] < Minute
<1> DEFINE young == Young(log, at)
<1>1. log \in Seq(Nat) /\ all \in Seq(Nat) /\ at \in Nat
  BY DEF Remembers
<1>2. PICK k \in 0..Len(all) :
        /\ Len(log) = Len(all) - k
        /\ \A i \in 1..Len(log) : log[i] = all[k + i]
        /\ \A i \in 1..k : at - all[i] >= Minute
  BY DEF Remembers
<1>3. young \in Seq(Nat)
  BY <1>1, YoungIsTheEnd
<1>4. PICK c \in 0..Len(log) :
        /\ Len(young) = Len(log) - c
        /\ \A i \in 1..(Len(log) - c) : young[i] = log[c + i]
        /\ \A i \in 1..c : at - log[i] >= Minute
        /\ c < Len(log) => at - log[c + 1] < Minute
  BY <1>1, YoungIsTheEnd
<1> HIDE DEF young
<1>5. Len(all) \in Nat /\ Len(log) \in Nat /\ \A i \in 1..Len(all) : all[i] \in Nat
  BY <1>1, LenProperties, ElementOfSeq
<1>6. \A i \in 1..Len(young) : young[i] = all[(k + c) + i]
  <2> SUFFICES ASSUME NEW i \in 1..Len(young) PROVE young[i] = all[(k + c) + i]
    OBVIOUS
  <2>1. young[i] = log[c + i] /\ c + i \in 1..Len(log)
    BY <1>2, <1>4, <1>5
  <2>2. log[c + i] = all[k + (c + i)]
    BY <1>2, <2>1
  <2>3. k + (c + i) = (k + c) + i
    BY <1>4, <1>5, <1>2
  <2> QED
    BY <2>1, <2>2, <2>3
<1>7. \A i \in 1..(k + c) : at - all[i] >= Minute
  <2> SUFFICES ASSUME NEW i \in 1..(k + c) PROVE at - all[i] >= Minute
    OBVIOUS
  <2>1. CASE i <= k
    BY <1>2, <1>5, <2>1
  <2>2. CASE i > k
    <3>1. i - k \in 1..c /\ i - k \in 1..Len(log) /\ k + (i - k) = i
      BY <1>2, <1>4, <1>5, <2>2
    <3>2. log[i - k] = all[i] /\ at - log[i - k] >= Minute
      BY <1>2, <1>4, <3>1
    <3> QED
      BY <3>2
  <2> QED
    BY <1>5, <2>1, <2>2
<1>8. k + c \in 0..Len(all) /\ Len(young) = Len(all) - (k + c)
  BY <1>2, <1>4, <1>5
<1>9. Remembers(young, all, at)
  BY <1>1, <1>3, <1>6, <1>7, <1>8 DEF Remembers
<1>10. ASSUME NEW i \in 1..Len(young) PROVE at - young[i] < Minute
  <2>1. c < Len(log) /\ c + 1 \in 1..Len(log) /\ (k + c) + i \in 1..Len(all) /\ k + (c + 1) \in 1..Len(all)
        /\ k + (c + 1) <= (k + c) + i
    BY <1>2, <1>4, <1>5
  <2>2. at - all[k + (c + 1)] < Minute
    BY <1>2, <1>4, <2>1
  <2>3. all[k + (c + 1)] <= all[(k + c) + i]
    BY <2>1 DEF Remembers
  <2>4. young[i] = all[(k + c) + i] /\ all[(k + c) + i] \in Nat /\ all[k + (c + 1)] \in Nat
    BY <1>5, <1>6, <2>1
  <2>5. \A x, y \in Nat : at - x < Minute /\ x <= y => at - y < Minute
    BY <1>1, FairQueueAssumption
  <2> QED
    BY <2>2, <2>3, <2>4, <2>5
<1> QED
  BY <1>9, <1>10 DEF young

\* Time that passes makes nothing younger.
LEMMA TimeRemembers ==
    ASSUME NEW log, NEW all, NEW at, Remembers(log, all, at)
    PROVE  Remembers(log, all, at + 1)
<1> DEFINE then == at + 1
<1>1. all \in Seq(Nat) /\ at \in Nat /\ Len(all) \in Nat /\ \A i \in 1..Len(all) : all[i] \in Nat
  BY LenProperties, ElementOfSeq DEF Remembers
<1>2. ASSUME NEW i \in 1..Len(all)
      PROVE  all[i] <= then /\ (at - all[i] >= Minute => then - all[i] >= Minute)
  BY <1>1, FairQueueAssumption DEF Remembers
<1>3. then \in Nat
  BY <1>1
<1> HIDE DEF then
<1>4. \E k \in 0..Len(all) :
        /\ Len(log) = Len(all) - k
        /\ \A i \in 1..Len(log) : log[i] = all[k + i]
        /\ \A i \in 1..k : then - all[i] >= Minute
  <2>1. PICK k \in 0..Len(all) :
        /\ Len(log) = Len(all) - k
        /\ \A i \in 1..Len(log) : log[i] = all[k + i]
        /\ \A i \in 1..k : at - all[i] >= Minute
    BY DEF Remembers
  <2>2. \A i \in 1..k : then - all[i] >= Minute
    BY <1>1, <1>2, <2>1
  <2> QED
    BY <2>1, <2>2
<1>5. /\ log \in Seq(Nat)
      /\ \A i, j \in 1..Len(all) : i <= j => all[i] <= all[j]
      /\ \A i \in 1..Len(all) : i + Rate <= Len(all) => all[i + Rate] - all[i] >= Minute
  BY DEF Remembers
<1>6. Remembers(log, all, then)
  BY <1>1, <1>2, <1>3, <1>4, <1>5 DEF Remembers
<1> QED
  BY <1>6 DEF then

\* Who has fewer than Rate in the minute may be let in: the one that is Rate
\* before it is a minute old.
LEMMA NotingRemembers ==
    ASSUME NEW log, NEW all, NEW at, Remembers(log, all, at), Len(log) < Rate, Rate \in Nat
    PROVE  Remembers(Append(log, at), Append(all, at), at)
<1> DEFINE log2 == Append(log, at)
           all2 == Append(all, at)
<1>1. /\ log \in Seq(Nat) /\ all \in Seq(Nat) /\ at \in Nat /\ Len(all) \in Nat /\ Len(log) \in Nat
      /\ \A i \in 1..Len(all) : all[i] \in Nat
  BY LenProperties, ElementOfSeq DEF Remembers
<1>2. /\ log2 \in Seq(Nat) /\ Len(log2) = Len(log) + 1
      /\ \A i \in 1..Len(log) : log2[i] = log[i]
      /\ log2[Len(log) + 1] = at
  BY <1>1, AppendProperties
<1>3. /\ all2 \in Seq(Nat) /\ Len(all2) = Len(all) + 1
      /\ \A i \in 1..Len(all) : all2[i] = all[i]
      /\ all2[Len(all) + 1] = at
  BY <1>1, AppendProperties
<1> HIDE DEF log2, all2
<1>4. PICK k \in 0..Len(all) :
        /\ Len(log) = Len(all) - k
        /\ \A i \in 1..Len(log) : log[i] = all[k + i]
        /\ \A i \in 1..k : at - all[i] >= Minute
  BY DEF Remembers
<1>5. \A i \in 1..Len(log2) : log2[i] = all2[k + i]
  <2> SUFFICES ASSUME NEW i \in 1..Len(log2) PROVE log2[i] = all2[k + i]
    OBVIOUS
  <2>1. CASE i \in 1..Len(log)
    <3>1. k + i \in 1..Len(all)
      BY <1>1, <1>4, <2>1
    <3> QED
      BY <1>2, <1>3, <1>4, <2>1, <3>1
  <2>2. CASE i = Len(log) + 1
    <3>1. k + i = Len(all) + 1
      BY <1>1, <1>4, <2>2
    <3> QED
      BY <1>2, <1>3, <2>2, <3>1
  <2> QED
    BY <1>1, <1>2, <2>1, <2>2
<1>6. ASSUME NEW i \in 1..k PROVE at - all2[i] >= Minute
  <2>1. i \in 1..Len(all)
    BY <1>1, <1>4
  <2> QED
    BY <1>3, <1>4, <2>1
<1>7. ASSUME NEW i \in 1..Len(all2) PROVE all2[i] <= at /\ all2[i] \in Nat
  <2>1. CASE i = Len(all) + 1
    BY <1>1, <1>3, <2>1
  <2>2. CASE i \in 1..Len(all)
    BY <1>1, <1>3, <2>2 DEF Remembers
  <2> QED
    BY <1>1, <1>3, <2>1, <2>2
<1>8. \A i, j \in 1..Len(all2) : i <= j => all2[i] <= all2[j]
  <2> SUFFICES ASSUME NEW i \in 1..Len(all2), NEW j \in 1..Len(all2), i <= j PROVE all2[i] <= all2[j]
    OBVIOUS
  <2>1. CASE j = Len(all) + 1
    BY <1>3, <1>7, <2>1
  <2>2. CASE j \in 1..Len(all)
    <3>1. i \in 1..Len(all)
      BY <1>1, <2>2
    <3> QED
      BY <1>3, <2>2, <3>1 DEF Remembers
  <2> QED
    BY <1>1, <1>3, <2>1, <2>2
<1>9. \A i \in 1..Len(all2) : i + Rate <= Len(all2) => all2[i + Rate] - all2[i] >= Minute
  <2> SUFFICES ASSUME NEW i \in 1..Len(all2), i + Rate <= Len(all2) PROVE all2[i + Rate] - all2[i] >= Minute
    OBVIOUS
  <2>1. CASE i + Rate = Len(all) + 1
    <3>1. i \in 1..k
      BY <1>1, <1>4, <2>1
    <3> QED
      BY <1>3, <1>6, <2>1, <3>1
  <2>2. CASE i + Rate <= Len(all)
    <3>1. i \in 1..Len(all) /\ i + Rate \in 1..Len(all)
      BY <1>1, <2>2
    <3> QED
      BY <1>3, <2>2, <3>1 DEF Remembers
  <2>3. i + Rate = Len(all) + 1 \/ i + Rate <= Len(all)
    <3>1. i + Rate \in Nat /\ i + Rate <= Len(all) + 1
      BY <1>1, <1>3
    <3>2. \A x, n \in Nat : x <= n + 1 => x = n + 1 \/ x <= n
      OBVIOUS
    <3> QED
      BY <1>1, <3>1, <3>2
  <2> QED
    BY <2>1, <2>2, <2>3
<1>10. k \in 0..Len(all2) /\ Len(log2) = Len(all2) - k
  BY <1>1, <1>2, <1>3, <1>4
<1>11. Remembers(log2, all2, at)
  BY <1>1, <1>2, <1>3, <1>5, <1>6, <1>7, <1>8, <1>9, <1>10 DEF Remembers
<1> QED
  BY <1>11 DEF log2, all2

\* Seconds are rounded up: after them the ticks have passed, and before the
\* last of them they have not.
LEMMA SecondsAreRoundedUp ==
    ASSUME NEW ticks \in Nat \ {0}
    PROVE  /\ SecondsIn(ticks) \in Nat \ {0}
           /\ SecondsIn(ticks) * Second >= ticks
           /\ (SecondsIn(ticks) - 1) * Second < ticks
<1> DEFINE a == ticks + Second - 1
           q == a \div Second
<1>1. Second \in Nat \ {0} /\ a \in Nat /\ a >= Second
  BY FairQueueAssumption
<1>2. q \in Nat /\ q * Second <= a /\ a < q * Second + Second
  BY <1>1
<1>3. SecondsIn(ticks) = q
  BY DEF SecondsIn
<1> HIDE DEF q
<1>4. q # 0
  BY <1>1, <1>2
<1>5. (q - 1) * Second = q * Second - Second /\ q * Second \in Nat
  BY <1>1, <1>2
<1> QED
  BY <1>1, <1>2, <1>3, <1>4, <1>5

\* Who is told to come in has fewer than Rate in what is left of the log.
LEMMA NoWaitIsRoom ==
    ASSUME NEW log, NEW all, Remembers(log, all, now), WaitFor(log) = 0, Rate \in Nat \ {0}
    PROVE  Len(Young(log, now)) < Rate
<1> DEFINE young == Young(log, now)
<1> SUFFICES ASSUME ~(Len(young) < Rate) PROVE FALSE
  OBVIOUS
<1>1. young \in Seq(Nat) /\ Len(young) \in Nat
  BY ForgettingRemembers, LenProperties DEF Remembers
<1>2. \A i \in 1..Len(young) : now - young[i] < Minute /\ young[i] \in Nat
  BY <1>1, ForgettingRemembers, ElementOfSeq
<1>3. WaitFor(log) = SecondsIn(Minute - (now - young[Len(young) - Rate + 1]))
  BY DEF WaitFor
<1> HIDE DEF young
<1>4. Len(young) - Rate + 1 \in 1..Len(young)
  BY <1>1
<1>5. now \in Nat /\ Minute \in Nat
  BY FairQueueAssumption DEF Remembers
<1>6. Minute - (now - young[Len(young) - Rate + 1]) \in Nat \ {0}
  BY <1>2, <1>4, <1>5
<1> QED
  BY <1>3, <1>6, SecondsAreRoundedUp

\* Nobody is told less than nothing.
LEMMA WaitIsANumber ==
    ASSUME NEW log, NEW all, Remembers(log, all, now), Rate \in Nat \ {0}
    PROVE  WaitFor(log) \in Nat
<1> DEFINE young == Young(log, now)
<1>1. young \in Seq(Nat) /\ Len(young) \in Nat
  BY ForgettingRemembers, LenProperties DEF Remembers
<1>2. \A i \in 1..Len(young) : now - young[i] < Minute /\ young[i] \in Nat
  BY <1>1, ForgettingRemembers, ElementOfSeq
<1>3. WaitFor(log) = IF Len(young) < Rate THEN 0
                     ELSE SecondsIn(Minute - (now - young[Len(young) - Rate + 1]))
  BY DEF WaitFor
<1> HIDE DEF young
<1>4. ASSUME ~(Len(young) < Rate) PROVE SecondsIn(Minute - (now - young[Len(young) - Rate + 1])) \in Nat \ {0}
  <2>1. Len(young) - Rate + 1 \in 1..Len(young)
    BY <1>1, <1>4
  <2>2. now \in Nat /\ Minute \in Nat
    BY FairQueueAssumption DEF Remembers
  <2>3. Minute - (now - young[Len(young) - Rate + 1]) \in Nat \ {0}
    BY <1>2, <2>1, <2>2
  <2> QED
    BY <2>3, SecondsAreRoundedUp
<1> QED
  BY <1>3, <1>4

\* Those that are in the minute before a time.
InTheMinute(all, at) == {i \in DOMAIN all : at - all[i] < Minute}

\* They are counted from the first of them.
LEMMA TheMinuteIsTheEnd ==
    ASSUME NEW all \in Seq(Nat), NEW at \in Nat, NEW m \in 0..Len(all)
    PROVE  /\ Cardinality(InTheMinute(all, at)) \in Nat
           /\ (\A i \in 1..m : at - all[i] >= Minute)
                => Cardinality(InTheMinute(all, at)) <= Len(all) - m
           /\ (\A i \in (m + 1)..Len(all) : at - all[i] < Minute)
                => Cardinality(InTheMinute(all, at)) >= Len(all) - m
<1>1. DOMAIN all = 1..Len(all) /\ Len(all) \in Nat /\ \A i \in 1..Len(all) : all[i] \in Nat
  BY LenProperties, ElementOfSeq
<1>2. /\ IsFiniteSet((m + 1)..Len(all))
      /\ Cardinality((m + 1)..Len(all)) = Len(all) - m
  <2> DEFINE a == m + 1
             b == Len(all)
  <2>1. a \in Int /\ b \in Int /\ a = m + 1 /\ b = Len(all)
    BY <1>1
  <2> HIDE DEF a, b
  <2>2. /\ IsFiniteSet(a..b)
        /\ Cardinality(a..b) = IF a > b THEN 0 ELSE b - a + 1
    BY <2>1, FS_Interval, Zenon
  <2> QED
    BY <1>1, <2>1, <2>2
<1>3. InTheMinute(all, at) \subseteq 1..Len(all)
  BY <1>1 DEF InTheMinute
<1>4. IsFiniteSet(InTheMinute(all, at)) /\ Cardinality(InTheMinute(all, at)) \in Nat
  BY <1>1, <1>3, UpToCount, NoLarger
<1>5. ASSUME \A i \in 1..m : at - all[i] >= Minute
      PROVE  Cardinality(InTheMinute(all, at)) <= Len(all) - m
  <2>1. ASSUME NEW i \in InTheMinute(all, at) PROVE i \in (m + 1)..Len(all)
    <3>1. i \in 1..Len(all) /\ at - all[i] < Minute
      BY <1>1 DEF InTheMinute
    <3>2. i \notin 1..m
      BY <1>1, <1>5, <3>1, FairQueueAssumption
    <3> QED
      BY <1>1, <3>1, <3>2
  <2> QED
    BY <1>2, <2>1, NoLarger
<1>6. ASSUME \A i \in (m + 1)..Len(all) : at - all[i] < Minute
      PROVE  Cardinality(InTheMinute(all, at)) >= Len(all) - m
  <2>1. ASSUME NEW i \in (m + 1)..Len(all) PROVE i \in InTheMinute(all, at)
    BY <1>1, <1>6 DEF InTheMinute
  <2>2. Cardinality((m + 1)..Len(all)) <= Cardinality(InTheMinute(all, at))
    BY <1>4, <2>1, NoLarger
  <2> QED
    BY <1>1, <1>2, <1>4, <2>2
<1> QED
  BY <1>4, <1>5, <1>6

\* Who remembers what it has to tells the truth.
LEMMA RememberingIsHonest ==
    ASSUME NEW log, NEW all, Remembers(log, all, now), Rate \in Nat \ {0}
    PROVE  LET secs == WaitFor(log)
           IN  IF secs = 0 THEN Cardinality(InTheMinute(all, now)) < Rate
               ELSE /\ Cardinality(InTheMinute(all, now + secs * Second)) < Rate
                    /\ Cardinality(InTheMinute(all, now + (secs - 1) * Second)) >= Rate
<1> DEFINE young == Young(log, now)
           secs == WaitFor(log)
<1>1. Remembers(young, all, now) /\ \A i \in 1..Len(young) : now - young[i] < Minute
  BY ForgettingRemembers
<1>2. WaitFor(log) = IF Len(young) < Rate THEN 0
                     ELSE SecondsIn(Minute - (now - young[Len(young) - Rate + 1]))
  BY DEF WaitFor
<1>3. WaitFor(log) = 0 => Len(young) < Rate
  BY NoWaitIsRoom
<1> HIDE DEF young
<1>4. PICK k \in 0..Len(all) :
        /\ Len(young) = Len(all) - k
        /\ \A i \in 1..Len(young) : young[i] = all[k + i]
        /\ \A i \in 1..k : now - all[i] >= Minute
  BY <1>1 DEF Remembers
<1>5. /\ all \in Seq(Nat) /\ now \in Nat /\ Len(all) \in Nat /\ Len(young) \in Nat
      /\ \A i \in 1..Len(all) : all[i] \in Nat
  BY <1>1, LenProperties, ElementOfSeq DEF Remembers
<1>6. CASE secs = 0
  <2>1. Cardinality(InTheMinute(all, now)) <= Len(all) - k /\ Cardinality(InTheMinute(all, now)) \in Nat
    BY <1>4, <1>5, TheMinuteIsTheEnd
  <2> QED
    BY <1>3, <1>4, <1>5, <1>6, <2>1
<1>7. CASE secs # 0
  <2> DEFINE m == Len(all) - Rate
             wait == Minute - (now - all[m + 1])
  <2>1. ~(Len(young) < Rate)
    BY <1>2, <1>7
  <2>2. /\ m \in 0..Len(all) /\ m + 1 \in 1..Len(all) /\ Len(all) - m = Rate
        /\ Len(young) - Rate + 1 \in 1..Len(young) /\ k + (Len(young) - Rate + 1) = m + 1
    BY <1>4, <1>5, <2>1
  <2>3. young[Len(young) - Rate + 1] = all[m + 1]
    BY <1>4, <2>2
  <2>4. secs = SecondsIn(wait)
    BY <1>2, <2>1, <2>3
  <2>5. now - all[m + 1] < Minute /\ all[m + 1] \in Nat /\ all[m + 1] <= now /\ Minute \in Nat /\ Second \in Nat
    BY <1>1, <1>5, <2>2, <2>3, FairQueueAssumption DEF Remembers
  <2> HIDE DEF m
  <2>6. wait \in Nat \ {0}
    BY <1>5, <2>5
  <2>7. secs \in Nat \ {0} /\ secs * Second >= wait /\ (secs - 1) * Second < wait
    BY <2>4, <2>6, SecondsAreRoundedUp
  <2>8. \A i, j \in 1..Len(all) : i <= j => all[i] <= all[j]
    BY <1>1 DEF Remembers
  <2> DEFINE last == all[m + 1]
             then == now + secs * Second
             sooner == now + (secs - 1) * Second
  <2>9. /\ then \in Nat /\ sooner \in Nat /\ last \in Nat
        /\ then - last >= Minute /\ sooner - last < Minute
    <3> DEFINE x == secs * Second
               y == (secs - 1) * Second
    <3>1. x \in Nat /\ y \in Nat /\ x >= wait /\ y < wait
      BY <2>5, <2>7
    <3> HIDE DEF x, y, secs
    <3>2. now + x \in Nat /\ now + y \in Nat /\ (now + x) - last >= Minute /\ (now + y) - last < Minute
      BY <1>5, <2>5, <3>1
    <3> QED
      BY <2>5, <3>2 DEF x, y
  <2> HIDE DEF secs, then, sooner, last
  <2>10. Cardinality(InTheMinute(all, then)) < Rate
    <3>1. ASSUME NEW i \in 1..(m + 1) PROVE then - all[i] >= Minute
      <4>1. i \in 1..Len(all) /\ i <= m + 1
        BY <1>5, <2>2
      <4>2. all[i] <= last /\ all[i] \in Nat
        BY <1>5, <2>2, <2>8, <4>1 DEF last
      <4> QED
        BY <2>5, <2>9, <4>2
    <3>2. m + 1 \in 0..Len(all)
      BY <1>5, <2>2
    <3>3. Cardinality(InTheMinute(all, then)) <= Len(all) - (m + 1)
          /\ Cardinality(InTheMinute(all, then)) \in Nat
      BY <1>5, <2>9, <3>1, <3>2, TheMinuteIsTheEnd
    <3> QED
      BY <1>5, <2>2, <3>3
  <2>11. Cardinality(InTheMinute(all, sooner)) >= Rate
    <3>1. ASSUME NEW i \in (m + 1)..Len(all) PROVE sooner - all[i] < Minute
      <4>1. i \in 1..Len(all) /\ m + 1 <= i
        BY <1>5, <2>2
      <4>2. last <= all[i] /\ all[i] \in Nat
        BY <1>5, <2>2, <2>8, <4>1 DEF last
      <4> QED
        BY <2>5, <2>9, <4>2
    <3>2. Cardinality(InTheMinute(all, sooner)) >= Len(all) - m
      BY <1>5, <2>2, <2>9, <3>1, TheMinuteIsTheEnd
    <3> QED
      BY <2>2, <3>2
  <2> QED
    BY <1>7, <2>10, <2>11 DEF secs, then, sooner
<1> QED
  BY <1>6, <1>7

\* Each account's log remembers what it has to.
RateInv == Rate > 0 => \A a \in Accounts : Remembers(asked[a], letIn[a], now)

\* Nothing was admitted in the beginning.
LEMMA RateInit == Init => RateInv
<1> SUFFICES ASSUME Init, Rate > 0, NEW a \in Accounts
             PROVE  Remembers(asked[a], letIn[a], now)
  BY DEF RateInv
<1>1. asked[a] = <<>> /\ letIn[a] = <<>> /\ now = 0
  BY DEF Init
<1>2. <<>> \in Seq(Nat) /\ Len(<<>>) = 0
  BY EmptySeq
<1> QED
  BY <1>1, <1>2 DEF Remembers

\* Every operation keeps the rate.
LEMMA RateNext == TypeOK /\ RateInv /\ [Next]_vars => RateInv'
<1> SUFFICES ASSUME TypeOK, RateInv, [Next]_vars, Rate > 0, NEW a \in Accounts
             PROVE  Remembers(asked'[a], letIn'[a], now')
  BY DEF RateInv, Remembers
<1> USE FairQueueAssumption
<1>1. Remembers(asked[a], letIn[a], now)
  BY DEF RateInv
<1>2. Remembers(Young(asked[a], now), letIn[a], now)
  BY <1>1, ForgettingRemembers
<1>3. CASE UNCHANGED pacing
  BY <1>1, <1>3 DEF pacing
<1>4. ASSUME NEW who \in Owners, Request(who) PROVE Remembers(asked'[a], letIn'[a], now')
  <2>1. now' = now
    BY <1>4 DEF Request, Push
  <2>2. CASE who = a
    <3>1. WaitFor(asked[a]) = 0
      <4>1. ~(WaitFor(asked[a]) > 0)
        BY <1>4, <2>2 DEF Request, Hurried
      <4>2. WaitFor(asked[a]) \in Nat
        BY <1>1, WaitIsANumber
      <4> QED
        BY <4>1, <4>2
    <3>2. Len(Young(asked[a], now)) < Rate
      BY <1>1, <3>1, NoWaitIsRoom
    <3>3. asked'[a] = Append(Young(asked[a], now), now) /\ letIn'[a] = Append(letIn[a], now)
      BY <1>4, <2>2 DEF Request, Note, Forget, TypeOK
    <3> QED
      BY <1>2, <2>1, <3>2, <3>3, NotingRemembers
  <2>3. CASE who # a
    <3>1. asked'[a] = asked[a] /\ letIn'[a] = letIn[a]
      BY <1>4, <2>3 DEF Request, Note, Forget, TypeOK
    <3> QED
      BY <1>1, <2>1, <3>1
  <2> QED
    BY <2>2, <2>3
<1>5. ASSUME NEW who \in Owners, Ask(who) PROVE Remembers(asked'[a], letIn'[a], now')
  <2>1. now' = now /\ letIn' = letIn
    BY <1>5 DEF Ask
  <2>2. asked'[a] = asked[a] \/ asked'[a] = Young(asked[a], now)
    BY <1>5 DEF Ask, Forget, TypeOK
  <2> QED
    BY <1>1, <1>2, <2>1, <2>2
<1>6. CASE Tick
  <2>1. now' = now + 1 /\ asked' = asked /\ letIn' = letIn
    BY <1>6 DEF Tick
  <2> QED
    BY <1>1, <2>1, TimeRemembers
<1>7. ASSUME NEW who \in Owners, Continue(who) PROVE UNCHANGED pacing
  BY <1>7 DEF Continue, Push, pacing
<1>8. ASSUME NEW who \in Owners, NEW gone \in SUBSET jobs, Cancel(who, gone) PROVE UNCHANGED pacing
  BY <1>8 DEF Cancel
<1>9. ASSUME NEW j \in jobs, Take(j) PROVE UNCHANGED pacing
  BY <1>9 DEF Take
<1>10. CASE Submit \/ Close \/ UNCHANGED vars
  BY <1>3, <1>10 DEF Submit, Push, Close, pacing, vars
<1> QED
  BY <1>3, <1>4, <1>5, <1>6, <1>7, <1>8, <1>9, <1>10 DEF Next

\* An account is let in at most Rate times in any minute: at any rate, over
\* all it ever asked, whatever the log forgets meanwhile.
THEOREM RateIsKept == Spec => []AtMostRateInAMinute
<1>1. TypeOK /\ RateInv => AtMostRateInAMinute
  <2> SUFFICES ASSUME TypeOK, RateInv, Rate > 0, NEW a \in Accounts, NEW i \in DOMAIN letIn[a],
                      i + Rate \in DOMAIN letIn[a]
               PROVE  letIn[a][i + Rate] - letIn[a][i] >= Minute
    BY DEF AtMostRateInAMinute
  <2>1. letIn[a] \in Seq(Nat) /\ DOMAIN letIn[a] = 1..Len(letIn[a]) /\ Len(letIn[a]) \in Nat
    BY LenProperties DEF TypeOK
  <2>2. Remembers(asked[a], letIn[a], now)
    BY DEF RateInv
  <2> QED
    BY <2>1, <2>2 DEF Remembers
<1> QED
  BY <1>1, RateInit, RateNext, TypeCorrect, PTL DEF Spec

\* An account turned away is told the truth: after the seconds it was told
\* there is room, a second less would have been too soon, and one told to come
\* in has not used its minute. At any rate and any length of a second.
THEOREM WaitIsTrue == Spec => []RetryIsHonest
<1>1. RateInv => RetryIsHonest
  <2> SUFFICES ASSUME RateInv, Rate > 0, NEW a \in Accounts
               PROVE  LET secs == WaitFor(asked[a])
                      IN  IF secs = 0 THEN Cardinality(InTheMinute(letIn[a], now)) < Rate
                          ELSE /\ Cardinality(InTheMinute(letIn[a], now + secs * Second)) < Rate
                               /\ Cardinality(InTheMinute(letIn[a], now + (secs - 1) * Second)) >= Rate
    BY DEF RetryIsHonest, InTheMinute
  <2>1. Remembers(asked[a], letIn[a], now) /\ Rate \in Nat \ {0}
    BY FairQueueAssumption DEF RateInv
  <2> QED
    BY <2>1, RememberingIsHonest
<1> QED
  BY <1>1, RateInit, RateNext, TypeCorrect, PTL DEF Spec
=============================================================================
