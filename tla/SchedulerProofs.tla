--------------------------- MODULE SchedulerProofs ---------------------------
(***************************************************************************)
(* Theorems about the scheduler (Scheduler) and its engines (Engine), for  *)
(* any accounts, residents, limits and bounds.                             *)
(*                                                                         *)
(* Four invariants, each on the ones before: where every job is and who    *)
(* counts it (ThreadInv), what the thread has asked of which engine        *)
(* (EngineInv), whom a flag may stop (StopInv), and what every caller has  *)
(* been told (HearInv).                                                    *)
(***************************************************************************)
EXTENDS Scheduler, Counting, SequenceTheorems

(***************************************************************************)
(* What is so of every state, whatever the engines do                      *)
(***************************************************************************)
Job == [n : Ids, who : Owners \cup {NoTicket}, kind : Kinds, on : Key \cup {Everywhere}]

\* Jobs are numbered as they come, and a generation is told by its ticket.
JobsInv ==
    /\ submitted \subseteq Job /\ IsFiniteSet(submitted)
    /\ \A j \in submitted : j.n \in 1..Cardinality(submitted)
    /\ \A i, j \in submitted : i.n = j.n => i = j
    /\ \A j \in submitted : IsGeneration(j) <=> j.kind \in Texts \cup Alones
    /\ jobs \subseteq submitted /\ cur \in submitted \cup {NoJob} /\ cur \notin jobs
    /\ closed \in BOOLEAN /\ served \in [Owners -> Nat] /\ turn \in Nat

\* Where the thread has a job, and where it has a batch.
Single == {"busy", "enter", "begin", "drain", "hand", "finish", "clear", "reply", "ask",
           "await", "load", "loading", "unload", "leaving", "left"}
Either == {"count", "admit"}
Together == {"join", "pump", "settle", "drop"}
Free == {"next", "over"}

\* The thread has a job it took, or a batch, or is between two.
PlaceInv ==
    /\ pc \in Free \cup Single \cup Either \cup Together
    /\ cur # NoJob <=> pc \in Single \cup Either
    /\ batch \in [on : Key \cup {Everywhere}, private : BOOLEAN, streams : SUBSET Ids]
    /\ ended \subseteq Ids
    /\ batch # NoBatch => pc \in Either \cup Together /\ (pc = "settle" \/ batch.streams # {})
    /\ ended # {} => pc \in {"settle", "drop"} \/ batch # NoBatch
    /\ pc \in {"join", "pump"} => batch # NoBatch
    /\ pc = "settle" => batch.streams \cup ended # {}
    /\ busy <=> pc \notin Free \cup {"busy", "reply"} /\ ~(pc = "drop" /\ batch = NoBatch)
    /\ pc = "admit" => IsText(cur)
    /\ pc \in {"enter", "begin", "drain", "hand", "finish"} => cur.kind \in Alones
    /\ pc \in {"ask", "await", "load", "loading", "unload", "leaving", "left"} => ~IsGeneration(cur)

\* What runs together was taken from the queue, and shares its resident.
StreamsInv ==
    /\ batch.streams \cup ended \subseteq Told(submitted)
    /\ \A j \in submitted : j.n \in batch.streams \cup ended => j \notin jobs /\ j # cur
    /\ batch # NoBatch /\ ~batch.private =>
        \A j \in submitted : j.n \in batch.streams \cup ended => j.kind = "text" /\ j.on = batch.on
    /\ batch # NoBatch /\ cur # NoJob => ~batch.private /\ cur.kind = "text" /\ cur.on = batch.on

\* What a cancellation has taken out of the queue is nowhere else.
CancelInv ==
    /\ stopping.at \in {"rest", "count", "end", "mark"}
    /\ stopping.at \in {"count", "end"} =>
        /\ stopping.gone \subseteq submitted /\ stopping.gone \cap jobs = {} /\ cur \notin stopping.gone
        /\ \A j \in stopping.gone : IsGeneration(j) /\ j.n \notin batch.streams \cup ended

\* Those counted as waiting: the queue's, the one just taken, and those a
\* cancellation has not counted out.
Counted == Cardinality(jobs) + (IF pc \in {"busy", "count"} THEN 1 ELSE 0)
             + (IF stopping.at = "count" THEN Cardinality(stopping.gone) ELSE 0)
WaitingInv == waiting \in Nat /\ waiting >= Counted /\ (~closed => waiting = Counted)

\* The books have the generations that are not over.
BooksInv ==
    /\ books \subseteq submitted
    /\ \A j \in books : IsGeneration(j) /\ j.n \notin ended /\ (j.n \in sender \/ closed)
    /\ \A j \in jobs : IsGeneration(j) => j \in books
    /\ IF pc \in {"clear", "reply"} THEN cur \notin books
       ELSE cur # NoJob /\ IsGeneration(cur) => cur \in books
    /\ \A j \in submitted : j.n \in batch.streams => j \in books

\* Whose job is not over is not let go.
SenderInv ==
    /\ sender \subseteq Told(submitted)
    /\ \A j \in jobs : j.n \in sender
    /\ cur # NoJob => cur.n \in sender
    /\ batch.streams \cup ended \subseteq sender
    /\ stopping.at \in {"count", "end"} => Told(stopping.gone) \subseteq sender

ThreadInv == JobsInv /\ PlaceInv /\ StreamsInv /\ CancelInv /\ WaitingInv /\ BooksInv /\ SenderInv

\* What the invariant is about.
threadInvVars == <<jobs, closed, served, turn, submitted, waiting, busy, books, pc, cur, batch,
                   ended, sender, stopping>>

\* No job has the number of no job, and numbers are no larger than the last.
LEMMA JobsAreNumbered ==
    ASSUME JobsInv
    PROVE  /\ Cardinality(submitted) \in Nat
           /\ \A j \in submitted : j \in Job /\ j.n \in Nat \ {0} /\ j.n <= Cardinality(submitted) /\ j # NoJob
           /\ \A i, j \in submitted : i.n = j.n => i = j
           /\ NoJob.n = 0 /\ ~IsGeneration(NoJob)
<1>1. Cardinality(submitted) \in Nat
  BY FS_CardinalityType DEF JobsInv
<1>2. NoJob.n = 0 /\ ~IsGeneration(NoJob)
  BY DEF NoJob, IsGeneration
<1> QED
  BY <1>1, <1>2 DEF JobsInv

\* Where nothing changes of it, it stays.
LEMMA ThreadStays == ASSUME ThreadInv, UNCHANGED threadInvVars PROVE ThreadInv'
BY DEF ThreadInv, JobsInv, PlaceInv, StreamsInv, CancelInv, WaitingInv, Counted, BooksInv, SenderInv,
       threadInvVars, Told

\* Where the thread has a job and is neither taking it nor answering.
Onwards == Single \ {"busy", "reply"}

\* Where the thread goes on by itself with the job it has.
LEMMA ThreadGoesOn ==
    ASSUME ThreadInv, pc \in Onwards, pc' \in Onwards,
           UNCHANGED <<jobs, closed, served, turn, submitted, waiting, busy, books, cur, batch, ended,
                       sender, stopping>>,
           pc' \in {"enter", "begin", "drain", "hand", "finish"} => cur.kind \in Alones,
           pc' \in {"ask", "await", "load", "loading", "unload", "leaving", "left"} => ~IsGeneration(cur),
           pc' = "clear" => ~IsGeneration(cur), pc # "clear"
    PROVE  ThreadInv'
<1>1. JobsInv' /\ StreamsInv' /\ CancelInv' /\ SenderInv'
  BY DEF ThreadInv, JobsInv, StreamsInv, CancelInv, SenderInv, Told
<1>2. PlaceInv'
  BY DEF ThreadInv, PlaceInv, Onwards, Single, Either, Together, Free, IsGeneration
<1>3. WaitingInv'
  BY DEF ThreadInv, WaitingInv, Counted, Onwards, Single
<1>4. BooksInv'
  BY DEF ThreadInv, BooksInv, JobsInv, Onwards, Single
<1> QED
  BY <1>1, <1>2, <1>3, <1>4 DEF ThreadInv

\* At first.
LEMMA ThreadInit == Init => ThreadInv
<1> SUFFICES ASSUME Init PROVE ThreadInv
  OBVIOUS
<1>1. /\ jobs = {} /\ closed = FALSE /\ served = [o \in Owners |-> 0] /\ turn = 0 /\ submitted = {}
      /\ waiting = 0 /\ busy = FALSE /\ books = {} /\ pc = "next" /\ cur = NoJob
      /\ batch = NoBatch /\ ended = {} /\ sender = {} /\ stopping = NoCancel
  BY DEF Init
<1>2. JobsInv
  BY <1>1, FS_EmptySet DEF JobsInv
<1>3. NoBatch \in [on : Key \cup {Everywhere}, private : BOOLEAN, streams : SUBSET Ids] /\ NoBatch.streams = {}
  BY DEF NoBatch
<1>4. PlaceInv
  BY <1>1, <1>3 DEF PlaceInv, Free, Single, Either, Together
<1>5. StreamsInv
  BY <1>1, <1>3 DEF StreamsInv, Told
<1>6. stopping.at = "rest"
  BY <1>1 DEF NoCancel
<1>7. CancelInv
  BY <1>6 DEF CancelInv
<1>8. WaitingInv
  <2>1. Cardinality({}) = 0
    BY FS_EmptySet
  <2>2. Counted = 0
    BY <1>1, <1>6, <2>1 DEF Counted
  <2> QED
    BY <1>1, <2>2 DEF WaitingInv
<1>9. BooksInv
  BY <1>1, <1>3 DEF BooksInv
<1>10. SenderInv
  BY <1>1, <1>3, <1>6 DEF SenderInv, Told
<1> QED
  BY <1>2, <1>4, <1>5, <1>7, <1>8, <1>9, <1>10 DEF ThreadInv

\* One more is submitted.
LEMMA SubmitKeeps ==
    ASSUME ThreadInv, NEW who \in Asked \cup {NoTicket}, NEW item \in Menu, Submit(who, item)
    PROVE  ThreadInv'
<1>1. PICK n, j : n = Cardinality(submitted) + 1 /\ j = [n |-> n, who |-> who, kind |-> item.kind, on |-> item.on]
  OBVIOUS
<1>2. /\ ~closed /\ n <= MaxArrivals
      /\ IF item.kind \in Texts \cup Alones THEN who \in Asked /\ books' = books \cup {j}
         ELSE who = NoTicket /\ UNCHANGED books
      /\ jobs' = jobs \cup {j} /\ submitted' = submitted \cup {j} /\ waiting' = waiting + 1
      /\ sender' = sender \cup {n}
      /\ UNCHANGED <<closed, served, turn, busy, pc, cur, batch, ended, stopping>>
  BY <1>1 DEF Submit, threadVars, cancelVars
<1>3. /\ Cardinality(submitted) \in Nat /\ \A i \in submitted : i.n \in 1..Cardinality(submitted)
      /\ jobs \subseteq submitted /\ cur \in submitted \cup {NoJob} /\ IsFiniteSet(submitted)
  BY JobsAreNumbered DEF ThreadInv, JobsInv
<1>4. n \in Ids /\ j \in Job /\ j.n = n /\ j.who = who /\ j.kind = item.kind /\ n # 0
  <2>1. item.kind \in Kinds /\ item.on \in Key \cup {Everywhere}
    BY SchedulerAssumption
  <2>2. n \in Ids
    BY <1>1, <1>2, <1>3, SchedulerAssumption
  <2>3. who \in Owners \cup {NoTicket}
    BY SchedulerAssumption
  <2> QED
    BY <1>1, <1>3, <2>1, <2>2, <2>3 DEF Job
<1>5. j \notin submitted /\ j # cur /\ n \notin Told(submitted) /\ \A i \in submitted : i.n # n
  BY <1>1, <1>3, <1>4 DEF Told, NoJob
<1>6. IsGeneration(j) <=> item.kind \in Texts \cup Alones
  BY <1>2, <1>4, TurnsAssumption, SchedulerAssumption DEF IsGeneration
<1>7. JobsInv'
  <2>1. IsFiniteSet(submitted') /\ Cardinality(submitted') = n
    BY <1>1, <1>2, <1>3, <1>5, FS_AddElement
  <2>2. \A i \in submitted' : i.n \in 1..n
    BY <1>1, <1>2, <1>3, <1>4
  <2>3. \A i, k \in submitted' : i.n = k.n => i = k
    BY <1>2, <1>4, <1>5 DEF ThreadInv, JobsInv
  <2>4. \A i \in submitted' : IsGeneration(i) <=> i.kind \in Texts \cup Alones
    BY <1>2, <1>4, <1>6 DEF ThreadInv, JobsInv
  <2> QED
    BY <1>2, <1>4, <1>5, <2>1, <2>2, <2>3, <2>4 DEF ThreadInv, JobsInv
<1>8. PlaceInv'
  BY <1>2 DEF ThreadInv, PlaceInv
<1>9. n \notin batch.streams \cup ended /\ n \notin sender
  BY <1>5 DEF ThreadInv, StreamsInv, SenderInv
<1>10. StreamsInv'
  BY <1>2, <1>4, <1>5, <1>9 DEF ThreadInv, StreamsInv, Told
<1>11. CancelInv'
  BY <1>2, <1>5 DEF ThreadInv, CancelInv
<1>12. WaitingInv'
  <2>1. IsFiniteSet(jobs) /\ Cardinality(jobs) \in Nat
    BY <1>3, NoLarger
  <2>2. Cardinality(jobs') = Cardinality(jobs) + 1
    BY <1>2, <1>3, <1>5, <2>1, FS_AddElement
  <2>3. PICK k \in Nat : k = (IF pc \in {"busy", "count"} THEN 1 ELSE 0)
    OBVIOUS
  <2>4. PICK l : l = IF stopping.at = "count" THEN Cardinality(stopping.gone) ELSE 0
    OBVIOUS
  <2>5. l \in Nat
    <3>1. stopping.at = "count" => stopping.gone \subseteq submitted
      BY DEF ThreadInv, CancelInv
    <3> QED
      BY <1>3, <2>4, <3>1, NoLarger
  <2>6. Counted = Cardinality(jobs) + k + l /\ Counted' = Cardinality(jobs') + k + l
    BY <1>2, <2>3, <2>4 DEF Counted
  <2>7. Counted \in Nat /\ Counted' = Counted + 1
    BY <2>1, <2>2, <2>5, <2>6
  <2> QED
    BY <1>2, <2>7 DEF ThreadInv, WaitingInv
<1>13. BooksInv'
  <2>1. books' \subseteq submitted' /\ \A i \in books : i \in books'
    BY <1>2 DEF ThreadInv, BooksInv
  <2>2. \A i \in books' : IsGeneration(i) /\ i.n \notin ended' /\ (i.n \in sender' \/ closed')
    BY <1>2, <1>4, <1>6, <1>9 DEF ThreadInv, BooksInv
  <2>3. \A i \in jobs' : IsGeneration(i) => i \in books'
    BY <1>2, <1>6 DEF ThreadInv, BooksInv
  <2>4. IF pc' \in {"clear", "reply"} THEN cur' \notin books' ELSE cur' # NoJob /\ IsGeneration(cur') => cur' \in books'
    BY <1>2, <1>5 DEF ThreadInv, BooksInv
  <2>5. \A i \in submitted' : i.n \in batch'.streams => i \in books'
    BY <1>2, <1>4, <1>9 DEF ThreadInv, BooksInv
  <2> QED
    BY <2>1, <2>2, <2>3, <2>4, <2>5 DEF BooksInv
<1>14. SenderInv'
  BY <1>2, <1>4 DEF ThreadInv, SenderInv, Told
<1> QED
  BY <1>7, <1>8, <1>10, <1>11, <1>12, <1>13, <1>14 DEF ThreadInv

\* What a cancellation takes out of the queue.
LEMMA CancelWaitingKeeps ==
    ASSUME ThreadInv, NEW who \in Asked, NEW id \in {0} \cup Ids, CancelWaiting(who, id)
    PROVE  ThreadInv'
<1>1. PICK gone : gone = {j \in jobs : j.who = who /\ id \in {0, j.n}}
  OBVIOUS
<1>2. /\ stopping = NoCancel /\ jobs' = jobs \ gone
      /\ stopping' = [at |-> "count", who |-> who, id |-> id, gone |-> gone]
      /\ UNCHANGED <<closed, served, turn, submitted, waiting, busy, books, pc, cur, batch, ended, sender>>
  BY <1>1 DEF CancelWaiting, sharedVars, callerVars, threadVars
<1>3. stopping.at = "rest" /\ stopping'.at = "count" /\ stopping'.gone = gone
  BY <1>2 DEF NoCancel
<1>4. gone \subseteq jobs /\ jobs \subseteq submitted /\ IsFiniteSet(submitted) /\ cur \notin jobs
  BY <1>1 DEF ThreadInv, JobsInv
<1>5. \A j \in gone : IsGeneration(j)
  BY <1>1, SchedulerAssumption, TurnsAssumption DEF IsGeneration
<1>6. JobsInv' /\ PlaceInv' /\ StreamsInv' /\ BooksInv'
  BY <1>2, <1>4 DEF ThreadInv, JobsInv, PlaceInv, StreamsInv, BooksInv, Told
<1>7. CancelInv'
  <2>1. gone \cap jobs' = {} /\ cur \notin gone /\ gone \subseteq submitted
    BY <1>2, <1>4
  <2>2. \A j \in gone : j.n \notin batch.streams \cup ended
    BY <1>4 DEF ThreadInv, StreamsInv
  <2> QED
    BY <1>2, <1>3, <1>5, <2>1, <2>2 DEF CancelInv
<1>8. WaitingInv'
  <2>1. PICK k \in Nat : k = IF pc \in {"busy", "count"} THEN 1 ELSE 0
    OBVIOUS
  <2>2. IsFiniteSet(jobs) /\ Cardinality(jobs) \in Nat /\ IsFiniteSet(gone) /\ Cardinality(gone) \in Nat
    BY <1>4, NoLarger
  <2>3. Cardinality(jobs \ gone) = Cardinality(jobs) - Cardinality(gone)
    <3>1. jobs \cap gone = gone
      BY <1>4
    <3> QED
      BY ZenonT(40), <2>2, <3>1, FS_Difference
  <2>4. Counted = Cardinality(jobs) + k + 0
    BY <1>3, <2>1 DEF Counted
  <2>5. Counted' = Cardinality(jobs \ gone) + k + Cardinality(gone)
    BY <1>2, <1>3, <2>1 DEF Counted
  <2>6. Counted' = Counted
    BY <2>2, <2>3, <2>4, <2>5
  <2> QED
    BY <1>2, <2>6 DEF ThreadInv, WaitingInv
<1>9. SenderInv'
  <2>1. Told(gone) \subseteq sender
    BY <1>4 DEF ThreadInv, SenderInv, Told
  <2> QED
    BY <1>2, <1>3, <1>4, <2>1 DEF ThreadInv, SenderInv
<1> QED
  BY <1>6, <1>7, <1>8, <1>9 DEF ThreadInv

\* It is counted out.
LEMMA CancelCountKeeps == ASSUME ThreadInv, CancelCount PROVE ThreadInv'
<1>1. PICK gone : gone = stopping.gone
  OBVIOUS
<1>2. /\ stopping.at = "count" /\ waiting' = waiting - Cardinality(gone)
      /\ UNCHANGED <<jobs, closed, served, turn, submitted, busy, books, pc, cur, batch, ended, sender>>
  BY <1>1 DEF CancelCount, queueVars, callerVars, threadVars
<1>3. stopping'.at = "end" /\ stopping'.gone = gone
  BY <1>1 DEF CancelCount, ThreadInv, CancelInv
<1>4. JobsInv' /\ PlaceInv' /\ StreamsInv' /\ BooksInv'
  BY <1>2 DEF ThreadInv, JobsInv, PlaceInv, StreamsInv, BooksInv
<1>5. CancelInv' /\ SenderInv'
  BY <1>1, <1>2, <1>3 DEF ThreadInv, CancelInv, SenderInv
<1>6. WaitingInv'
  <2>1. PICK k \in Nat : k = IF pc \in {"busy", "count"} THEN 1 ELSE 0
    OBVIOUS
  <2>2. Cardinality(jobs) \in Nat /\ Cardinality(gone) \in Nat
    BY <1>1, <1>2, NoLarger DEF ThreadInv, JobsInv, CancelInv
  <2>3. Counted = Cardinality(jobs) + k + Cardinality(gone)
    BY <1>1, <1>2, <2>1 DEF Counted
  <2>4. Counted' = Cardinality(jobs) + k + 0
    BY <1>2, <1>3, <2>1 DEF Counted
  <2> QED
    BY <1>2, <2>2, <2>3, <2>4 DEF ThreadInv, WaitingInv
<1> QED
  BY <1>4, <1>5, <1>6 DEF ThreadInv

\* It leaves the books, and its caller is let go.
LEMMA CancelEndKeeps == ASSUME ThreadInv, CancelEnd PROVE ThreadInv'
<1>1. PICK gone : gone = stopping.gone
  OBVIOUS
<1>2. /\ stopping.at = "end" /\ books' = books \ gone /\ sender' = sender \ Told(gone)
      /\ UNCHANGED <<jobs, closed, served, turn, submitted, waiting, busy, pc, cur, batch, ended>>
  BY <1>1 DEF CancelEnd, Finished, queueVars, threadVars
<1>3. stopping'.at = "mark"
  BY DEF CancelEnd, ThreadInv, CancelInv
<1>4. gone \subseteq submitted /\ gone \cap jobs = {} /\ cur \notin gone
      /\ \A j \in gone : IsGeneration(j) /\ j.n \notin batch.streams \cup ended
  BY <1>1, <1>2 DEF ThreadInv, CancelInv
<1>5. \A j \in submitted : j.n \in Told(gone) <=> j \in gone
  BY <1>4 DEF ThreadInv, JobsInv, Told
<1>6. JobsInv' /\ PlaceInv' /\ StreamsInv'
  BY <1>2 DEF ThreadInv, JobsInv, PlaceInv, StreamsInv
<1>7. CancelInv'
  BY <1>3 DEF CancelInv
<1>8. WaitingInv'
  BY <1>2, <1>3 DEF ThreadInv, WaitingInv, Counted
<1>9. BooksInv'
  <2>1. \A j \in books' : j \in submitted /\ IsGeneration(j) /\ j.n \notin ended' /\ (j.n \in sender' \/ closed')
    BY <1>2, <1>5 DEF ThreadInv, BooksInv
  <2>2. \A j \in jobs' : IsGeneration(j) => j \in books'
    BY <1>2, <1>4 DEF ThreadInv, BooksInv
  <2>3. IF pc' \in {"clear", "reply"} THEN cur' \notin books' ELSE cur' # NoJob /\ IsGeneration(cur') => cur' \in books'
    BY <1>2, <1>4 DEF ThreadInv, BooksInv
  <2>4. \A j \in submitted' : j.n \in batch'.streams => j \in books'
    BY <1>2, <1>4 DEF ThreadInv, BooksInv
  <2> QED
    BY <1>2, <2>1, <2>2, <2>3, <2>4 DEF BooksInv
<1>10. SenderInv'
  <2>1. sender' \subseteq Told(submitted)
    BY <1>2 DEF ThreadInv, SenderInv
  <2>2. \A j \in jobs' : j.n \in sender'
    BY <1>2, <1>4, <1>5 DEF ThreadInv, SenderInv, JobsInv
  <2>3. cur' # NoJob => cur'.n \in sender'
    BY <1>2, <1>4, <1>5 DEF ThreadInv, SenderInv, JobsInv
  <2>4. batch'.streams \cup ended' \subseteq sender'
    BY <1>2, <1>4 DEF ThreadInv, SenderInv, Told
  <2> QED
    BY <1>2, <1>3, <2>1, <2>2, <2>3, <2>4 DEF SenderInv
<1> QED
  BY <1>6, <1>7, <1>8, <1>9, <1>10 DEF ThreadInv

\* The rest of a cancellation, of which the thread's own books know nothing.
LEMMA CancelMarkKeeps == ASSUME ThreadInv, CancelMark PROVE ThreadInv'
<1>1. /\ stopping.at = "mark" /\ stopping' = NoCancel
      /\ UNCHANGED <<jobs, closed, served, turn, submitted, waiting, busy, books, pc, cur, batch, ended, sender>>
  BY DEF CancelMark, queueVars, callerVars, threadVars, sharedVars
<1>2. stopping'.at = "rest"
  BY <1>1 DEF NoCancel
<1>3. JobsInv' /\ PlaceInv' /\ StreamsInv' /\ CancelInv' /\ WaitingInv' /\ BooksInv' /\ SenderInv'
  BY <1>1, <1>2 DEF ThreadInv, JobsInv, PlaceInv, StreamsInv, CancelInv, WaitingInv, Counted, BooksInv, SenderInv
<1> QED
  BY <1>3 DEF ThreadInv

\* The scheduler is dropped.
LEMMA CloseKeeps == ASSUME ThreadInv, Close PROVE ThreadInv'
<1>1. /\ closed' = TRUE /\ jobs' = {} /\ sender' = sender \ Told(jobs)
      /\ UNCHANGED <<served, turn, submitted, waiting, busy, books, pc, cur, batch, ended, stopping>>
  BY DEF Close, sharedVars, threadVars, cancelVars
<1>2. jobs \subseteq submitted /\ cur \in submitted \cup {NoJob} /\ cur \notin jobs /\ IsFiniteSet(submitted)
  BY DEF ThreadInv, JobsInv
<1>3. \A j \in submitted : j.n \in Told(jobs) => j \in jobs
  BY <1>2 DEF ThreadInv, JobsInv, Told
<1>4. JobsInv' /\ PlaceInv' /\ StreamsInv' /\ CancelInv' /\ BooksInv'
  BY <1>1 DEF ThreadInv, JobsInv, PlaceInv, StreamsInv, CancelInv, BooksInv
<1>5. WaitingInv'
  <2>1. PICK k \in Nat : k = IF pc \in {"busy", "count"} THEN 1 ELSE 0
    OBVIOUS
  <2>2. PICK l : l = IF stopping.at = "count" THEN Cardinality(stopping.gone) ELSE 0
    OBVIOUS
  <2>3. stopping.at = "count" => stopping.gone \subseteq submitted
    BY DEF ThreadInv, CancelInv
  <2>4. l \in Nat /\ Cardinality(jobs) \in Nat
    BY <1>2, <2>2, <2>3, NoLarger
  <2>5. Counted = Cardinality(jobs) + k + l
    BY <2>1, <2>2 DEF Counted
  <2>6. Cardinality({}) = 0
    BY FS_EmptySet
  <2>7. Counted' = 0 + k + l
    BY <1>1, <2>1, <2>2, <2>6 DEF Counted
  <2> QED
    BY <1>1, <2>4, <2>5, <2>7 DEF ThreadInv, WaitingInv
<1>6. SenderInv'
  <2>1. cur' # NoJob => cur'.n \in sender'
    BY <1>1, <1>2, <1>3 DEF ThreadInv, SenderInv
  <2>2. batch'.streams \cup ended' \subseteq sender'
    BY <1>1, <1>2 DEF ThreadInv, SenderInv, StreamsInv, Told
  <2>3. stopping'.at \in {"count", "end"} => Told(stopping'.gone) \subseteq sender'
    <3>1. ASSUME stopping.at \in {"count", "end"} PROVE Told(stopping.gone) \subseteq sender \ Told(jobs)
      <4>1. stopping.gone \subseteq submitted /\ stopping.gone \cap jobs = {} /\ Told(stopping.gone) \subseteq sender
        BY <3>1 DEF ThreadInv, CancelInv, SenderInv
      <4>2. \A j \in stopping.gone : j.n \notin Told(jobs)
        BY <1>3, <4>1
      <4> QED
        BY <4>1, <4>2 DEF Told
    <3> QED
      BY <1>1, <3>1
  <2> QED
    BY <1>1, <2>1, <2>2, <2>3 DEF ThreadInv, SenderInv
<1> QED
  BY <1>4, <1>5, <1>6 DEF ThreadInv

\* A job is taken, to be begun or to join.
LEMMA TakeKeeps ==
    ASSUME ThreadInv, NEW j \in jobs, TakeJob(j),
           \/ pc = "next" /\ pc' = "busy"
           \/ pc = "join" /\ pc' = "count" /\ Fits(j),
           UNCHANGED <<waiting, busy, books, batch, ended, sender, stopping>>
    PROVE  ThreadInv'
<1>1. /\ ~closed /\ jobs' = jobs \ {j} /\ cur' = j /\ UNCHANGED <<closed, submitted>>
      /\ IF IsGeneration(j) THEN turn' = turn + 1 /\ served' = [served EXCEPT ![j.who] = turn + 1]
         ELSE UNCHANGED <<served, turn>>
  BY DEF TakeJob
<1>2. /\ jobs \subseteq submitted /\ j \in submitted /\ IsFiniteSet(submitted) /\ cur = NoJob /\ j # NoJob /\ j \in Job
      /\ pc = "next" => batch = NoBatch /\ ended = {} /\ ~busy
      /\ pc = "join" => batch # NoBatch /\ busy /\ batch.streams # {}
      /\ NoBatch.streams = {}
  <2>1. jobs \subseteq submitted /\ IsFiniteSet(submitted) /\ NoBatch.streams = {}
    BY DEF ThreadInv, JobsInv, NoBatch
  <2>2. j \in Job /\ j # NoJob
    BY <2>1, JobsAreNumbered DEF ThreadInv
  <2>3. cur = NoJob
    BY DEF ThreadInv, PlaceInv, Single, Either
  <2>4. pc = "next" => batch = NoBatch /\ ended = {} /\ ~busy
    BY DEF ThreadInv, PlaceInv, Free, Either, Together
  <2>5. pc = "join" => batch # NoBatch /\ busy /\ batch.streams # {}
    BY DEF ThreadInv, PlaceInv, Free, Either, Together
  <2> QED
    BY <2>1, <2>2, <2>3, <2>4, <2>5
<1>3. JobsInv'
  <2>1. served' \in [Owners -> Nat] /\ turn' \in Nat
    BY <1>1, <1>2 DEF ThreadInv, JobsInv, IsGeneration, Job
  <2>2. jobs' \subseteq submitted' /\ cur' \in submitted' \cup {NoJob} /\ cur' \notin jobs'
    BY <1>1, <1>2
  <2> QED
    BY <1>1, <2>1, <2>2 DEF ThreadInv, JobsInv
<1>4. PlaceInv'
  BY <1>1, <1>2 DEF ThreadInv, PlaceInv, Free, Single, Either, Together
<1>5. StreamsInv'
  <2>1. \A i \in submitted : i.n \in batch.streams \cup ended => i \notin jobs' /\ i # j
    BY <1>1 DEF ThreadInv, StreamsInv
  <2>2. batch # NoBatch => ~batch.private /\ j.kind = "text" /\ j.on = batch.on
    BY <1>2 DEF Fits
  <2> QED
    BY <1>1, <2>1, <2>2 DEF ThreadInv, StreamsInv, Told
<1>6. CancelInv'
  BY <1>1 DEF ThreadInv, CancelInv
<1>7. WaitingInv'
  <2>1. PICK l : l = IF stopping.at = "count" THEN Cardinality(stopping.gone) ELSE 0
    OBVIOUS
  <2>2. stopping.at = "count" => stopping.gone \subseteq submitted
    BY DEF ThreadInv, CancelInv
  <2>3. l \in Nat /\ Cardinality(jobs) \in Nat /\ IsFiniteSet(jobs)
    BY <1>2, <2>1, <2>2, NoLarger
  <2>4. Cardinality(jobs \ {j}) = Cardinality(jobs) - 1
    BY <2>3, FS_RemoveElement
  <2>5. Counted = Cardinality(jobs) + 0 + l
    BY <2>1 DEF Counted
  <2>6. Counted' = Cardinality(jobs \ {j}) + 1 + l
    BY <1>1, <2>1 DEF Counted
  <2>7. Counted' = Counted
    BY <2>3, <2>4, <2>5, <2>6
  <2> QED
    BY <1>1, <2>7 DEF ThreadInv, WaitingInv
<1>8. BooksInv'
  BY <1>1 DEF ThreadInv, BooksInv
<1>9. SenderInv'
  BY <1>1 DEF ThreadInv, SenderInv
<1> QED
  BY <1>3, <1>4, <1>5, <1>6, <1>7, <1>8, <1>9 DEF ThreadInv

\* The thread is marked busy, before the job leaves the waiting count.
LEMMA MarkBusyKeeps == ASSUME ThreadInv, MarkBusy PROVE ThreadInv'
<1>1. /\ pc = "busy" /\ busy' = TRUE /\ pc' = "count"
      /\ UNCHANGED <<jobs, closed, served, turn, submitted, waiting, books, cur, batch, ended, sender, stopping>>
  BY DEF MarkBusy, queueVars, callerVars, cancelVars
<1>2. JobsInv' /\ StreamsInv' /\ CancelInv' /\ BooksInv' /\ SenderInv'
  BY <1>1 DEF ThreadInv, JobsInv, StreamsInv, CancelInv, BooksInv, SenderInv
<1>3. PlaceInv'
  BY <1>1 DEF ThreadInv, PlaceInv, Free, Single, Either, Together
<1>4. WaitingInv'
  BY <1>1 DEF ThreadInv, WaitingInv, Counted
<1> QED
  BY <1>2, <1>3, <1>4 DEF ThreadInv

\* The job leaves the waiting count.
LEMMA CountOutKeeps == ASSUME ThreadInv, CountOut PROVE ThreadInv'
<1>1. /\ pc = "count" /\ waiting' = waiting - 1
      /\ pc' = IF IsText(cur) THEN "admit" ELSE IF cur.kind \in Alones THEN "enter" ELSE cur.kind
      /\ UNCHANGED <<jobs, closed, served, turn, submitted, busy, books, cur, batch, ended, sender, stopping>>
  BY DEF CountOut, queueVars, callerVars, cancelVars
<1>2. cur # NoJob /\ cur \in submitted /\ cur \in Job
  <2>1. cur # NoJob
    BY <1>1 DEF ThreadInv, PlaceInv, Either
  <2>2. cur \in submitted
    BY <2>1 DEF ThreadInv, JobsInv
  <2> QED
    BY <2>1, <2>2, JobsAreNumbered DEF ThreadInv
<1>3. \/ pc' = "admit" /\ IsText(cur)
      \/ pc' = "enter" /\ cur.kind \in Alones /\ ~IsText(cur)
      \/ pc' \in {"load", "unload", "ask"} /\ ~IsGeneration(cur) /\ ~IsText(cur)
  <2>1. cur.kind \in Kinds
    BY <1>2 DEF Job
  <2>2. IsGeneration(cur) <=> cur.kind \in Texts \cup Alones
    BY <1>2 DEF ThreadInv, JobsInv
  <2> QED
    BY <1>1, <2>1, <2>2 DEF Kinds, IsText
<1>4. JobsInv' /\ StreamsInv' /\ CancelInv' /\ SenderInv'
  BY <1>1 DEF ThreadInv, JobsInv, StreamsInv, CancelInv, SenderInv
<1>5. PlaceInv'
  <2>1. batch # NoBatch => IsText(cur)
    BY <1>2 DEF ThreadInv, StreamsInv, IsText, Texts
  <2>2. busy /\ busy'
    BY <1>1 DEF ThreadInv, PlaceInv, Free
  <2> QED
    BY <1>1, <1>2, <1>3, <2>1, <2>2 DEF ThreadInv, PlaceInv, Free, Single, Either, Together
<1>6. WaitingInv'
  <2>1. PICK l : l = IF stopping.at = "count" THEN Cardinality(stopping.gone) ELSE 0
    OBVIOUS
  <2>2. stopping.at = "count" => stopping.gone \subseteq submitted
    BY DEF ThreadInv, CancelInv
  <2>3. l \in Nat /\ Cardinality(jobs) \in Nat
    BY <2>1, <2>2, NoLarger DEF ThreadInv, JobsInv
  <2>4. Counted = Cardinality(jobs) + 1 + l
    BY <1>1, <2>1 DEF Counted
  <2>5. Counted' = Cardinality(jobs) + 0 + l
    BY <1>1, <1>3, <2>1 DEF Counted
  <2> QED
    BY <1>1, <2>3, <2>4, <2>5 DEF ThreadInv, WaitingInv
<1>7. BooksInv'
  BY <1>1, <1>3 DEF ThreadInv, BooksInv
<1> QED
  BY <1>4, <1>5, <1>6, <1>7 DEF ThreadInv

\* A reply joins the batch, or the engine never hears of it.
LEMMA AdmitReplyKeeps == ASSUME ThreadInv, AdmitReply PROVE ThreadInv'
<1>1. PICK b : b = IF batch = NoBatch THEN [on |-> cur.on, private |-> cur.kind = "fresh", streams |-> {}] ELSE batch
  OBVIOUS
<1>2. PICK refuse \in BOOLEAN : refuse <=> b.on \notin slots \/ stop[cur.n]
  OBVIOUS
<1>3. /\ pc = "admit" /\ cur' = NoJob
      /\ pc' = IF batch = NoBatch /\ refuse THEN "settle" ELSE "join"
      /\ IF refuse THEN books' = books \ {cur} /\ ended' = ended \cup {cur.n} /\ UNCHANGED batch
         ELSE batch' = [b EXCEPT !.streams = @ \cup {cur.n}] /\ UNCHANGED <<books, ended>>
      /\ UNCHANGED <<jobs, closed, served, turn, submitted, waiting, busy, sender, stopping>>
  BY <1>1, <1>2 DEF AdmitReply, Finished, queueVars, cancelVars
<1>4. cur # NoJob /\ cur \in submitted /\ cur \in Job /\ IsText(cur) /\ IsGeneration(cur) /\ cur \in books
      /\ cur \notin jobs /\ cur.n \in Ids /\ cur.n \in sender /\ busy
  <2>1. cur # NoJob /\ IsText(cur) /\ busy
    BY <1>3 DEF ThreadInv, PlaceInv, Either, Free
  <2>2. cur \in submitted /\ cur \notin jobs
    BY <2>1 DEF ThreadInv, JobsInv
  <2>3. cur \in Job
    BY <2>2, JobsAreNumbered DEF ThreadInv
  <2>4. IsGeneration(cur)
    BY <2>1, <2>2 DEF ThreadInv, JobsInv, IsText
  <2>5. cur \in books /\ cur.n \in sender
    BY <1>3, <2>1, <2>4 DEF ThreadInv, BooksInv, SenderInv
  <2> QED
    BY <2>1, <2>2, <2>3, <2>4, <2>5 DEF Job
<1>5. \A j \in submitted : j.n = cur.n => j = cur
  BY <1>4 DEF ThreadInv, JobsInv
<1>6. batch \in [on : Key \cup {Everywhere}, private : BOOLEAN, streams : SUBSET Ids] /\ NoBatch.streams = {}
      /\ (batch # NoBatch => batch.streams # {})
  BY <1>3 DEF ThreadInv, PlaceInv, NoBatch
<1>7. JobsInv'
  <2>1. NoJob \notin jobs
    BY JobsAreNumbered DEF ThreadInv, JobsInv
  <2> QED
    BY <1>3, <2>1 DEF ThreadInv, JobsInv
<1>8. WaitingInv'
  BY <1>3 DEF ThreadInv, WaitingInv, Counted
<1>9. CASE refuse
  <2>1. PlaceInv'
    BY <1>3, <1>4, <1>6, <1>9 DEF ThreadInv, PlaceInv, Free, Single, Either, Together
  <2>2. StreamsInv'
    <3>1. batch.streams \cup ended' \subseteq Told(submitted)
      BY <1>3, <1>4, <1>9 DEF ThreadInv, StreamsInv, Told
    <3>2. \A j \in submitted : j.n \in batch.streams \cup ended' => j \notin jobs /\ j # NoJob
      BY <1>3, <1>4, <1>5, <1>9, JobsAreNumbered DEF ThreadInv, StreamsInv
    <3>3. batch # NoBatch => cur.kind = "text" /\ cur.on = batch.on
      BY <1>4 DEF ThreadInv, StreamsInv
    <3>4. batch # NoBatch /\ ~batch.private =>
            \A j \in submitted : j.n \in batch.streams \cup ended' => j.kind = "text" /\ j.on = batch.on
      BY <1>3, <1>5, <1>9, <3>3 DEF ThreadInv, StreamsInv
    <3> QED
      BY <1>3, <1>9, <3>1, <3>2, <3>4 DEF StreamsInv, Told
  <2>3. CancelInv'
    <3>1. stopping.at \in {"count", "end"} => \A j \in stopping.gone : j # cur /\ j \in submitted
      BY DEF ThreadInv, CancelInv
    <3>2. stopping.at \in {"count", "end"} => NoJob \notin stopping.gone
      BY <3>1, JobsAreNumbered DEF ThreadInv
    <3> QED
      BY <1>3, <1>5, <1>9, <3>1, <3>2 DEF ThreadInv, CancelInv
  <2>4. BooksInv'
    <3>1. \A j \in books' : j \in submitted /\ IsGeneration(j) /\ j.n \notin ended' /\ (j.n \in sender' \/ closed')
      BY <1>3, <1>5, <1>9 DEF ThreadInv, BooksInv
    <3>2. \A j \in jobs' : IsGeneration(j) => j \in books'
      BY <1>3, <1>4, <1>9 DEF ThreadInv, BooksInv
    <3>3. \A j \in submitted' : j.n \in batch'.streams => j \in books'
      BY <1>3, <1>9 DEF ThreadInv, BooksInv, StreamsInv
    <3> QED
      BY <1>3, <3>1, <3>2, <3>3 DEF BooksInv
  <2>5. SenderInv'
    BY <1>3, <1>4, <1>9 DEF ThreadInv, SenderInv
  <2> QED
    BY <1>7, <1>8, <2>1, <2>2, <2>3, <2>4, <2>5 DEF ThreadInv
<1>10. CASE ~refuse
  <2>1. b \in [on : Key \cup {Everywhere}, private : BOOLEAN, streams : SUBSET Ids] /\ b.streams = batch.streams
        /\ (batch # NoBatch => b = batch)
        /\ (batch = NoBatch => b.on = cur.on /\ (b.private <=> cur.kind = "fresh"))
    BY <1>1, <1>4, <1>6 DEF Job
  <2>2. /\ batch' \in [on : Key \cup {Everywhere}, private : BOOLEAN, streams : SUBSET Ids]
        /\ batch'.on = b.on /\ batch'.private = b.private /\ batch'.streams = batch.streams \cup {cur.n}
        /\ pc' = "join" /\ UNCHANGED <<books, ended>>
    BY <1>3, <1>4, <1>10, <2>1
  <2>3. batch' # NoBatch
    BY <1>6, <2>2
  <2>4. PlaceInv'
    BY <1>3, <1>4, <2>2, <2>3 DEF ThreadInv, PlaceInv, Free, Single, Either, Together
  <2>5. StreamsInv'
    <3>1. batch'.streams \cup ended' \subseteq Told(submitted)
      BY <1>4, <2>2 DEF ThreadInv, StreamsInv, Told
    <3>2. \A j \in submitted : j.n \in batch'.streams \cup ended' => j \notin jobs /\ j # NoJob
      BY <1>4, <1>5, <2>2, JobsAreNumbered DEF ThreadInv, StreamsInv
    <3>3. ~batch'.private => cur.kind = "text" /\ cur.on = batch'.on
      BY <1>4, <2>1, <2>2 DEF ThreadInv, StreamsInv, IsText, Texts
    <3>4. batch = NoBatch => batch.streams \cup ended = {}
      BY <1>3, <1>6 DEF ThreadInv, PlaceInv
    <3>5. ~batch'.private =>
            \A j \in submitted : j.n \in batch.streams \cup ended => j.kind = "text" /\ j.on = batch'.on
      BY <2>1, <2>2, <3>4 DEF ThreadInv, StreamsInv
    <3>6. ~batch'.private =>
            \A j \in submitted : j.n \in batch'.streams \cup ended' => j.kind = "text" /\ j.on = batch'.on
      BY <1>5, <2>2, <3>3, <3>5
    <3> QED
      BY <1>3, <3>1, <3>2, <3>6 DEF StreamsInv, Told
  <2>6. CancelInv'
    <3>1. stopping.at \in {"count", "end"} => \A j \in stopping.gone : j # cur /\ j \in submitted
      BY DEF ThreadInv, CancelInv
    <3>2. stopping.at \in {"count", "end"} => NoJob \notin stopping.gone
      BY <3>1, JobsAreNumbered DEF ThreadInv
    <3> QED
      BY <1>3, <1>5, <2>2, <3>1, <3>2 DEF ThreadInv, CancelInv
  <2>7. BooksInv'
    <3>1. \A j \in submitted' : j.n \in batch'.streams => j \in books'
      BY <1>3, <1>4, <1>5, <2>2 DEF ThreadInv, BooksInv
    <3> QED
      BY <1>3, <2>2, <3>1 DEF ThreadInv, BooksInv
  <2>8. SenderInv'
    BY <1>3, <1>4, <2>2 DEF ThreadInv, SenderInv
  <2> QED
    BY <1>7, <1>8, <2>4, <2>5, <2>6, <2>7, <2>8 DEF ThreadInv
<1> QED
  BY <1>9, <1>10

\* Nobody joins.
LEMMA JoinNobodyKeeps == ASSUME ThreadInv, JoinNobody PROVE ThreadInv'
<1>1. /\ pc = "join" /\ pc' = "pump"
      /\ UNCHANGED <<jobs, closed, served, turn, submitted, waiting, busy, books, cur, batch, ended, sender, stopping>>
  BY DEF JoinNobody, queueVars, callerVars, cancelVars, sharedVars
<1>2. PlaceInv'
  BY <1>1 DEF ThreadInv, PlaceInv, Free, Single, Either, Together
<1>3. JobsInv' /\ StreamsInv' /\ CancelInv' /\ WaitingInv' /\ BooksInv' /\ SenderInv'
  BY <1>1 DEF ThreadInv, JobsInv, StreamsInv, CancelInv, WaitingInv, Counted, BooksInv, SenderInv
<1> QED
  BY <1>2, <1>3 DEF ThreadInv

\* A round of the batch.
LEMMA PumpKeeps == ASSUME ThreadInv, Pump PROVE ThreadInv'
<1>1. PICK over \in SUBSET batch.streams :
            /\ books' = books \ {j \in books : j.n \in over}
            /\ ended' = ended \cup over
            /\ batch' = [batch EXCEPT !.streams = @ \ over]
  <2>1. Ending \in SUBSET batch.streams
    BY DEF Ending
  <2> QED
    BY <2>1 DEF Pump, Finished
<1>2. /\ pc = "pump" /\ pc' = "settle"
      /\ UNCHANGED <<jobs, closed, served, turn, submitted, waiting, busy, cur, sender, stopping>>
  BY DEF Pump, queueVars, cancelVars
<1>3. cur = NoJob /\ busy /\ batch # NoBatch /\ batch.streams # {}
      /\ batch \in [on : Key \cup {Everywhere}, private : BOOLEAN, streams : SUBSET Ids]
  <2>1. cur = NoJob
    BY <1>2 DEF ThreadInv, PlaceInv, Single, Either
  <2>2. busy /\ batch # NoBatch
    BY <1>2 DEF ThreadInv, PlaceInv, Free
  <2>3. batch.streams # {}
    BY <1>2, <2>2 DEF ThreadInv, PlaceInv
  <2> QED
    BY <2>1, <2>2, <2>3 DEF ThreadInv, PlaceInv
<1>4. /\ batch' \in [on : Key \cup {Everywhere}, private : BOOLEAN, streams : SUBSET Ids]
      /\ batch'.on = batch.on /\ batch'.private = batch.private /\ batch'.streams = batch.streams \ over
  BY <1>1, <1>3
<1>5. batch'.streams \cup ended' = batch.streams \cup ended
  BY <1>1, <1>4
<1>6. JobsInv' /\ WaitingInv'
  BY <1>2 DEF ThreadInv, JobsInv, WaitingInv, Counted
<1>7. PlaceInv'
  <2>1. ended' \subseteq Ids
    BY <1>1, <1>3 DEF ThreadInv, PlaceInv
  <2> QED
    BY <1>2, <1>3, <1>4, <1>5, <2>1 DEF PlaceInv, Free, Single, Either, Together
<1>8. StreamsInv' /\ CancelInv' /\ SenderInv'
  BY <1>2, <1>3, <1>4, <1>5 DEF ThreadInv, StreamsInv, CancelInv, SenderInv, Told
<1>9. BooksInv'
  <2>1. \A j \in books' : j \in submitted' /\ IsGeneration(j) /\ j.n \notin ended' /\ (j.n \in sender' \/ closed')
    BY <1>1, <1>2 DEF ThreadInv, BooksInv
  <2>2. \A j \in jobs' : IsGeneration(j) => j \in books'
    BY <1>1, <1>2 DEF ThreadInv, BooksInv, StreamsInv, JobsInv
  <2>3. \A j \in submitted' : j.n \in batch'.streams => j \in books'
    BY <1>1, <1>2, <1>4 DEF ThreadInv, BooksInv
  <2> QED
    BY <1>2, <1>3, <2>1, <2>2, <2>3 DEF BooksInv
<1> QED
  BY <1>6, <1>7, <1>8, <1>9 DEF ThreadInv

\* Busy is settled.
LEMMA SettleKeeps == ASSUME ThreadInv, Settle PROVE ThreadInv'
<1>1. /\ pc = "settle" /\ pc' = "drop"
      /\ IF batch.streams = {} THEN ~busy' /\ busy' \in BOOLEAN /\ batch' = NoBatch ELSE UNCHANGED <<busy, batch>>
      /\ UNCHANGED <<jobs, closed, served, turn, submitted, waiting, books, cur, ended, sender, stopping>>
  BY DEF Settle, queueVars, callerVars, cancelVars
<1>2. NoBatch \in [on : Key \cup {Everywhere}, private : BOOLEAN, streams : SUBSET Ids] /\ NoBatch.streams = {}
  BY DEF NoBatch
<1>3. busy /\ cur = NoJob
  BY <1>1 DEF ThreadInv, PlaceInv, Single, Either, Free
<1>4. PlaceInv'
  <2>1. pc' \in Together /\ pc' \notin Free \cup Single \cup Either
    BY <1>1 DEF Free, Single, Either, Together
  <2>2. batch' \in [on : Key \cup {Everywhere}, private : BOOLEAN, streams : SUBSET Ids] /\ ended' \subseteq Ids
    BY <1>1, <1>2 DEF ThreadInv, PlaceInv
  <2>3. busy' <=> batch' # NoBatch
    BY <1>1, <1>2, <1>3
  <2>4. batch' # NoBatch => batch'.streams # {}
    BY <1>1
  <2> QED
    BY <1>1, <1>3, <2>1, <2>2, <2>3, <2>4 DEF PlaceInv, Free
<1>5. JobsInv' /\ WaitingInv' /\ CancelInv' /\ BooksInv' /\ SenderInv'
  BY <1>1, <1>2 DEF ThreadInv, JobsInv, WaitingInv, Counted, CancelInv, BooksInv, SenderInv
<1>6. StreamsInv'
  BY <1>1, <1>2, <1>3 DEF ThreadInv, StreamsInv, Told
<1> QED
  BY <1>4, <1>5, <1>6 DEF ThreadInv

\* The callers of the replies that are over are let go.
LEMMA DropEndedKeeps == ASSUME ThreadInv, DropEnded PROVE ThreadInv'
<1>1. /\ pc = "drop" /\ sender' = sender \ ended /\ ended' = {}
      /\ pc' = IF batch = NoBatch THEN "next" ELSE "join"
      /\ UNCHANGED <<jobs, closed, served, turn, submitted, waiting, busy, books, cur, batch, stopping>>
  BY DEF DropEnded, queueVars, cancelVars, sharedVars
<1>2. cur = NoJob
  BY <1>1 DEF ThreadInv, PlaceInv, Single, Either
<1>3. JobsInv' /\ StreamsInv' /\ CancelInv'
  BY <1>1 DEF ThreadInv, JobsInv, StreamsInv, CancelInv, Told
<1>4. PlaceInv'
  BY <1>1, <1>2 DEF ThreadInv, PlaceInv, Free, Single, Either, Together
<1>5. WaitingInv'
  BY <1>1 DEF ThreadInv, WaitingInv, Counted
<1>6. BooksInv'
  BY <1>1, <1>2 DEF ThreadInv, BooksInv
<1>7. SenderInv'
  <2>1. \A j \in jobs : j.n \in sender'
    BY <1>1 DEF ThreadInv, SenderInv, StreamsInv, JobsInv
  <2>2. batch.streams \subseteq sender'
    <3>1. \A j \in submitted : j.n \in batch.streams => j.n \notin ended
      BY DEF ThreadInv, BooksInv
    <3>2. batch.streams \cap ended = {}
      BY <3>1 DEF ThreadInv, StreamsInv, Told
    <3> QED
      BY <1>1, <3>2 DEF ThreadInv, SenderInv
  <2>3. stopping.at \in {"count", "end"} => Told(stopping.gone) \subseteq sender'
    BY <1>1 DEF ThreadInv, SenderInv, CancelInv, Told
  <2> QED
    BY <1>1, <1>2, <2>1, <2>2, <2>3 DEF ThreadInv, SenderInv
<1> QED
  BY <1>3, <1>4, <1>5, <1>6, <1>7 DEF ThreadInv

\* What ran alone leaves the books.
LEMMA FinishAloneKeeps == ASSUME ThreadInv, FinishAlone PROVE ThreadInv'
<1>1. /\ pc = "finish" /\ pc' = "clear" /\ books' = books \ {cur}
      /\ UNCHANGED <<jobs, closed, served, turn, submitted, waiting, busy, cur, batch, ended, sender, stopping>>
  BY DEF FinishAlone, Finished, queueVars, callerVars, cancelVars
<1>2. batch.streams = {}
  BY <1>1 DEF ThreadInv, PlaceInv, Either, Together, NoBatch
<1>3. JobsInv' /\ StreamsInv' /\ CancelInv' /\ SenderInv'
  BY <1>1 DEF ThreadInv, JobsInv, StreamsInv, CancelInv, SenderInv
<1>4. PlaceInv'
  BY <1>1 DEF ThreadInv, PlaceInv, Free, Single, Either, Together
<1>5. WaitingInv'
  BY <1>1 DEF ThreadInv, WaitingInv, Counted
<1>6. BooksInv'
  BY <1>1, <1>2 DEF ThreadInv, BooksInv, JobsInv
<1> QED
  BY <1>3, <1>4, <1>5, <1>6 DEF ThreadInv

\* Busy is clear.
LEMMA ClearBusyKeeps == ASSUME ThreadInv, ClearBusy PROVE ThreadInv'
<1>1. /\ pc = "clear" /\ pc' = "reply" /\ busy' = FALSE
      /\ UNCHANGED <<jobs, closed, served, turn, submitted, waiting, books, cur, batch, ended, sender, stopping>>
  BY DEF ClearBusy, queueVars, callerVars, cancelVars
<1>2. PlaceInv'
  BY <1>1 DEF ThreadInv, PlaceInv, Free, Single, Either, Together
<1>3. JobsInv' /\ StreamsInv' /\ CancelInv' /\ WaitingInv' /\ SenderInv'
  BY <1>1 DEF ThreadInv, JobsInv, StreamsInv, CancelInv, WaitingInv, Counted, SenderInv
<1>4. BooksInv'
  BY <1>1 DEF ThreadInv, BooksInv
<1> QED
  BY <1>2, <1>3, <1>4 DEF ThreadInv

\* The caller has its answer.
LEMMA ReplyKeeps == ASSUME ThreadInv, Reply PROVE ThreadInv'
<1>1. /\ pc = "reply" /\ pc' = "next" /\ sender' = sender \ {cur.n} /\ cur' = NoJob
      /\ UNCHANGED <<jobs, closed, served, turn, submitted, waiting, busy, books, batch, ended, stopping>>
  BY DEF Reply, queueVars, cancelVars, sharedVars
<1>2. cur \in submitted /\ cur \notin jobs /\ cur \notin books /\ batch = NoBatch /\ ended = {} /\ NoBatch.streams = {}
  <2>1. cur \in submitted
    BY <1>1 DEF ThreadInv, PlaceInv, JobsInv, Single
  <2>2. batch = NoBatch /\ ended = {}
    BY <1>1 DEF ThreadInv, PlaceInv, Either, Together
  <2> QED
    BY <1>1, <2>1, <2>2 DEF ThreadInv, JobsInv, BooksInv, NoBatch
<1>3. \A j \in submitted : j.n = cur.n => j = cur
  BY <1>2 DEF ThreadInv, JobsInv
<1>4. \A j \in submitted : j # NoJob
  BY JobsAreNumbered DEF ThreadInv
<1>5. JobsInv' /\ CancelInv'
  BY <1>1, <1>4 DEF ThreadInv, JobsInv, CancelInv
<1>6. PlaceInv'
  BY <1>1, <1>2 DEF ThreadInv, PlaceInv, Free, Single, Either, Together
<1>7. StreamsInv'
  BY <1>1, <1>2 DEF ThreadInv, StreamsInv
<1>8. WaitingInv'
  BY <1>1 DEF ThreadInv, WaitingInv, Counted
<1>9. BooksInv'
  BY <1>1, <1>2, <1>3 DEF ThreadInv, BooksInv
<1>10. SenderInv'
  <2>1. \A j \in jobs : j.n \in sender'
    BY <1>1, <1>2, <1>3 DEF ThreadInv, SenderInv, JobsInv
  <2>2. stopping.at \in {"count", "end"} => Told(stopping.gone) \subseteq sender'
    <3>1. ASSUME stopping.at \in {"count", "end"} PROVE Told(stopping.gone) \subseteq sender'
      <4>1. stopping.gone \subseteq submitted /\ cur \notin stopping.gone /\ Told(stopping.gone) \subseteq sender
        BY <3>1 DEF ThreadInv, CancelInv, SenderInv
      <4> QED
        BY <1>1, <1>3, <4>1 DEF Told
    <3> QED
      BY <3>1
  <2> QED
    BY <1>1, <1>2, <2>1, <2>2 DEF ThreadInv, SenderInv
<1> QED
  BY <1>5, <1>6, <1>7, <1>8, <1>9, <1>10 DEF ThreadInv

\* The thread ends, with the queue.
LEMMA EndKeeps == ASSUME ThreadInv, End PROVE ThreadInv'
<1>1. /\ pc = "next" /\ pc' = "over"
      /\ UNCHANGED <<jobs, closed, served, turn, submitted, waiting, busy, books, cur, batch, ended, sender, stopping>>
  BY DEF End, queueVars, callerVars, cancelVars, sharedVars
<1>2. PlaceInv'
  BY <1>1 DEF ThreadInv, PlaceInv, Free, Single, Either, Together
<1>3. JobsInv' /\ StreamsInv' /\ CancelInv' /\ WaitingInv' /\ BooksInv' /\ SenderInv'
  BY <1>1 DEF ThreadInv, JobsInv, StreamsInv, CancelInv, WaitingInv, Counted, BooksInv, SenderInv
<1> QED
  BY <1>2, <1>3 DEF ThreadInv

\* A step of the thread on its own with the job it has, of which the others
\* see nothing.
LEMMA AloneKeeps ==
    ASSUME ThreadInv, EnterAlone \/ BeginAlone \/ DrainEvent \/ HandOver
    PROVE  ThreadInv'
<1>1. UNCHANGED <<jobs, closed, served, turn, submitted, waiting, busy, books, cur, batch, ended, sender, stopping>>
  BY DEF EnterAlone, BeginAlone, DrainEvent, HandOver, queueVars, callerVars, cancelVars, sharedVars
<1>2. pc \in {"enter", "begin", "drain", "hand"} /\ pc' \in {"begin", "drain", "hand", "finish"}
  BY DEF EnterAlone, BeginAlone, DrainEvent, HandOver, Onward
<1>3. cur.kind \in Alones
  BY <1>2 DEF ThreadInv, PlaceInv
<1> QED
  BY <1>1, <1>2, <1>3, ThreadGoesOn DEF Onwards, Single

\* And one with a job that is no generation.
LEMMA AsideKeeps ==
    ASSUME ThreadInv,
           PutQuestion \/ AwaitAnswer \/ StartLoad \/ EndLoad \/ StartUnload \/ SendUnload \/ EndUnload
    PROVE  ThreadInv'
<1>1. UNCHANGED <<jobs, closed, served, turn, submitted, waiting, busy, books, cur, batch, ended, sender, stopping>>
  BY DEF PutQuestion, AwaitAnswer, StartLoad, EndLoad, StartUnload, SendUnload, EndUnload,
         queueVars, callerVars, cancelVars, sharedVars
<1>2. /\ pc \in {"ask", "await", "load", "loading", "unload", "leaving", "left"}
      /\ pc' \in {"clear", "await", "loading", "leaving", "left"}
  BY DEF PutQuestion, AwaitAnswer, StartLoad, EndLoad, StartUnload, SendUnload, EndUnload, Answer
<1>3. ~IsGeneration(cur)
  BY <1>2 DEF ThreadInv, PlaceInv
<1> QED
  BY <1>1, <1>2, <1>3, ThreadGoesOn DEF Onwards, Single

\* A step of the thread keeps it.
LEMMA ThreadKeeps == ASSUME ThreadInv, Thread PROVE ThreadInv'
<1>1. ASSUME NEW j \in jobs, TakeNext(j) PROVE ThreadInv'
  BY <1>1, TakeKeeps DEF TakeNext, callerVars, cancelVars, sharedVars
<1>2. ASSUME NEW j \in jobs, Join(j) PROVE ThreadInv'
  BY <1>2, TakeKeeps DEF Join, callerVars, cancelVars, sharedVars
<1>3. DrainQuiet => ThreadInv'
  BY ThreadStays DEF DrainQuiet, threadInvVars, queueVars, callerVars, threadVars, cancelVars, sharedVars
<1> QED
  BY <1>1, <1>2, <1>3, MarkBusyKeeps, CountOutKeeps, EndKeeps, AdmitReplyKeeps, JoinNobodyKeeps, PumpKeeps,
     SettleKeeps, DropEndedKeeps, AloneKeeps, FinishAloneKeeps, ClearBusyKeeps, ReplyKeeps, AsideKeeps
     DEF Thread

\* Every step keeps it.
LEMMA ThreadNext == ASSUME ThreadInv, [Next]_vars PROVE ThreadInv'
<1>1. ASSUME NEW i \in Ids, Read(i) \/ Leave(i) \/ Trail(i) PROVE ThreadInv'
  BY <1>1, ThreadStays DEF Read, Leave, Trail, threadInvVars, queueVars, threadVars, cancelVars, sharedVars
<1>2. ASSUME NEW k \in Key, EngineStep(k) PROVE ThreadInv'
  BY <1>2, ThreadStays DEF EngineStep, threadInvVars, queueVars, callerVars, threadVars, cancelVars, sharedVars
<1>3. CASE UNCHANGED vars
  BY <1>3, ThreadStays DEF vars, threadInvVars, queueVars, callerVars, threadVars, cancelVars, sharedVars
<1>4. Cancelling => ThreadInv'
  BY CancelCountKeeps, CancelEndKeeps, CancelMarkKeeps DEF Cancelling
<1> QED
  BY <1>1, <1>2, <1>3, <1>4, SubmitKeeps, CancelWaitingKeeps, CloseKeeps, ThreadKeeps DEF Next

\* So it is so of every state.
LEMMA ThreadInvariant == Spec => []ThreadInv
<1>1. Init => ThreadInv
  BY ThreadInit
<1>2. ThreadInv /\ [Next]_vars => ThreadInv'
  BY ThreadNext
<1> QED
  BY <1>1, <1>2, PTL DEF Spec

(***************************************************************************)
(* What clients are shown, and what can be stopped                         *)
(***************************************************************************)

\* A generation is in the books as long as its caller's stream is open and no
\* longer: through every interleaving of `generate`, `cancel` and the thread
\* it can be found to be stopped until it is over (`Shared::live`).
THEOREM BooksTheorem == Spec => []BooksMatchStreams
<1>1. ThreadInv => BooksMatchStreams
  <2> SUFFICES ASSUME ThreadInv, NEW j \in submitted, IsGeneration(j)
               PROVE  /\ j \in books => j.n \in sender \/ closed
                      /\ j \in jobs \cup {cur} /\ pc \notin {"clear", "reply"} => j \in books
                      /\ j.n \in batch.streams => j \in books
    BY DEF BooksMatchStreams
  <2>1. j # NoJob
    BY JobsAreNumbered DEF ThreadInv
  <2> QED
    BY <2>1 DEF ThreadInv, BooksInv
<1> QED
  BY <1>1, ThreadInvariant, PTL

\* As many jobs as are not over have callers who wait.
LEMMA EachHasACaller ==
    ASSUME JobsInv, SenderInv, NEW S \in SUBSET submitted, \A j \in S : j.n \in sender
    PROVE  IsFiniteSet(S) /\ Cardinality(S) \in Nat /\ Cardinality(sender) \in Nat /\ Cardinality(S) <= Cardinality(sender)
<1>1. IsFiniteSet(sender)
  <2>1. sender \subseteq Ids
    BY DEF JobsInv, SenderInv, Told, Job
  <2>2. IsFiniteSet(Ids)
    BY SchedulerAssumption, UpToCount
  <2> QED
    BY <2>1, <2>2, NoLarger
<1>2. PICK f : f = [j \in S |-> j.n]
  OBVIOUS
<1>3. f \in [S -> sender] /\ \A i, j \in S : f[i] = f[j] => i = j
  BY <1>2 DEF JobsInv
<1>4. f \in Injection(S, sender)
  BY <1>3 DEF Injection, IsInjective
<1> QED
  BY <1>1, <1>4, FS_Injection, FS_CardinalityType

\* The thread is busy with something whose caller waits.
LEMMA BusyWithSomething ==
    ASSUME ThreadInv, busy \/ pc = "busy"
    PROVE  \E x \in submitted : /\ x \notin jobs /\ x.n \in sender
                                /\ stopping.at = "count" => x \notin stopping.gone
<1>1. CASE cur # NoJob
  BY <1>1 DEF ThreadInv, JobsInv, SenderInv, CancelInv
<1>2. CASE cur = NoJob
  <2>1. batch.streams \cup ended # {}
    BY <1>2 DEF ThreadInv, PlaceInv, Free, Single, Either, Together
  <2>2. PICK i : i \in batch.streams \cup ended
    BY <2>1
  <2>3. PICK x \in submitted : x.n = i
    BY <2>2 DEF ThreadInv, StreamsInv, Told
  <2> QED
    BY <2>2, <2>3 DEF ThreadInv, StreamsInv, SenderInv, CancelInv
<1> QED
  BY <1>1, <1>2

\* The queue's depth that clients are shown (`waiting`, and one if `busy`)
\* counts every job there is, and no caller's that has had its end, but for
\* the moment in which a job is both busy and not yet counted out.
THEOREM DepthTheorem == Spec => []DepthIsHonest
<1>1. ThreadInv => DepthIsHonest
  <2> SUFFICES ASSUME ThreadInv PROVE DepthIsHonest
    OBVIOUS
  <2>1. PICK gone : gone = IF stopping.at = "count" THEN stopping.gone ELSE {}
    OBVIOUS
  <2>2. gone \subseteq submitted /\ jobs \subseteq submitted /\ IsFiniteSet(submitted) /\ gone \cap jobs = {}
    BY <2>1 DEF ThreadInv, JobsInv, CancelInv
  <2>3. PICK l : l = Cardinality(gone)
    OBVIOUS
  <2>4. PICK m : m = Cardinality(jobs)
    OBVIOUS
  <2>5. l \in Nat /\ m \in Nat /\ IsFiniteSet(jobs) /\ IsFiniteSet(gone)
    BY <2>2, <2>3, <2>4, NoLarger
  <2>6. (IF stopping.at = "count" THEN Cardinality(stopping.gone) ELSE 0) = l
    BY <2>1, <2>3, FS_EmptySet
  <2>7. Counted = m + (IF pc \in {"busy", "count"} THEN 1 ELSE 0) + l
    BY <2>4, <2>6 DEF Counted
  <2>8. waiting \in Nat /\ waiting >= Counted /\ (~closed => waiting = Counted)
    BY DEF ThreadInv, WaitingInv
  <2>9. UnderWay => busy \/ pc = "busy"
    <3>1. NoBatch.streams = {}
      BY DEF NoBatch
    <3> QED
      BY <3>1 DEF UnderWay, ThreadInv, PlaceInv, Free, Single, Either, Together
  <2>10. busy => pc # "busy"
    BY DEF ThreadInv, PlaceInv
  <2>11. waiting + (IF busy THEN 1 ELSE 0) >= m + (IF UnderWay THEN 1 ELSE 0)
    BY <2>5, <2>7, <2>8, <2>9
  <2>12. ASSUME ~closed, pc # "count" PROVE waiting + (IF busy THEN 1 ELSE 0) <= Cardinality(sender)
    <3>1. PICK S : S = jobs \cup gone
      OBVIOUS
    <3>2. IsFiniteSet(S) /\ Cardinality(S) = m + l
      <4>1. jobs \cap gone = {} /\ Cardinality({}) = 0
        BY <2>2, FS_EmptySet
      <4>2. PICK none : none = jobs \cap gone
        OBVIOUS
      <4>3. IsFiniteSet(S) /\ Cardinality(S) = Cardinality(jobs) + Cardinality(gone) - Cardinality(none)
        BY <2>5, <3>1, <4>2, FS_Union, Zenon
      <4>4. Cardinality(none) = 0
        BY <4>1, <4>2
      <4> QED
        BY <2>3, <2>4, <2>5, <4>3, <4>4
    <3>3. S \subseteq submitted /\ \A j \in S : j.n \in sender
      BY <2>1, <2>2, <3>1 DEF ThreadInv, SenderInv, Told
    <3>4. CASE busy \/ pc = "busy"
      <4>1. PICK x \in submitted : x \notin jobs /\ x.n \in sender /\ (stopping.at = "count" => x \notin stopping.gone)
        BY <3>4, BusyWithSomething
      <4>2. x \notin S
        BY <2>1, <3>1, <4>1
      <4>3. Cardinality(S \cup {x}) = m + l + 1
        BY <3>2, <4>2, FS_AddElement
      <4>4. m + l + 1 <= Cardinality(sender) /\ Cardinality(sender) \in Nat
        BY <3>3, <4>1, <4>3, EachHasACaller DEF ThreadInv
      <4> QED
        BY <2>5, <2>7, <2>8, <2>10, <2>12, <3>4, <4>4
    <3>5. CASE ~busy /\ pc # "busy"
      <4>1. m + l <= Cardinality(sender) /\ Cardinality(sender) \in Nat
        BY <3>2, <3>3, EachHasACaller DEF ThreadInv
      <4> QED
        BY <2>5, <2>7, <2>8, <2>12, <3>5, <4>1
    <3> QED
      BY <3>4, <3>5
  <2> QED
    BY <2>4, <2>11, <2>12 DEF DepthIsHonest
<1> QED
  BY <1>1, ThreadInvariant, PTL

(***************************************************************************)
(* The promises                                                            *)
(***************************************************************************)

\* What is over: those that ended, or left the queue unstarted.
Over == submitted \ (jobs \cup Running)
promisedVars == <<jobs, Running, Over, served, turn>>
PromisedStep == [Promised!Next]_promisedVars

\* Whose turn it is is the same to both.
LEMMA SameTurn ==
    ASSUME NEW j
    PROVE  /\ IsGeneration(j) <=> Promised!IsGeneration(j)
           /\ IsTurn(jobs, served, j) <=> Promised!IsTurn(jobs, served, j)
<1>1. \A i : IsGeneration(i) <=> Promised!IsGeneration(i)
  BY DEF IsGeneration, Promised!IsGeneration
<1>2. Stretch(jobs) = Promised!Stretch(jobs)
  BY <1>1 DEF Stretch, Promised!Stretch
<1>3. Candidates(jobs) = Promised!Candidates(jobs)
  BY <1>2 DEF Candidates, Promised!Candidates
<1>4. \A i, k : GoesBefore(served, i, k) <=> Promised!GoesBefore(served, i, k)
  BY DEF GoesBefore, Promised!GoesBefore
<1> QED
  BY <1>1, <1>2, <1>3, <1>4 DEF IsTurn, Promised!IsTurn

\* What runs was taken from the queue.
LEMMA RunningLeft ==
    ASSUME ThreadInv
    PROVE  /\ Running \subseteq submitted /\ jobs \subseteq submitted /\ Running \cap jobs = {}
           /\ NoJob \notin submitted
BY JobsAreNumbered DEF ThreadInv, JobsInv, StreamsInv, Running

\* Where nothing changes of the jobs, they all stay where they are.
LEMMA PromiseStays ==
    ASSUME UNCHANGED <<jobs, served, turn, submitted, cur>>,
           batch'.streams \cup ended' = batch.streams \cup ended
    PROVE  PromisedStep
<1>1. Running' = Running
  BY DEF Running
<1>2. Over' = Over
  BY <1>1 DEF Over
<1> QED
  BY <1>1, <1>2 DEF PromisedStep, promisedVars

\* One enters.
LEMMA SubmitPromised ==
    ASSUME ThreadInv, NEW who \in Asked \cup {NoTicket}, NEW item \in Menu, Submit(who, item)
    PROVE  PromisedStep
<1>1. PICK n, j : n = Cardinality(submitted) + 1 /\ j = [n |-> n, who |-> who, kind |-> item.kind, on |-> item.on]
  OBVIOUS
<1>2. /\ n <= MaxArrivals
      /\ jobs' = jobs \cup {j} /\ submitted' = submitted \cup {j}
      /\ UNCHANGED <<served, turn, cur, batch, ended>>
  BY <1>1 DEF Submit, threadVars
<1>3. Cardinality(submitted) \in Nat /\ \A i \in submitted : i.n \in Nat /\ i.n <= Cardinality(submitted)
  BY JobsAreNumbered DEF ThreadInv
<1>4. j \in Job /\ j.n = n /\ n # 0
  <2>1. item.kind \in Kinds /\ item.on \in Key \cup {Everywhere} /\ who \in Owners \cup {NoTicket}
    BY SchedulerAssumption
  <2>2. n \in Ids
    BY <1>1, <1>2, <1>3, SchedulerAssumption
  <2> QED
    BY <1>1, <1>3, <2>1, <2>2 DEF Job
<1>5. j \notin submitted /\ \A i \in submitted : i.n < n
  BY <1>1, <1>3, <1>4
<1>6. j # cur /\ n \notin batch.streams \cup ended
  BY <1>4, <1>5 DEF ThreadInv, JobsInv, StreamsInv, Told, NoJob
<1>7. Running' = Running
  BY <1>2, <1>4, <1>6 DEF Running
<1>8. Over' = Over
  BY <1>2, <1>5, <1>7, RunningLeft DEF Over
<1>9. Promised!Enter(j)
  BY <1>2, <1>4, <1>5, <1>7, <1>8, RunningLeft DEF Promised!Enter, Over
<1> QED
  BY <1>4, <1>9 DEF PromisedStep, Promised!Next, Job

\* Some leave the queue unstarted.
LEMMA LeavePromised ==
    ASSUME ThreadInv, NEW gone \in SUBSET jobs, jobs' = jobs \ gone,
           gone = jobs \/ \E who \in Owners : \A j \in gone : j.who = who,
           UNCHANGED <<served, turn, submitted, cur, batch, ended>>
    PROVE  PromisedStep
<1>1. Running' = Running
  BY DEF Running
<1>2. Over' = Over \cup gone
  BY <1>1, RunningLeft DEF Over
<1>3. CASE gone = {}
  <2>1. Over' = Over /\ jobs' = jobs
    BY <1>2, <1>3
  <2> QED
    BY <1>1, <2>1 DEF PromisedStep, promisedVars
<1>4. CASE gone # {}
  <2>1. gone = jobs \/ \E who \in Owners : gone \subseteq Promised!Theirs(jobs, who)
    BY DEF Promised!Theirs
  <2>2. Promised!LeaveUnstarted(gone)
    BY <1>1, <1>2, <2>1 DEF Promised!LeaveUnstarted, Over, Owners, Promised!Owners
  <2> QED
    BY <1>4, <2>2 DEF PromisedStep, Promised!Next
<1> QED
  BY <1>3, <1>4

\* One starts, beside none or beside replies it shares their resident with.
LEMMA TakePromised ==
    ASSUME ThreadInv, NEW j \in jobs, TakeJob(j), pc = "next" \/ (pc = "join" /\ Fits(j)),
           UNCHANGED <<batch, ended>>
    PROVE  PromisedStep
<1>1. /\ IsTurn(jobs, served, j) /\ jobs' = jobs \ {j} /\ cur' = j /\ UNCHANGED submitted
      /\ IF IsGeneration(j) THEN turn' = turn + 1 /\ served' = [served EXCEPT ![j.who] = turn + 1]
         ELSE UNCHANGED <<served, turn>>
  BY DEF TakeJob
<1>2. cur = NoJob
  BY DEF ThreadInv, PlaceInv, Single, Either
<1>3. \A i \in Running : Promised!Shares(i, j)
  <2>1. CASE pc = "next"
    <3>1. batch.streams = {} /\ ended = {}
      BY <2>1 DEF ThreadInv, PlaceInv, Either, Together, NoBatch
    <3>2. Running = {}
      BY <1>2, <3>1, RunningLeft DEF Running
    <3> QED
      BY <3>2
  <2>2. CASE pc = "join" /\ Fits(j)
    <3>1. batch # NoBatch /\ ~batch.private /\ j.kind = "text" /\ j.on = batch.on
      BY <2>2 DEF ThreadInv, PlaceInv, Fits
    <3>2. \A i \in submitted : i.n \in batch.streams \cup ended => i.kind = "text" /\ i.on = batch.on
      BY <3>1 DEF ThreadInv, StreamsInv
    <3>3. \A i \in Running : i.n \in batch.streams \cup ended /\ i \in submitted
      BY <1>2, RunningLeft DEF Running
    <3> QED
      BY <3>1, <3>2, <3>3 DEF Promised!Shares
  <2> QED
    BY <2>1, <2>2
<1>4. Running' = Running \cup {j}
  BY <1>1, <1>2, RunningLeft DEF Running
<1>5. Over' = Over
  BY <1>1, <1>4, RunningLeft DEF Over
<1>6. Promised!Start(j)
  BY <1>1, <1>3, <1>4, <1>5, SameTurn DEF Promised!Start, Over
<1> QED
  BY <1>6 DEF PromisedStep, Promised!Next

\* Some are over.
LEMMA FinishPromised ==
    ASSUME ThreadInv, NEW done \in SUBSET Running, Running' = Running \ done,
           UNCHANGED <<jobs, served, turn, submitted>>
    PROVE  PromisedStep
<1>1. Over' = Over \cup done
  BY RunningLeft DEF Over
<1>2. CASE done = {}
  <2>1. Over' = Over /\ Running' = Running
    BY <1>1, <1>2
  <2> QED
    BY <2>1 DEF PromisedStep, promisedVars
<1>3. CASE done # {}
  <2>1. Promised!Finish(done)
    BY <1>1 DEF Promised!Finish, Over
  <2> QED
    BY <1>3, <2>1 DEF PromisedStep, Promised!Next
<1> QED
  BY <1>2, <1>3

\* A step of the thread.
LEMMA ThreadPromised == ASSUME ThreadInv, Thread PROVE PromisedStep
<1>1. ASSUME NEW j \in jobs, TakeNext(j) \/ Join(j) PROVE PromisedStep
  <2>1. TakeJob(j) /\ (pc = "next" \/ (pc = "join" /\ Fits(j))) /\ UNCHANGED <<batch, ended>>
    BY <1>1 DEF TakeNext, Join
  <2> QED
    BY <2>1, TakePromised
<1>2. ASSUME MarkBusy \/ CountOut \/ End \/ JoinNobody \/ EnterAlone \/ BeginAlone \/ DrainEvent \/ DrainQuiet
                \/ HandOver \/ FinishAlone \/ ClearBusy
      PROVE  PromisedStep
  <2>1. UNCHANGED <<jobs, served, turn, submitted, cur, batch, ended>>
    BY <1>2 DEF MarkBusy, CountOut, End, JoinNobody, EnterAlone, BeginAlone, DrainEvent, DrainQuiet,
                HandOver, FinishAlone, ClearBusy, queueVars, threadVars
  <2> QED
    BY <2>1, PromiseStays
<1>3. ASSUME PutQuestion \/ AwaitAnswer \/ StartLoad \/ EndLoad \/ StartUnload \/ SendUnload \/ EndUnload
      PROVE  PromisedStep
  <2>1. UNCHANGED <<jobs, served, turn, submitted, cur, batch, ended>>
    BY <1>3 DEF PutQuestion, AwaitAnswer, StartLoad, EndLoad, StartUnload, SendUnload, EndUnload, queueVars
  <2> QED
    BY <2>1, PromiseStays
<1>4. ASSUME AdmitReply PROVE PromisedStep
  <2>1. cur # NoJob /\ cur \in submitted /\ (batch # NoBatch \/ batch.streams = {})
    BY <1>4 DEF AdmitReply, ThreadInv, PlaceInv, JobsInv, Either, NoBatch
  <2>2. UNCHANGED <<jobs, served, turn, submitted>> /\ cur' = NoJob
    BY <1>4 DEF AdmitReply, queueVars
  <2>3. PICK b : b = IF batch = NoBatch THEN [on |-> cur.on, private |-> cur.kind = "fresh", streams |-> {}] ELSE batch
    OBVIOUS
  <2>4. \/ ended' = ended \cup {cur.n} /\ UNCHANGED batch
        \/ batch' = [b EXCEPT !.streams = @ \cup {cur.n}] /\ UNCHANGED ended
    BY <1>4, <2>3 DEF AdmitReply
  <2>5. batch \in [on : Key \cup {Everywhere}, private : BOOLEAN, streams : SUBSET Ids]
    BY DEF ThreadInv, PlaceInv
  <2>6. batch'.streams \cup ended' = batch.streams \cup ended \cup {cur.n}
    BY <2>1, <2>3, <2>4, <2>5
  <2>7. Running' = Running
    <3>1. \A j \in submitted : j.n = cur.n <=> j = cur
      BY <2>1 DEF ThreadInv, JobsInv
    <3> QED
      BY <2>2, <2>6, <3>1, RunningLeft DEF Running
  <2>8. Over' = Over
    BY <2>2, <2>7 DEF Over
  <2> QED
    BY <2>2, <2>7, <2>8 DEF PromisedStep, promisedVars
<1>5. ASSUME Pump PROVE PromisedStep
  <2>1. PICK over \in SUBSET batch.streams : ended' = ended \cup over /\ batch' = [batch EXCEPT !.streams = @ \ over]
    BY <1>5 DEF Pump, Ending
  <2>2. batch \in [on : Key \cup {Everywhere}, private : BOOLEAN, streams : SUBSET Ids]
    BY DEF ThreadInv, PlaceInv
  <2>3. batch'.streams \cup ended' = batch.streams \cup ended
    BY <2>1, <2>2
  <2> QED
    BY <1>5, <2>3, PromiseStays DEF Pump, queueVars
<1>6. ASSUME Settle PROVE PromisedStep
  <2>1. batch'.streams \cup ended' = batch.streams \cup ended
    BY <1>6 DEF Settle, NoBatch
  <2> QED
    BY <1>6, <2>1, PromiseStays DEF Settle, queueVars
<1>7. ASSUME DropEnded PROVE PromisedStep
  <2>1. /\ pc = "drop" /\ ended' = {} /\ UNCHANGED <<jobs, served, turn, submitted, cur, batch>>
    BY <1>7 DEF DropEnded, queueVars
  <2>2. cur = NoJob
    BY <2>1 DEF ThreadInv, PlaceInv, Single, Either
  <2>3. PICK done : done = {j \in submitted : j.n \in ended}
    OBVIOUS
  <2>4. \A j \in submitted : j.n \in batch.streams => j.n \notin ended
    BY DEF ThreadInv, BooksInv
  <2>5. done \in SUBSET Running
    BY <2>3 DEF Running
  <2>6. Running' = Running \ done
    BY <2>1, <2>2, <2>3, <2>4, RunningLeft DEF Running
  <2> QED
    BY <2>1, <2>5, <2>6, FinishPromised
<1>8. ASSUME Reply PROVE PromisedStep
  <2>1. pc = "reply" /\ cur' = NoJob /\ UNCHANGED <<jobs, served, turn, submitted, batch, ended>>
    BY <1>8 DEF Reply, queueVars
  <2>2. cur \in submitted /\ batch.streams = {} /\ ended = {}
    BY <2>1 DEF ThreadInv, PlaceInv, JobsInv, Single, Either, Together, NoBatch
  <2>3. Running = {cur} /\ Running' = {}
    BY <2>1, <2>2, RunningLeft DEF Running
  <2> QED
    BY <2>1, <2>3, FinishPromised
<1> QED
  BY <1>1, <1>2, <1>3, <1>4, <1>5, <1>6, <1>7, <1>8 DEF Thread

\* Every step is one that `Serving` allows, or none to it.
LEMMA NextPromised == ASSUME ThreadInv, [Next]_vars PROVE PromisedStep
<1>1. ASSUME NEW who \in Asked, NEW id \in {0} \cup Ids, CancelWaiting(who, id) PROVE PromisedStep
  <2>1. PICK gone : gone = {j \in jobs : j.who = who /\ id \in {0, j.n}}
    OBVIOUS
  <2>2. jobs' = jobs \ gone /\ UNCHANGED <<served, turn, submitted, cur, batch, ended>>
    BY <1>1, <2>1 DEF CancelWaiting, threadVars
  <2>3. gone \in SUBSET jobs /\ who \in Owners /\ \A j \in gone : j.who = who
    BY <2>1, SchedulerAssumption
  <2> QED
    BY <2>2, <2>3, LeavePromised
<1>2. ASSUME Close PROVE PromisedStep
  BY <1>2, LeavePromised DEF Close, threadVars, NoJob
<1>3. ASSUME Cancelling PROVE PromisedStep
  BY <1>3, PromiseStays DEF Cancelling, CancelCount, CancelEnd, CancelMark, queueVars, threadVars
<1>4. ASSUME NEW i \in Ids, Read(i) \/ Leave(i) \/ Trail(i) PROVE PromisedStep
  BY <1>4, PromiseStays DEF Read, Leave, Trail, queueVars, threadVars
<1>5. ASSUME NEW k \in Key, EngineStep(k) PROVE PromisedStep
  BY <1>5, PromiseStays DEF EngineStep, queueVars, threadVars
<1>6. ASSUME UNCHANGED vars PROVE PromisedStep
  BY <1>6, PromiseStays DEF vars, queueVars, threadVars
<1> QED
  BY <1>1, <1>2, <1>3, <1>4, <1>5, <1>6, SubmitPromised, ThreadPromised DEF Next

\* The scheduler keeps the promises its doc comments make (`Batch`, `joining`,
\* `run`), as `Serving` states them: jobs start by turns, none starts beside
\* another unless both are replies that share one resident, and nobody is let
\* go whose job is not over.
THEOREM SchedulerKeepsItsPromises == Spec => KeepsItsPromises
<1>1. Init => Promised!Init
  <2> SUFFICES ASSUME Init PROVE Promised!Init
    OBVIOUS
  <2>1. /\ jobs = {} /\ served = [o \in Owners |-> 0] /\ turn = 0 /\ submitted = {}
    BY DEF Init
  <2>2. Running = {} /\ submitted \ (jobs \cup Running) = {}
    BY <2>1 DEF Running
  <2> QED
    BY <2>1, <2>2 DEF Promised!Init, Owners, Promised!Owners
<1>2. ThreadInv /\ [Next]_vars => [Promised!Next]_(Promised!vars)
  BY NextPromised DEF PromisedStep, promisedVars, Over, Promised!vars
<1> QED
  BY <1>1, <1>2, ThreadInvariant, PTL DEF Spec, KeepsItsPromises, Promised!Spec

(***************************************************************************)
(* What is asked of an engine, and where that is                           *)
(***************************************************************************)
Quiet(k) == inbox[k] = <<>> /\ outbox[k] = <<>> /\ Idle(k)

\* The engine the thread waits for: one that has a job to itself, one that
\* owes an answer, or the batch's.
Alone == pc \in {"drain", "hand"}
Asking == pc \in {"await", "loading", "left"}
Answering == IF pc = "left" THEN Head(going) ELSE cur.on
Engaged(k) ==
    \/ Alone /\ k = cur.on
    \/ Asking /\ k = Answering
    \/ batch # NoBatch /\ k = batch.on

\* No other has anything to do, and one without a thread has nothing left.
OthersInv ==
    /\ \A k \in Key : status[k] # "up" => inbox[k] = <<>> /\ Idle(k)
    /\ \A k \in Key : ~Engaged(k) => Quiet(k)

\* What the thread knows of its residents.
SlotsInv ==
    /\ slots \subseteq Key /\ IsFiniteSet(slots)
    /\ \A j \in submitted : j.kind # "unload" => j.on \in Key
    /\ pc \in {"enter", "begin", "drain", "hand", "finish", "ask", "await", "load", "loading"} => cur.kind # "unload"
    /\ going \in Seq(Key)
    /\ pc = "left" => going # <<>>

\* What the thread holds is about its job, and it holds nothing between two.
HoldingInv ==
    /\ holding \in {Silence} \cup [what : {"step", "done", "failed"}, for : Ids]
    /\ holding # Silence => pc \in {"hand", "clear", "reply", "leaving", "left"} /\ holding.for = cur.n
    /\ pc \in {"clear", "reply"} => (holding = Silence <=> IsGeneration(cur))
    /\ pc \in {"hand", "leaving", "left"} => holding # Silence
    /\ pc # "hand" => holding.what # "step"

\* One that has a job to itself: it is asked for, made or over, and what is
\* said is about it, after its end nothing.
AloneAt(k) ==
    /\ reading[k] = {} /\ writing[k] = {}
    /\ inbox[k] \in {<<>>, <<[op |-> "alone", for |-> cur.n]>>}
    /\ alone[k] # Nothing => alone[k].for = cur.n /\ inbox[k] = <<>>
    /\ \A n \in 1..Len(outbox[k]) :
        /\ outbox[k][n].for = cur.n
        /\ outbox[k][n].what # "step" => n = Len(outbox[k]) /\ inbox[k] = <<>> /\ alone[k] = Nothing
    /\ pc = "hand" /\ holding.what # "step" => Quiet(k)
AloneInv == Alone => AloneAt(cur.on)

\* One that owes an answer: it is asked for, or given, or will never be.
AnswerAt(k) ==
    /\ Idle(k)
    /\ \/ inbox[k] = <<>> /\ outbox[k] = <<>>
       \/ outbox[k] = <<>> /\ \E op \in {"load", "unload", "ask"} : inbox[k] = <<[op |-> op, for |-> cur.n]>>
       \/ inbox[k] = <<>> /\ \E what \in {"done", "failed"} : outbox[k] = <<Event(what, cur.n, FALSE)>>
AnswerInv == Asking => AnswerAt(Answering)

\* The batch's: each of its replies is in one place at most, and once it has
\* ended in none.
SentTo(k) == {inbox[k][n].for : n \in 1..Len(inbox[k])}
InboxAt(k) ==
    \A n \in 1..Len(inbox[k]) :
        /\ inbox[k][n].op = "beside"
        /\ inbox[k][n].for \in batch.streams /\ inbox[k][n].for \notin Under(k)
        /\ \A m \in 1..Len(inbox[k]) : inbox[k][m].for = inbox[k][n].for => m = n
OutboxAt(k) ==
    \A n \in 1..Len(outbox[k]) :
        /\ outbox[k][n].tagged /\ outbox[k][n].for \in batch.streams
        /\ outbox[k][n].what # "step" =>
            /\ outbox[k][n].for \notin Under(k) \cup SentTo(k)
            /\ \A m \in 1..Len(outbox[k]) : outbox[k][m].for = outbox[k][n].for => m <= n
BatchAt(k) ==
    /\ k \in Key /\ alone[k] = Nothing
    /\ Under(k) \subseteq batch.streams /\ reading[k] \cap writing[k] = {}
    /\ InboxAt(k) /\ OutboxAt(k)
BatchInv == batch # NoBatch => BatchAt(batch.on)

\* There are no more replies than there may be, and one that asked for no
\* cache is alone.
CrowdInv ==
    /\ Cardinality(batch.streams) <= Batch
    /\ pc \in {"count", "admit"} => Cardinality(batch.streams) < Batch
    /\ batch.private => \A i, j \in batch.streams : i = j

EngineInv ==
    EngineTypeOK /\ OthersInv /\ SlotsInv /\ HoldingInv /\ AloneInv /\ AnswerInv /\ BatchInv /\ CrowdInv

\* Something said is put behind what was said.
LEMMA SaysMore ==
    ASSUME EngineTypeOK, NEW k \in Key, NEW events \in Seq(Events), Say(k, events)
    PROVE  /\ outbox' \in [Key -> Seq(Events)]
           /\ outbox'[k] = outbox[k] \o events
           /\ \A l \in Key : l # k => outbox'[l] = outbox[l]
<1>1. outbox \in [Key -> Seq(Events)]
  BY DEF EngineTypeOK
<1>2. outbox[k] \o events \in Seq(Events)
  BY <1>1, ConcatProperties
<1> QED
  BY <1>1, <1>2 DEF Say

LEMMA SaysOne ==
    ASSUME EngineTypeOK, NEW k \in Key, NEW what \in {"step", "done", "failed"}, NEW id \in Ids, NEW tagged \in BOOLEAN,
           Say(k, <<Event(what, id, tagged)>>)
    PROVE  /\ outbox' \in [Key -> Seq(Events)]
           /\ outbox'[k] = Append(outbox[k], Event(what, id, tagged))
           /\ \A l \in Key : l # k => outbox'[l] = outbox[l]
<1>1. PICK e : e = Event(what, id, tagged)
  OBVIOUS
<1>2. e \in Events /\ <<e>> \in Seq(Events)
  BY <1>1 DEF Events, Event
<1>3. outbox[k] \in Seq(Events)
  BY DEF EngineTypeOK
<1>4. outbox[k] \o <<e>> = Append(outbox[k], e)
  BY <1>2, <1>3, AppendIsConcat
<1> QED
  BY <1>1, <1>2, <1>4, SaysMore

\* Engine::send.
LEMMA SendsOne ==
    ASSUME EngineTypeOK, NEW k \in Key, NEW op \in {"load", "unload", "ask", "alone", "beside"}, NEW id \in Ids,
           inbox' = Sent(k, op, id)
    PROVE  /\ inbox' \in [Key -> Seq(Commands)]
           /\ inbox'[k] = IF status[k] = "up" THEN Append(inbox[k], [op |-> op, for |-> id]) ELSE inbox[k]
           /\ \A l \in Key : l # k => inbox'[l] = inbox[l]
<1>1. inbox \in [Key -> Seq(Commands)]
  BY DEF EngineTypeOK
<1>2. [op |-> op, for |-> id] \in Commands
  BY DEF Commands
<1> QED
  BY <1>1, <1>2, AppendProperties DEF Sent

\* What a step of an engine leaves alone, and which types it keeps.
Elsewhere(k) ==
    \A l \in Key : l # k =>
        /\ status'[l] = status[l] /\ inbox'[l] = inbox[l] /\ outbox'[l] = outbox[l]
        /\ reading'[l] = reading[l] /\ writing'[l] = writing[l] /\ alone'[l] = alone[l]

\* The next command is taken off.
LEMMA TakesOff ==
    ASSUME EngineTypeOK, NEW k \in Key, inbox[k] # <<>>, inbox' = [inbox EXCEPT ![k] = Tail(@)]
    PROVE  /\ inbox' \in [Key -> Seq(Commands)] /\ inbox'[k] = Tail(inbox[k])
           /\ \A l \in Key : l # k => inbox'[l] = inbox[l]
           /\ Head(inbox[k]) \in Commands /\ Head(inbox[k]) = inbox[k][1] /\ Len(inbox[k]) \in Nat \ {0}
           /\ Len(inbox'[k]) = Len(inbox[k]) - 1
           /\ \A n \in 1..(Len(inbox[k]) - 1) : inbox'[k][n] = inbox[k][n + 1]
<1>1. inbox \in [Key -> Seq(Commands)] /\ inbox[k] \in Seq(Commands)
  BY DEF EngineTypeOK
<1>2. /\ Tail(inbox[k]) \in Seq(Commands) /\ Head(inbox[k]) \in Commands /\ Head(inbox[k]) = inbox[k][1]
      /\ Len(inbox[k]) \in Nat \ {0} /\ Len(Tail(inbox[k])) = Len(inbox[k]) - 1
      /\ \A n \in 1..(Len(inbox[k]) - 1) : Tail(inbox[k])[n] = inbox[k][n + 1]
  BY <1>1, HeadTailProperties, ElementOfSeq, EmptySeq, LenProperties
<1> QED
  BY <1>1, <1>2

\* Cmd::Beside: a reply's prompt is to be read, or it has failed.
BegunBeside(k, id) ==
    /\ UNCHANGED <<flag, alone>>
    /\ reading' \in [Key -> SUBSET Ids] /\ outbox' \in [Key -> Seq(Events)]
    /\ \A l \in Key : l # k => reading'[l] = reading[l] /\ outbox'[l] = outbox[l]
    /\ \/ reading'[k] = reading[k] \cup {id} /\ outbox'[k] = outbox[k]
       \/ reading'[k] = reading[k] /\ outbox'[k] = Append(outbox[k], Event("failed", id, TRUE))
LEMMA StartsBeside ==
    ASSUME EngineTypeOK, NEW k \in Key, NEW id \in Ids, StartBeside(k, id)
    PROVE  BegunBeside(k, id)
<1>1. reading \in [Key -> SUBSET Ids] /\ outbox \in [Key -> Seq(Events)]
  BY DEF EngineTypeOK
<1>2. CASE reading' = [reading EXCEPT ![k] = @ \cup {id}] /\ UNCHANGED outbox
  BY <1>1, <1>2 DEF BegunBeside, StartBeside
<1>3. CASE Say(k, <<Event("failed", id, TRUE)>>) /\ UNCHANGED reading
  BY <1>1, <1>3, SaysOne DEF BegunBeside, StartBeside
<1> QED
  BY <1>2, <1>3 DEF StartBeside

\* Cmd::Paint and its like: it is being made, or has failed.
BegunAlone(k, id) ==
    /\ UNCHANGED reading
    /\ flag' \in [Key -> BOOLEAN] /\ outbox' \in [Key -> Seq(Events)]
    /\ alone' \in [Key -> {Nothing} \cup [for : Ids, at : {"work", "check"}]]
    /\ \A l \in Key : l # k => alone'[l] = alone[l] /\ outbox'[l] = outbox[l] /\ flag'[l] = flag[l]
    /\ \/ alone'[k] = [for |-> id, at |-> "work"] /\ ~flag'[k] /\ outbox'[k] = outbox[k]
       \/ alone'[k] = alone[k] /\ flag' = flag /\ outbox'[k] = Append(outbox[k], Event("failed", id, FALSE))
LEMMA StartsAlone ==
    ASSUME EngineTypeOK, NEW k \in Key, NEW id \in Ids, StartAlone(k, id)
    PROVE  BegunAlone(k, id)
<1>1. /\ flag \in [Key -> BOOLEAN] /\ outbox \in [Key -> Seq(Events)]
      /\ alone \in [Key -> {Nothing} \cup [for : Ids, at : {"work", "check"}]]
  BY DEF EngineTypeOK
<1>2. CASE /\ flag' = FlagCleared(k)
           /\ alone' = [alone EXCEPT ![k] = [for |-> id, at |-> "work"]]
           /\ UNCHANGED outbox
  <2>1. [for |-> id, at |-> "work"] \in [for : Ids, at : {"work", "check"}]
    OBVIOUS
  <2>2. alone' \in [Key -> {Nothing} \cup [for : Ids, at : {"work", "check"}]] /\ alone'[k] = [for |-> id, at |-> "work"]
        /\ \A l \in Key : l # k => alone'[l] = alone[l]
    BY <1>1, <1>2, <2>1
  <2>3. flag' \in [Key -> BOOLEAN] /\ ~flag'[k] /\ \A l \in Key : l # k => flag'[l] = flag[l]
    BY <1>1, <1>2 DEF FlagCleared
  <2>4. UNCHANGED reading
    BY DEF StartAlone
  <2> QED
    BY <1>1, <1>2, <2>2, <2>3, <2>4 DEF BegunAlone
<1>3. CASE Say(k, <<Event("failed", id, FALSE)>>) /\ UNCHANGED <<flag, alone>>
  BY <1>1, <1>3, SaysOne DEF BegunAlone, StartAlone
<1> QED
  BY <1>2, <1>3 DEF StartAlone

\* Cmd::Load and the others with one answer.
Answered(k, id) ==
    /\ UNCHANGED <<reading, alone>>
    /\ flag' \in [Key -> BOOLEAN] /\ outbox' \in [Key -> Seq(Events)]
    /\ \A l \in Key : (flag'[l] => flag[l]) /\ (l # k => outbox'[l] = outbox[l])
    /\ \E what \in {"done", "failed"} : outbox'[k] = Append(outbox[k], Event(what, id, FALSE))
LEMMA AnswersOnce ==
    ASSUME EngineTypeOK, NEW k \in Key, NEW op, NEW id \in Ids, AnswerOnce(k, op, id)
    PROVE  Answered(k, id)
<1>1. PICK what \in {"done", "failed"} : Say(k, <<Event(what, id, FALSE)>>)
  BY DEF AnswerOnce
<1>2. /\ outbox' \in [Key -> Seq(Events)]
      /\ outbox'[k] = Append(outbox[k], Event(what, id, FALSE))
      /\ \A l \in Key : l # k => outbox'[l] = outbox[l]
  BY <1>1, SaysOne
<1>3. flag' \in [Key -> BOOLEAN] /\ \A l \in Key : flag'[l] => flag[l]
  BY DEF AnswerOnce, EngineTypeOK, FlagCleared
<1> QED
  BY <1>2, <1>3 DEF AnswerOnce, Answered

\* A step of the engine that takes a command.
LEMMA Receives ==
    ASSUME EngineTypeOK, NEW k \in Key, Receive(k)
    PROVE  /\ EngineTypeOK' /\ Elsewhere(k) /\ Idle(k) /\ inbox[k] # <<>> /\ status'[k] = "up"
           /\ writing'[k] = writing[k]
           /\ \E cmd \in Commands :
                /\ cmd = inbox[k][1]
                /\ \/ cmd.op = "beside" /\ BegunBeside(k, cmd.for)
                   \/ cmd.op = "alone" /\ BegunAlone(k, cmd.for)
                   \/ cmd.op \notin {"beside", "alone"} /\ Answered(k, cmd.for)
<1>1. /\ status[k] = "up" /\ Idle(k) /\ inbox[k] # <<>> /\ inbox' = [inbox EXCEPT ![k] = Tail(@)]
      /\ UNCHANGED <<status, writing, steps, stop, panics, interrupted>>
  BY DEF Receive
<1>2. PICK cmd : cmd = Head(inbox[k])
  OBVIOUS
<1>3. /\ inbox' \in [Key -> Seq(Commands)] /\ \A l \in Key : l # k => inbox'[l] = inbox[l]
      /\ cmd \in Commands /\ cmd = inbox[k][1]
  BY <1>1, <1>2, TakesOff
<1>4. cmd.for \in Ids
  BY <1>3 DEF Commands
<1>5. \/ cmd.op = "beside" /\ StartBeside(k, cmd.for)
      \/ cmd.op = "alone" /\ StartAlone(k, cmd.for)
      \/ cmd.op \notin {"beside", "alone"} /\ AnswerOnce(k, cmd.op, cmd.for)
  BY <1>2 DEF Receive
<1>6. \/ cmd.op = "beside" /\ BegunBeside(k, cmd.for)
      \/ cmd.op = "alone" /\ BegunAlone(k, cmd.for)
      \/ cmd.op \notin {"beside", "alone"} /\ Answered(k, cmd.for)
  BY <1>4, <1>5, StartsBeside, StartsAlone, AnswersOnce
<1>7. /\ EngineTypeOK'
      /\ \A l \in Key : l # k => outbox'[l] = outbox[l] /\ reading'[l] = reading[l] /\ alone'[l] = alone[l]
  BY <1>1, <1>3, <1>6 DEF EngineTypeOK, BegunBeside, BegunAlone, Answered
<1> QED
  BY <1>1, <1>3, <1>6, <1>7 DEF Elsewhere

\* A reply starts beside the others.
LEMMA JoinsIn ==
    ASSUME EngineTypeOK, NEW k \in Key, JoinIn(k)
    PROVE  /\ EngineTypeOK' /\ Elsewhere(k) /\ writing[k] # {} /\ inbox[k] # <<>> /\ status'[k] = "up"
           /\ writing'[k] = writing[k]
           /\ \E cmd \in Commands : cmd = inbox[k][1] /\ cmd.op = "beside" /\ BegunBeside(k, cmd.for)
<1>1. /\ status[k] = "up" /\ writing[k] # {} /\ inbox[k] # <<>> /\ inbox' = [inbox EXCEPT ![k] = Tail(@)]
      /\ UNCHANGED <<status, writing, steps, stop, panics, interrupted>>
  BY DEF JoinIn
<1>2. PICK cmd : cmd = Head(inbox[k])
  OBVIOUS
<1>3. /\ inbox' \in [Key -> Seq(Commands)] /\ \A l \in Key : l # k => inbox'[l] = inbox[l]
      /\ cmd \in Commands /\ cmd = inbox[k][1]
  BY <1>1, <1>2, TakesOff
<1>4. cmd.for \in Ids
  BY <1>3 DEF Commands
<1>5. cmd.op = "beside" /\ BegunBeside(k, cmd.for)
  BY <1>2, <1>4, StartsBeside DEF JoinIn
<1>6. /\ EngineTypeOK'
      /\ \A l \in Key : l # k => outbox'[l] = outbox[l] /\ reading'[l] = reading[l] /\ alone'[l] = alone[l]
  BY <1>1, <1>3, <1>5 DEF EngineTypeOK, BegunBeside
<1> QED
  BY <1>1, <1>3, <1>5, <1>6 DEF Elsewhere

\* A finite set has a sequence of its members, each once.
LEMMA SetsHaveSequences ==
    ASSUME NEW S, IsFiniteSet(S)
    PROVE  /\ SetToSeq(S) \in Seq(S)
           /\ \A m, n \in 1..Len(SetToSeq(S)) : SetToSeq(S)[m] = SetToSeq(S)[n] => m = n
<1>1. PICK c \in Nat : c = Cardinality(S)
  BY FS_CardinalityType
<1>2. \E f \in [1..c -> S] : IsInjective(f)
  BY <1>1, FS_CardinalityType DEF ExistsBijection, Bijection, Injection
<1>3. PICK f : f = SetToSeq(S)
  OBVIOUS
<1>4. f \in [1..c -> S] /\ IsInjective(f)
  BY <1>1, <1>2, <1>3 DEF SetToSeq
<1>5. f \in Seq(S)
  BY <1>1, <1>4, SeqDef
<1>6. Len(f) = c
  BY <1>1, <1>4, <1>5, LenProperties
<1>7. \A m, n \in 1..c : f[m] = f[n] => m = n
  BY <1>4 DEF IsInjective
<1> QED
  BY <1>3, <1>5, <1>6, <1>7

\* advance: what was read is written or has ended, and what was written is
\* written on or has ended; each says one thing, and its end when it ends.
Advanced(k) ==
    /\ reading'[k] = {} /\ writing'[k] \subseteq Under(k) /\ UNCHANGED <<inbox, alone, flag>>
    /\ interrupted' \subseteq interrupted \cup {i \in Ids : stop[i]}
    /\ \E said \in Seq(Events) :
        /\ outbox'[k] = outbox[k] \o said
        /\ \A n \in 1..Len(said) :
            /\ said[n].tagged /\ said[n].for \in Under(k)
            /\ said[n].what # "step" => said[n].for \notin writing'[k]
            /\ \A m \in 1..Len(said) : said[m].for = said[n].for => m = n
LEMMA Advances ==
    ASSUME EngineTypeOK, NEW k \in Key, Advance(k)
    PROVE  EngineTypeOK' /\ Elsewhere(k) /\ status'[k] = "up" /\ Advanced(k) /\ Under(k) # {}
<1>1. /\ status[k] = "up" /\ Under(k) # {}
      /\ UNCHANGED <<status, inbox, flag, alone, stop, panics>>
  BY DEF Advance
<1>2. PICK read \in [reading[k] -> {"read", "failed"}] : \E wrote \in [writing[k] -> {"step", "done", "failed"}] :
        /\ \/ \A id \in writing[k] : wrote[id] \in Outcomes(id)
           \/ \A id \in writing[k] : wrote[id] = "failed"
        /\ \A id \in reading[k] : stop[id] => read[id] = "read"
        /\ LET ready == {id \in reading[k] : ~stop[id] /\ read[id] = "read"}
               given == {id \in reading[k] : stop[id]}
               those == SetToSeq(Under(k) \ ready)
               came(id) == IF id \in writing[k] THEN wrote[id]
                           ELSE IF id \in given THEN "done" ELSE "failed"
           IN  /\ Say(k, [i \in DOMAIN those |-> Event(came(those[i]), those[i], TRUE)])
               /\ reading' = [reading EXCEPT ![k] = {}]
               /\ writing' = [writing EXCEPT ![k] = ready \cup {id \in @ : wrote[id] = "step"}]
               /\ steps' = [id \in Ids |-> IF id \in writing[k] /\ wrote[id] = "step" THEN steps[id] - 1 ELSE steps[id]]
               /\ interrupted' = interrupted \cup given \cup {id \in writing[k] : stop[id] /\ wrote[id] = "done"}
  BY ZenonT(40) DEF Advance
<1>3. PICK wrote \in [writing[k] -> {"step", "done", "failed"}] :
        /\ \/ \A id \in writing[k] : wrote[id] \in Outcomes(id)
           \/ \A id \in writing[k] : wrote[id] = "failed"
        /\ \A id \in reading[k] : stop[id] => read[id] = "read"
        /\ LET ready == {id \in reading[k] : ~stop[id] /\ read[id] = "read"}
               given == {id \in reading[k] : stop[id]}
               those == SetToSeq(Under(k) \ ready)
               came(id) == IF id \in writing[k] THEN wrote[id]
                           ELSE IF id \in given THEN "done" ELSE "failed"
           IN  /\ Say(k, [i \in DOMAIN those |-> Event(came(those[i]), those[i], TRUE)])
               /\ reading' = [reading EXCEPT ![k] = {}]
               /\ writing' = [writing EXCEPT ![k] = ready \cup {id \in @ : wrote[id] = "step"}]
               /\ steps' = [id \in Ids |-> IF id \in writing[k] /\ wrote[id] = "step" THEN steps[id] - 1 ELSE steps[id]]
               /\ interrupted' = interrupted \cup given \cup {id \in writing[k] : stop[id] /\ wrote[id] = "done"}
  BY <1>2
<1>4. PICK ready, given : ready = {id \in reading[k] : ~stop[id] /\ read[id] = "read"} /\ given = {id \in reading[k] : stop[id]}
  OBVIOUS
<1>5. PICK those : those = SetToSeq(Under(k) \ ready)
  OBVIOUS
<1> DEFINE came(id) == IF id \in writing[k] THEN wrote[id] ELSE IF id \in given THEN "done" ELSE "failed"
<1> DEFINE said == [i \in DOMAIN those |-> Event(came(those[i]), those[i], TRUE)]
<1>6. /\ Say(k, said)
      /\ reading' = [reading EXCEPT ![k] = {}]
      /\ writing' = [writing EXCEPT ![k] = ready \cup {id \in @ : wrote[id] = "step"}]
      /\ steps' = [id \in Ids |-> IF id \in writing[k] /\ wrote[id] = "step" THEN steps[id] - 1 ELSE steps[id]]
      /\ interrupted' = interrupted \cup given \cup {id \in writing[k] : stop[id] /\ wrote[id] = "done"}
  BY <1>3, <1>4, <1>5
<1>7. reading[k] \subseteq Ids /\ writing[k] \subseteq Ids /\ reading \in [Key -> SUBSET Ids] /\ writing \in [Key -> SUBSET Ids]
  BY DEF EngineTypeOK
<1>8. ready \subseteq Under(k) /\ given \subseteq Under(k) /\ Under(k) \subseteq Ids
  BY <1>4, <1>7 DEF Under
<1>9. /\ those \in Seq(Under(k) \ ready)
      /\ \A m, n \in 1..Len(those) : those[m] = those[n] => m = n
  <2>1. IsFiniteSet(Ids)
    BY SchedulerAssumption, UpToCount
  <2>2. PICK S : S = Under(k) \ ready
    OBVIOUS
  <2>3. S \subseteq Ids
    BY <1>8, <2>2
  <2>4. IsFiniteSet(S)
    BY <2>1, <2>3, NoLarger
  <2> QED
    BY <1>5, <2>2, <2>4, SetsHaveSequences
<1>10. DOMAIN those = 1..Len(those) /\ Len(those) \in Nat /\ \A n \in 1..Len(those) : those[n] \in Under(k) \ ready
  BY <1>9, LenProperties, ElementOfSeq
<1>11. ASSUME NEW id \in Under(k) PROVE came(id) \in {"step", "done", "failed"}
  BY <1>3
<1> HIDE DEF came
<1>12. ASSUME NEW n \in 1..Len(those) PROVE said[n] \in Events /\ said[n].tagged /\ said[n].for = those[n] /\ said[n].what = came(those[n])
  <2>1. those[n] \in Ids /\ came(those[n]) \in {"step", "done", "failed"}
    BY <1>8, <1>10, <1>11
  <2> QED
    BY <1>10, <2>1 DEF Event, Events
<1>13. said \in Seq(Events) /\ Len(said) = Len(those)
  <2>1. PICK c \in Nat : c = Len(those) /\ DOMAIN those = 1..c
    BY <1>10
  <2>2. \A n \in 1..c : Event(came(those[n]), those[n], TRUE) \in Events
    BY <1>12, <2>1
  <2>3. PICK e : e = said
    OBVIOUS
  <2>4. e = [n \in 1..c |-> Event(came(those[n]), those[n], TRUE)]
    BY <2>1, <2>3
  <2> HIDE DEF said
  <2>5. e \in [1..c -> Events]
    BY <2>2, <2>4
  <2>6. e \in Seq(Events)
    BY <2>5, SeqDef
  <2>7. Len(e) = c
    BY <2>5, <2>6, LenProperties
  <2> QED
    BY <2>1, <2>3, <2>6, <2>7
<1> HIDE DEF said
<1>14. /\ outbox' \in [Key -> Seq(Events)]
       /\ outbox'[k] = outbox[k] \o said
       /\ \A l \in Key : l # k => outbox'[l] = outbox[l]
  BY <1>6, <1>13, SaysMore
<1>15. /\ reading' \in [Key -> SUBSET Ids] /\ reading'[k] = {} /\ \A l \in Key : l # k => reading'[l] = reading[l]
  BY <1>6, <1>7
<1>16. /\ writing' \in [Key -> SUBSET Ids] /\ writing'[k] = ready \cup {id \in writing[k] : wrote[id] = "step"}
       /\ \A l \in Key : l # k => writing'[l] = writing[l]
  BY <1>6, <1>7, <1>8
<1>17. steps' \in [Ids -> 0..MaxSteps]
  <2>1. steps \in [Ids -> 0..MaxSteps] /\ MaxSteps \in Nat
    BY EngineAssumption DEF EngineTypeOK
  <2>2. ASSUME NEW id \in writing[k], wrote[id] = "step" PROVE steps[id] - 1 \in 0..MaxSteps
    <3>1. "step" \in Outcomes(id)
      BY <1>3, <2>2
    <3>2. steps[id] # 0 /\ steps[id] \in 0..MaxSteps
      BY <1>7, <2>1, <3>1 DEF Outcomes
    <3> QED
      BY <2>1, <3>2
  <2> QED
    BY <1>6, <2>1, <2>2
<1>18. interrupted' \subseteq Ids /\ interrupted' \subseteq interrupted \cup {i \in Ids : stop[i]}
  BY <1>4, <1>6, <1>7 DEF EngineTypeOK
<1>19. EngineTypeOK'
  BY <1>1, <1>14, <1>15, <1>16, <1>17, <1>18 DEF EngineTypeOK
<1>20. Elsewhere(k)
  BY <1>1, <1>14, <1>15, <1>16 DEF Elsewhere
<1>21. ASSUME NEW n \in 1..Len(said)
       PROVE  /\ said[n].tagged /\ said[n].for \in Under(k)
              /\ said[n].what # "step" => said[n].for \notin writing'[k]
              /\ \A m \in 1..Len(said) : said[m].for = said[n].for => m = n
  <2>1. PICK id : id = those[n]
    OBVIOUS
  <2>2. n \in 1..Len(those) /\ id \in Under(k) /\ id \notin ready
    BY <1>10, <1>13, <2>1
  <2>3. said[n].tagged /\ said[n].for = id /\ said[n].what = came(id)
    BY <1>12, <2>1, <2>2
  <2>4. came(id) # "step" => id \notin writing'[k]
    BY <1>16, <2>2 DEF came
  <2>5. \A m \in 1..Len(said) : said[m].for = id => m = n
    BY <1>9, <1>12, <1>13, <2>1, <2>2
  <2> QED
    BY <2>2, <2>3, <2>4, <2>5
<1>22. writing'[k] \subseteq Under(k)
  BY <1>8, <1>16 DEF Under
<1>23. Advanced(k)
  BY <1>1, <1>13, <1>14, <1>15, <1>18, <1>21, <1>22 DEF Advanced
<1> QED
  BY <1>1, <1>19, <1>20, <1>23

\* One made alone says a step, or how it ended.
SaidAlone(k) ==
    /\ UNCHANGED <<inbox, reading, writing, flag>>
    /\ alone[k] \in [for : Ids, at : {"work", "check"}]
    /\ \/ /\ alone'[k] \in [for : Ids, at : {"work", "check"}] /\ alone'[k].for = alone[k].for
          /\ outbox'[k] = outbox[k] \/ outbox'[k] = Append(outbox[k], Event("step", alone[k].for, FALSE))
       \/ /\ alone'[k] = Nothing
          /\ \E what \in {"done", "failed"} : outbox'[k] = Append(outbox[k], Event(what, alone[k].for, FALSE))
LEMMA AloneSteps ==
    ASSUME EngineTypeOK, NEW k \in Key, StepAlone(k) \/ CheckAlone(k)
    PROVE  /\ EngineTypeOK' /\ Elsewhere(k) /\ status'[k] = "up" /\ SaidAlone(k)
           /\ interrupted' = interrupted \/ (flag[k] /\ interrupted' = interrupted \cup {alone[k].for})
<1>1. PICK one : one = alone[k]
  OBVIOUS
<1> DEFINE Ones == [for : Ids, at : {"work", "check"}]
<1>2. /\ alone \in [Key -> {Nothing} \cup Ones] /\ one \in Ones /\ one.for \in Ids
      /\ status[k] = "up" /\ UNCHANGED <<status, inbox, flag, reading, writing, stop, panics>>
  <2>1. one.at \in {"work", "check"}
    BY <1>1 DEF StepAlone, CheckAlone
  <2>2. one # Nothing
    BY <2>1 DEF Nothing
  <2>3. alone \in [Key -> {Nothing} \cup Ones]
    BY DEF EngineTypeOK
  <2> QED
    BY <1>1, <2>2, <2>3 DEF StepAlone, CheckAlone
<1>3. CASE /\ steps[one.for] > 0
           /\ Say(k, <<Event("step", one.for, FALSE)>>)
           /\ alone' = [alone EXCEPT ![k].at = "check"]
           /\ steps' = [steps EXCEPT ![one.for] = @ - 1] /\ UNCHANGED interrupted
  <2>1. PICK next : next = [one EXCEPT !.at = "check"]
    OBVIOUS
  <2>2. next \in Ones /\ next.for = one.for /\ alone' = [alone EXCEPT ![k] = next]
    BY <1>1, <1>2, <1>3, <2>1
  <2>3. alone' \in [Key -> {Nothing} \cup Ones] /\ alone'[k] = next /\ \A l \in Key : l # k => alone'[l] = alone[l]
    BY <1>2, <2>2
  <2>4. /\ outbox' \in [Key -> Seq(Events)] /\ outbox'[k] = Append(outbox[k], Event("step", one.for, FALSE))
        /\ \A l \in Key : l # k => outbox'[l] = outbox[l]
    BY <1>2, <1>3, SaysOne
  <2>5. steps' \in [Ids -> 0..MaxSteps]
    <3>1. steps \in [Ids -> 0..MaxSteps] /\ MaxSteps \in Nat
      BY EngineAssumption DEF EngineTypeOK
    <3>2. steps[one.for] - 1 \in 0..MaxSteps
      BY <1>2, <1>3, <3>1
    <3> QED
      BY <1>3, <3>1, <3>2
  <2>6. EngineTypeOK'
    BY <1>2, <1>3, <2>3, <2>4, <2>5 DEF EngineTypeOK
  <2>7. Elsewhere(k)
    BY <1>2, <2>3, <2>4 DEF Elsewhere
  <2>8. SaidAlone(k)
    BY <1>1, <1>2, <2>2, <2>3, <2>4 DEF SaidAlone
  <2> QED
    BY <1>2, <1>3, <2>6, <2>7, <2>8
<1>4. CASE /\ \E what \in {"done", "failed"} : Say(k, <<Event(what, one.for, FALSE)>>)
           /\ alone' = [alone EXCEPT ![k] = Nothing]
           /\ UNCHANGED steps
           /\ interrupted' = interrupted \/ (flag[k] /\ interrupted' = interrupted \cup {one.for})
  <2>1. PICK what \in {"done", "failed"} : Say(k, <<Event(what, one.for, FALSE)>>)
    BY <1>4
  <2>a. what \in {"step", "done", "failed"} /\ FALSE \in BOOLEAN
    OBVIOUS
  <2>2. /\ outbox' \in [Key -> Seq(Events)] /\ outbox'[k] = Append(outbox[k], Event(what, one.for, FALSE))
        /\ \A l \in Key : l # k => outbox'[l] = outbox[l]
    <3>1. PICK id \in Ids : id = one.for
      BY <1>2
    <3>2. Say(k, <<Event(what, id, FALSE)>>)
      BY <2>1, <3>1
    <3>3. /\ outbox' \in [Key -> Seq(Events)] /\ outbox'[k] = Append(outbox[k], Event(what, id, FALSE))
          /\ \A l \in Key : l # k => outbox'[l] = outbox[l]
      BY <2>a, <3>2, SaysOne, Zenon
    <3> QED
      BY <3>1, <3>3
  <2>3. alone' \in [Key -> {Nothing} \cup Ones] /\ alone'[k] = Nothing /\ \A l \in Key : l # k => alone'[l] = alone[l]
    BY <1>2, <1>4
  <2>4. EngineTypeOK'
    BY <1>2, <1>4, <2>2, <2>3 DEF EngineTypeOK
  <2>5. Elsewhere(k)
    BY <1>2, <2>2, <2>3 DEF Elsewhere
  <2>6. SaidAlone(k)
    BY <1>1, <1>2, <2>2, <2>3 DEF SaidAlone
  <2> QED
    BY <1>1, <1>2, <1>4, <2>4, <2>5, <2>6
<1>5. CASE alone' = [alone EXCEPT ![k].at = "work"] /\ UNCHANGED <<outbox, interrupted, steps>>
  <2>1. PICK next : next = [one EXCEPT !.at = "work"]
    OBVIOUS
  <2>2. next \in Ones /\ next.for = one.for /\ alone' = [alone EXCEPT ![k] = next]
    BY <1>1, <1>2, <1>5, <2>1
  <2>3. alone' \in [Key -> {Nothing} \cup Ones] /\ alone'[k] = next /\ \A l \in Key : l # k => alone'[l] = alone[l]
    BY <1>2, <2>2
  <2>4. EngineTypeOK'
    BY <1>2, <1>5, <2>3 DEF EngineTypeOK
  <2>5. Elsewhere(k)
    BY <1>2, <1>5, <2>3 DEF Elsewhere
  <2>6. SaidAlone(k)
    BY <1>1, <1>2, <1>5, <2>2, <2>3 DEF SaidAlone
  <2> QED
    BY <1>2, <1>5, <2>4, <2>5, <2>6
<1>6. CASE StepAlone(k)
  BY <1>1, <1>3, <1>4, <1>6 DEF StepAlone
<1>7. CASE CheckAlone(k)
  BY <1>1, <1>4, <1>5, <1>7 DEF CheckAlone
<1> QED
  BY <1>6, <1>7

\* The thread waits for one engine at a time, if it waits for any.
LEMMA OneAwaited ==
    ASSUME ThreadInv, EngineInv
    PROVE  /\ Alone => cur.on \in Key /\ cur.n \in Ids /\ batch = NoBatch /\ ~Asking /\ cur \in submitted
           /\ Asking => Answering \in Key /\ cur.n \in Ids /\ batch = NoBatch /\ cur \in submitted
           /\ batch # NoBatch => batch.on \in Key /\ batch.streams \subseteq Ids
<1>1. pc \in Single => cur \in submitted /\ batch = NoBatch /\ cur.n \in Ids
  <2>1. pc \in Single => cur # NoJob /\ pc \notin Either \cup Together
    BY DEF ThreadInv, PlaceInv, Single, Either, Together
  <2>2. pc \in Single => cur \in submitted /\ batch = NoBatch
    BY <2>1 DEF ThreadInv, PlaceInv, JobsInv
  <2> QED
    BY <2>2 DEF ThreadInv, JobsInv, Job
<1>2. Alone \/ Asking => pc \in Single
  BY DEF Alone, Asking, Single
<1>3. pc \in {"drain", "hand", "await", "loading"} => cur.on \in Key
  BY <1>1 DEF EngineInv, SlotsInv, Single
<1>4. pc = "left" => Head(going) \in Key
  <2> SUFFICES ASSUME pc = "left" PROVE Head(going) \in Key
    OBVIOUS
  <2>1. going \in Seq(Key) /\ going # <<>>
    BY DEF EngineInv, SlotsInv
  <2> QED
    BY <2>1, HeadTailProperties
<1>5. Asking => Answering \in Key
  BY <1>3, <1>4 DEF Asking, Answering
<1>6. batch # NoBatch => batch.on \in Key
  BY DEF EngineInv, BatchInv, BatchAt
<1>7. batch.streams \subseteq Ids
  BY DEF ThreadInv, PlaceInv
<1>8. Alone => ~Asking /\ cur.on \in Key
  BY <1>3 DEF Alone, Asking
<1> QED
  BY <1>1, <1>2, <1>5, <1>6, <1>7, <1>8

\* An engine's step is kept by the invariant if it is one that is waited for
\* and what is said of that one is kept.
LEMMA OneEngine ==
    ASSUME ThreadInv, EngineInv, NEW k \in Key, Engaged(k), Elsewhere(k), EngineTypeOK',
           UNCHANGED <<threadVars, submitted>>,
           status'[k] # "up" => inbox'[k] = <<>> /\ Idle(k)',
           Alone /\ k = cur.on => AloneAt(k)',
           Asking /\ k = Answering => AnswerAt(k)',
           batch # NoBatch /\ k = batch.on => BatchAt(k)'
    PROVE  EngineInv'
<1>1. UNCHANGED <<pc, cur, slots, batch, ended, holding, going, submitted>>
  BY DEF threadVars
<1>2. \A l \in Key : l # k /\ Quiet(l) => Quiet(l)'
  BY DEF Elsewhere, Quiet, Idle, Under
<1>3. \A l \in Key : Engaged(l) => Engaged(l)'
  BY <1>1 DEF Engaged, Alone, Asking, Answering
<1>4. OthersInv'
  <2>1. \A l \in Key : ~Engaged(l)' => Quiet(l)'
    BY <1>2, <1>3 DEF EngineInv, OthersInv
  <2>2. \A l \in Key : status'[l] # "up" => inbox'[l] = <<>> /\ Idle(l)'
    <3> SUFFICES ASSUME NEW l \in Key, status'[l] # "up" PROVE inbox'[l] = <<>> /\ Idle(l)'
      OBVIOUS
    <3>1. CASE l = k
      BY <3>1
    <3>2. CASE l # k
      BY <3>2 DEF Elsewhere, EngineInv, OthersInv, Idle, Under
    <3> QED
      BY <3>1, <3>2
  <2> QED
    BY <2>1, <2>2 DEF OthersInv
<1>5. SlotsInv' /\ HoldingInv' /\ CrowdInv'
  BY <1>1 DEF EngineInv, SlotsInv, HoldingInv, CrowdInv, IsGeneration
<1>6. AloneInv'
  <2> SUFFICES ASSUME Alone PROVE AloneAt(cur.on)'
    BY <1>1 DEF AloneInv, Alone
  <2>1. PICK l : l = cur.on
    OBVIOUS
  <2>2. cur.on \in Key /\ AloneAt(cur.on)
    BY OneAwaited DEF EngineInv, AloneInv
  <2>3. CASE l = k
    <3>1. AloneAt(k)'
      BY <2>1, <2>3
    <3> QED
      BY <1>1, <2>1, <2>3, <3>1
  <2>4. CASE l # k
    <3>1. AloneAt(l)'
      BY <1>1, <2>1, <2>2, <2>4 DEF AloneAt, Elsewhere, Quiet, Idle, Under
    <3> QED
      BY <1>1, <2>1, <3>1
  <2> QED
    BY <2>3, <2>4
<1>7. AnswerInv'
  <2> SUFFICES ASSUME Asking PROVE AnswerAt(Answering)'
    BY <1>1 DEF AnswerInv, Asking
  <2>1. PICK l : l = Answering
    OBVIOUS
  <2>0. Answering' = Answering
    BY <1>1 DEF Answering
  <2>2. l \in Key /\ AnswerAt(l)
    BY <2>1, OneAwaited DEF EngineInv, AnswerInv
  <2>3. CASE l = k
    <3>1. AnswerAt(k)'
      BY <2>1, <2>3
    <3> QED
      BY <2>0, <2>1, <2>3, <3>1
  <2>4. CASE l # k
    <3>1. AnswerAt(l)'
      BY <1>1, <2>2, <2>4 DEF AnswerAt, Elsewhere, Idle, Under
    <3> QED
      BY <2>0, <2>1, <3>1
  <2> QED
    BY <2>3, <2>4
<1>8. BatchInv'
  <2> SUFFICES ASSUME batch # NoBatch PROVE BatchAt(batch.on)'
    BY <1>1 DEF BatchInv
  <2>1. PICK l : l = batch.on
    OBVIOUS
  <2>2. l \in Key /\ BatchAt(l)
    BY <2>1, OneAwaited DEF EngineInv, BatchInv
  <2>3. CASE l = k
    <3>1. BatchAt(k)'
      BY <2>1, <2>3
    <3> QED
      BY <1>1, <2>1, <2>3, <3>1
  <2>4. CASE l # k
    <3>a. /\ inbox'[l] = inbox[l] /\ outbox'[l] = outbox[l] /\ reading'[l] = reading[l]
          /\ writing'[l] = writing[l] /\ alone'[l] = alone[l]
      BY <2>2, <2>4 DEF Elsewhere
    <3>b. Under(l)' = Under(l) /\ SentTo(l)' = SentTo(l)
      BY <3>a DEF Under, SentTo
    <3>c. InboxAt(l)'
      BY <1>1, <2>2, <3>a, <3>b DEF BatchAt, InboxAt
    <3>d. OutboxAt(l)'
      BY <1>1, <2>2, <3>a, <3>b DEF BatchAt, OutboxAt
    <3>1. BatchAt(l)'
      BY <1>1, <2>2, <3>a, <3>b, <3>c, <3>d DEF BatchAt
    <3> QED
      BY <1>1, <2>1, <3>1
  <2> QED
    BY <2>3, <2>4
<1> QED
  BY <1>4, <1>5, <1>6, <1>7, <1>8 DEF EngineInv

\* A reply is begun, or has failed.
LEMMA BeginsInBatch ==
    ASSUME EngineTypeOK, NEW k \in Key, BatchAt(k), UNCHANGED <<batch, alone>>,
           inbox[k] # <<>>, inbox' = [inbox EXCEPT ![k] = Tail(@)], writing'[k] = writing[k],
           BegunBeside(k, inbox[k][1].for)
    PROVE  BatchAt(k)'
<1>1. PICK id : id = inbox[k][1].for
  OBVIOUS
<1>2. /\ Len(inbox[k]) \in Nat \ {0}
      /\ Len(inbox'[k]) = Len(inbox[k]) - 1
      /\ \A n \in 1..(Len(inbox[k]) - 1) : inbox'[k][n] = inbox[k][n + 1]
  BY TakesOff
<1>3. ASSUME NEW n \in 1..Len(inbox'[k])
      PROVE  n + 1 \in 1..Len(inbox[k]) /\ inbox'[k][n] = inbox[k][n + 1] /\ n + 1 # 1 /\ n \in Nat
  BY <1>2
<1>4. /\ id \in batch.streams /\ id \notin Under(k)
      /\ \A n \in 1..Len(inbox[k]) : inbox[k][n].for = id => n = 1
  <2>1. 1 \in 1..Len(inbox[k])
    BY <1>2
  <2> QED
    BY <1>1, <2>1 DEF BatchAt, InboxAt
<1>5. id \notin SentTo(k)' /\ SentTo(k)' \subseteq SentTo(k) /\ id \in SentTo(k)
  <2>1. \A n \in 1..Len(inbox'[k]) : inbox'[k][n].for # id /\ inbox'[k][n].for \in SentTo(k)
    BY <1>3, <1>4 DEF SentTo
  <2>2. 1 \in 1..Len(inbox[k])
    BY <1>2
  <2> QED
    BY <1>1, <2>1, <2>2 DEF SentTo
<1>6. outbox[k] \in Seq(Events) /\ Len(outbox[k]) \in Nat /\ reading[k] \subseteq Ids
  BY LenProperties DEF EngineTypeOK
<1>7. PICK e : e = Event("failed", id, TRUE)
  OBVIOUS
<1>8. e.for = id /\ e.tagged /\ e \in Events
  <2>1. id \in Ids
    BY <1>1, <1>2, TakesOff DEF Commands
  <2> QED
    BY <1>7, <2>1 DEF Event, Events
<1>9. \/ Under(k)' = Under(k) \cup {id} /\ outbox'[k] = outbox[k] /\ reading'[k] = reading[k] \cup {id}
      \/ Under(k)' = Under(k) /\ outbox'[k] = Append(outbox[k], e) /\ reading'[k] = reading[k]
  BY <1>1, <1>7 DEF BegunBeside, Under
<1>10. InboxAt(k)'
  <2> SUFFICES ASSUME NEW n \in 1..Len(inbox'[k])
               PROVE  /\ inbox'[k][n].op = "beside" /\ inbox'[k][n].for \in batch'.streams /\ inbox'[k][n].for \notin Under(k)'
                      /\ \A m \in 1..Len(inbox'[k]) : inbox'[k][m].for = inbox'[k][n].for => m = n
    BY DEF InboxAt
  <2>1. /\ inbox[k][n + 1].op = "beside" /\ inbox[k][n + 1].for \in batch.streams /\ inbox[k][n + 1].for \notin Under(k)
        /\ \A m \in 1..Len(inbox[k]) : inbox[k][m].for = inbox[k][n + 1].for => m = n + 1
    BY <1>3 DEF BatchAt, InboxAt
  <2>2. inbox[k][n + 1].for # id
    BY <1>3, <1>4
  <2>3. ASSUME NEW m \in 1..Len(inbox'[k]), inbox'[k][m].for = inbox'[k][n].for PROVE m = n
    <3>1. m + 1 = n + 1
      BY <1>3, <2>1, <2>3
    <3> QED
      BY <1>3, <3>1
  <2> QED
    BY <1>3, <1>9, <2>1, <2>2, <2>3
<1>11. OutboxAt(k)'
  <2>1. CASE outbox'[k] = outbox[k] /\ Under(k)' = Under(k) \cup {id}
    <3> SUFFICES ASSUME NEW n \in 1..Len(outbox[k])
                 PROVE  /\ outbox[k][n].tagged /\ outbox[k][n].for \in batch.streams
                        /\ outbox[k][n].what # "step" =>
                            /\ outbox[k][n].for \notin Under(k)' \cup SentTo(k)'
                            /\ \A m \in 1..Len(outbox[k]) : outbox[k][m].for = outbox[k][n].for => m <= n
      BY <2>1 DEF OutboxAt
    <3> QED
      BY <1>5, <2>1 DEF BatchAt, OutboxAt
  <2>2. CASE outbox'[k] = Append(outbox[k], e) /\ Under(k)' = Under(k)
    <3>1. /\ Len(outbox'[k]) = Len(outbox[k]) + 1 /\ outbox'[k][Len(outbox[k]) + 1] = e
          /\ \A n \in 1..Len(outbox[k]) : outbox'[k][n] = outbox[k][n]
      BY <1>6, <1>8, <2>2, AppendProperties
    <3> SUFFICES ASSUME NEW n \in 1..(Len(outbox[k]) + 1)
                 PROVE  /\ outbox'[k][n].tagged /\ outbox'[k][n].for \in batch.streams
                        /\ outbox'[k][n].what # "step" =>
                            /\ outbox'[k][n].for \notin Under(k) \cup SentTo(k)'
                            /\ \A m \in 1..(Len(outbox[k]) + 1) : outbox'[k][m].for = outbox'[k][n].for => m <= n
      BY <2>2, <3>1 DEF OutboxAt
    <3>2. CASE n = Len(outbox[k]) + 1
      BY <1>4, <1>5, <1>6, <1>8, <3>1, <3>2
    <3>3. CASE n # Len(outbox[k]) + 1
      <4>1. n \in 1..Len(outbox[k]) /\ outbox'[k][n] = outbox[k][n]
        BY <1>6, <3>1, <3>3
      <4>2. /\ outbox[k][n].tagged /\ outbox[k][n].for \in batch.streams
            /\ outbox[k][n].what # "step" =>
                /\ outbox[k][n].for \notin Under(k) \cup SentTo(k)
                /\ \A m \in 1..Len(outbox[k]) : outbox[k][m].for = outbox[k][n].for => m <= n
        BY <4>1 DEF BatchAt, OutboxAt
      <4>3. ASSUME outbox[k][n].what # "step", NEW m \in 1..(Len(outbox[k]) + 1), outbox'[k][m].for = outbox[k][n].for
            PROVE  m <= n
        <5>1. m # Len(outbox[k]) + 1
          BY <1>5, <1>8, <3>1, <4>2, <4>3
        <5>2. m \in 1..Len(outbox[k])
          BY <1>6, <5>1
        <5> QED
          BY <3>1, <4>2, <4>3, <5>2
      <4> QED
        BY <1>5, <4>1, <4>2, <4>3
    <3> QED
      BY <3>2, <3>3
  <2> QED
    BY <1>9, <2>1, <2>2
<1>12. Under(k)' \subseteq batch'.streams /\ reading'[k] \cap writing'[k] = {} /\ alone'[k] = Nothing
  BY <1>4, <1>9 DEF BatchAt, Under
<1> QED
  BY <1>10, <1>11, <1>12 DEF BatchAt

\* Those under way go a step further.
LEMMA AdvancesInBatch ==
    ASSUME EngineTypeOK, NEW k \in Key, BatchAt(k), UNCHANGED batch, Advanced(k)
    PROVE  BatchAt(k)'
<1>1. /\ Under(k)' \subseteq Under(k) /\ Under(k)' = writing'[k] /\ reading'[k] = {}
      /\ UNCHANGED <<inbox, alone>>
  BY DEF Advanced, Under
<1>2. PICK said \in Seq(Events) :
        /\ outbox'[k] = outbox[k] \o said
        /\ \A n \in 1..Len(said) :
            /\ said[n].tagged /\ said[n].for \in Under(k)
            /\ said[n].what # "step" => said[n].for \notin writing'[k]
            /\ \A m \in 1..Len(said) : said[m].for = said[n].for => m = n
  BY DEF Advanced
<1>3. outbox[k] \in Seq(Events) /\ Len(outbox[k]) \in Nat /\ Len(said) \in Nat
  BY LenProperties DEF EngineTypeOK
<1>4. PICK c \in Nat, d \in Nat : c = Len(outbox[k]) /\ d = Len(said)
  BY <1>3
<1>5. /\ Len(outbox'[k]) = c + d
      /\ \A n \in 1..(c + d) : outbox'[k][n] = IF n <= c THEN outbox[k][n] ELSE said[n - c]
  BY <1>2, <1>3, <1>4, ConcatProperties
<1>6. InboxAt(k)' /\ SentTo(k)' = SentTo(k)
  BY <1>1 DEF BatchAt, InboxAt, SentTo
<1>7. OutboxAt(k)'
  <2> SUFFICES ASSUME NEW n \in 1..(c + d)
               PROVE  /\ outbox'[k][n].tagged /\ outbox'[k][n].for \in batch.streams
                      /\ outbox'[k][n].what # "step" =>
                          /\ outbox'[k][n].for \notin writing'[k] \cup SentTo(k)
                          /\ \A m \in 1..(c + d) : outbox'[k][m].for = outbox'[k][n].for => m <= n
    BY <1>1, <1>5, <1>6 DEF OutboxAt
  <2>1. CASE n <= c
    <3>1. n \in 1..c /\ outbox'[k][n] = outbox[k][n]
      BY <1>5, <2>1
    <3>2. /\ outbox[k][n].tagged /\ outbox[k][n].for \in batch.streams
          /\ outbox[k][n].what # "step" =>
              /\ outbox[k][n].for \notin Under(k) \cup SentTo(k)
              /\ \A m \in 1..c : outbox[k][m].for = outbox[k][n].for => m <= n
      BY <1>4, <3>1 DEF BatchAt, OutboxAt
    <3>3. ASSUME outbox[k][n].what # "step", NEW m \in 1..(c + d), outbox'[k][m].for = outbox[k][n].for PROVE m <= n
      <4>1. CASE m <= c
        BY SMTT(30), <1>5, <3>2, <3>3, <4>1
      <4>2. CASE ~(m <= c)
        <5>1. m - c \in 1..d /\ outbox'[k][m] = said[m - c]
          BY <1>5, <4>2
        <5>2. said[m - c].for \in Under(k)
          BY <1>2, <1>4, <5>1
        <5> QED
          BY <3>2, <3>3, <5>1, <5>2
      <4> QED
        BY <4>1, <4>2
    <3> QED
      BY <1>1, <3>1, <3>2, <3>3
  <2>2. CASE ~(n <= c)
    <3>1. n - c \in 1..d /\ outbox'[k][n] = said[n - c]
      BY <1>5, <2>2
    <3>2. PICK p \in 1..d : p = n - c
      BY <3>1
    <3>3. /\ said[p].tagged /\ said[p].for \in Under(k)
          /\ said[p].what # "step" => said[p].for \notin writing'[k]
          /\ \A m \in 1..d : said[m].for = said[p].for => m = p
      BY <1>2, <1>4
    <3>4. said[p].for \in batch.streams /\ said[p].for \notin SentTo(k)
      BY <3>3 DEF BatchAt, InboxAt, SentTo
    <3>5. ASSUME NEW m \in 1..(c + d), outbox'[k][m].for = said[p].for PROVE m <= n
      <4>1. CASE m <= c
        BY <2>2, <4>1
      <4>2. CASE ~(m <= c)
        <5>1. m - c \in 1..d /\ outbox'[k][m] = said[m - c]
          BY <1>5, <4>2
        <5>2. m - c = p
          BY <3>3, <3>5, <5>1
        <5> QED
          BY <3>2, <5>2
      <4> QED
        BY <4>1, <4>2
    <3> QED
      BY <3>1, <3>2, <3>3, <3>4, <3>5
  <2> QED
    BY <2>1, <2>2
<1> QED
  BY <1>1, <1>6, <1>7 DEF BatchAt

\* An engine that does anything is one that is waited for.
LEMMA AtWorkIsEngaged ==
    ASSUME EngineInv, NEW k \in Key, inbox[k] # <<>> \/ ~Idle(k)
    PROVE  Engaged(k)
BY DEF EngineInv, OthersInv, Quiet

LEMMA WorkKeeps ==
    ASSUME ThreadInv, EngineInv, NEW k \in Key, Work(k), UNCHANGED <<threadVars, submitted>>
    PROVE  EngineInv'
<1>1. UNCHANGED <<pc, cur, batch, holding, going>>
  BY DEF threadVars
<1>2. EngineTypeOK
  BY DEF EngineInv
<1>3. CASE Receive(k)
  <2>1. /\ EngineTypeOK' /\ Elsewhere(k) /\ Idle(k) /\ inbox[k] # <<>> /\ status'[k] = "up" /\ writing'[k] = writing[k]
    BY <1>2, <1>3, Receives
  <2>2. PICK cmd \in Commands :
            /\ cmd = inbox[k][1]
            /\ \/ cmd.op = "beside" /\ BegunBeside(k, cmd.for)
               \/ cmd.op = "alone" /\ BegunAlone(k, cmd.for)
               \/ cmd.op \notin {"beside", "alone"} /\ Answered(k, cmd.for)
    BY <1>2, <1>3, Receives
  <2>3. inbox' = [inbox EXCEPT ![k] = Tail(@)]
    BY <1>3 DEF Receive
  <2>4. Engaged(k)
    BY <2>1, AtWorkIsEngaged
  <2>5. /\ inbox[k] \in Seq(Commands) /\ outbox[k] \in Seq(Events) /\ Len(outbox[k]) \in Nat
        /\ inbox'[k] = Tail(inbox[k]) /\ Under(k) = {} /\ reading[k] = {} /\ writing[k] = {} /\ alone[k] = Nothing
    BY <1>2, <2>1, <2>3, LenProperties DEF EngineTypeOK, Idle, Under
  <2>6. ASSUME Alone, k = cur.on PROVE AloneAt(k)'
    <3>1. AloneAt(k) /\ ~(pc = "hand" /\ holding.what # "step")
      BY <2>1, <2>6 DEF EngineInv, AloneInv, AloneAt, Quiet
    <3>2. inbox[k] = <<[op |-> "alone", for |-> cur.n]>>
      BY <2>1, <3>1 DEF AloneAt
    <3>3. cmd = [op |-> "alone", for |-> cur.n] /\ inbox'[k] = <<>>
      BY <2>2, <2>5, <3>2
    <3>4. BegunAlone(k, cur.n)
      BY <2>2, <3>3
    <3>5. ASSUME NEW n \in 1..Len(outbox[k]) PROVE outbox[k][n].for = cur.n /\ outbox[k][n].what = "step"
      BY <2>1, <3>1 DEF AloneAt
    <3>6. UNCHANGED reading /\ reading'[k] = {} /\ writing'[k] = {}
      BY <2>1, <2>5, <3>4 DEF BegunAlone
    <3>7. CASE alone'[k] = [for |-> cur.n, at |-> "work"] /\ outbox'[k] = outbox[k]
      BY <1>1, <3>1, <3>3, <3>5, <3>6, <3>7 DEF AloneAt
    <3>8. CASE alone'[k] = alone[k] /\ outbox'[k] = Append(outbox[k], Event("failed", cur.n, FALSE))
      <4>1. PICK e : e = Event("failed", cur.n, FALSE)
        OBVIOUS
      <4>2. e.for = cur.n
        BY <4>1 DEF Event
      <4>3. /\ Len(outbox'[k]) = Len(outbox[k]) + 1 /\ outbox'[k][Len(outbox[k]) + 1] = e
            /\ \A n \in 1..Len(outbox[k]) : outbox'[k][n] = outbox[k][n]
        <5>1. e \in Events
          BY <2>6, <4>1, OneAwaited DEF Event, Events
        <5>2. outbox'[k] = Append(outbox[k], e)
          BY <3>8, <4>1
        <5> QED
          BY <2>5, <5>1, <5>2, AppendProperties
      <4>4. ASSUME NEW n \in 1..Len(outbox'[k])
            PROVE  outbox'[k][n].for = cur.n /\ (outbox'[k][n].what # "step" => n = Len(outbox'[k]))
        BY SMTT(30), <2>5, <3>5, <4>2, <4>3
      <4> QED
        BY <1>1, <2>5, <3>1, <3>3, <3>6, <3>8, <4>4 DEF AloneAt
    <3> QED
      BY <3>4, <3>7, <3>8 DEF BegunAlone
  <2>7. ASSUME Asking, k = Answering PROVE AnswerAt(k)'
    <3>1. outbox[k] = <<>> /\ \E op \in {"load", "unload", "ask"} : inbox[k] = <<[op |-> op, for |-> cur.n]>>
      BY <2>1, <2>7 DEF EngineInv, AnswerInv, AnswerAt
    <3>2. PICK op \in {"load", "unload", "ask"} : inbox[k] = <<[op |-> op, for |-> cur.n]>>
      BY <3>1
    <3>3. cmd = [op |-> op, for |-> cur.n] /\ inbox'[k] = <<>>
      BY <2>2, <2>5, <3>2
    <3>4. Answered(k, cur.n)
      BY <2>2, <3>3
    <3>5. PICK what \in {"done", "failed"} : outbox'[k] = Append(outbox[k], Event(what, cur.n, FALSE))
      BY <3>4 DEF Answered
    <3>6. outbox'[k] = <<Event(what, cur.n, FALSE)>>
      BY <3>1, <3>5
    <3>7. Idle(k)'
      BY <2>1, <2>5, <3>4 DEF Answered, Idle, Under
    <3> QED
      BY <1>1, <3>3, <3>6, <3>7 DEF AnswerAt
  <2>8. ASSUME batch # NoBatch, k = batch.on PROVE BatchAt(k)'
    <3>1. BatchAt(k)
      BY <2>8 DEF EngineInv, BatchInv
    <3>2. 1 \in 1..Len(inbox[k])
      BY <1>2, <2>1, <2>3, TakesOff
    <3>3. cmd.op = "beside" /\ BegunBeside(k, inbox[k][1].for)
      BY <2>2, <3>1, <3>2 DEF BatchAt, InboxAt
    <3>4. UNCHANGED alone
      BY <3>3 DEF BegunBeside
    <3> QED
      BY <1>1, <1>2, <2>1, <2>3, <3>1, <3>3, <3>4, BeginsInBatch
  <2> QED
    BY <2>1, <2>4, <2>6, <2>7, <2>8, OneEngine
<1>4. CASE JoinIn(k)
  <2>1. /\ EngineTypeOK' /\ Elsewhere(k) /\ writing[k] # {} /\ inbox[k] # <<>> /\ status'[k] = "up" /\ writing'[k] = writing[k]
        /\ BegunBeside(k, inbox[k][1].for)
    BY <1>2, <1>4, JoinsIn
  <2>2. inbox' = [inbox EXCEPT ![k] = Tail(@)]
    BY <1>4 DEF JoinIn
  <2>3. Engaged(k)
    BY <2>1, AtWorkIsEngaged
  <2>4. ~(Alone /\ k = cur.on) /\ ~(Asking /\ k = Answering)
    BY <2>1 DEF EngineInv, AloneInv, AloneAt, AnswerInv, AnswerAt, Idle, Under
  <2>5. ASSUME batch # NoBatch, k = batch.on PROVE BatchAt(k)'
    <3>1. BatchAt(k) /\ UNCHANGED alone
      BY <2>1, <2>5 DEF EngineInv, BatchInv, BegunBeside
    <3> QED
      BY <1>1, <1>2, <2>1, <2>2, <3>1, BeginsInBatch
  <2> QED
    BY <2>1, <2>3, <2>4, <2>5, OneEngine
<1>5. CASE Advance(k)
  <2>1. EngineTypeOK' /\ Elsewhere(k) /\ status'[k] = "up" /\ Advanced(k) /\ Under(k) # {}
    BY <1>2, <1>5, Advances
  <2>2. Engaged(k)
    BY <2>1, AtWorkIsEngaged DEF Idle
  <2>3. ~(Alone /\ k = cur.on) /\ ~(Asking /\ k = Answering)
    BY <2>1 DEF EngineInv, AloneInv, AloneAt, AnswerInv, AnswerAt, Idle, Under
  <2>4. ASSUME batch # NoBatch, k = batch.on PROVE BatchAt(k)'
    <3>1. BatchAt(k)
      BY <2>4 DEF EngineInv, BatchInv
    <3> QED
      BY <1>1, <1>2, <2>1, <3>1, AdvancesInBatch
  <2> QED
    BY <2>1, <2>2, <2>3, <2>4, OneEngine
<1>6. CASE StepAlone(k) \/ CheckAlone(k)
  <2>1. EngineTypeOK' /\ Elsewhere(k) /\ status'[k] = "up" /\ SaidAlone(k)
    BY <1>2, <1>6, AloneSteps
  <2>2. alone[k] # Nothing
    <3>1. alone[k].at \in {"work", "check"}
      BY <1>6 DEF StepAlone, CheckAlone
    <3> QED
      BY <3>1 DEF Nothing
  <2>3. Engaged(k)
    BY <2>2, AtWorkIsEngaged DEF Idle
  <2>4. ~(Asking /\ k = Answering) /\ ~(batch # NoBatch /\ k = batch.on)
    BY <2>2 DEF EngineInv, AnswerInv, AnswerAt, Idle, BatchInv, BatchAt
  <2>5. ASSUME Alone, k = cur.on PROVE AloneAt(k)'
    <3>1. AloneAt(k) /\ ~(pc = "hand" /\ holding.what # "step") /\ alone[k].for = cur.n /\ inbox[k] = <<>>
      BY <2>2, <2>5 DEF EngineInv, AloneInv, AloneAt, Quiet, Idle
    <3>2. ASSUME NEW n \in 1..Len(outbox[k]) PROVE outbox[k][n].for = cur.n /\ outbox[k][n].what = "step"
      BY <2>2, <3>1 DEF AloneAt
    <3>3. inbox'[k] = <<>> /\ reading'[k] = {} /\ writing'[k] = {}
      BY <2>1, <3>1 DEF SaidAlone, AloneAt
    <3>4. ASSUME NEW what \in {"step", "done", "failed"}, outbox'[k] = Append(outbox[k], Event(what, cur.n, FALSE))
          PROVE  \A n \in 1..Len(outbox'[k]) :
                    outbox'[k][n].for = cur.n /\ (outbox'[k][n].what # "step" => n = Len(outbox'[k]) /\ what # "step")
      <4>1. PICK e : e = Event(what, cur.n, FALSE)
        OBVIOUS
      <4>2. e.for = cur.n /\ e.what = what
        BY <4>1 DEF Event
      <4>3. outbox[k] \in Seq(Events) /\ Len(outbox[k]) \in Nat
        BY <1>2, LenProperties DEF EngineTypeOK
      <4>4. /\ Len(outbox'[k]) = Len(outbox[k]) + 1 /\ outbox'[k][Len(outbox[k]) + 1] = e
            /\ \A n \in 1..Len(outbox[k]) : outbox'[k][n] = outbox[k][n]
        <5>1. e \in Events
          BY <2>5, <4>1, OneAwaited DEF Event, Events
        <5>2. outbox'[k] = Append(outbox[k], e)
          BY <3>4, <4>1
        <5> QED
          BY <4>3, <5>1, <5>2, AppendProperties
      <4> QED
        BY <3>2, <4>2, <4>3, <4>4
    <3>5. CASE alone'[k].for = alone[k].for /\ outbox'[k] = outbox[k]
      BY <1>1, <3>1, <3>2, <3>3, <3>5 DEF AloneAt
    <3>6. CASE alone'[k].for = alone[k].for /\ outbox'[k] = Append(outbox[k], Event("step", alone[k].for, FALSE))
      BY <1>1, <3>1, <3>3, <3>4, <3>6 DEF AloneAt
    <3>7. CASE alone'[k] = Nothing /\ \E what \in {"done", "failed"} : outbox'[k] = Append(outbox[k], Event(what, alone[k].for, FALSE))
      BY <1>1, <3>1, <3>3, <3>4, <3>7 DEF AloneAt
    <3> QED
      BY <2>1, <3>5, <3>6, <3>7 DEF SaidAlone
  <2> QED
    BY <2>1, <2>3, <2>4, <2>5, OneEngine
<1> QED
  BY <1>3, <1>4, <1>5, <1>6 DEF Work

\* A worker dies at what it was at.
LEMMA PanicKeeps ==
    ASSUME ThreadInv, EngineInv, NEW k \in Key, Panic(k), UNCHANGED <<threadVars, submitted>>
    PROVE  EngineInv'
<1>1. UNCHANGED <<pc, cur, batch, holding, going>>
  BY DEF threadVars
<1>2. EngineTypeOK
  BY DEF EngineInv
<1>3. /\ UNCHANGED outbox /\ status'[k] = "dead" /\ inbox'[k] = <<>> /\ reading'[k] = {} /\ writing'[k] = {} /\ alone'[k] = Nothing
      /\ Elsewhere(k)
  BY <1>2 DEF Panic, EngineTypeOK, Elsewhere
<1>4. EngineTypeOK'
  <2>1. panics' \in 0..MaxPanics
    BY <1>2, EngineAssumption DEF Panic, EngineTypeOK
  <2>2. <<>> \in Seq(Commands)
    BY EmptySeq
  <2>3. inbox' \in [Key -> Seq(Commands)]
    BY <1>2, <2>2 DEF Panic, EngineTypeOK
  <2> QED
    BY <1>2, <2>1, <2>3 DEF Panic, EngineTypeOK
<1>5. Engaged(k) /\ (inbox[k] # <<>> \/ ~Idle(k))
  BY AtWorkIsEngaged DEF Panic, AtWork
<1>6. ASSUME Alone, k = cur.on PROVE AloneAt(k)'
  BY <1>1, <1>3, <1>5, <1>6 DEF EngineInv, AloneInv, AloneAt, Quiet
<1>7. ASSUME Asking, k = Answering PROVE AnswerAt(k)'
  BY <1>1, <1>3, <1>5, <1>7 DEF EngineInv, AnswerInv, AnswerAt, Idle, Under
<1>8. ASSUME batch # NoBatch, k = batch.on PROVE BatchAt(k)'
  <2>1. BatchAt(k)
    BY <1>8 DEF EngineInv, BatchInv
  <2>2. Under(k)' = {} /\ SentTo(k)' = {} /\ 1..Len(inbox'[k]) = {}
    BY <1>3 DEF Under, SentTo
  <2>3. InboxAt(k)'
    BY <2>2 DEF InboxAt
  <2>4. OutboxAt(k)'
    BY <1>1, <1>3, <2>1, <2>2 DEF BatchAt, OutboxAt
  <2> QED
    BY <1>1, <1>3, <2>1, <2>2, <2>3, <2>4 DEF BatchAt
<1>9. Idle(k)'
  BY <1>3 DEF Idle, Under
<1> QED
  BY <1>3, <1>4, <1>5, <1>6, <1>7, <1>8, <1>9, OneEngine

LEMMA EngineStepKeeps ==
    ASSUME ThreadInv, EngineInv, NEW k \in Key, EngineStep(k)
    PROVE  EngineInv'
<1>1. UNCHANGED <<threadVars, submitted>>
  BY DEF EngineStep, queueVars
<1> QED
  BY <1>1, WorkKeeps, PanicKeeps DEF EngineStep

\* Where only what the protocol is not about changes, it stays.
LEMMA ProtocolStays ==
    ASSUME EngineInv, EngineTypeOK',
           UNCHANGED <<status, inbox, outbox, reading, writing, alone, pc, cur, slots, batch, going, holding, submitted>>
    PROVE  EngineInv'
<1>1. UNCHANGED <<pc, cur, slots, batch, going, holding, submitted>>
  OBVIOUS
<1>2. SlotsInv' /\ HoldingInv' /\ CrowdInv'
  BY DEF EngineInv, SlotsInv, HoldingInv, CrowdInv, IsGeneration
<1>3. OthersInv'
  BY DEF EngineInv, OthersInv, Engaged, Alone, Asking, Answering, Quiet, Idle, Under
<1>4. AloneInv' /\ AnswerInv'
  BY ZenonT(40) DEF EngineInv, AloneInv, AnswerInv, AloneAt, AnswerAt, Alone, Asking, Answering, Quiet, Idle, Under
<1>5. BatchInv'
  BY DEF EngineInv, BatchInv, BatchAt, InboxAt, OutboxAt, SentTo, Under
<1> QED
  BY <1>2, <1>3, <1>4, <1>5 DEF EngineInv

\* Where the thread has no engine to itself it may go on as it likes.
Aside == ~Alone /\ ~Asking
LEMMA ProtocolGoesOn ==
    ASSUME EngineInv, Aside, Aside', HoldingInv', CrowdInv',
           UNCHANGED <<engineVars, stop, slots, batch, going, submitted>>,
           pc' \in {"enter", "begin", "drain", "hand", "finish", "ask", "await", "load", "loading"} => cur'.kind # "unload"
    PROVE  EngineInv'
<1>1. UNCHANGED <<status, inbox, outbox, flag, reading, writing, alone, steps, stop, panics, interrupted>>
  BY DEF engineVars
<1>2. EngineTypeOK'
  BY <1>1 DEF EngineInv, EngineTypeOK
<1>3. SlotsInv'
  BY DEF EngineInv, SlotsInv, Aside, Asking
<1>4. OthersInv'
  BY <1>1 DEF EngineInv, OthersInv, Engaged, Aside, Quiet, Idle, Under
<1>5. AloneInv' /\ AnswerInv'
  BY DEF Aside, AloneInv, AnswerInv
<1>6. BatchInv'
  BY <1>1 DEF EngineInv, BatchInv, BatchAt, InboxAt, OutboxAt, SentTo, Under
<1> QED
  BY <1>2, <1>3, <1>4, <1>5, <1>6 DEF EngineInv

\* One engine is given something, or has nothing any more.
LEMMA OthersLeft ==
    ASSUME OthersInv, NEW k \in Key, Elsewhere(k), \A l \in Key : l # k => ~Engaged(l),
           Engaged(k)' \/ Quiet(k)', status'[k] # "up" => inbox'[k] = <<>> /\ Idle(k)'
    PROVE  OthersInv'
<1>1. \A l \in Key : l # k => Quiet(l)'
  BY DEF OthersInv, Elsewhere, Quiet, Idle, Under
<1>2. \A l \in Key : Engaged(l)' \/ Quiet(l)'
  BY <1>1
<1>3. \A l \in Key : status'[l] # "up" => inbox'[l] = <<>> /\ Idle(l)'
  BY <1>1 DEF Quiet
<1> QED
  BY <1>2, <1>3 DEF OthersInv

LEMMA EngineInit0 == Init => EngineInv
<1> SUFFICES ASSUME Init PROVE EngineInv
  OBVIOUS
<1>1. /\ submitted = {} /\ pc = "next" /\ cur = NoJob /\ slots = Resident /\ batch = NoBatch
      /\ holding = Silence /\ going = <<>> /\ EngineInit(Resident)
  BY DEF Init
<1>2. EngineTypeOK
  <2>1. <<>> \in Seq(Commands) /\ <<>> \in Seq(Events)
    BY EmptySeq
  <2>2. /\ inbox = [k \in Key |-> <<>>] /\ outbox = [k \in Key |-> <<>>]
        /\ status = [k \in Key |-> IF k \in Resident THEN "up" ELSE "off"]
        /\ flag = [k \in Key |-> FALSE] /\ reading = [k \in Key |-> {}] /\ writing = [k \in Key |-> {}]
        /\ alone = [k \in Key |-> Nothing] /\ steps = [i \in Ids |-> MaxSteps]
        /\ stop = [i \in Ids |-> FALSE] /\ panics = 0 /\ interrupted = {}
    BY <1>1 DEF EngineInit
  <2>3. steps \in [Ids -> 0..MaxSteps] /\ panics \in 0..MaxPanics
    BY <2>2, EngineAssumption
  <2>4. inbox \in [Key -> Seq(Commands)] /\ outbox \in [Key -> Seq(Events)]
    BY <2>1, <2>2
  <2> QED
    BY <2>2, <2>3, <2>4 DEF EngineTypeOK
<1>3. \A k \in Key : Quiet(k)
  BY <1>1 DEF EngineInit, Quiet, Idle, Under
<1>4. OthersInv
  BY <1>3 DEF OthersInv, Quiet
<1>5. SlotsInv
  BY <1>1, SchedulerAssumption, EmptySeq DEF SlotsInv
<1>6. HoldingInv
  BY <1>1 DEF HoldingInv, Silence
<1>7. AloneInv /\ AnswerInv /\ BatchInv
  BY <1>1 DEF AloneInv, Alone, AnswerInv, Asking, BatchInv
<1>8. CrowdInv
  <2>1. batch.streams = {} /\ ~batch.private /\ Cardinality({}) = 0
    BY <1>1, FS_EmptySet DEF NoBatch
  <2>2. Batch \in Nat \ {0}
    BY SchedulerAssumption
  <2> QED
    BY <1>1, <2>1, <2>2 DEF CrowdInv
<1> QED
  BY <1>2, <1>4, <1>5, <1>6, <1>7, <1>8 DEF EngineInv

\* The handlers, which talk to no engine.
LEMMA HandlersKeepProtocol ==
    ASSUME ThreadInv, EngineInv,
           \/ \E who \in Asked \cup {NoTicket}, item \in Menu : Submit(who, item)
           \/ \E who \in Asked, id \in {0} \cup Ids : CancelWaiting(who, id)
           \/ Cancelling
           \/ \E i \in Ids : Read(i) \/ Leave(i) \/ Trail(i)
           \/ Close
    PROVE  EngineInv'
<1>1. ASSUME NEW who \in Asked \cup {NoTicket}, NEW item \in Menu, Submit(who, item) PROVE EngineInv'
  <2>1. PICK j : j = [n |-> Cardinality(submitted) + 1, who |-> who, kind |-> item.kind, on |-> item.on]
    OBVIOUS
  <2>2. /\ submitted' = submitted \cup {j}
        /\ UNCHANGED <<status, inbox, outbox, flag, reading, writing, alone, steps, stop, panics, interrupted,
                       pc, cur, slots, batch, going, holding>>
    BY <1>1, <2>1 DEF Submit, threadVars, engineVars
  <2>3. j.kind # "unload" => j.on \in Key
    BY <2>1, SchedulerAssumption
  <2>4. SlotsInv'
    BY <2>2, <2>3 DEF EngineInv, SlotsInv
  <2>5. EngineTypeOK'
    BY <2>2 DEF EngineInv, EngineTypeOK
  <2>6. OthersInv'
    BY <2>2 DEF EngineInv, OthersInv, Engaged, Alone, Asking, Answering, Quiet, Idle, Under
  <2>7. HoldingInv' /\ CrowdInv'
    BY <2>2 DEF EngineInv, HoldingInv, CrowdInv, IsGeneration
  <2>8. AloneInv' /\ AnswerInv'
    BY ZenonT(40), <2>2 DEF EngineInv, AloneInv, AnswerInv, AloneAt, AnswerAt, Alone, Asking, Answering, Quiet, Idle, Under
  <2>9. BatchInv'
    BY <2>2 DEF EngineInv, BatchInv, BatchAt, InboxAt, OutboxAt, SentTo, Under
  <2> QED
    BY <2>4, <2>5, <2>6, <2>7, <2>8, <2>9 DEF EngineInv
<1>2. ASSUME UNCHANGED <<threadVars, engineVars, stop, submitted>> PROVE EngineInv'
  <2>1. EngineTypeOK'
    BY <1>2 DEF EngineInv, EngineTypeOK, engineVars
  <2> QED
    BY <1>2, <2>1, ProtocolStays DEF threadVars, engineVars
<1>3. CASE CancelMark
  <2>1. EngineTypeOK'
    <3>1. stop' \in [Ids -> BOOLEAN]
      <4>1. \A i \in Ids : (stop[i] \/ i \in Told({j \in books : j.who = stopping.who /\ stopping.id \in {0, j.n}})) \in BOOLEAN
        BY Zenon
      <4> QED
        BY <1>3, <4>1 DEF CancelMark
    <3>2. flag' \in [Key -> BOOLEAN]
      <4>1. \A k \in Key : (flag[k] \/ \E j \in {h \in books : h.who = stopping.who /\ stopping.id \in {0, h.n}} : k \in begun[j.n]) \in BOOLEAN
        BY Zenon
      <4> QED
        BY <1>3, <4>1 DEF CancelMark
    <3> QED
      BY <1>3, <3>1, <3>2 DEF CancelMark, EngineInv, EngineTypeOK
  <2> QED
    BY <1>3, <2>1, ProtocolStays DEF CancelMark, threadVars, queueVars
<1>4. CASE CancelCount \/ CancelEnd
  BY <1>2, <1>4 DEF CancelCount, CancelEnd, queueVars
<1>5. ASSUME NEW who \in Asked, NEW id \in {0} \cup Ids, CancelWaiting(who, id) PROVE EngineInv'
  BY <1>2, <1>5 DEF CancelWaiting
<1>6. ASSUME NEW i \in Ids, Read(i) \/ Leave(i) \/ Trail(i) PROVE EngineInv'
  BY <1>2, <1>6 DEF Read, Leave, Trail, queueVars
<1>7. CASE Close
  BY <1>2, <1>7 DEF Close
<1> QED
  BY <1>1, <1>3, <1>4, <1>5, <1>6, <1>7 DEF Cancelling

\* The thread where it talks to no engine.
LEMMA AsideKeepsProtocol ==
    ASSUME ThreadInv, EngineInv,
           \/ \E j \in jobs : TakeNext(j) \/ Join(j)
           \/ MarkBusy \/ CountOut \/ JoinNobody \/ DropEnded \/ EnterAlone \/ FinishAlone \/ ClearBusy \/ Reply
    PROVE  EngineInv'
<1>0. batch = NoBatch => Cardinality(batch.streams) < Batch
  <2>1. Batch \in Nat \ {0} /\ Cardinality({}) = 0
    BY SchedulerAssumption, FS_EmptySet
  <2>2. batch = NoBatch => batch.streams = {}
    BY DEF NoBatch
  <2> QED
    BY <2>1, <2>2
<1>1. ASSUME NEW j \in jobs, TakeNext(j) PROVE EngineInv'
  <2>1. /\ pc = "next" /\ pc' = "busy" /\ UNCHANGED <<engineVars, stop, slots, batch, holding, going, submitted>>
    BY <1>1 DEF TakeNext, TakeJob
  <2>2. Aside /\ Aside' /\ HoldingInv' /\ CrowdInv'
    BY <2>1 DEF Aside, Alone, Asking, EngineInv, HoldingInv, CrowdInv, Silence
  <2> QED
    BY <2>1, <2>2, ProtocolGoesOn
<1>2. ASSUME NEW j \in jobs, Join(j) PROVE EngineInv'
  <2>1. /\ pc = "join" /\ pc' = "count" /\ UNCHANGED <<engineVars, stop, slots, batch, holding, going, submitted>>
        /\ Cardinality(batch.streams) < Batch
    BY <1>2 DEF Join, TakeJob, Fits
  <2>2. Aside /\ Aside' /\ HoldingInv' /\ CrowdInv'
    BY <2>1 DEF Aside, Alone, Asking, EngineInv, HoldingInv, CrowdInv, Silence
  <2> QED
    BY <2>1, <2>2, ProtocolGoesOn
<1>3. CASE MarkBusy
  <2>1. /\ pc = "busy" /\ pc' = "count" /\ UNCHANGED <<engineVars, stop, slots, batch, holding, going, submitted>>
    BY <1>3 DEF MarkBusy, queueVars
  <2>2. batch = NoBatch
    BY <2>1 DEF ThreadInv, PlaceInv, Either, Together
  <2>3. Aside /\ Aside' /\ HoldingInv' /\ CrowdInv'
    BY <1>0, <2>1, <2>2 DEF Aside, Alone, Asking, EngineInv, HoldingInv, CrowdInv, Silence
  <2> QED
    BY <2>1, <2>3, ProtocolGoesOn
<1>4. CASE CountOut
  <2>1. /\ pc = "count" /\ pc' = (IF IsText(cur) THEN "admit" ELSE IF cur.kind \in Alones THEN "enter" ELSE cur.kind)
        /\ UNCHANGED <<engineVars, stop, slots, batch, holding, going, submitted, cur>>
    BY <1>4 DEF CountOut, queueVars
  <2>2. cur \in submitted /\ cur.kind \in Kinds
    <3>1. cur \in submitted
      BY <2>1 DEF ThreadInv, PlaceInv, JobsInv, Either
    <3> QED
      BY <3>1 DEF ThreadInv, JobsInv, Job
  <2>3. \/ pc' = "admit"
        \/ pc' = "enter" /\ cur.kind \in Alones
        \/ pc' \in {"load", "unload", "ask"} /\ pc' = cur.kind
    BY <2>1, <2>2 DEF Kinds, IsText
  <2>4. Aside /\ Aside'
    BY <2>1, <2>3 DEF Aside, Alone, Asking
  <2>5. HoldingInv'
    BY <2>1, <2>3 DEF EngineInv, HoldingInv, Silence
  <2>6. CrowdInv'
    BY <2>1, <2>3 DEF EngineInv, CrowdInv
  <2>7. pc' \in {"enter", "begin", "drain", "hand", "finish", "ask", "await", "load", "loading"} => cur'.kind # "unload"
    BY <2>1, <2>3 DEF Alones
  <2> QED
    BY <2>1, <2>4, <2>5, <2>6, <2>7, ProtocolGoesOn
<1>5. CASE JoinNobody
  <2>1. /\ pc = "join" /\ pc' = "pump" /\ UNCHANGED <<engineVars, stop, slots, batch, holding, going, submitted, cur>>
    BY <1>5 DEF JoinNobody, queueVars
  <2>2. Aside /\ Aside' /\ HoldingInv' /\ CrowdInv'
    BY <2>1 DEF Aside, Alone, Asking, EngineInv, HoldingInv, CrowdInv, Silence
  <2> QED
    BY <2>1, <2>2, ProtocolGoesOn
<1>6. CASE DropEnded
  <2>1. /\ pc = "drop" /\ pc' \in {"next", "join"} /\ UNCHANGED <<engineVars, stop, slots, batch, holding, going, submitted, cur>>
    BY <1>6 DEF DropEnded, queueVars
  <2>2. Aside /\ Aside' /\ HoldingInv' /\ CrowdInv'
    BY <2>1 DEF Aside, Alone, Asking, EngineInv, HoldingInv, CrowdInv, Silence
  <2> QED
    BY <2>1, <2>2, ProtocolGoesOn
<1>7. CASE EnterAlone
  <2>1. /\ pc = "enter" /\ pc' \in {"finish", "begin"} /\ UNCHANGED <<engineVars, stop, slots, batch, holding, going, submitted, cur>>
    BY <1>7 DEF EnterAlone, queueVars
  <2>2. Aside /\ Aside' /\ HoldingInv' /\ CrowdInv'
    BY <2>1 DEF Aside, Alone, Asking, EngineInv, HoldingInv, CrowdInv, Silence
  <2>3. cur.kind # "unload"
    BY <2>1 DEF EngineInv, SlotsInv
  <2> QED
    BY <2>1, <2>2, <2>3, ProtocolGoesOn
<1>8. CASE FinishAlone
  <2>1. /\ pc = "finish" /\ pc' = "clear" /\ UNCHANGED <<engineVars, stop, slots, batch, holding, going, submitted, cur>>
    BY <1>8 DEF FinishAlone, queueVars
  <2>2. IsGeneration(cur)
    BY <2>1 DEF ThreadInv, PlaceInv, JobsInv, Single
  <2>3. holding = Silence
    BY <2>1 DEF EngineInv, HoldingInv
  <2>4. HoldingInv'
    BY <2>1, <2>2, <2>3 DEF EngineInv, HoldingInv, Silence, IsGeneration
  <2>5. Aside /\ Aside' /\ CrowdInv'
    BY <2>1 DEF Aside, Alone, Asking, EngineInv, CrowdInv
  <2> QED
    BY <2>1, <2>4, <2>5, ProtocolGoesOn
<1>9. CASE ClearBusy
  <2>1. /\ pc = "clear" /\ pc' = "reply" /\ UNCHANGED <<engineVars, stop, slots, batch, holding, going, submitted, cur>>
    BY <1>9 DEF ClearBusy, queueVars
  <2>2. Aside /\ Aside' /\ HoldingInv' /\ CrowdInv'
    BY <2>1 DEF Aside, Alone, Asking, EngineInv, HoldingInv, CrowdInv, Silence, IsGeneration
  <2> QED
    BY <2>1, <2>2, ProtocolGoesOn
<1>10. CASE Reply
  <2>1. /\ pc = "reply" /\ pc' = "next" /\ UNCHANGED <<engineVars, stop, slots, batch, going, submitted>> /\ holding' = Silence
    BY <1>10 DEF Reply, queueVars
  <2>2. Aside /\ Aside' /\ HoldingInv' /\ CrowdInv'
    BY <2>1 DEF Aside, Alone, Asking, EngineInv, HoldingInv, CrowdInv, Silence
  <2> QED
    BY <2>1, <2>2, ProtocolGoesOn
<1> QED
  BY <1>1, <1>2, <1>3, <1>4, <1>5, <1>6, <1>7, <1>8, <1>9, <1>10

\* Nobody is waited for where the thread is aside and has no batch.
LEMMA NobodyAwaited ==
    ASSUME EngineInv, Aside, batch = NoBatch
    PROVE  \A k \in Key : ~Engaged(k) /\ Quiet(k)
BY DEF EngineInv, OthersInv, Engaged, Aside

\* Between two engines, the others' part of the invariant.
LEMMA NoneInstead ==
    ASSUME Aside', batch' = NoBatch
    PROVE  AloneInv' /\ AnswerInv' /\ BatchInv'
BY DEF AloneInv, AnswerInv, BatchInv, Aside

LEMMA BeginAloneProtocol == ASSUME ThreadInv, EngineInv, BeginAlone PROVE EngineInv'
<1>1. /\ pc = "begin" /\ pc' = "drain" /\ inbox' = Sent(cur.on, "alone", cur.n)
      /\ UNCHANGED <<status, outbox, flag, reading, writing, alone, steps, panics, interrupted, stop,
                     cur, slots, batch, holding, going, submitted>>
  BY DEF BeginAlone, queueVars
<1>2. cur \in submitted /\ batch = NoBatch /\ cur.n \in Ids /\ cur.kind # "unload"
  <2>1. cur \in submitted /\ batch = NoBatch
    BY <1>1 DEF ThreadInv, PlaceInv, JobsInv, Single, Either, Together
  <2> QED
    BY <1>1, <2>1 DEF ThreadInv, JobsInv, Job, EngineInv, SlotsInv
<1>3. PICK k \in Key : k = cur.on
  BY <1>2 DEF EngineInv, SlotsInv
<1>4. Aside /\ \A l \in Key : ~Engaged(l) /\ Quiet(l)
  BY <1>1, <1>2, NobodyAwaited DEF Aside, Alone, Asking
<1>5. /\ inbox' \in [Key -> Seq(Commands)]
      /\ inbox'[k] = IF status[k] = "up" THEN Append(inbox[k], [op |-> "alone", for |-> cur.n]) ELSE inbox[k]
      /\ \A l \in Key : l # k => inbox'[l] = inbox[l]
  BY <1>1, <1>2, <1>3, SendsOne DEF EngineInv
<1>6. inbox[k] = <<>> /\ outbox[k] = <<>> /\ reading[k] = {} /\ writing[k] = {} /\ alone[k] = Nothing
  BY <1>4 DEF Quiet, Idle, Under
<1>7. inbox'[k] = (IF status[k] = "up" THEN <<[op |-> "alone", for |-> cur.n]>> ELSE <<>>)
  BY <1>5, <1>6
<1>8. EngineTypeOK'
  BY <1>1, <1>5 DEF EngineInv, EngineTypeOK
<1>9. OthersInv'
  <2>1. Elsewhere(k)
    BY <1>1, <1>5 DEF Elsewhere
  <2>2. Engaged(k)'
    BY <1>1, <1>3 DEF Engaged, Alone
  <2>3. status'[k] # "up" => inbox'[k] = <<>> /\ Idle(k)'
    BY <1>1, <1>6, <1>7 DEF Idle, Under
  <2> QED
    BY <1>4, <2>1, <2>2, <2>3, OthersLeft DEF EngineInv
<1>10. SlotsInv' /\ HoldingInv' /\ CrowdInv'
  BY <1>1, <1>2 DEF EngineInv, SlotsInv, HoldingInv, CrowdInv, Silence
<1>11. AloneInv'
  <2>1. AloneAt(k)'
    BY <1>1, <1>6, <1>7 DEF AloneAt
  <2> QED
    BY <1>1, <1>3, <2>1 DEF AloneInv
<1>12. AnswerInv' /\ BatchInv'
  BY <1>1, <1>2 DEF AnswerInv, Asking, BatchInv
<1> QED
  BY <1>8, <1>9, <1>10, <1>11, <1>12 DEF EngineInv

\* What an outbox has first.
LEMMA TakesEvent ==
    ASSUME EngineTypeOK, NEW k \in Key, outbox[k] # <<>>
    PROVE  /\ Head(outbox[k]) \in Events /\ Head(outbox[k]) = outbox[k][1] /\ Len(outbox[k]) \in Nat \ {0}
           /\ Tail(outbox[k]) \in Seq(Events) /\ Len(Tail(outbox[k])) = Len(outbox[k]) - 1
           /\ \A n \in 1..(Len(outbox[k]) - 1) : Tail(outbox[k])[n] = outbox[k][n + 1]
           /\ Len(outbox[k]) = 1 => Tail(outbox[k]) = <<>>
<1>1. outbox[k] \in Seq(Events)
  BY DEF EngineTypeOK
<1>2. /\ Tail(outbox[k]) \in Seq(Events) /\ Head(outbox[k]) \in Events /\ Head(outbox[k]) = outbox[k][1]
      /\ Len(outbox[k]) \in Nat \ {0} /\ Len(Tail(outbox[k])) = Len(outbox[k]) - 1
      /\ \A n \in 1..(Len(outbox[k]) - 1) : Tail(outbox[k])[n] = outbox[k][n + 1]
  BY <1>1, HeadTailProperties, ElementOfSeq, EmptySeq, LenProperties
<1>3. Len(outbox[k]) = 1 => Tail(outbox[k]) = <<>>
  <2>1. PICK t \in Seq(Events) : t = Tail(outbox[k])
    BY <1>2
  <2>2. Len(t) = 0 => t = <<>>
    BY EmptySeq
  <2> QED
    BY <1>2, <2>1, <2>2
<1> QED
  BY <1>2, <1>3

LEMMA DrainEventProtocol == ASSUME ThreadInv, EngineInv, DrainEvent PROVE EngineInv'
<1>1. Alone /\ cur.on \in Key /\ cur.n \in Ids /\ batch = NoBatch /\ ~Asking
  BY OneAwaited DEF DrainEvent, Alone
<1>2. PICK k \in Key : k = cur.on
  BY <1>1
<1>3. /\ pc = "drain" /\ (outbox[k] # <<>> \/ Disconnected(k)) /\ pc' = "hand"
      /\ holding' = IF outbox[k] = <<>> THEN [what |-> "failed", for |-> cur.n]
                    ELSE [what |-> Head(outbox[k]).what, for |-> Head(outbox[k]).for]
      /\ outbox' = IF outbox[k] = <<>> THEN outbox ELSE [outbox EXCEPT ![k] = Tail(@)]
      /\ flag' = [flag EXCEPT ![k] = @ \/ (cur.kind = "paint" /\ stop[cur.n])]
      /\ UNCHANGED <<status, inbox, reading, writing, alone, steps, panics, interrupted, stop,
                     cur, slots, batch, going, submitted>>
  BY <1>2 DEF DrainEvent, queueVars
<1>4. AloneAt(k)
  BY <1>1, <1>2 DEF EngineInv, AloneInv
<1>5. EngineTypeOK'
  <2>1. flag' \in [Key -> BOOLEAN]
    <3>1. (flag[k] \/ (cur.kind = "paint" /\ stop[cur.n])) \in BOOLEAN
      BY Zenon
    <3>2. flag \in [Key -> BOOLEAN]
      BY DEF EngineInv, EngineTypeOK
    <3> QED
      BY <1>3, <3>1, <3>2
  <2>2. outbox' \in [Key -> Seq(Events)]
    BY <1>3, TakesEvent DEF EngineInv, EngineTypeOK
  <2> QED
    BY <1>3, <2>1, <2>2 DEF EngineInv, EngineTypeOK
<1>6. /\ holding'.for = cur.n /\ holding' \in [what : {"step", "done", "failed"}, for : Ids]
      /\ outbox'[k] \in Seq(Events) /\ Len(outbox'[k]) \in Nat
      /\ \A n \in 1..Len(outbox'[k]) :
            /\ outbox'[k][n].for = cur.n
            /\ outbox'[k][n].what # "step" => n = Len(outbox'[k]) /\ inbox[k] = <<>> /\ alone[k] = Nothing
      /\ holding'.what # "step" => inbox[k] = <<>> /\ outbox'[k] = <<>> /\ alone[k] = Nothing
  <2>0. outbox'[k] \in Seq(Events) /\ Len(outbox'[k]) \in Nat
    BY <1>5, LenProperties DEF EngineTypeOK
  <2>1. CASE outbox[k] = <<>>
    <3>1. inbox[k] = <<>> /\ alone[k] = Nothing
      BY <1>3, <2>1 DEF Disconnected, EngineInv, OthersInv, Idle
    <3>2. outbox'[k] = <<>> /\ Len(outbox'[k]) = 0
      BY <1>3, <2>1
    <3>3. holding' = [what |-> "failed", for |-> cur.n]
      BY <1>3, <2>1
    <3> QED
      BY <1>1, <2>0, <3>1, <3>2, <3>3
  <2>2. CASE outbox[k] # <<>>
    <3>1. PICK e \in Events : e = Head(outbox[k]) /\ e = outbox[k][1]
      BY <2>2, TakesEvent DEF EngineInv
    <3>2. outbox'[k] = Tail(outbox[k])
      BY <1>3, <2>2 DEF EngineInv, EngineTypeOK
    <3>3. /\ Len(outbox[k]) \in Nat \ {0} /\ Len(outbox'[k]) = Len(outbox[k]) - 1
          /\ \A n \in 1..(Len(outbox[k]) - 1) : outbox'[k][n] = outbox[k][n + 1]
          /\ Len(outbox[k]) = 1 => outbox'[k] = <<>>
      BY <2>2, <3>2, TakesEvent DEF EngineInv
    <3>4. e.for = cur.n /\ (e.what # "step" => 1 = Len(outbox[k]) /\ inbox[k] = <<>> /\ alone[k] = Nothing)
      <4>1. 1 \in 1..Len(outbox[k])
        BY <3>3
      <4> QED
        BY <1>4, <3>1, <4>1 DEF AloneAt
    <3>5. holding' = [what |-> e.what, for |-> e.for]
      BY <1>3, <2>2, <3>1
    <3>6. holding'.for = cur.n /\ holding'.what = e.what /\ holding' \in [what : {"step", "done", "failed"}, for : Ids]
      BY <3>4, <3>5 DEF Events
    <3>7. ASSUME NEW n \in 1..Len(outbox'[k])
          PROVE  /\ outbox'[k][n].for = cur.n
                 /\ outbox'[k][n].what # "step" => n = Len(outbox'[k]) /\ inbox[k] = <<>> /\ alone[k] = Nothing
      <4>1. n + 1 \in 1..Len(outbox[k]) /\ outbox'[k][n] = outbox[k][n + 1] /\ n \in Nat
        BY <3>3
      <4>2. /\ outbox[k][n + 1].for = cur.n
            /\ outbox[k][n + 1].what # "step" => n + 1 = Len(outbox[k]) /\ inbox[k] = <<>> /\ alone[k] = Nothing
        BY <1>4, <4>1 DEF AloneAt
      <4> QED
        BY <3>3, <4>1, <4>2
    <3> QED
      BY <2>0, <3>3, <3>4, <3>6, <3>7
  <2> QED
    BY <2>1, <2>2
<1>7. AloneInv'
  <2>1. AloneAt(k)'
    <3>1. Under(k) = {} /\ reading[k] = {} /\ writing[k] = {}
      BY <1>4 DEF AloneAt, Under
    <3>2. holding'.what # "step" => Quiet(k)'
      BY <1>3, <1>6, <3>1 DEF Quiet, Idle, Under
    <3> QED
      BY <1>3, <1>4, <1>6, <3>1, <3>2 DEF AloneAt
  <2> QED
    BY <1>2, <1>3, <2>1 DEF AloneInv
<1>8. OthersInv'
  <2>1. Elsewhere(k)
    BY <1>3 DEF Elsewhere
  <2>2. Engaged(k)'
    BY <1>2, <1>3 DEF Engaged, Alone
  <2>3. status'[k] # "up" => inbox'[k] = <<>> /\ Idle(k)'
    BY <1>3 DEF EngineInv, OthersInv, Idle, Under
  <2>4. \A l \in Key : l # k => ~Engaged(l)
    BY <1>1, <1>2 DEF Engaged
  <2> QED
    BY <2>1, <2>2, <2>3, <2>4, OthersLeft DEF EngineInv
<1>9. HoldingInv'
  BY <1>3, <1>6 DEF HoldingInv, Silence
<1>10. SlotsInv' /\ CrowdInv'
  BY <1>3 DEF EngineInv, SlotsInv, CrowdInv
<1>11. AnswerInv' /\ BatchInv'
  BY <1>1, <1>3 DEF AnswerInv, Asking, BatchInv
<1> QED
  BY <1>5, <1>7, <1>8, <1>9, <1>10, <1>11 DEF EngineInv

\* Only the flag changes.
LEMMA DrainQuietProtocol == ASSUME EngineInv, DrainQuiet PROVE EngineInv'
<1>1. EngineTypeOK'
  BY DEF DrainQuiet, EngineInv, EngineTypeOK
<1> QED
  BY <1>1, ProtocolStays DEF DrainQuiet, threadVars, queueVars

LEMMA HandOverProtocol == ASSUME ThreadInv, EngineInv, HandOver PROVE EngineInv'
<1>1. Alone /\ cur.on \in Key /\ cur.n \in Ids /\ batch = NoBatch /\ ~Asking
  BY OneAwaited DEF HandOver, Alone
<1>2. PICK k \in Key : k = cur.on
  BY <1>1
<1>3. /\ pc = "hand" /\ holding' = Silence /\ pc' = (IF holding.what = "step" THEN "drain" ELSE "finish")
      /\ flag' = [flag EXCEPT ![k] = @ \/ cur.n \notin reader]
      /\ UNCHANGED <<status, inbox, outbox, reading, writing, alone, steps, panics, interrupted, stop,
                     cur, slots, batch, going, submitted>>
  BY <1>2 DEF HandOver, queueVars, Onward
<1>4. AloneAt(k)
  BY <1>1, <1>2 DEF EngineInv, AloneInv
<1>5. EngineTypeOK'
  <2>1. flag' \in [Key -> BOOLEAN]
    <3>1. (flag[k] \/ cur.n \notin reader) \in BOOLEAN
      BY Zenon
    <3>2. flag \in [Key -> BOOLEAN]
      BY DEF EngineInv, EngineTypeOK
    <3> QED
      BY <1>3, <3>1, <3>2
  <2> QED
    BY <1>3, <2>1 DEF EngineInv, EngineTypeOK
<1>6. AloneInv'
  <2>1. AloneAt(k)' \/ pc' = "finish"
    BY <1>3, <1>4 DEF AloneAt
  <2> QED
    BY <1>2, <1>3, <2>1 DEF AloneInv, Alone
<1>7. OthersInv'
  <2>1. Elsewhere(k)
    BY <1>3 DEF Elsewhere
  <2>2. Engaged(k)' \/ Quiet(k)'
    <3>1. CASE holding.what = "step"
      BY <1>2, <1>3, <3>1 DEF Engaged, Alone
    <3>2. CASE holding.what # "step"
      BY <1>3, <1>4, <3>2 DEF AloneAt, Quiet, Idle, Under
    <3> QED
      BY <3>1, <3>2
  <2>3. status'[k] # "up" => inbox'[k] = <<>> /\ Idle(k)'
    BY <1>3 DEF EngineInv, OthersInv, Idle, Under
  <2>4. \A l \in Key : l # k => ~Engaged(l)
    BY <1>1, <1>2 DEF Engaged
  <2> QED
    BY <2>1, <2>2, <2>3, <2>4, OthersLeft DEF EngineInv
<1>8. HoldingInv' /\ SlotsInv' /\ CrowdInv'
  BY <1>3 DEF EngineInv, HoldingInv, SlotsInv, CrowdInv, Silence
<1>9. AnswerInv' /\ BatchInv'
  BY <1>1, <1>3 DEF AnswerInv, Asking, BatchInv
<1> QED
  BY <1>5, <1>6, <1>7, <1>8, <1>9 DEF EngineInv

\* Where the thread has a job that is no generation.
LEMMA NoGenerationInHand ==
    ASSUME ThreadInv, EngineInv, pc \in {"ask", "await", "load", "loading", "unload", "leaving", "left"}
    PROVE  /\ cur \in submitted /\ cur.n \in Ids /\ cur.on \in Key \cup {Everywhere}
           /\ batch = NoBatch /\ ~IsGeneration(cur)
           /\ pc \in {"ask", "await", "load", "loading"} => cur.on \in Key
<1>1. cur \in submitted /\ batch = NoBatch /\ ~IsGeneration(cur)
  BY DEF ThreadInv, PlaceInv, JobsInv, Single, Either, Together
<1> QED
  BY <1>1 DEF ThreadInv, JobsInv, Job, EngineInv, SlotsInv

\* A question is put to an engine that nothing was asked of.
LEMMA AsksOne ==
    ASSUME ThreadInv, EngineInv, Aside, batch = NoBatch, NEW k \in Key, NEW op \in {"load", "unload", "ask"}, cur.n \in Ids,
           UNCHANGED <<outbox, reading, writing, alone, steps, panics, interrupted, stop, cur, batch, submitted>>,
           status' \in [Key -> {"off", "up", "dead"}], flag' \in [Key -> BOOLEAN], inbox' \in [Key -> Seq(Commands)],
           inbox'[k] = (IF status'[k] = "up" THEN <<[op |-> op, for |-> cur.n]>> ELSE <<>>),
           \A l \in Key : l # k => status'[l] = status[l] /\ inbox'[l] = inbox[l],
           Asking', Answering' = k, SlotsInv', HoldingInv'
    PROVE  EngineInv'
<1>1. \A l \in Key : ~Engaged(l) /\ Quiet(l)
  BY NobodyAwaited
<1>2. outbox[k] = <<>> /\ Under(k) = {} /\ alone[k] = Nothing
  BY <1>1 DEF Quiet, Idle
<1>3. EngineTypeOK'
  BY DEF EngineInv, EngineTypeOK
<1>4. OthersInv'
  <2>1. Elsewhere(k)
    BY DEF Elsewhere
  <2>2. Engaged(k)'
    BY DEF Engaged
  <2>3. status'[k] # "up" => inbox'[k] = <<>> /\ Idle(k)'
    BY <1>2 DEF Idle, Under
  <2> QED
    BY <1>1, <2>1, <2>2, <2>3, OthersLeft DEF EngineInv
<1>5. AnswerInv'
  <2>1. AnswerAt(k)'
    BY <1>2 DEF AnswerAt, Idle, Under
  <2>2. PICK l : l = Answering'
    OBVIOUS
  <2> QED
    BY <2>1 DEF AnswerInv, AnswerAt
<1>6. AloneInv' /\ BatchInv'
  BY DEF AloneInv, Alone, Asking, BatchInv
<1>7. pc' \notin {"count", "admit"}
  BY DEF Asking
<1>8. CrowdInv'
  BY <1>7 DEF EngineInv, CrowdInv
<1> QED
  BY <1>3, <1>4, <1>5, <1>6, <1>8 DEF EngineInv

\* What is asked for has been said, or never will be: nothing else is there.
LEMMA AnswerIsAll ==
    ASSUME ThreadInv, EngineInv, Asking, NEW k \in Key, k = Answering, outbox[k] # <<>> \/ Disconnected(k)
    PROVE  /\ inbox[k] = <<>> /\ Idle(k)
           /\ outbox[k] # <<>> => /\ Head(outbox[k]).what \in {"done", "failed"} /\ Head(outbox[k]).for = cur.n
                                  /\ Tail(outbox[k]) = <<>>
<1>1. AnswerAt(k)
  BY DEF EngineInv, AnswerInv
<1>2. CASE outbox[k] # <<>>
  <2>1. PICK what \in {"done", "failed"} : inbox[k] = <<>> /\ outbox[k] = <<Event(what, cur.n, FALSE)>>
    BY <1>1, <1>2 DEF AnswerAt
  <2>2. PICK e : e = Event(what, cur.n, FALSE)
    OBVIOUS
  <2>3. e.what = what /\ e.for = cur.n /\ outbox[k] = <<e>>
    BY <2>1, <2>2 DEF Event
  <2>4. Head(outbox[k]) = e /\ Tail(outbox[k]) = <<>>
    BY <2>3
  <2>5. Idle(k)
    BY <1>1 DEF AnswerAt
  <2> QED
    BY <2>1, <2>3, <2>4, <2>5
<1>3. CASE outbox[k] = <<>>
  BY <1>3 DEF Disconnected, EngineInv, OthersInv
<1> QED
  BY <1>2, <1>3

\* An answer is taken, and its engine has nothing left.
LEMMA TakesAnswer ==
    ASSUME ThreadInv, EngineInv, Asking, NEW k \in Key, k = Answering, outbox[k] # <<>> \/ Disconnected(k),
           outbox' = [outbox EXCEPT ![k] = <<>>], status' \in [Key -> {"off", "up", "dead"}],
           \A l \in Key : l # k => status'[l] = status[l],
           UNCHANGED <<inbox, flag, reading, writing, alone, steps, panics, interrupted, stop, cur, batch, submitted>>,
           pc' \in {"clear", "leaving"}, SlotsInv', HoldingInv'
    PROVE  EngineInv'
<1>1. Quiet(k)' /\ inbox[k] = <<>>
  BY AnswerIsAll DEF Quiet, Idle, Under, EngineInv, EngineTypeOK
<1>2. EngineTypeOK'
  <2>1. <<>> \in Seq(Events)
    BY EmptySeq
  <2> QED
    BY <2>1 DEF EngineInv, EngineTypeOK
<1>3. OthersInv'
  <2>1. Elsewhere(k)
    BY DEF Elsewhere, EngineInv, EngineTypeOK
  <2>2. \A l \in Key : l # k => ~Engaged(l)
    BY OneAwaited DEF Engaged, Alone, Asking
  <2>3. inbox'[k] = <<>> /\ Idle(k)'
    BY <1>1 DEF Quiet
  <2> QED
    BY <1>1, <2>1, <2>2, <2>3, OthersLeft DEF EngineInv
<1>4. batch = NoBatch
  BY OneAwaited
<1>5. AloneInv' /\ AnswerInv' /\ BatchInv'
  BY <1>4, NoneInstead DEF Aside, Alone, Asking
<1>6. CrowdInv'
  BY DEF EngineInv, CrowdInv
<1> QED
  BY <1>2, <1>3, <1>5, <1>6 DEF EngineInv

LEMMA PutQuestionProtocol == ASSUME ThreadInv, EngineInv, PutQuestion PROVE EngineInv'
<1>1. /\ cur \in submitted /\ cur.n \in Ids /\ cur.on \in Key /\ batch = NoBatch /\ ~IsGeneration(cur)
      /\ pc = "ask" /\ Aside
  BY NoGenerationInHand DEF PutQuestion, Aside, Alone, Asking
<1>2. /\ UNCHANGED <<status, outbox, flag, reading, writing, alone, steps, panics, interrupted, stop,
                     cur, slots, batch, going, submitted>>
      /\ \/ inbox' = Sent(cur.on, "ask", cur.n) /\ pc' = "await" /\ UNCHANGED holding
         \/ Answer("failed") /\ UNCHANGED inbox
  BY DEF PutQuestion, queueVars
<1>3. CASE inbox' = Sent(cur.on, "ask", cur.n) /\ pc' = "await" /\ UNCHANGED holding
  <2>1. PICK k \in Key : k = cur.on
    BY <1>1
  <2>2. /\ inbox' \in [Key -> Seq(Commands)]
        /\ inbox'[k] = IF status[k] = "up" THEN Append(inbox[k], [op |-> "ask", for |-> cur.n]) ELSE inbox[k]
        /\ \A l \in Key : l # k => inbox'[l] = inbox[l]
    BY <1>1, <1>3, <2>1, SendsOne DEF EngineInv
  <2>3. inbox[k] = <<>>
    BY <1>1, NobodyAwaited DEF Quiet
  <2>4. inbox'[k] = (IF status'[k] = "up" THEN <<[op |-> "ask", for |-> cur.n]>> ELSE <<>>)
    BY <1>2, <2>2, <2>3
  <2>5. Asking' /\ Answering' = k
    BY <1>2, <1>3, <2>1 DEF Asking, Answering
  <2>6. SlotsInv' /\ HoldingInv'
    BY <1>1, <1>2, <1>3 DEF EngineInv, SlotsInv, HoldingInv, Silence
  <2> QED
    BY <1>1, <1>2, <2>2, <2>4, <2>5, <2>6, AsksOne DEF EngineInv, EngineTypeOK
<1>4. CASE Answer("failed") /\ UNCHANGED inbox
  <2>1. holding' = [what |-> "failed", for |-> cur.n] /\ pc' = "clear"
    BY <1>4 DEF Answer
  <2>2. HoldingInv'
    BY <1>1, <1>2, <2>1 DEF HoldingInv, Silence, IsGeneration
  <2>3. Aside' /\ CrowdInv'
    BY <1>2, <2>1 DEF Aside, Alone, Asking, EngineInv, CrowdInv
  <2> QED
    BY <1>1, <1>2, <1>4, <2>1, <2>2, <2>3, ProtocolGoesOn DEF engineVars
<1> QED
  BY <1>2, <1>3, <1>4

LEMMA AwaitAnswerProtocol == ASSUME ThreadInv, EngineInv, AwaitAnswer PROVE EngineInv'
<1>1. /\ cur \in submitted /\ cur.n \in Ids /\ cur.on \in Key /\ batch = NoBatch /\ ~IsGeneration(cur)
      /\ pc = "await" /\ Asking /\ Answering = cur.on
  BY NoGenerationInHand DEF AwaitAnswer, Asking, Answering
<1>2. PICK k \in Key : k = cur.on
  BY <1>1
<1>3. /\ UNCHANGED <<status, inbox, flag, reading, writing, alone, steps, panics, interrupted, stop,
                     cur, slots, batch, going, submitted>>
      /\ \/ /\ outbox[k] # <<>>
            /\ holding' = [what |-> Head(outbox[k]).what, for |-> Head(outbox[k]).for]
            /\ outbox' = [outbox EXCEPT ![k] = Tail(@)]
            /\ pc' = "clear"
         \/ Disconnected(k) /\ Answer("failed") /\ UNCHANGED outbox
  BY <1>2 DEF AwaitAnswer, queueVars
<1>4. outbox[k] # <<>> \/ Disconnected(k)
  BY <1>3
<1>5. outbox' = [outbox EXCEPT ![k] = <<>>]
  <2>1. CASE outbox[k] # <<>> /\ outbox' = [outbox EXCEPT ![k] = Tail(@)]
    <3>1. Tail(outbox[k]) = <<>>
      BY <1>1, <1>2, <2>1, AnswerIsAll
    <3> QED
      BY <2>1, <3>1
  <2>2. CASE Disconnected(k) /\ UNCHANGED outbox
    BY <2>2 DEF Disconnected, EngineInv, EngineTypeOK
  <2> QED
    BY <1>3, <2>1, <2>2
<1>6. pc' = "clear" /\ \E what \in {"done", "failed"} : holding' = [what |-> what, for |-> cur.n]
  <2>1. CASE outbox[k] # <<>> /\ holding' = [what |-> Head(outbox[k]).what, for |-> Head(outbox[k]).for] /\ pc' = "clear"
    BY <1>1, <1>2, <2>1, AnswerIsAll
  <2>2. CASE Answer("failed")
    BY <2>2 DEF Answer
  <2> QED
    BY <1>3, <2>1, <2>2
<1>7. SlotsInv'
  BY <1>3, <1>6 DEF EngineInv, SlotsInv
<1>8. HoldingInv'
  BY <1>1, <1>3, <1>6 DEF HoldingInv, Silence, IsGeneration
<1> QED
  BY <1>1, <1>2, <1>3, <1>4, <1>5, <1>6, <1>7, <1>8, TakesAnswer DEF EngineInv, EngineTypeOK

LEMMA StartLoadProtocol == ASSUME ThreadInv, EngineInv, StartLoad PROVE EngineInv'
<1>1. /\ cur \in submitted /\ cur.n \in Ids /\ cur.on \in Key /\ batch = NoBatch /\ ~IsGeneration(cur)
      /\ pc = "load" /\ Aside
  BY NoGenerationInHand DEF StartLoad, Aside, Alone, Asking
<1>2. PICK k \in Key : k = cur.on
  BY <1>1
<1>3. UNCHANGED <<outbox, reading, writing, alone, steps, panics, interrupted, stop, cur, slots, batch, going, submitted>>
  BY DEF StartLoad, queueVars
<1>4. CASE /\ status' = [status EXCEPT ![k] = "up"]
           /\ inbox' = [inbox EXCEPT ![k] = <<[op |-> "load", for |-> cur.n]>>]
           /\ flag' = [flag EXCEPT ![k] = FALSE]
           /\ pc' = "loading" /\ UNCHANGED holding
  <2>1. <<[op |-> "load", for |-> cur.n]>> \in Seq(Commands)
    <3>1. [op |-> "load", for |-> cur.n] \in Commands
      BY <1>1 DEF Commands
    <3> QED
      BY <3>1
  <2>2. /\ inbox' \in [Key -> Seq(Commands)] /\ status' \in [Key -> {"off", "up", "dead"}] /\ flag' \in [Key -> BOOLEAN]
        /\ inbox'[k] = <<[op |-> "load", for |-> cur.n]>> /\ status'[k] = "up"
        /\ \A l \in Key : l # k => status'[l] = status[l] /\ inbox'[l] = inbox[l]
    BY <1>4, <2>1 DEF EngineInv, EngineTypeOK
  <2>3. Asking' /\ Answering' = k
    BY <1>2, <1>3, <1>4 DEF Asking, Answering
  <2>4. SlotsInv' /\ HoldingInv'
    BY <1>1, <1>3, <1>4 DEF EngineInv, SlotsInv, HoldingInv, Silence
  <2>5. "load" \in {"load", "unload", "ask"} /\ inbox'[k] = (IF status'[k] = "up" THEN <<[op |-> "load", for |-> cur.n]>> ELSE <<>>)
    BY <2>2
  <2> QED
    BY <1>1, <1>3, <2>2, <2>3, <2>4, <2>5, AsksOne
<1>5. CASE Answer(IF k \in slots THEN "done" ELSE "failed") /\ UNCHANGED <<status, inbox, flag>>
  <2>1. pc' = "clear" /\ \E what \in {"done", "failed"} : holding' = [what |-> what, for |-> cur.n]
    BY <1>5 DEF Answer
  <2>2. HoldingInv'
    BY <1>1, <1>3, <2>1 DEF HoldingInv, Silence, IsGeneration
  <2>3. Aside' /\ CrowdInv'
    BY <1>3, <2>1 DEF Aside, Alone, Asking, EngineInv, CrowdInv
  <2> QED
    BY <1>1, <1>3, <1>5, <2>1, <2>2, <2>3, ProtocolGoesOn DEF engineVars
<1> QED
  BY <1>2, <1>4, <1>5 DEF StartLoad

LEMMA EndLoadProtocol == ASSUME ThreadInv, EngineInv, EndLoad PROVE EngineInv'
<1>1. /\ cur \in submitted /\ cur.n \in Ids /\ cur.on \in Key /\ batch = NoBatch /\ ~IsGeneration(cur)
      /\ pc = "loading" /\ Asking /\ Answering = cur.on
  BY NoGenerationInHand DEF EndLoad, Asking, Answering
<1>2. PICK k \in Key : k = cur.on
  BY <1>1
<1>3. PICK loaded \in BOOLEAN : loaded = (outbox[k] # <<>> /\ Head(outbox[k]).what = "done")
  OBVIOUS
<1>4. /\ outbox[k] # <<>> \/ Disconnected(k)
      /\ slots' = (IF loaded THEN slots \cup {k} ELSE slots)
      /\ status' = (IF loaded THEN status ELSE [status EXCEPT ![k] = "off"])
      /\ Answer(IF loaded THEN "done" ELSE "failed")
      /\ outbox' = [outbox EXCEPT ![k] = <<>>]
      /\ UNCHANGED <<inbox, flag, reading, writing, alone, steps, panics, interrupted, stop, cur, batch, going, submitted>>
  BY <1>2, <1>3 DEF EndLoad, queueVars
<1>5. pc' = "clear" /\ \E what \in {"done", "failed"} : holding' = [what |-> what, for |-> cur.n]
  BY <1>4 DEF Answer
<1>6. SlotsInv'
  <2>1. slots' \subseteq Key /\ IsFiniteSet(slots')
    BY <1>4, FS_AddElement DEF EngineInv, SlotsInv
  <2> QED
    BY <1>4, <1>5, <2>1 DEF EngineInv, SlotsInv
<1>7. HoldingInv'
  BY <1>1, <1>4, <1>5 DEF HoldingInv, Silence, IsGeneration
<1>8. status' \in [Key -> {"off", "up", "dead"}] /\ \A l \in Key : l # k => status'[l] = status[l]
  BY <1>4 DEF EngineInv, EngineTypeOK
<1> QED
  BY <1>1, <1>2, <1>4, <1>5, <1>6, <1>7, <1>8, TakesAnswer

LEMMA StartUnloadProtocol == ASSUME ThreadInv, EngineInv, StartUnload PROVE EngineInv'
<1>1. /\ cur \in submitted /\ cur.n \in Ids /\ batch = NoBatch /\ ~IsGeneration(cur) /\ pc = "unload" /\ Aside
  BY NoGenerationInHand DEF StartUnload, Aside, Alone, Asking
<1>2. PICK leaving : leaving = IF cur.on = Everywhere THEN slots ELSE slots \cap {cur.on}
  OBVIOUS
<1>3. /\ going' = SetToSeq(leaving) /\ slots' = slots \ leaving
      /\ holding' = [what |-> "done", for |-> cur.n] /\ pc' = "leaving"
      /\ UNCHANGED <<engineVars, stop, cur, batch, submitted>>
  BY <1>2 DEF StartUnload, queueVars
<1>4. leaving \subseteq slots /\ slots \subseteq Key /\ IsFiniteSet(slots)
  BY <1>2 DEF EngineInv, SlotsInv
<1>5. going' \in Seq(Key)
  <2>1. IsFiniteSet(leaving)
    BY <1>4, NoLarger
  <2>2. SetToSeq(leaving) \in Seq(leaving)
    BY <2>1, SetsHaveSequences
  <2> QED
    BY <1>3, <1>4, <2>2
<1>6. SlotsInv'
  <2>1. IsFiniteSet(slots') /\ slots' \subseteq Key
    BY <1>3, <1>4, NoLarger
  <2> QED
    BY <1>3, <1>5, <2>1 DEF EngineInv, SlotsInv
<1>7. HoldingInv'
  BY <1>1, <1>3 DEF HoldingInv, Silence, IsGeneration
<1>8. Aside' /\ CrowdInv'
  BY <1>3 DEF Aside, Alone, Asking, EngineInv, CrowdInv
<1>9. UNCHANGED <<status, inbox, outbox, flag, reading, writing, alone, steps, panics, interrupted, stop>>
  BY <1>3 DEF engineVars
<1>10. OthersInv'
  <2>1. \A l \in Key : Quiet(l)'
    BY <1>1, <1>9, NobodyAwaited DEF Quiet, Idle, Under
  <2> QED
    BY <2>1 DEF OthersInv, Quiet
<1>11. EngineTypeOK'
  BY <1>9 DEF EngineInv, EngineTypeOK
<1>12. AloneInv' /\ AnswerInv' /\ BatchInv'
  BY <1>1, <1>3, <1>8, NoneInstead
<1> QED
  BY <1>6, <1>7, <1>8, <1>10, <1>11, <1>12 DEF EngineInv

LEMMA SendUnloadProtocol == ASSUME ThreadInv, EngineInv, SendUnload PROVE EngineInv'
<1>1. /\ cur \in submitted /\ cur.n \in Ids /\ batch = NoBatch /\ ~IsGeneration(cur) /\ pc = "leaving" /\ Aside
  BY NoGenerationInHand DEF SendUnload, Aside, Alone, Asking
<1>2. /\ UNCHANGED <<status, outbox, flag, reading, writing, alone, steps, panics, interrupted, stop,
                     cur, slots, batch, going, submitted, holding>>
      /\ IF going = <<>> THEN pc' = "clear" /\ UNCHANGED inbox
         ELSE pc' = "left" /\ inbox' = Sent(Head(going), "unload", cur.n)
  BY DEF SendUnload, queueVars
<1>3. CASE going = <<>>
  <2>1. pc' = "clear" /\ UNCHANGED inbox
    BY <1>2, <1>3
  <2>2. HoldingInv'
    BY <1>1, <1>2, <2>1 DEF EngineInv, HoldingInv, Silence, IsGeneration
  <2>3. Aside' /\ CrowdInv'
    BY <1>2, <2>1 DEF Aside, Alone, Asking, EngineInv, CrowdInv
  <2> QED
    BY <1>1, <1>2, <2>1, <2>2, <2>3, ProtocolGoesOn DEF engineVars
<1>4. CASE going # <<>>
  <2>1. PICK k \in Key : k = Head(going)
    <3>1. going \in Seq(Key)
      BY DEF EngineInv, SlotsInv
    <3> QED
      BY <1>4, <3>1, HeadTailProperties
  <2>2. pc' = "left" /\ inbox' = Sent(k, "unload", cur.n)
    BY <1>2, <1>4, <2>1
  <2>3. /\ inbox' \in [Key -> Seq(Commands)]
        /\ inbox'[k] = IF status[k] = "up" THEN Append(inbox[k], [op |-> "unload", for |-> cur.n]) ELSE inbox[k]
        /\ \A l \in Key : l # k => inbox'[l] = inbox[l]
    BY <1>1, <2>2, SendsOne DEF EngineInv
  <2>4. inbox[k] = <<>>
    BY <1>1, NobodyAwaited DEF Quiet
  <2>5. inbox'[k] = (IF status'[k] = "up" THEN <<[op |-> "unload", for |-> cur.n]>> ELSE <<>>)
    BY <1>2, <2>3, <2>4
  <2>6. Asking' /\ Answering' = k
    BY <1>2, <2>1, <2>2 DEF Asking, Answering
  <2>7. SlotsInv' /\ HoldingInv'
    BY <1>1, <1>2, <1>4, <2>2 DEF EngineInv, SlotsInv, HoldingInv, Silence
  <2> QED
    BY <1>1, <1>2, <2>3, <2>5, <2>6, <2>7, AsksOne DEF EngineInv, EngineTypeOK
<1> QED
  BY <1>3, <1>4

LEMMA EndUnloadProtocol == ASSUME ThreadInv, EngineInv, EndUnload PROVE EngineInv'
<1>1. /\ cur \in submitted /\ cur.n \in Ids /\ batch = NoBatch /\ ~IsGeneration(cur) /\ pc = "left" /\ Asking
      /\ going \in Seq(Key) /\ going # <<>> /\ Answering = Head(going) /\ Answering \in Key
  BY NoGenerationInHand, OneAwaited DEF EndUnload, Asking, Answering, EngineInv, SlotsInv
<1>2. PICK k \in Key : k = Head(going)
  BY <1>1
<1>3. /\ outbox[k] # <<>> \/ Disconnected(k)
      /\ holding' = IF outbox[k] # <<>> THEN holding ELSE [holding EXCEPT !.what = "failed"]
      /\ outbox' = [outbox EXCEPT ![k] = <<>>] /\ status' = [status EXCEPT ![k] = "off"]
      /\ going' = Tail(going) /\ pc' = "leaving"
      /\ UNCHANGED <<inbox, flag, reading, writing, alone, steps, panics, interrupted, stop, cur, slots, batch, submitted>>
  BY <1>2 DEF EndUnload, queueVars
<1>4. SlotsInv'
  <2>1. going' \in Seq(Key)
    BY <1>1, <1>3, HeadTailProperties
  <2> QED
    BY <1>3, <2>1 DEF EngineInv, SlotsInv
<1>5. HoldingInv'
  <2>1. holding \in [what : {"step", "done", "failed"}, for : Ids] /\ holding.for = cur.n /\ holding.what # "step"
    BY <1>1 DEF EngineInv, HoldingInv
  <2>2. holding' \in [what : {"step", "done", "failed"}, for : Ids] /\ holding'.for = cur.n /\ holding'.what # "step"
    BY <1>3, <2>1
  <2>3. holding' # Silence
    <3>1. holding'.what # "none"
      BY <2>2
    <3> QED
      BY <3>1 DEF Silence
  <2> QED
    BY <1>3, <2>2, <2>3 DEF HoldingInv
<1>6. status' \in [Key -> {"off", "up", "dead"}] /\ \A l \in Key : l # k => status'[l] = status[l]
  BY <1>3 DEF EngineInv, EngineTypeOK
<1> QED
  BY <1>1, <1>2, <1>3, <1>4, <1>5, <1>6, TakesAnswer

\* The thread ends, and its engines with it.
LEMMA EndProtocol == ASSUME ThreadInv, EngineInv, End PROVE EngineInv'
<1>1. /\ pc = "next" /\ pc' = "over" /\ slots' = {} /\ status' = [k \in Key |-> "off"]
      /\ UNCHANGED <<inbox, outbox, flag, reading, writing, alone, steps, panics, interrupted, stop,
                     cur, batch, going, holding, submitted>>
  BY DEF End, queueVars
<1>2. batch = NoBatch /\ Aside /\ Aside'
  BY <1>1 DEF ThreadInv, PlaceInv, Either, Together, Aside, Alone, Asking
<1>3. OthersInv'
  <2>1. \A l \in Key : Quiet(l)'
    BY <1>1, <1>2, NobodyAwaited DEF Quiet, Idle, Under
  <2> QED
    BY <2>1 DEF OthersInv, Quiet
<1>4. EngineTypeOK'
  BY <1>1 DEF EngineInv, EngineTypeOK
<1>5. SlotsInv'
  BY <1>1, FS_EmptySet DEF EngineInv, SlotsInv
<1>6. HoldingInv' /\ CrowdInv'
  BY <1>1 DEF EngineInv, HoldingInv, CrowdInv, Silence
<1>7. AloneInv' /\ AnswerInv' /\ BatchInv'
  BY <1>1, <1>2, NoneInstead
<1> QED
  BY <1>3, <1>4, <1>5, <1>6, <1>7 DEF EngineInv

\* A reply joins those on the engine, or is the first there.
LEMMA AdmitReplyProtocol == ASSUME ThreadInv, EngineInv, AdmitReply PROVE EngineInv'
<1>1. /\ pc = "admit" /\ cur \in submitted /\ cur.n \in Ids /\ cur.on \in Key \cup {Everywhere} /\ Aside
      /\ cur' = NoJob /\ pc' \in {"settle", "join"} /\ Aside'
      /\ UNCHANGED <<status, outbox, flag, reading, writing, alone, steps, panics, interrupted, stop,
                     slots, holding, going, submitted>>
  <2>1. pc = "admit" /\ cur' = NoJob /\ pc' \in {"settle", "join"}
    BY DEF AdmitReply
  <2>2. cur \in submitted
    BY <2>1 DEF ThreadInv, PlaceInv, JobsInv, Either
  <2>3. cur.n \in Ids /\ cur.on \in Key \cup {Everywhere}
    BY <2>2 DEF ThreadInv, JobsInv, Job
  <2> QED
    BY <2>1, <2>2, <2>3 DEF AdmitReply, Aside, Alone, Asking, queueVars
<1>2. HoldingInv' /\ SlotsInv'
  BY <1>1 DEF EngineInv, HoldingInv, SlotsInv, Silence
<1>3. PICK b : b = IF batch = NoBatch THEN [on |-> cur.on, private |-> cur.kind = "fresh", streams |-> {}] ELSE batch
  OBVIOUS
<1>4. PICK refuse \in BOOLEAN : refuse = (b.on \notin slots \/ stop[cur.n])
  OBVIOUS
<1>5. IF refuse THEN UNCHANGED <<batch, inbox>>
      ELSE inbox' = Sent(b.on, "beside", cur.n) /\ batch' = [b EXCEPT !.streams = @ \cup {cur.n}]
  BY <1>3, <1>4 DEF AdmitReply
<1>6. CASE refuse
  <2>1. CrowdInv'
    BY <1>1, <1>5, <1>6 DEF EngineInv, CrowdInv
  <2> QED
    BY <1>1, <1>2, <1>5, <1>6, <2>1, ProtocolGoesOn DEF engineVars
<1>7. CASE ~refuse
  <2>1. PICK k \in Key : k = b.on
    BY <1>4, <1>7 DEF EngineInv, SlotsInv
  <2>2. PICK id \in Ids : id = cur.n
    BY <1>1
  <2>3. /\ inbox' \in [Key -> Seq(Commands)]
        /\ inbox'[k] = IF status[k] = "up" THEN Append(inbox[k], [op |-> "beside", for |-> id]) ELSE inbox[k]
        /\ \A l \in Key : l # k => inbox'[l] = inbox[l]
    BY <1>5, <1>7, <2>1, <2>2, SendsOne DEF EngineInv
  <2>4. /\ b \in [on : Key \cup {Everywhere}, private : BOOLEAN, streams : SUBSET Ids]
        /\ batch' = [b EXCEPT !.streams = b.streams \cup {id}]
        /\ batch'.on = k /\ batch'.private = b.private /\ batch'.streams = b.streams \cup {id}
    <3>1. b \in [on : Key \cup {Everywhere}, private : BOOLEAN, streams : SUBSET Ids]
      <4>1. CASE batch = NoBatch
        <5>1. (cur.kind = "fresh") \in BOOLEAN
          BY Zenon
        <5> QED
          BY <1>1, <1>3, <4>1, <5>1
      <4>2. CASE batch # NoBatch
        BY <1>3, <4>2 DEF ThreadInv, PlaceInv
      <4> QED
        BY <4>1, <4>2
    <3> QED
      BY <1>5, <1>7, <2>1, <2>2, <3>1
  <2>5. batch' # NoBatch
    BY <2>1, <2>4, SchedulerAssumption DEF NoBatch
  <2>6. /\ alone[k] = Nothing /\ Under(k) \subseteq b.streams /\ reading[k] \cap writing[k] = {} /\ id \notin b.streams
        /\ \A n \in 1..Len(inbox[k]) :
                /\ inbox[k][n].op = "beside" /\ inbox[k][n].for \in b.streams /\ inbox[k][n].for \notin Under(k)
                /\ \A m \in 1..Len(inbox[k]) : inbox[k][m].for = inbox[k][n].for => m = n
        /\ \A n \in 1..Len(outbox[k]) :
                /\ outbox[k][n].tagged /\ outbox[k][n].for \in b.streams
                /\ outbox[k][n].what # "step" =>
                    /\ outbox[k][n].for \notin Under(k) \cup SentTo(k)
                    /\ \A m \in 1..Len(outbox[k]) : outbox[k][m].for = outbox[k][n].for => m <= n
    <3>1. CASE batch = NoBatch
      <4>1. b.streams = {} /\ Quiet(k)
        BY <1>1, <1>3, <3>1, NobodyAwaited
      <4>2. inbox[k] = <<>> /\ outbox[k] = <<>> /\ Under(k) = {} /\ alone[k] = Nothing
        BY <4>1 DEF Quiet, Idle
      <4>3. 1..Len(inbox[k]) = {} /\ 1..Len(outbox[k]) = {} /\ reading[k] = {}
        BY <4>2 DEF Under
      <4> QED
        BY <4>1, <4>2, <4>3
    <3>2. CASE batch # NoBatch
      <4>1. BatchAt(k) /\ b = batch
        BY <1>3, <2>1, <3>2 DEF EngineInv, BatchInv
      <4>2. id \notin batch.streams
        BY <1>1, <2>2 DEF ThreadInv, StreamsInv
      <4> QED
        BY <4>1, <4>2 DEF BatchAt, InboxAt, OutboxAt
    <3> QED
      BY <3>1, <3>2
  <2>7. PICK c \in Nat : c = Len(inbox[k])
    BY LenProperties DEF EngineInv, EngineTypeOK
  <2>8. \/ inbox'[k] = inbox[k]
        \/ /\ Len(inbox'[k]) = c + 1 /\ inbox'[k][c + 1].op = "beside" /\ inbox'[k][c + 1].for = id
           /\ \A n \in 1..c : inbox'[k][n] = inbox[k][n]
    <3>1. PICK e \in Commands : e = [op |-> "beside", for |-> id]
      BY DEF Commands
    <3>2. inbox[k] \in Seq(Commands)
      BY DEF EngineInv, EngineTypeOK
    <3>3. CASE status[k] = "up"
      <4>1. inbox'[k] = Append(inbox[k], e)
        BY <2>3, <3>1, <3>3
      <4>2. Len(inbox'[k]) = c + 1 /\ inbox'[k][c + 1] = e /\ \A n \in 1..c : inbox'[k][n] = inbox[k][n]
        BY <2>7, <3>2, <4>1, AppendProperties
      <4> QED
        BY <3>1, <4>2
    <3> QED
      BY <2>3, <3>3
  <2>9. SentTo(k)' \subseteq SentTo(k) \cup {id} /\ Under(k)' = Under(k)
    <3>1. SentTo(k)' \subseteq SentTo(k) \cup {id}
      <4>1. CASE inbox'[k] = inbox[k]
        BY <4>1 DEF SentTo
      <4>2. CASE /\ Len(inbox'[k]) = c + 1 /\ inbox'[k][c + 1].for = id
                 /\ \A n \in 1..c : inbox'[k][n] = inbox[k][n]
        <5>1. ASSUME NEW n \in 1..(c + 1) PROVE inbox'[k][n].for \in SentTo(k) \cup {id}
          <6>1. CASE n = c + 1
            BY <4>2, <6>1
          <6>2. CASE n # c + 1
            <7>1. n \in 1..c
              BY <6>2
            <7> QED
              BY <2>7, <4>2, <7>1 DEF SentTo
          <6> QED
            BY <6>1, <6>2
        <5> QED
          BY <4>2, <5>1 DEF SentTo
      <4> QED
        BY <2>8, <4>1, <4>2
    <3> QED
      BY <1>1, <3>1 DEF Under
  <2>10. InboxAt(k)'
    <3>1. CASE inbox'[k] = inbox[k]
      BY <2>4, <2>6, <2>9, <3>1 DEF InboxAt
    <3>2. CASE /\ Len(inbox'[k]) = c + 1 /\ inbox'[k][c + 1].op = "beside" /\ inbox'[k][c + 1].for = id
               /\ \A n \in 1..c : inbox'[k][n] = inbox[k][n]
      <4> SUFFICES ASSUME NEW n \in 1..(c + 1)
                   PROVE  /\ inbox'[k][n].op = "beside" /\ inbox'[k][n].for \in batch'.streams /\ inbox'[k][n].for \notin Under(k)
                          /\ \A m \in 1..(c + 1) : inbox'[k][m].for = inbox'[k][n].for => m = n
        BY <2>9, <3>2 DEF InboxAt
      <4>1. ASSUME NEW m \in 1..(c + 1), m # c + 1
            PROVE  /\ m \in 1..c /\ inbox'[k][m] = inbox[k][m] /\ inbox[k][m].for # id
                   /\ inbox[k][m].op = "beside" /\ inbox[k][m].for \in b.streams /\ inbox[k][m].for \notin Under(k)
                   /\ \A h \in 1..c : inbox[k][h].for = inbox[k][m].for => h = m
        <5>1. m \in 1..c
          BY <4>1
        <5> QED
          BY <2>6, <2>7, <3>2, <5>1
      <4>2. CASE n = c + 1
        <5>1. id \notin Under(k)
          BY <2>6
        <5>2. \A m \in 1..(c + 1) : inbox'[k][m].for = id => m = c + 1
          BY <4>1
        <5> QED
          BY <2>4, <3>2, <4>2, <5>1, <5>2
      <4>3. CASE n # c + 1
        <5>1. /\ n \in 1..c /\ inbox'[k][n] = inbox[k][n] /\ inbox[k][n].for # id
              /\ inbox[k][n].op = "beside" /\ inbox[k][n].for \in b.streams /\ inbox[k][n].for \notin Under(k)
              /\ \A h \in 1..c : inbox[k][h].for = inbox[k][n].for => h = n
          BY <4>1, <4>3
        <5>2. ASSUME NEW m \in 1..(c + 1), inbox'[k][m].for = inbox[k][n].for PROVE m = n
          <6>1. m # c + 1
            BY <3>2, <5>1, <5>2
          <6> QED
            BY <4>1, <5>1, <5>2, <6>1
        <5> QED
          BY <2>4, <5>1, <5>2
      <4> QED
        BY <4>2, <4>3
    <3> QED
      BY <2>8, <3>1, <3>2
  <2>11. OutboxAt(k)'
    <3> SUFFICES ASSUME NEW n \in 1..Len(outbox[k])
                 PROVE  /\ outbox[k][n].tagged /\ outbox[k][n].for \in batch'.streams
                        /\ outbox[k][n].what # "step" =>
                            /\ outbox[k][n].for \notin Under(k)' \cup SentTo(k)'
                            /\ \A m \in 1..Len(outbox[k]) : outbox[k][m].for = outbox[k][n].for => m <= n
      BY <1>1 DEF OutboxAt
    <3>1. outbox[k][n].for # id
      BY <2>6
    <3> QED
      BY <2>4, <2>6, <2>9, <3>1
  <2>12. BatchInv'
    <3>1. BatchAt(k)'
      BY <1>1, <2>4, <2>6, <2>9, <2>10, <2>11 DEF BatchAt
    <3> QED
      BY <2>4, <3>1 DEF BatchInv
  <2>13. OthersInv'
    <3>1. Elsewhere(k)
      BY <1>1, <2>3 DEF Elsewhere
    <3>2. Engaged(k)'
      BY <2>4, <2>5 DEF Engaged
    <3>3. status'[k] # "up" => inbox'[k] = <<>> /\ Idle(k)'
      BY <1>1, <2>3 DEF EngineInv, OthersInv, Idle, Under
    <3>4. \A l \in Key : l # k => ~Engaged(l)
      BY <1>1, <1>3, <2>1 DEF Engaged, Aside
    <3> QED
      BY <3>1, <3>2, <3>3, <3>4, OthersLeft DEF EngineInv
  <2>14. CrowdInv'
    <3>1. IsFiniteSet(b.streams) /\ Cardinality(b.streams) \in Nat /\ Cardinality(b.streams) < Batch
      <4>1. IsFiniteSet(Ids) /\ b.streams \subseteq Ids
        BY <2>4, SchedulerAssumption, UpToCount
      <4>2. Cardinality(batch.streams) < Batch
        BY <1>1 DEF EngineInv, CrowdInv
      <4>3. b.streams = batch.streams
        BY <1>3 DEF NoBatch
      <4> QED
        BY <4>1, <4>2, <4>3, NoLarger
    <3>2. Cardinality(batch'.streams) <= Batch
      <4>1. Cardinality(b.streams \cup {id}) = Cardinality(b.streams) + 1
        BY ZenonT(40), <2>6, <3>1, FS_AddElement
      <4> QED
        BY <2>4, <3>1, <4>1, SchedulerAssumption
    <3>3. b.private => b.streams = {}
      <4>1. batch # NoBatch => ~batch.private
        BY <1>1 DEF ThreadInv, StreamsInv, JobsInv, NoJob, IsGeneration, PlaceInv, Either
      <4> QED
        BY <1>3, <4>1
    <3>4. batch'.private => \A i, j \in batch'.streams : i = j
      BY <2>4, <3>3
    <3> QED
      BY <1>1, <3>2, <3>4 DEF CrowdInv
  <2>15. EngineTypeOK'
    BY <1>1, <2>3 DEF EngineInv, EngineTypeOK
  <2>16. AloneInv' /\ AnswerInv'
    BY <1>1 DEF AloneInv, AnswerInv, Aside
  <2> QED
    BY <1>2, <2>12, <2>13, <2>14, <2>15, <2>16 DEF EngineInv
<1> QED
  BY <1>6, <1>7

\* A reply that is said to be over is with the engine no more.
LEMMA EndedHasLeft ==
    ASSUME ThreadInv, EngineInv, batch # NoBatch, NEW i \in Ending
    PROVE  i \notin Under(batch.on) \cup SentTo(batch.on)
<1>1. PICK k \in Key : k = batch.on /\ BatchAt(k)
  BY OneAwaited DEF EngineInv, BatchInv
<1>2. CASE Disconnected(k)
  <2>1. inbox[k] = <<>> /\ Under(k) = {}
    BY <1>2 DEF Disconnected, EngineInv, OthersInv, Idle
  <2>2. 1..Len(inbox[k]) = {}
    BY <2>1
  <2> QED
    BY <1>1, <2>1, <2>2 DEF SentTo
<1>3. CASE ~Disconnected(k)
  <2>1. PICK box, places : box = outbox[k] /\ places = {n \in DOMAIN box : box[n].tagged /\ box[n].for = i}
    OBVIOUS
  <2>2. PICK mine : mine = InOrder(places)
    BY SMTT(30)
  <2>3. Said(i) = [n \in DOMAIN mine |-> box[mine[n]].what]
    BY <1>1, <1>3, <2>1, <2>2 DEF Said
  <2>4. PICK n \in DOMAIN mine : box[mine[n]].what # "step"
    <3>1. \E n \in DOMAIN Said(i) : Said(i)[n] # "step"
      BY DEF Ending
    <3> QED
      BY <2>3, <3>1
  <2>5. mine[n] \in places
    <3>1. DOMAIN box = 1..Len(box) /\ Len(box) \in Nat
      BY <2>1, LenProperties DEF EngineInv, EngineTypeOK
    <3>2. places \in SUBSET Nat /\ IsFiniteSet(places)
      <4>1. PICK c \in Nat : c = Len(box)
        BY <3>1
      <4>2. IsFiniteSet(1..c) /\ places \subseteq 1..c
        BY <2>1, <3>1, <4>1, UpToCount
      <4>3. IsFiniteSet(places)
        BY <4>2, NoLarger
      <4> QED
        BY SMTT(30), <4>2, <4>3
    <3>3. mine \in Seq(places)
      BY <2>2, <3>2, OrderIsAll
    <3> QED
      BY <2>4, <3>3, ElementOfSeq, LenProperties
  <2>6. mine[n] \in 1..Len(outbox[k]) /\ outbox[k][mine[n]].for = i /\ outbox[k][mine[n]].what # "step"
    BY <2>1, <2>4, <2>5, LenProperties DEF EngineInv, EngineTypeOK
  <2> QED
    BY <1>1, <2>6 DEF BatchAt, OutboxAt
<1> QED
  BY <1>2, <1>3

\* All that was said is taken, and who has ended is of the batch no more.
LEMMA PumpProtocol == ASSUME ThreadInv, EngineInv, Pump PROVE EngineInv'
<1>1. /\ pc = "pump" /\ pc' = "settle" /\ outbox' = [outbox EXCEPT ![batch.on] = <<>>]
      /\ batch' = [batch EXCEPT !.streams = @ \ Ending]
      /\ stop' = [i \in Ids |-> stop[i] \/ (i \in batch.streams \ reader /\ ~Disconnected(batch.on))]
      /\ UNCHANGED <<status, inbox, flag, reading, writing, alone, steps, panics, interrupted,
                     cur, slots, holding, going, submitted>>
  BY DEF Pump, queueVars
<1>2. batch # NoBatch /\ batch \in [on : Key \cup {Everywhere}, private : BOOLEAN, streams : SUBSET Ids] /\ Aside /\ Aside'
  BY <1>1 DEF ThreadInv, PlaceInv, Aside, Alone, Asking
<1>3. PICK k \in Key : k = batch.on /\ BatchAt(k)
  BY <1>2, OneAwaited DEF EngineInv, BatchInv
<1>4. batch'.on = k /\ batch'.private = batch.private /\ batch'.streams = batch.streams \ Ending /\ batch' # NoBatch
  BY <1>1, <1>2, <1>3, SchedulerAssumption DEF NoBatch
<1>5. EngineTypeOK'
  <2>1. <<>> \in Seq(Events)
    BY EmptySeq
  <2>2. outbox' \in [Key -> Seq(Events)]
    BY <1>1, <2>1 DEF EngineInv, EngineTypeOK
  <2>3. stop' \in [Ids -> BOOLEAN]
    <3>1. \A i \in Ids : (stop[i] \/ (i \in batch.streams \ reader /\ ~Disconnected(batch.on))) \in BOOLEAN
      BY Zenon
    <3> QED
      BY <1>1, <3>1
  <2> QED
    BY <1>1, <2>2, <2>3 DEF EngineInv, EngineTypeOK
<1>6. outbox'[k] = <<>> /\ \A l \in Key : l # k => outbox'[l] = outbox[l]
  BY <1>1, <1>3 DEF EngineInv, EngineTypeOK
<1>7. OthersInv'
  <2>1. Elsewhere(k)
    BY <1>1, <1>6 DEF Elsewhere
  <2>2. Engaged(k)'
    BY <1>4 DEF Engaged
  <2>3. status'[k] # "up" => inbox'[k] = <<>> /\ Idle(k)'
    BY <1>1 DEF EngineInv, OthersInv, Idle, Under
  <2>4. \A l \in Key : l # k => ~Engaged(l)
    BY <1>2, <1>3 DEF Engaged, Aside
  <2> QED
    BY <2>1, <2>2, <2>3, <2>4, OthersLeft DEF EngineInv
<1>8. HoldingInv' /\ SlotsInv'
  BY <1>1 DEF EngineInv, HoldingInv, SlotsInv, Silence
<1>9. AloneInv' /\ AnswerInv'
  BY <1>2 DEF AloneInv, AnswerInv, Aside
<1>10. BatchInv'
  <2>1. Under(k)' = Under(k) /\ SentTo(k)' = SentTo(k)
    BY <1>1 DEF Under, SentTo
  <2>2. ASSUME NEW i \in Ending PROVE i \notin Under(k) /\ i \notin SentTo(k)
    BY <1>2, <1>3, EndedHasLeft
  <2>3. \A n \in 1..Len(inbox[k]) : inbox[k][n].for \in SentTo(k)
    BY DEF SentTo
  <2>4. InboxAt(k)'
    BY <1>1, <1>3, <1>4, <2>1, <2>2, <2>3 DEF BatchAt, InboxAt
  <2>5. OutboxAt(k)'
    <3>1. 1..Len(outbox'[k]) = {}
      BY <1>6
    <3> QED
      BY <3>1 DEF OutboxAt
  <2>6. BatchAt(k)'
    BY <1>1, <1>3, <1>4, <2>1, <2>2, <2>4, <2>5 DEF BatchAt
  <2> QED
    BY <1>4, <2>6 DEF BatchInv
<1>11. CrowdInv'
  <2>1. IsFiniteSet(batch.streams)
    <3>1. IsFiniteSet(Ids)
      BY SchedulerAssumption, UpToCount
    <3> QED
      BY <1>2, <3>1, NoLarger
  <2>2. /\ Cardinality(batch'.streams) \in Nat /\ Cardinality(batch.streams) \in Nat
        /\ Cardinality(batch'.streams) <= Cardinality(batch.streams)
    BY <1>4, <2>1, NoLarger
  <2> QED
    BY <1>1, <1>4, <2>2, SchedulerAssumption DEF EngineInv, CrowdInv
<1> QED
  BY <1>5, <1>7, <1>8, <1>9, <1>10, <1>11 DEF EngineInv

\* Nobody is left: there is no batch any more.
LEMMA SettleProtocol == ASSUME ThreadInv, EngineInv, Settle PROVE EngineInv'
<1>1. /\ pc = "settle" /\ pc' = "drop" /\ Aside /\ Aside'
      /\ UNCHANGED <<engineVars, stop, cur, slots, holding, going, submitted>>
      /\ IF batch.streams = {} THEN batch' = NoBatch ELSE UNCHANGED batch
  BY DEF Settle, queueVars, Aside, Alone, Asking
<1>2. UNCHANGED <<status, inbox, outbox, flag, reading, writing, alone, steps, panics, interrupted, stop>>
  BY <1>1 DEF engineVars
<1>3. HoldingInv' /\ SlotsInv'
  BY <1>1 DEF EngineInv, HoldingInv, SlotsInv, Silence
<1>4. CASE batch.streams # {}
  <2>1. CrowdInv'
    BY <1>1, <1>4 DEF EngineInv, CrowdInv
  <2> QED
    BY <1>1, <1>3, <1>4, <2>1, ProtocolGoesOn
<1>5. CASE batch.streams = {}
  <2>1. \A l \in Key : Quiet(l)
    <3> SUFFICES ASSUME NEW l \in Key PROVE Quiet(l)
      OBVIOUS
    <3>1. CASE ~Engaged(l)
      BY <3>1 DEF EngineInv, OthersInv
    <3>2. CASE Engaged(l)
      <4>1. BatchAt(l)
        BY <1>1, <3>2 DEF Engaged, Aside, EngineInv, BatchInv
      <4>2. alone[l] = Nothing /\ Under(l) = {} /\ 1..Len(inbox[l]) = {} /\ 1..Len(outbox[l]) = {}
        BY <1>5, <4>1 DEF BatchAt, InboxAt, OutboxAt
      <4>3. inbox[l] \in Seq(Commands) /\ outbox[l] \in Seq(Events)
        BY DEF EngineInv, EngineTypeOK
      <4>4. inbox[l] = <<>> /\ outbox[l] = <<>>
        <5>1. Len(inbox[l]) \notin Nat \ {0} /\ Len(outbox[l]) \notin Nat \ {0}
          BY SMTT(30), <4>2
        <5> QED
          BY <4>3, <5>1, EmptySeq
      <4> QED
        BY <4>2, <4>4 DEF Quiet, Idle
    <3> QED
      BY <3>1, <3>2
  <2>2. OthersInv'
    <3>1. \A l \in Key : Quiet(l)'
      BY <1>2, <2>1 DEF Quiet, Idle, Under
    <3> QED
      BY <3>1 DEF OthersInv, Quiet
  <2>3. AloneInv' /\ AnswerInv' /\ BatchInv'
    BY <1>1, <1>5, NoneInstead
  <2>4. CrowdInv'
    <3>1. Batch \in Nat \ {0} /\ Cardinality({}) = 0
      BY SchedulerAssumption, FS_EmptySet
    <3>2. batch'.streams = {} /\ ~batch'.private
      BY <1>1, <1>5 DEF NoBatch
    <3> QED
      BY <1>1, <3>1, <3>2 DEF CrowdInv
  <2>5. EngineTypeOK'
    BY <1>2 DEF EngineInv, EngineTypeOK
  <2> QED
    BY <1>3, <2>2, <2>3, <2>4, <2>5 DEF EngineInv
<1> QED
  BY <1>4, <1>5

LEMMA ThreadKeepsProtocol == ASSUME ThreadInv, EngineInv, Thread PROVE EngineInv'
BY AsideKeepsProtocol, EndProtocol, AdmitReplyProtocol, PumpProtocol, SettleProtocol, BeginAloneProtocol, DrainEventProtocol,
   DrainQuietProtocol, HandOverProtocol, PutQuestionProtocol, AwaitAnswerProtocol, StartLoadProtocol,
   EndLoadProtocol, StartUnloadProtocol, SendUnloadProtocol, EndUnloadProtocol DEF Thread

LEMMA EngineNext == ASSUME ThreadInv, EngineInv, [Next]_vars PROVE EngineInv'
<1>1. CASE Next
  <2>1. CASE \E k \in Key : EngineStep(k)
    BY <2>1, EngineStepKeeps
  <2>2. CASE Thread
    BY <2>2, ThreadKeepsProtocol
  <2> QED
    BY <1>1, <2>1, <2>2, HandlersKeepProtocol DEF Next
<1>2. CASE UNCHANGED vars
  <2>1. UNCHANGED <<queueVars, threadVars, engineVars, stop>>
    BY <1>2 DEF vars
  <2>2. EngineTypeOK'
    BY <2>1 DEF engineVars, EngineInv, EngineTypeOK
  <2> QED
    BY <2>1, <2>2, ProtocolStays DEF queueVars, threadVars, engineVars
<1> QED
  BY <1>1, <1>2

\* What the thread has asked of the engines is where it should be.
THEOREM EngineInvariant == Spec => []EngineInv
<1>1. Init => EngineInv
  BY EngineInit0
<1>2. ThreadInv /\ EngineInv /\ [Next]_vars => EngineInv'
  BY EngineNext
<1> QED
  BY <1>1, <1>2, ThreadInvariant, PTL DEF Spec

\* What the thread has just received from an engine is about the job it is
\* waiting on, whatever came before, died or was stopped.
THEOREM AnswersTheorem == Spec => []AnswersAreTheirs
<1>1. EngineInv => AnswersAreTheirs
  BY DEF EngineInv, HoldingInv, AnswersAreTheirs
<1> QED
  BY <1>1, EngineInvariant, PTL

\* An engine has the one job that has it to itself, or some of the batch.
LEMMA WhatIsSent ==
    ASSUME ThreadInv, EngineInv, NEW k \in Key, NEW sent, sent = Under(k) \cup {inbox[k][n].for : n \in DOMAIN inbox[k]}
    PROVE  \/ sent = {}
           \/ alone[k] = Nothing /\ \E i \in Ids : sent = {i}
           \/ alone[k] = Nothing /\ k = batch.on /\ batch # NoBatch /\ sent \subseteq batch.streams
<1>1. inbox[k] \in Seq(Commands) /\ DOMAIN inbox[k] = 1..Len(inbox[k])
  BY LenProperties DEF EngineInv, EngineTypeOK
<1>2. inbox[k] = <<>> /\ Under(k) = {} => sent = {}
  BY <1>1
<1>3. ASSUME NEW op, inbox[k] = <<[op |-> op, for |-> cur.n]>>, Under(k) = {} PROVE sent = {cur.n}
  <2>1. DOMAIN inbox[k] = {1} /\ inbox[k][1].for = cur.n
    BY <1>3
  <2> QED
    BY <1>3, <2>1
<1>4. CASE ~Engaged(k)
  BY <1>2, <1>4 DEF EngineInv, OthersInv, Quiet, Idle
<1>5. CASE Alone /\ k = cur.on
  <2>1. AloneAt(k) /\ cur.n \in Ids
    BY <1>5, OneAwaited DEF EngineInv, AloneInv
  <2>2. Under(k) = {} /\ (alone[k] # Nothing => inbox[k] = <<>>)
    BY <2>1 DEF AloneAt, Under
  <2>3. inbox[k] = <<>> \/ inbox[k] = <<[op |-> "alone", for |-> cur.n]>>
    BY <2>1 DEF AloneAt
  <2> QED
    BY <1>2, <1>3, <2>1, <2>2, <2>3
<1>6. CASE Asking /\ k = Answering
  <2>1. AnswerAt(k) /\ cur.n \in Ids
    BY <1>6, OneAwaited DEF EngineInv, AnswerInv
  <2>2. Under(k) = {} /\ alone[k] = Nothing
    BY <2>1 DEF AnswerAt, Idle
  <2>3. inbox[k] = <<>> \/ \E op \in {"load", "unload", "ask"} : inbox[k] = <<[op |-> op, for |-> cur.n]>>
    BY <2>1 DEF AnswerAt
  <2> QED
    BY <1>2, <1>3, <2>1, <2>2, <2>3
<1>7. CASE batch # NoBatch /\ k = batch.on
  <2>1. BatchAt(k)
    BY <1>7 DEF EngineInv, BatchInv
  <2> QED
    BY <1>1, <1>7, <2>1 DEF BatchAt, InboxAt
<1> QED
  BY <1>4, <1>5, <1>6, <1>7 DEF Engaged

\* One resident is at work at a time, and on it a batch no larger than it may
\* be or one job alone, whatever is submitted, stopped or dies.
THEOREM OneAtATimeTheorem == Spec => []OneAtATime
<1>1. ASSUME ThreadInv, EngineInv PROVE OneAtATime
  <2>1. ASSUME NEW k \in Key, NEW l \in Key, AtWork(k), AtWork(l) PROVE k = l
    <3>1. Engaged(k) /\ Engaged(l)
      BY <1>1, <2>1, AtWorkIsEngaged DEF AtWork
    <3>2. Alone => batch = NoBatch /\ ~Asking
      BY <1>1, OneAwaited
    <3>3. Asking => batch = NoBatch
      BY <1>1, OneAwaited
    <3> QED
      BY <3>1, <3>2, <3>3 DEF Engaged
  <2>2. ASSUME NEW k \in Key
        PROVE  LET sent == Under(k) \cup {inbox[k][n].for : n \in DOMAIN inbox[k]}
               IN  /\ Cardinality(sent) <= Batch
                   /\ alone[k] # Nothing => sent = {}
                   /\ \A j \in submitted : j.n \in sent /\ j.kind # "text" => sent = {j.n}
    <3>1. PICK sent : sent = Under(k) \cup {inbox[k][n].for : n \in DOMAIN inbox[k]}
      OBVIOUS
    <3>2. \/ sent = {}
          \/ alone[k] = Nothing /\ \E i \in Ids : sent = {i}
          \/ alone[k] = Nothing /\ k = batch.on /\ batch # NoBatch /\ sent \subseteq batch.streams
      BY <1>1, <3>1, WhatIsSent
    <3>3. Batch \in Nat \ {0} /\ Cardinality({}) = 0
      BY SchedulerAssumption, FS_EmptySet
    <3>4. CASE sent = {}
      <4>1. Cardinality(sent) <= Batch
        BY <3>3, <3>4
      <4> QED
        BY <3>1, <3>4, <4>1
    <3>5. CASE alone[k] = Nothing /\ \E i \in Ids : sent = {i}
      <4>1. Cardinality(sent) = 1
        BY <3>5, FS_Singleton
      <4>2. Cardinality(sent) <= Batch
        BY <3>3, <4>1
      <4> QED
        BY <3>1, <3>5, <4>2
    <3>6. CASE alone[k] = Nothing /\ k = batch.on /\ batch # NoBatch /\ sent \subseteq batch.streams
      <4>1. IsFiniteSet(batch.streams)
        <5>1. batch.streams \subseteq Ids /\ IsFiniteSet(Ids)
          BY <1>1, SchedulerAssumption, UpToCount DEF ThreadInv, PlaceInv
        <5> QED
          BY <5>1, NoLarger
      <4>2. Cardinality(sent) <= Cardinality(batch.streams) /\ Cardinality(sent) \in Nat /\ Cardinality(batch.streams) \in Nat
        BY <3>6, <4>1, NoLarger
      <4>3. Cardinality(sent) <= Batch
        BY <1>1, <3>3, <4>2 DEF EngineInv, CrowdInv
      <4>4. ASSUME NEW j \in submitted, j.n \in sent, j.kind # "text" PROVE sent = {j.n}
        <5>1. batch.private
          BY <1>1, <3>6, <4>4 DEF ThreadInv, StreamsInv
        <5>2. \A i \in sent : i = j.n
          BY <1>1, <3>6, <4>4, <5>1 DEF EngineInv, CrowdInv
        <5> QED
          BY <4>4, <5>2
      <4> QED
        BY <3>1, <3>6, <4>3, <4>4
    <3> QED
      BY <3>2, <3>4, <3>5, <3>6
  <2> QED
    BY <2>1, <2>2 DEF OneAtATime
<1> QED
  BY <1>1, ThreadInvariant, EngineInvariant, PTL

(***************************************************************************)
(* Who is told to stop                                                     *)
(***************************************************************************)
\* Whose account has stopped it, or whose caller has hung up.
MayStop == told \cup (Ids \ reader)

\* A flag that is up is about what the engine makes, if it makes anything; and
\* only what is being made has an engine whose flag a cancellation raises.
Making == pc \in {"drain", "hand", "finish"}
StopInv ==
    /\ told \subseteq Ids /\ reader \subseteq Ids
    /\ begun \in [Ids -> SUBSET Key] /\ \A i \in Ids : begun[i] # {} => i \in Told(submitted)
    /\ \A i \in Ids : stop[i] => i \in MayStop
    /\ \A k \in Key : flag[k] /\ alone[k] # Nothing => alone[k].for \in MayStop
    /\ \A j \in books : begun[j.n] # {} => j = cur /\ Making /\ begun[j.n] = {cur.on}
    /\ interrupted \subseteq MayStop
    /\ stopping.at \in {"count", "end"} => Told(stopping.gone) \subseteq told

LEMMA StopInit == Init => StopInv
<1> SUFFICES ASSUME Init PROVE StopInv
  OBVIOUS
<1>1. /\ told = {} /\ reader = Ids /\ begun = [i \in Ids |-> {}] /\ books = {} /\ stopping = NoCancel
      /\ stop = [i \in Ids |-> FALSE] /\ flag = [k \in Key |-> FALSE] /\ interrupted = {}
  BY DEF Init, EngineInit
<1>2. stopping.at = "rest"
  BY <1>1 DEF NoCancel
<1> QED
  BY <1>1, <1>2 DEF StopInv

\* Where nobody is stopped and nothing is begun.
LEMMA StopStays ==
    ASSUME StopInv, UNCHANGED <<told, reader, begun, stop, flag, alone, interrupted, stopping>>,
           submitted \subseteq submitted', books' \subseteq books,
           Making => UNCHANGED cur /\ (Making' \/ cur \notin books')
    PROVE  StopInv'
BY DEF StopInv, MayStop, Told

\* The engine that makes something makes it for the job in hand.
LEMMA MadeForCur ==
    ASSUME ThreadInv, EngineInv, Making, NEW k \in Key, k = cur.on, alone[k] # Nothing
    PROVE  alone[k].for = cur.n
<1>1. CASE Alone
  BY <1>1 DEF EngineInv, AloneInv, AloneAt
<1>2. CASE ~Alone
  <2>1. pc = "finish"
    BY <1>2 DEF Making, Alone
  <2>2. batch = NoBatch /\ Aside
    BY <2>1 DEF ThreadInv, PlaceInv, Either, Together, Aside, Alone, Asking
  <2> QED
    BY <2>2, NobodyAwaited DEF Quiet, Idle
<1> QED
  BY <1>1, <1>2

\* The handlers.
LEMMA HandlersKeepStops ==
    ASSUME ThreadInv, EngineInv, StopInv,
           \/ \E who \in Asked \cup {NoTicket}, item \in Menu : Submit(who, item)
           \/ \E who \in Asked, id \in {0} \cup Ids : CancelWaiting(who, id)
           \/ Cancelling
           \/ \E i \in Ids : Read(i) \/ Leave(i) \/ Trail(i)
           \/ Close
    PROVE  StopInv'
<1>1. ASSUME NEW who \in Asked \cup {NoTicket}, NEW item \in Menu, Submit(who, item) PROVE StopInv'
  <2>1. PICK n, j : n = Cardinality(submitted) + 1 /\ j = [n |-> n, who |-> who, kind |-> item.kind, on |-> item.on]
    OBVIOUS
  <2>2. /\ n <= MaxArrivals /\ books' \subseteq books \cup {j} /\ submitted' = submitted \cup {j}
        /\ UNCHANGED <<told, reader, begun, stop, flag, alone, interrupted, stopping, pc, cur>>
    BY <1>1, <2>1 DEF Submit, cancelVars, engineVars, threadVars
  <2>3. /\ Cardinality(submitted) \in Nat /\ \A i \in submitted : i.n \in 1..Cardinality(submitted)
    BY JobsAreNumbered DEF ThreadInv, JobsInv
  <2>4. j.n = n /\ n \notin Told(submitted) /\ n \in Ids
    BY <2>1, <2>2, <2>3, SchedulerAssumption DEF Told
  <2>5. begun[j.n] = {}
    BY <2>4 DEF StopInv
  <2>6. Told(submitted) \subseteq Told(submitted')
    BY <2>2 DEF Told
  <2> QED
    BY <2>2, <2>5, <2>6 DEF StopInv, MayStop, Making
<1>2. ASSUME NEW who \in Asked, NEW id \in {0} \cup Ids, CancelWaiting(who, id) PROVE StopInv'
  <2>1. PICK gone : gone = {j \in jobs : j.who = who /\ id \in {0, j.n}}
    OBVIOUS
  <2>2. /\ stopping' = [at |-> "count", who |-> who, id |-> id, gone |-> gone]
        /\ told' = told \cup Told(gone)
        /\ UNCHANGED <<reader, begun, stop, flag, alone, interrupted, books, submitted, pc, cur>>
    BY <1>2, <2>1 DEF CancelWaiting, engineVars, threadVars, callerVars, sharedVars
  <2>3. Told(gone) \subseteq Ids
    BY <2>1 DEF Told, ThreadInv, JobsInv, Job
  <2>4. stopping'.gone = gone
    BY <2>2
  <2> QED
    BY <2>2, <2>3, <2>4 DEF StopInv, MayStop, Making
<1>3. CASE CancelCount
  <2>1. /\ stopping.at = "count" /\ stopping' = [stopping EXCEPT !.at = "end"]
        /\ UNCHANGED <<told, reader, begun, stop, flag, alone, interrupted, books, submitted, pc, cur>>
    BY <1>3 DEF CancelCount, queueVars, engineVars, threadVars, callerVars
  <2>2. stopping'.gone = stopping.gone
    BY <2>1
  <2> QED
    BY <2>1, <2>2 DEF StopInv, MayStop, Making
<1>4. CASE CancelEnd
  <2>1. /\ stopping' = [stopping EXCEPT !.at = "mark"] /\ books' \subseteq books
        /\ UNCHANGED <<told, reader, begun, stop, flag, alone, interrupted, submitted, pc, cur>>
    BY <1>4 DEF CancelEnd, Finished, queueVars, engineVars, threadVars
  <2>2. stopping'.at = "mark" \/ stopping' = stopping
    BY <2>1
  <2> QED
    BY <2>1, <2>2 DEF StopInv, MayStop, Making
<1>5. CASE CancelMark
  <2>1. PICK live : live = {j \in books : j.who = stopping.who /\ stopping.id \in {0, j.n}}
    OBVIOUS
  <2>2. /\ stop' = [i \in Ids |-> stop[i] \/ i \in Told(live)]
        /\ flag' = [k \in Key |-> flag[k] \/ \E j \in live : k \in begun[j.n]]
        /\ told' = told \cup Told(live) /\ stopping' = NoCancel
        /\ UNCHANGED <<reader, begun, alone, interrupted, books, submitted, pc, cur>>
    BY <1>5, <2>1 DEF CancelMark, queueVars, callerVars, threadVars, sharedVars
  <2>3. live \subseteq books /\ Told(live) \subseteq Ids
    BY <2>1 DEF Told, ThreadInv, JobsInv, BooksInv, Job
  <2>4. MayStop \cup Told(live) \subseteq MayStop'
    BY <2>2 DEF MayStop
  <2>5. ASSUME NEW k \in Key, flag'[k], alone[k] # Nothing PROVE alone[k].for \in MayStop'
    <3>1. CASE flag[k]
      BY <2>4, <2>5, <3>1 DEF StopInv
    <3>2. CASE \E j \in live : k \in begun[j.n]
      <4>1. PICK j \in live : k \in begun[j.n]
        BY <3>2
      <4>2. j \in books /\ begun[j.n] # {}
        BY <2>3, <4>1
      <4>3. j = cur /\ Making /\ begun[j.n] = {cur.on}
        BY <4>2 DEF StopInv
      <4>4. alone[k].for = cur.n /\ cur.n \in Told(live)
        BY <2>5, <4>1, <4>3, MadeForCur DEF Told
      <4> QED
        BY <2>4, <4>4
    <3> QED
      BY <2>2, <2>5, <3>1, <3>2
  <2>6. stopping'.at = "rest"
    BY <2>2 DEF NoCancel
  <2>7. ASSUME NEW i \in Ids, stop'[i] PROVE i \in MayStop'
    BY <2>2, <2>4, <2>7 DEF StopInv
  <2>8. told' \subseteq Ids /\ interrupted' \subseteq MayStop'
    BY <2>2, <2>3, <2>4 DEF StopInv
  <2> QED
    BY <2>2, <2>5, <2>6, <2>7, <2>8 DEF StopInv, Making
<1>6. ASSUME NEW i \in Ids, Read(i) \/ Trail(i) PROVE StopInv'
  BY <1>6, StopStays DEF Read, Trail, queueVars, engineVars, threadVars, cancelVars, sharedVars, Making
<1>7. ASSUME NEW i \in Ids, Leave(i) PROVE StopInv'
  <2>1. /\ reader' = reader \ {i}
        /\ UNCHANGED <<told, begun, stop, flag, alone, interrupted, books, submitted, pc, cur, stopping>>
    BY <1>7 DEF Leave, queueVars, engineVars, threadVars, cancelVars, sharedVars
  <2>2. MayStop \subseteq MayStop'
    BY <2>1 DEF MayStop
  <2> QED
    BY <2>1, <2>2 DEF StopInv, Making
<1>8. CASE Close
  BY <1>8, StopStays DEF Close, engineVars, threadVars, cancelVars, sharedVars, Making
<1> QED
  BY <1>1, <1>2, <1>3, <1>4, <1>5, <1>6, <1>7, <1>8 DEF Cancelling

\* The thread.
LEMMA ThreadKeepsStops == ASSUME ThreadInv, EngineInv, StopInv, Thread PROVE StopInv'
<1>1. ASSUME NEW j \in jobs, TakeNext(j) \/ Join(j) PROVE StopInv'
  BY <1>1, StopStays DEF TakeNext, Join, TakeJob, callerVars, cancelVars, sharedVars, engineVars, Making
<1>2. CASE MarkBusy \/ CountOut \/ JoinNobody \/ Settle \/ DropEnded \/ EnterAlone \/ FinishAlone \/ ClearBusy \/ Reply
  <2>1. CASE MarkBusy \/ CountOut \/ JoinNobody \/ Settle
    BY <2>1, StopStays DEF MarkBusy, CountOut, JoinNobody, Settle, queueVars, callerVars, cancelVars, sharedVars, engineVars, Making
  <2>2. CASE DropEnded \/ EnterAlone \/ ClearBusy \/ Reply
    BY <2>2, StopStays DEF DropEnded, EnterAlone, ClearBusy, Reply, queueVars, callerVars, cancelVars, sharedVars, engineVars, Making
  <2>3. CASE FinishAlone
    <3>1. books' = books \ {cur} /\ UNCHANGED <<told, reader, begun, stop, flag, alone, interrupted, stopping, submitted, cur>>
      BY <2>3 DEF FinishAlone, Finished, queueVars, callerVars, cancelVars, sharedVars, engineVars
    <3> QED
      BY <3>1, StopStays
  <2> QED
    BY <1>2, <2>1, <2>2, <2>3
<1>3. CASE End
  BY <1>3, StopStays DEF End, queueVars, callerVars, cancelVars, sharedVars, Making
<1>4. CASE AdmitReply
  <2>1. /\ pc = "admit" /\ books' \subseteq books
        /\ UNCHANGED <<told, reader, begun, stop, flag, alone, interrupted, stopping, submitted>>
    BY <1>4 DEF AdmitReply, Finished, queueVars, cancelVars
  <2> QED
    BY <2>1, StopStays DEF Making
<1>5. CASE Pump
  <2>1. /\ pc = "pump" /\ books' \subseteq books /\ stop' = [i \in Ids |-> stop[i] \/ (i \in batch.streams \ reader /\ ~Disconnected(batch.on))]
        /\ UNCHANGED <<told, reader, begun, flag, alone, interrupted, stopping, submitted>>
    BY <1>5 DEF Pump, Finished, queueVars, cancelVars
  <2>2. \A i \in Ids : stop'[i] => i \in MayStop
    BY <2>1 DEF StopInv, MayStop
  <2>3. \A j \in books : begun[j.n] = {}
    BY <2>1 DEF StopInv, Making
  <2> QED
    BY <2>1, <2>2, <2>3 DEF StopInv, MayStop
<1>6. CASE BeginAlone
  <2>1. /\ pc = "begin" /\ pc' = "drain" /\ begun' = [begun EXCEPT ![cur.n] = {cur.on}]
        /\ UNCHANGED <<told, reader, stop, flag, alone, interrupted, stopping, submitted, books, cur>>
    BY <1>6 DEF BeginAlone, queueVars, cancelVars, callerVars
  <2>2. cur \in submitted /\ cur.n \in Ids
    <3>1. cur \in submitted
      BY <2>1 DEF ThreadInv, PlaceInv, JobsInv, Single
    <3> QED
      BY <3>1 DEF ThreadInv, JobsInv, Job
  <2>3. cur.on \in Key
    BY <2>1, <2>2 DEF EngineInv, SlotsInv
  <2>4. begun' \in [Ids -> SUBSET Key] /\ begun'[cur.n] = {cur.on} /\ \A i \in Ids : i # cur.n => begun'[i] = begun[i]
    BY <2>1, <2>2, <2>3 DEF StopInv
  <2>5. \A i \in Ids : begun'[i] # {} => i \in Told(submitted)
    BY <2>2, <2>4 DEF StopInv, Told
  <2>6. ASSUME NEW j \in books, begun'[j.n] # {} PROVE j = cur /\ begun'[j.n] = {cur.on}
    <3>1. j \in submitted /\ j.n \in Ids
      BY DEF ThreadInv, BooksInv, JobsInv, Job
    <3>2. j.n = cur.n
      BY <2>1, <2>4, <2>6, <3>1 DEF StopInv, Making
    <3>3. j = cur
      BY <2>2, <3>1, <3>2 DEF ThreadInv, JobsInv
    <3> QED
      BY <2>4, <3>3
  <2> QED
    BY <2>1, <2>4, <2>5, <2>6 DEF StopInv, MayStop, Making
<1>7. ASSUME NEW k \in Key, k = cur.on, Making, Making', flag' = [flag EXCEPT ![k] = flag'[k]],
             flag'[k] => flag[k] \/ cur.n \in MayStop,
             UNCHANGED <<told, reader, stop, begun, alone, interrupted, stopping, submitted, books, cur>>
      PROVE  StopInv'
  <2>1. ASSUME NEW l \in Key, flag'[l], alone[l] # Nothing PROVE alone[l].for \in MayStop
    <3>1. CASE flag[l]
      BY <2>1, <3>1 DEF StopInv
    <3>2. CASE ~flag[l]
      <4>1. l = k
        BY <1>7, <2>1, <3>2 DEF EngineInv, EngineTypeOK
      <4> QED
        BY <1>7, <2>1, <3>2, <4>1, MadeForCur
    <3> QED
      BY <3>1, <3>2
  <2> QED
    BY <1>7, <2>1 DEF StopInv, MayStop
<1>8. CASE DrainEvent \/ DrainQuiet \/ HandOver
  <2>1. Alone /\ Making
    BY <1>8 DEF DrainEvent, DrainQuiet, HandOver, Alone, Making
  <2>2. PICK k \in Key : k = cur.on /\ cur.n \in Ids
    BY <2>1, OneAwaited
  <2>3. Making' /\ UNCHANGED <<told, reader, stop, begun, alone, interrupted, stopping, submitted, books, cur>>
    BY <1>8 DEF DrainEvent, DrainQuiet, HandOver, Onward, Making, queueVars, callerVars, cancelVars, sharedVars, threadVars
  <2>4. stop[cur.n] \/ cur.n \notin reader => cur.n \in MayStop
    BY <2>2 DEF StopInv, MayStop
  <2>5. flag \in [Key -> BOOLEAN]
    BY DEF EngineInv, EngineTypeOK
  <2>6. PICK raised : raised = flag'[k]
    OBVIOUS
  <2>7. flag' = [flag EXCEPT ![k] = raised] /\ (raised => flag[k] \/ stop[cur.n] \/ cur.n \notin reader)
    <3>1. CASE DrainEvent
      <4>1. flag' = [flag EXCEPT ![k] = flag[k] \/ (cur.kind = "paint" /\ stop[cur.n])]
        BY <2>2, <3>1 DEF DrainEvent
      <4> QED
        BY <2>5, <2>6, <4>1
    <3>2. CASE DrainQuiet
      BY <2>2, <2>5, <2>6, <3>2 DEF DrainQuiet
    <3>3. CASE HandOver
      <4>1. flag' = [flag EXCEPT ![k] = flag[k] \/ cur.n \notin reader]
        BY <2>2, <3>3 DEF HandOver
      <4> QED
        BY <2>5, <2>6, <4>1
    <3> QED
      BY <1>8, <3>1, <3>2, <3>3
  <2>8. flag' = [flag EXCEPT ![k] = flag'[k]] /\ (flag'[k] => flag[k] \/ cur.n \in MayStop)
    BY <2>4, <2>6, <2>7
  <2> QED
    BY <1>7, <2>1, <2>2, <2>3, <2>8
<1>9. CASE StartLoad
  <2>1. /\ pc = "load" /\ UNCHANGED <<told, reader, stop, begun, alone, interrupted, stopping, submitted, books, cur>>
        /\ flag' = flag \/ flag' = [flag EXCEPT ![cur.on] = FALSE]
    BY <1>9 DEF StartLoad, queueVars, callerVars, cancelVars, sharedVars
  <2>2. \A k \in Key : flag'[k] => flag[k]
    BY <2>1 DEF EngineInv, EngineTypeOK
  <2>3. \A j \in books : begun[j.n] = {}
    BY <2>1 DEF StopInv, Making
  <2> QED
    BY <2>1, <2>2, <2>3 DEF StopInv, MayStop
<1>10. CASE PutQuestion \/ AwaitAnswer \/ EndLoad
  BY <1>10, StopStays DEF PutQuestion, AwaitAnswer, EndLoad, queueVars, callerVars, cancelVars, sharedVars, Making
<1>11. CASE StartUnload \/ SendUnload \/ EndUnload
  BY <1>11, StopStays DEF StartUnload, SendUnload, EndUnload, queueVars, callerVars, cancelVars, sharedVars, engineVars, Making
<1> QED
  BY <1>1, <1>2, <1>3, <1>4, <1>5, <1>6, <1>8, <1>9, <1>10, <1>11 DEF Thread

\* The engines.
LEMMA EnginesKeepStops ==
    ASSUME ThreadInv, EngineInv, StopInv, NEW k \in Key, EngineStep(k)
    PROVE  StopInv'
<1>1. /\ UNCHANGED <<told, reader, stop, begun, stopping, submitted, books, cur, pc>>
  BY DEF EngineStep, Work, Receive, JoinIn, Advance, StepAlone, CheckAlone, Panic, queueVars, callerVars, threadVars,
         cancelVars, sharedVars
<1>2. EngineTypeOK
  BY DEF EngineInv
<1> USE DEF Making
<1>3. ASSUME interrupted' \subseteq interrupted \cup MayStop,
             \A l \in Key : flag'[l] /\ alone'[l] # Nothing => alone'[l].for \in MayStop
      PROVE  StopInv'
  BY <1>1, <1>3 DEF StopInv, MayStop
<1>4. CASE Receive(k)
  <2>1. PICK cmd \in Commands :
            \/ cmd.op = "beside" /\ BegunBeside(k, cmd.for)
            \/ cmd.op = "alone" /\ BegunAlone(k, cmd.for)
            \/ cmd.op \notin {"beside", "alone"} /\ Answered(k, cmd.for)
    BY <1>2, <1>4, Receives
  <2>2. UNCHANGED interrupted
    BY <1>4 DEF Receive
  <2>3. ASSUME NEW l \in Key, flag'[l], alone'[l] # Nothing PROVE alone'[l].for \in MayStop
    BY <2>1, <2>3 DEF StopInv, BegunBeside, BegunAlone, Answered
  <2> QED
    BY <1>3, <2>2, <2>3
<1>5. CASE JoinIn(k)
  <2>1. UNCHANGED <<interrupted, flag, alone>>
    BY <1>5 DEF JoinIn, StartBeside
  <2> QED
    BY <1>3, <2>1 DEF StopInv
<1>6. CASE Advance(k)
  <2>1. Advanced(k)
    BY <1>2, <1>6, Advances
  <2> QED
    BY <1>3, <2>1 DEF Advanced, StopInv
<1>7. CASE StepAlone(k) \/ CheckAlone(k)
  <2>1. /\ Elsewhere(k) /\ SaidAlone(k)
        /\ interrupted' = interrupted \/ (flag[k] /\ interrupted' = interrupted \cup {alone[k].for})
    BY <1>2, <1>7, AloneSteps
  <2>2. alone[k] # Nothing
    <3>1. alone[k].at \in {"work", "check"}
      BY <2>1 DEF SaidAlone
    <3> QED
      BY <3>1 DEF Nothing
  <2>3. flag[k] => alone[k].for \in MayStop
    BY <2>2 DEF StopInv
  <2>4. ASSUME NEW l \in Key, flag'[l], alone'[l] # Nothing PROVE alone'[l].for \in MayStop
    <3>1. CASE l = k
      BY <2>1, <2>3, <2>4, <3>1 DEF SaidAlone
    <3>2. CASE l # k
      BY <2>1, <2>4, <3>2 DEF SaidAlone, Elsewhere, StopInv
    <3> QED
      BY <3>1, <3>2
  <2> QED
    BY <1>3, <2>1, <2>3, <2>4
<1>8. CASE Panic(k)
  <2>1. UNCHANGED <<interrupted, flag>> /\ alone' = [alone EXCEPT ![k] = Nothing]
    BY <1>8 DEF Panic
  <2>2. \A l \in Key : alone'[l] = Nothing \/ alone'[l] = alone[l]
    BY <1>2, <2>1 DEF EngineTypeOK
  <2> QED
    BY <1>3, <2>1, <2>2 DEF StopInv
<1> QED
  BY <1>4, <1>5, <1>6, <1>7, <1>8 DEF EngineStep, Work

LEMMA StopNext == ASSUME ThreadInv, EngineInv, StopInv, [Next]_vars PROVE StopInv'
<1>1. CASE Next
  BY <1>1, HandlersKeepStops, ThreadKeepsStops, EnginesKeepStops DEF Next
<1>2. CASE UNCHANGED vars
  BY <1>2, StopStays DEF vars, queueVars, callerVars, threadVars, cancelVars, sharedVars, engineVars, Making
<1> QED
  BY <1>1, <1>2

LEMMA StopInvariant == Spec => []StopInv
<1>1. Init => StopInv
  BY StopInit
<1>2. ThreadInv /\ EngineInv /\ StopInv /\ [Next]_vars => StopInv'
  BY StopNext
<1> QED
  BY <1>1, <1>2, ThreadInvariant, EngineInvariant, PTL DEF Spec

(***************************************************************************)
(* What callers hear                                                       *)
(***************************************************************************)
\* What an engine says, and with it what one that was stopped may be told.
Words == {"step", "done", "failed"}
Pieces(i) == Words \cup (IF i \in told THEN {"cancelled"} ELSE {})

\* The job in hand has had its say, or is having it.
Spoken == pc \in {"drain", "hand", "finish"} \/ (pc \in {"clear", "reply"} /\ IsGeneration(cur))

\* A caller is yet to be told anything where its job is yet to come, waits, is
\* being cancelled or has not begun.
Unheard(i) ==
    \/ i \notin Told(submitted)
    \/ i \in Told(jobs)
    \/ stopping.at \in {"count", "end"} /\ i \in Told(stopping.gone)
    \/ cur # NoJob /\ i = cur.n /\ ~Spoken

\* Its job has an engine to itself.
InHand(i) == Alone /\ i = cur.n

AllSteps(s) == \A n \in 1..Len(s) : s[n] = "step"
EndsOnce(s) == s # <<>> /\ s[Len(s)] \in Endings /\ \A n \in 1..Len(s) : n # Len(s) => s[n] = "step"

Untold(i) == chan[i] = <<>> /\ backlog[i] = <<>> /\ heard[i] = "nothing" /\ i \notin trailing
Speaking(i) ==
    AllSteps(chan[i]) /\ AllSteps(backlog[i]) /\ heard[i] \in {"nothing", "step"} /\ i \notin trailing

\* Once its job is over it has an end still to read, has read it, or waited
\* when the scheduler was dropped. What trails has the end.
HasEnded(i) ==
    /\ i \in reader =>
        \/ /\ heard[i] \in {"nothing", "step"}
           /\ IF backlog[i] = <<>> THEN EndsOnce(chan[i]) ELSE AllSteps(chan[i]) /\ EndsOnce(backlog[i])
        \/ chan[i] = <<>> /\ backlog[i] = <<>> /\ (heard[i] \in Endings \/ (closed /\ heard[i] = "nothing"))
    /\ i \in reader /\ i \notin trailing => backlog[i] = <<>>
    /\ i \in trailing => backlog[i] # <<>>

HearsAt(i) ==
    /\ chan[i] \in Seq(Pieces(i)) /\ heard[i] \in {"nothing"} \cup Pieces(i)
    /\ Len(chan[i]) <= Capacity
    /\ i \notin reader => chan[i] = <<>>
    /\ IF Unheard(i) THEN Untold(i)
       ELSE IF i \in batch.streams THEN Speaking(i)
       ELSE IF InHand(i) THEN Speaking(i) /\ backlog[i] = <<>>
       ELSE HasEnded(i)
HearInv ==
    /\ chan \in [Ids -> Seq(Words \cup {"cancelled"})] /\ backlog \in [Ids -> Seq(Words)]
    /\ heard \in [Ids -> {"nothing", "cancelled"} \cup Words]
    /\ trailing \subseteq Ids
    /\ \A i \in Ids : HearsAt(i)

\* One piece more.
LEMMA OnePieceMore ==
    ASSUME NEW S, NEW s \in Seq(S), NEW e \in S, AllSteps(s), NEW t, t = Append(s, e)
    PROVE  /\ t \in Seq(S) /\ t # <<>> /\ Len(t) = Len(s) + 1 /\ Len(s) \in Nat
           /\ e = "step" => AllSteps(t)
           /\ e \in Endings => EndsOnce(t)
<1>1. PICK c \in Nat : c = Len(s)
  BY LenProperties
<1>2. t \in Seq(S) /\ Len(t) = c + 1 /\ t[c + 1] = e /\ \A n \in 1..c : t[n] = s[n]
  BY <1>1, AppendProperties
<1>3. t # <<>>
  BY <1>2, EmptySeq
<1>4. \A n \in 1..(c + 1) : n # c + 1 => n \in 1..c
  OBVIOUS
<1>5. \A n \in 1..(c + 1) : n # c + 1 => t[n] = "step"
  BY <1>1, <1>2, <1>4 DEF AllSteps
<1> QED
  BY <1>1, <1>2, <1>3, <1>5 DEF AllSteps, EndsOnce

\* One piece less, of steps.
LEMMA StepsLess ==
    ASSUME NEW S, NEW s \in Seq(S), s # <<>>, AllSteps(s), NEW t, t = Tail(s)
    PROVE  t \in Seq(S) /\ Len(t) <= Len(s) /\ AllSteps(t) /\ Head(s) = "step"
<1>1. PICK c \in Nat \ {0} : c = Len(s)
  BY LenProperties, EmptySeq
<1>2. t \in Seq(S) /\ Len(t) = c - 1 /\ \A n \in 1..(c - 1) : t[n] = s[n + 1]
  BY <1>1, HeadTailProperties
<1>3. \A n \in 1..(c - 1) : n + 1 \in 1..c
  OBVIOUS
<1>4. Head(s) = s[1] /\ 1 \in 1..c
  BY <1>1
<1> QED
  BY <1>1, <1>2, <1>3, <1>4 DEF AllSteps

\* One piece less, of what ends: the end, or a step and the end is still to come.
LEMMA EndsLess ==
    ASSUME NEW S, NEW s \in Seq(S), EndsOnce(s), NEW t, t = Tail(s)
    PROVE  /\ t \in Seq(S) /\ Len(t) <= Len(s)
           /\ \/ Head(s) = "step" /\ EndsOnce(t)
              \/ Head(s) \in Endings /\ t = <<>> /\ s = <<Head(s)>>
<1>1. PICK c \in Nat \ {0} : c = Len(s)
  BY LenProperties, EmptySeq DEF EndsOnce
<1>2. s # <<>> /\ Head(s) = s[1]
  BY DEF EndsOnce
<1>3. t \in Seq(S) /\ Len(t) = c - 1 /\ \A n \in 1..(c - 1) : t[n] = s[n + 1]
  BY <1>1, <1>2, HeadTailProperties
<1>4. CASE c = 1
  <2>1. t = <<>>
    BY <1>3, <1>4, EmptySeq
  <2>2. Head(s) \in Endings
    BY <1>1, <1>2, <1>4 DEF EndsOnce
  <2>3. s = <<s[1]>>
    <3>1. PICK one : one = <<s[1]>>
      OBVIOUS
    <3>2. s[1] \in S
      <4>1. 1 \in 1..Len(s)
        BY <1>1
      <4> QED
        BY <4>1, ElementOfSeq
    <3>3. one \in Seq(S) /\ Len(one) = 1 /\ one[1] = s[1]
      BY <3>1, <3>2
    <3>4. \A n \in 1..1 : n = 1
      OBVIOUS
    <3>5. s = one
      BY <1>1, <1>4, <3>3, <3>4, SeqEqual
    <3> QED
      BY <3>1, <3>5
  <2> QED
    BY <1>1, <1>2, <1>3, <1>4, <2>1, <2>2, <2>3
<1>5. CASE c # 1
  <2>1. 1 \in 1..c /\ 1 # c /\ c - 1 \in 1..(c - 1) /\ c - 1 \in Nat \ {0}
    BY <1>5
  <2>2. Head(s) = "step"
    BY <1>1, <1>2, <2>1 DEF EndsOnce
  <2>3. t # <<>>
    BY <1>3, <2>1, EmptySeq
  <2>4. t[c - 1] \in Endings
    <3>1. t[c - 1] = s[c]
      BY <1>3, <2>1
    <3> QED
      BY <1>1, <3>1 DEF EndsOnce
  <2>5. ASSUME NEW n \in 1..(c - 1), n # c - 1 PROVE t[n] = "step"
    <3>1. n + 1 \in 1..c /\ n + 1 # c
      BY <2>5
    <3> QED
      BY <1>1, <1>3, <3>1 DEF EndsOnce
  <2> QED
    BY <1>1, <1>3, <2>2, <2>3, <2>4, <2>5 DEF EndsOnce
<1> QED
  BY <1>4, <1>5

\* Steps, and what comes after them.
LEMMA StepsThen ==
    ASSUME NEW S, NEW s \in Seq(S), NEW r \in Seq(S), AllSteps(s), NEW t, t = s \o r
    PROVE  /\ t \in Seq(S) /\ Len(t) = Len(s) + Len(r) /\ Len(s) \in Nat /\ Len(r) \in Nat
           /\ AllSteps(r) => AllSteps(t)
           /\ EndsOnce(r) => EndsOnce(t)
<1>1. PICK c \in Nat, d \in Nat : c = Len(s) /\ d = Len(r)
  BY LenProperties
<1>2. t \in Seq(S) /\ Len(t) = c + d /\ \A n \in 1..(c + d) : t[n] = IF n <= c THEN s[n] ELSE r[n - c]
  BY <1>1, ConcatProperties
<1>3. ASSUME NEW n \in 1..(c + d), n <= c \/ r[n - c] = "step" PROVE t[n] = "step"
  <2>1. CASE n <= c
    <3>1. n \in 1..c
      BY <2>1
    <3> QED
      BY <1>1, <1>2, <2>1, <3>1 DEF AllSteps
  <2>2. CASE ~(n <= c)
    BY <1>2, <1>3, <2>2
  <2> QED
    BY <2>1, <2>2
<1>4. \A n \in 1..(c + d) : n <= c \/ n - c \in 1..d
  OBVIOUS
<1>5. ASSUME AllSteps(r) PROVE AllSteps(t)
  BY <1>1, <1>2, <1>3, <1>4, <1>5 DEF AllSteps
<1>6. ASSUME EndsOnce(r) PROVE EndsOnce(t)
  <2>1. d \in Nat \ {0} /\ r[d] \in Endings /\ \A n \in 1..d : n # d => r[n] = "step"
    BY <1>1, <1>6, EmptySeq DEF EndsOnce
  <2>2. c + d \in 1..(c + d) /\ ~(c + d <= c) /\ (c + d) - c = d
    BY <2>1
  <2>3. t[c + d] = r[d]
    BY <1>2, <2>2
  <2>4. t # <<>>
    BY <1>2, <2>1, EmptySeq
  <2>5. ASSUME NEW n \in 1..(c + d), n # c + d PROVE t[n] = "step"
    <3>1. n <= c \/ (n - c \in 1..d /\ n - c # d)
      BY <2>5
    <3> QED
      BY <1>3, <2>1, <3>1
  <2> QED
    BY <1>2, <2>1, <2>3, <2>4, <2>5 DEF EndsOnce
<1> QED
  BY <1>1, <1>2, <1>5, <1>6

\* A sequence cut in two after so many places.
Cut(s, c, a, b) == c <= Len(s) /\ a = SubSeq(s, 1, c) /\ b = SubSeq(s, c + 1, Len(s))

\* Its parts end as it does.
LEMMA CutInTwo ==
    ASSUME NEW S, NEW s \in Seq(S), NEW c \in Nat, NEW a, NEW b, Cut(s, c, a, b)
    PROVE  /\ a \in Seq(S) /\ b \in Seq(S) /\ Len(a) = c
           /\ b = <<>> => a = s
           /\ AllSteps(s) => AllSteps(a) /\ AllSteps(b)
           /\ EndsOnce(s) /\ b # <<>> => AllSteps(a) /\ EndsOnce(b)
<1>1. PICK d \in Nat : d = Len(s)
  BY LenProperties
<1> USE DEF Cut
<1>2. \A n \in 1..d : s[n] \in S
  BY <1>1, ElementOfSeq
<1>3. a \in Seq(S) /\ Len(a) = c /\ \A n \in 1..c : a[n] = s[n]
  <2>1. /\ a \in Seq(S) /\ Len(a) = IF 1 <= c THEN c - 1 + 1 ELSE 0
        /\ \A n \in 1..(c - 1 + 1) : a[n] = s[1 + n - 1]
    <3>1. \A n \in 1..c : s[n] \in S
      BY <1>1, <1>2
    <3> QED
      BY <3>1, SubSeqProperties
  <2>2. c - 1 + 1 = c /\ \A n \in 1..c : 1 + n - 1 = n
    OBVIOUS
  <2> QED
    BY <2>1, <2>2
<1>4. b \in Seq(S) /\ Len(b) = d - c /\ \A n \in 1..(d - c) : b[n] = s[c + n]
  <2>1. /\ b \in Seq(S) /\ Len(b) = IF c + 1 <= d THEN d - (c + 1) + 1 ELSE 0
        /\ \A n \in 1..(d - (c + 1) + 1) : b[n] = s[c + 1 + n - 1]
    <3>1. c + 1 \in Int /\ d \in Int /\ \A n \in (c + 1)..d : s[n] \in S
      BY <1>2
    <3> QED
      BY <1>1, <3>1, SubSeqProperties
  <2>2. d - (c + 1) + 1 = d - c /\ \A n \in 1..(d - c) : c + 1 + n - 1 = c + n
    OBVIOUS
  <2>3. c + 1 <= d \/ d - c = 0
    BY <1>1
  <2> QED
    BY <2>1, <2>2, <2>3
<1>5. ASSUME b = <<>> PROVE a = s
  <2>1. c = d
    <3>1. Len(b) = 0
      BY <1>4, <1>5, EmptySeq
    <3> QED
      BY <1>1, <1>4, <3>1
  <2> QED
    BY <1>1, <1>3, <2>1, SeqEqual
<1>6. ASSUME AllSteps(s) PROVE AllSteps(a) /\ AllSteps(b)
  <2>1. \A n \in 1..c : n \in 1..d
    BY <1>1
  <2>2. \A n \in 1..(d - c) : c + n \in 1..d
    BY <1>1
  <2> QED
    BY <1>1, <1>3, <1>4, <1>6, <2>1, <2>2 DEF AllSteps
<1>7. ASSUME EndsOnce(s), b # <<>> PROVE AllSteps(a) /\ EndsOnce(b)
  <2>1. d - c \in Nat \ {0}
    BY <1>1, <1>4, <1>7, EmptySeq
  <2>2. \A n \in 1..c : n \in 1..d /\ n # d
    BY <2>1
  <2>3. \A n \in 1..(d - c) : c + n \in 1..d /\ (n # d - c => c + n # d)
    BY <1>1
  <2>4. d - c \in 1..(d - c) /\ c + (d - c) = d
    BY <2>1
  <2>5. b[d - c] = s[d]
    BY <1>4, <2>4
  <2> QED
    <3>1. AllSteps(a)
      BY <1>1, <1>3, <1>7, <2>2 DEF AllSteps, EndsOnce
    <3>2. \A n \in 1..(d - c) : n # d - c => b[n] = "step"
      BY <1>1, <1>4, <1>7, <2>3 DEF EndsOnce
    <3>3. b[d - c] \in Endings
      BY <1>1, <1>7, <2>5 DEF EndsOnce
    <3> QED
      BY <1>4, <1>7, <3>1, <3>2, <3>3 DEF EndsOnce
<1> QED
  BY <1>3, <1>4, <1>5, <1>6, <1>7

\* The smaller of two.
LEMMA SmallerOfTwo ==
    ASSUME NEW a \in Int, NEW b \in Int
    PROVE  Min({a, b}) \in {a, b} /\ Min({a, b}) <= a /\ Min({a, b}) <= b
<1>1. \E x \in {a, b} : \A y \in {a, b} : x <= y
  <2>1. a <= b \/ b <= a
    OBVIOUS
  <2> QED
    BY <2>1
<1>2. PICK m : m = Min({a, b})
  OBVIOUS
<1>3. m \in {a, b} /\ \A y \in {a, b} : m <= y
  BY <1>1, <1>2 DEF Min
<1> QED
  BY <1>2, <1>3

\* What a step leaves of one caller's.
SameAt(i) ==
    /\ chan'[i] = chan[i] /\ backlog'[i] = backlog[i] /\ heard'[i] = heard[i]
    /\ i \in trailing' <=> i \in trailing
    /\ i \in reader' <=> i \in reader
    /\ Unheard(i)' <=> Unheard(i)
    /\ i \in batch'.streams <=> i \in batch.streams
    /\ InHand(i)' <=> InHand(i)
Forward == told \subseteq told' /\ (closed => closed')

\* Who is stopped may hear that it was.
LEMMA MayHear ==
    ASSUME told \subseteq told', NEW i \in Ids
    PROVE  Words \subseteq Pieces(i) /\ Pieces(i) \subseteq Pieces(i)' /\ Pieces(i) \subseteq Words \cup {"cancelled"}
                 /\ Pieces(i)' \subseteq Words \cup {"cancelled"}
BY DEF Pieces

\* A caller whom a step leaves as it was.
LEMMA HearsTheSame ==
    ASSUME HearInv, Forward, NEW i \in Ids, SameAt(i)
    PROVE  HearsAt(i)'
<1>1. HearsAt(i) /\ Pieces(i) \subseteq Pieces(i)'
  BY MayHear DEF HearInv, Forward
<1>2. chan'[i] \in Seq(Pieces(i)') /\ heard'[i] \in {"nothing"} \cup Pieces(i)'
  BY <1>1, SeqMonotonic DEF HearsAt, SameAt
<1>3. Len(chan'[i]) <= Capacity /\ (i \notin reader' => chan'[i] = <<>>)
  BY <1>1 DEF HearsAt, SameAt
<1>4. Untold(i) => Untold(i)'
  BY DEF Untold, SameAt
<1>5. Speaking(i) => Speaking(i)'
  BY DEF Speaking, SameAt
<1>6. HasEnded(i) => HasEnded(i)'
  BY DEF HasEnded, SameAt, Forward
<1>7. IF Unheard(i)' THEN Untold(i)'
      ELSE IF i \in batch'.streams THEN Speaking(i)'
      ELSE IF InHand(i)' THEN Speaking(i)' /\ backlog'[i] = <<>>
      ELSE HasEnded(i)'
  BY <1>1, <1>4, <1>5, <1>6 DEF HearsAt, SameAt
<1> QED
  BY <1>2, <1>3, <1>7 DEF HearsAt

\* A step that leaves every caller as it was.
LEMMA AllHearTheSame ==
    ASSUME HearInv, Forward, UNCHANGED <<chan, backlog, heard, trailing, reader>>,
           \A i \in Ids : Unheard(i)' <=> Unheard(i),
           batch'.streams = batch.streams,
           \A i \in Ids : InHand(i)' <=> InHand(i)
    PROVE  HearInv'
<1>1. \A i \in Ids : SameAt(i)
  BY DEF SameAt
<1>2. \A i \in Ids : HearsAt(i)'
  BY <1>1, HearsTheSame
<1> QED
  BY <1>2 DEF HearInv

\* One of the thread's that says nothing and begins and ends nothing.
LEMMA ThreadSaysNothing ==
    ASSUME HearInv, UNCHANGED <<callerVars, cancelVars, queueVars, cur>>,
           Spoken' <=> Spoken, Alone' <=> Alone, batch'.streams = batch.streams
    PROVE  HearInv'
<1>1. UNCHANGED <<chan, backlog, heard, trailing, reader, told, closed, stopping, jobs, submitted, cur>>
  BY DEF callerVars, cancelVars, queueVars
<1>2. \A i \in Ids : (Unheard(i)' <=> Unheard(i)) /\ (InHand(i)' <=> InHand(i))
  BY <1>1 DEF Unheard, InHand
<1> QED
  BY <1>1, <1>2, AllHearTheSame DEF Forward

\* A piece is sent to one caller.
LEMMA SendsOnePiece ==
    ASSUME HearInv, NEW i \in Ids, NEW piece \in Words \cup {"cancelled"}, Sending(i, piece)
    PROVE  /\ chan' \in [Ids -> Seq(Words \cup {"cancelled"})]
           /\ \A l \in Ids : l # i => chan'[l] = chan[l]
           /\ chan'[i] = IF i \in reader THEN Append(chan[i], piece) ELSE <<>>
<1>1. PICK t : t = Append(chan[i], piece)
  OBVIOUS
<1>2. t \in Seq(Words \cup {"cancelled"})
  BY <1>1, AppendProperties DEF HearInv
<1>3. chan' = IF i \in reader THEN [chan EXCEPT ![i] = t] ELSE chan
  BY <1>1 DEF Sending
<1>4. i \notin reader => chan[i] = <<>>
  BY DEF HearInv, HearsAt
<1> QED
  BY <1>1, <1>2, <1>3, <1>4 DEF HearInv

\* A step after which one caller has been told that its job is over.
LEMMA TellsTheEnd ==
    ASSUME HearInv, Forward, NEW i \in Ids, NEW piece \in Endings, Sending(i, piece),
           i \in reader => piece \in Pieces(i)' /\ Len(chan[i]) < Capacity,
           HearsAt(i), Untold(i) \/ Speaking(i), backlog[i] = <<>>,
           UNCHANGED <<backlog, heard, trailing, reader>>,
           ~Unheard(i)', i \notin batch'.streams, ~InHand(i)',
           \A l \in Ids : l # i => /\ Unheard(l)' <=> Unheard(l)
                                   /\ l \in batch'.streams <=> l \in batch.streams
                                   /\ InHand(l)' <=> InHand(l)
    PROVE  HearInv'
<1>1. piece \in Words \cup {"cancelled"} /\ piece # "step"
  BY DEF Endings, Words
<1>2. /\ chan' \in [Ids -> Seq(Words \cup {"cancelled"})]
      /\ \A l \in Ids : l # i => chan'[l] = chan[l]
      /\ chan'[i] = IF i \in reader THEN Append(chan[i], piece) ELSE <<>>
  BY <1>1, SendsOnePiece
<1>3. ASSUME NEW l \in Ids, l # i PROVE HearsAt(l)'
  <2>1. SameAt(l)
    BY <1>2, <1>3 DEF SameAt
  <2> QED
    BY <2>1, HearsTheSame
<1>4. HearsAt(i)'
  <2>1. AllSteps(chan[i]) /\ heard[i] \in {"nothing", "step"} /\ i \notin trailing
    <3>1. Untold(i) => AllSteps(chan[i])
      <4>1. 1..Len(<<>>) = {}
        OBVIOUS
      <4> QED
        BY <4>1 DEF Untold, AllSteps
    <3> QED
      BY <3>1 DEF Untold, Speaking
  <2>2. Pieces(i) \subseteq Pieces(i)' /\ heard[i] \in {"nothing"} \cup Pieces(i)'
    BY MayHear DEF HearsAt, Forward
  <2>3. CASE i \notin reader
    <3>1. chan'[i] = <<>> /\ <<>> \in Seq(Pieces(i)') /\ Len(<<>>) = 0
      BY <1>2, <2>3, EmptySeq
    <3>2. HasEnded(i)'
      BY <2>1, <2>3 DEF HasEnded
    <3> QED
      BY <2>2, <3>1, <3>2, SchedulerAssumption DEF HearsAt
  <2>4. CASE i \in reader
    <3>1. PICK S, s, t : S = Pieces(i)' /\ s = chan[i] /\ t = chan'[i]
      OBVIOUS
    <3>2. s \in Seq(S) /\ piece \in S /\ AllSteps(s) /\ t = Append(s, piece)
      BY <1>2, <2>1, <2>2, <2>4, <3>1, SeqMonotonic DEF HearsAt
    <3>3. t \in Seq(S) /\ t # <<>> /\ Len(t) = Len(s) + 1 /\ Len(s) \in Nat /\ EndsOnce(t)
      <4>1. s \in Seq(S)
        BY <3>2
      <4>2. piece \in S
        BY <3>2
      <4>3. AllSteps(s)
        BY <3>2
      <4>4. t = Append(s, piece)
        BY <3>2
      <4>5. t \in Seq(S)
        BY <4>1, <4>2, <4>3, <4>4, OnePieceMore
      <4>6. t # <<>>
        BY <4>1, <4>2, <4>3, <4>4, OnePieceMore
      <4>7. Len(t) = Len(s) + 1
        BY <4>1, <4>2, <4>3, <4>4, OnePieceMore
      <4>8. piece \in Endings => EndsOnce(t)
        BY <4>1, <4>2, <4>3, <4>4, OnePieceMore
      <4>9. Len(s) \in Nat
        BY <4>1, LenProperties
      <4> QED
        BY <4>5, <4>6, <4>7, <4>8, <4>9
    <3>4. Len(t) <= Capacity
      BY <2>4, <3>1, <3>3, SchedulerAssumption
    <3>5. HasEnded(i)'
      BY <2>1, <2>4, <3>1, <3>3 DEF HasEnded
    <3> QED
      BY <2>2, <2>4, <3>1, <3>3, <3>4, <3>5 DEF HearsAt
  <2> QED
    BY <2>3, <2>4
<1> QED
  BY <1>2, <1>3, <1>4 DEF HearInv

LEMMA HearInit == Init => HearInv
<1> SUFFICES ASSUME Init PROVE HearInv
  OBVIOUS
<1>1. /\ chan = [i \in Ids |-> <<>>] /\ backlog = [i \in Ids |-> <<>>] /\ heard = [i \in Ids |-> "nothing"]
      /\ trailing = {} /\ submitted = {}
  BY DEF Init
<1>2. ASSUME NEW S PROVE <<>> \in Seq(S) /\ Len(<<>>) = 0
  BY EmptySeq
<1>3. ASSUME NEW i \in Ids PROVE HearsAt(i)
  <2>1. Unheard(i)
    BY <1>1 DEF Unheard, Told
  <2>2. Untold(i)
    BY <1>1 DEF Untold
  <2> QED
    BY <1>1, <1>2, <2>1, <2>2, SchedulerAssumption DEF HearsAt
<1> QED
  BY <1>1, <1>2, <1>3 DEF HearInv

\* The handlers: a caller reads or hangs up, a rest is sent, a job is
\* submitted, cancelled or dropped.
LEMMA ReadKeepsHearing == ASSUME HearInv, NEW i \in Ids, Read(i) PROVE HearInv'
<1>1. /\ i \in reader /\ chan[i] # <<>>
      /\ heard' = [heard EXCEPT ![i] = IF heard[i] \in Endings \cup {"more"} THEN "more" ELSE Head(chan[i])]
      /\ chan' = [chan EXCEPT ![i] = Tail(chan[i])]
      /\ UNCHANGED <<told, closed, jobs, submitted, stopping, cur, pc, batch, backlog, trailing, reader>>
  BY DEF Read, queueVars, threadVars, cancelVars
<1>2. HearsAt(i) /\ ~Unheard(i)
  BY <1>1 DEF HearInv, HearsAt, Untold
<1>3. /\ (Unheard(i)' <=> Unheard(i)) /\ (InHand(i)' <=> InHand(i)) /\ Pieces(i)' = Pieces(i)
      /\ \A l \in Ids : (Unheard(l)' <=> Unheard(l)) /\ (InHand(l)' <=> InHand(l))
  BY <1>1 DEF Unheard, InHand, Spoken, Alone, Pieces
<1>4. PICK S, s, t, e : S = Pieces(i) /\ s = chan[i] /\ t = Tail(s) /\ e = Head(s)
  OBVIOUS
<1>5. s \in Seq(S) /\ s # <<>> /\ Len(s) <= Capacity /\ S \subseteq Words \cup {"cancelled"}
  BY <1>1, <1>2, <1>4, MayHear DEF HearsAt
<1>6. e \in S /\ t \in Seq(S)
  BY <1>4, <1>5, HeadTailProperties
<1>7. t \in Seq(Words \cup {"cancelled"})
  BY <1>5, <1>6, SeqMonotonic
<1>8. chan' \in [Ids -> Seq(Words \cup {"cancelled"})] /\ chan'[i] = t /\ \A l \in Ids : l # i => chan'[l] = chan[l]
  BY <1>1, <1>4, <1>7 DEF HearInv
<1>9. heard[i] \in {"nothing", "step"}
  BY <1>1, <1>2 DEF HearsAt, Speaking, HasEnded
<1>10. heard' \in [Ids -> {"nothing", "cancelled"} \cup Words] /\ heard'[i] = e /\ \A l \in Ids : l # i => heard'[l] = heard[l]
  <2>1. heard[i] \notin Endings \cup {"more"}
    BY <1>9 DEF Endings
  <2>2. heard' = [heard EXCEPT ![i] = e]
    BY <1>1, <1>4, <2>1
  <2>3. e \in {"nothing", "cancelled"} \cup Words
    BY <1>5, <1>6
  <2> QED
    BY <2>2, <2>3 DEF HearInv
<1>11. ASSUME NEW l \in Ids, l # i PROVE HearsAt(l)'
  <2>1. SameAt(l)
    BY <1>1, <1>3, <1>8, <1>10, <1>11 DEF SameAt
  <2> QED
    BY <1>1, <2>1, HearsTheSame DEF Forward
<1>12. Len(t) <= Len(s) /\ Len(t) \in Int /\ Len(s) \in Int
  <2>1. Len(t) = Len(s) - 1 /\ Len(s) \in Nat
    BY <1>4, <1>5, HeadTailProperties, LenProperties
  <2> QED
    BY <2>1
<1>13. Len(t) <= Capacity
  BY <1>5, <1>12, SchedulerAssumption
<1>14. AllSteps(s) => AllSteps(t) /\ e = "step"
  BY <1>4, <1>5, StepsLess
<1>15. CASE i \in batch.streams \/ InHand(i)
  <2>1. Speaking(i) /\ (i \notin batch.streams => backlog[i] = <<>>)
    BY <1>2, <1>15 DEF HearsAt
  <2>2. Speaking(i)'
    BY <1>1, <1>4, <1>8, <1>10, <1>14, <2>1 DEF Speaking
  <2>3. HearsAt(i)'
    BY <1>1, <1>2, <1>3, <1>4, <1>6, <1>8, <1>10, <1>13, <1>15, <2>1, <2>2 DEF HearsAt
  <2> QED
    BY <1>1, <1>8, <1>10, <1>11, <2>3 DEF HearInv
<1>16. CASE ~(i \in batch.streams \/ InHand(i))
  <2>1. HasEnded(i)
    BY <1>2, <1>16 DEF HearsAt
  <2>2. IF backlog[i] = <<>> THEN EndsOnce(s) ELSE AllSteps(s) /\ EndsOnce(backlog[i])
    BY <1>1, <1>4, <2>1 DEF HasEnded
  <2>3. EndsOnce(s) => (e = "step" /\ EndsOnce(t)) \/ (e \in Endings /\ t = <<>>)
    BY <1>4, <1>5, EndsLess
  <2>4. HasEnded(i)'
    <3>1. CASE backlog[i] = <<>>
      BY <1>1, <1>8, <1>10, <2>1, <2>2, <2>3, <3>1 DEF HasEnded
    <3>2. CASE backlog[i] # <<>>
      BY <1>1, <1>8, <1>10, <1>14, <2>1, <2>2, <3>2 DEF HasEnded
    <3> QED
      BY <3>1, <3>2
  <2>5. HearsAt(i)'
    BY <1>1, <1>2, <1>3, <1>4, <1>6, <1>8, <1>10, <1>13, <1>16, <2>4 DEF HearsAt
  <2> QED
    BY <1>1, <1>8, <1>10, <1>11, <2>5 DEF HearInv
<1> QED
  BY <1>15, <1>16

LEMMA LeaveKeepsHearing == ASSUME HearInv, NEW i \in Ids, Leave(i) PROVE HearInv'
<1>1. /\ reader' = reader \ {i} /\ chan' = [chan EXCEPT ![i] = <<>>]
      /\ UNCHANGED <<told, closed, jobs, submitted, stopping, cur, pc, batch, backlog, trailing, heard>>
  BY DEF Leave, queueVars, threadVars, cancelVars
<1>2. /\ Pieces(i)' = Pieces(i) /\ \A l \in Ids : (Unheard(l)' <=> Unheard(l)) /\ (InHand(l)' <=> InHand(l))
  BY <1>1 DEF Unheard, InHand, Spoken, Alone, Pieces
<1>3. ASSUME NEW S PROVE <<>> \in Seq(S) /\ Len(<<>>) = 0 /\ 1..Len(<<>>) = {}
  BY EmptySeq
<1>4. chan' \in [Ids -> Seq(Words \cup {"cancelled"})] /\ chan'[i] = <<>> /\ \A l \in Ids : l # i => chan'[l] = chan[l]
  BY <1>1, <1>3 DEF HearInv
<1>5. ASSUME NEW l \in Ids, l # i PROVE HearsAt(l)'
  <2>1. SameAt(l)
    BY <1>1, <1>2, <1>4, <1>5 DEF SameAt
  <2> QED
    BY <1>1, <2>1, HearsTheSame DEF Forward
<1>6. HearsAt(i)'
  <2>1. HearsAt(i)
    BY DEF HearInv
  <2>2. Untold(i) => Untold(i)'
    BY <1>1, <1>4 DEF Untold
  <2>3. Speaking(i) => Speaking(i)'
    BY <1>1, <1>3, <1>4 DEF Speaking, AllSteps
  <2>4. HasEnded(i) => HasEnded(i)'
    BY <1>1 DEF HasEnded
  <2> QED
    BY <1>1, <1>2, <1>3, <1>4, <2>1, <2>2, <2>3, <2>4, SchedulerAssumption DEF HearsAt
<1> QED
  BY <1>1, <1>4, <1>5, <1>6 DEF HearInv

LEMMA TrailKeepsHearing == ASSUME HearInv, NEW i \in Ids, Trail(i) PROVE HearInv'
<1>1. PICK rest : rest = IF i \in reader THEN Tail(backlog[i]) ELSE <<>>
  OBVIOUS
<1>2. /\ i \in trailing /\ (i \in reader => Len(chan[i]) < Capacity)
      /\ backlog' = [backlog EXCEPT ![i] = rest]
      /\ trailing' = IF rest = <<>> THEN trailing \ {i} ELSE trailing
      /\ chan' = IF i \in reader THEN [chan EXCEPT ![i] = Append(chan[i], Head(backlog[i]))] ELSE chan
      /\ UNCHANGED <<told, closed, jobs, submitted, stopping, cur, pc, batch, reader, heard>>
  BY <1>1 DEF Trail, queueVars, threadVars, cancelVars
<1>3. /\ Pieces(i)' = Pieces(i) /\ \A l \in Ids : (Unheard(l)' <=> Unheard(l)) /\ (InHand(l)' <=> InHand(l))
  BY <1>2 DEF Unheard, InHand, Spoken, Alone, Pieces
<1>4. HearsAt(i) /\ HasEnded(i) /\ ~Unheard(i) /\ i \notin batch.streams /\ ~InHand(i) /\ backlog[i] # <<>>
  BY <1>2 DEF HearInv, HearsAt, Untold, Speaking, HasEnded
<1>5. PICK b, e : b = backlog[i] /\ e = Head(b)
  OBVIOUS
<1>6. b \in Seq(Words) /\ b # <<>>
  BY <1>4, <1>5 DEF HearInv
<1>7. e \in Words /\ Tail(b) \in Seq(Words)
  BY <1>5, <1>6, HeadTailProperties
<1>8. rest \in Seq(Words)
  BY <1>1, <1>5, <1>7, EmptySeq
<1>9. backlog' \in [Ids -> Seq(Words)] /\ backlog'[i] = rest /\ \A l \in Ids : l # i => backlog'[l] = backlog[l]
  BY <1>2, <1>8 DEF HearInv
<1>10. /\ chan' \in [Ids -> Seq(Words \cup {"cancelled"})] /\ \A l \in Ids : l # i => chan'[l] = chan[l]
       /\ chan'[i] = IF i \in reader THEN Append(chan[i], e) ELSE <<>>
  <2>1. Sending(i, e)
    BY <1>2, <1>5 DEF Sending
  <2>2. e \in Words \cup {"cancelled"}
    BY <1>7
  <2> QED
    BY <2>1, <2>2, SendsOnePiece
<1>11. ASSUME NEW l \in Ids, l # i PROVE HearsAt(l)'
  <2>1. SameAt(l)
    BY <1>2, <1>3, <1>9, <1>10, <1>11 DEF SameAt
  <2> QED
    BY <1>2, <2>1, HearsTheSame DEF Forward
<1>12. i \in trailing' <=> rest # <<>>
  BY <1>2
<1>13. HearsAt(i)'
  <2>1. CASE i \notin reader
    <3>1. chan'[i] = <<>> /\ <<>> \in Seq(Pieces(i)) /\ Len(<<>>) = 0
      BY <1>10, <2>1, EmptySeq
    <3>2. HasEnded(i)'
      BY <1>2, <1>9, <1>12, <2>1 DEF HasEnded
    <3> QED
      BY <1>2, <1>3, <1>4, <3>1, <3>2, SchedulerAssumption DEF HearsAt
  <2>2. CASE i \in reader
    <3>1. PICK S, s, t : S = Pieces(i) /\ s = chan[i] /\ t = chan'[i]
      OBVIOUS
    <3>2. s \in Seq(S)
      BY <1>4, <3>1 DEF HearsAt
    <3>3. e \in S
      BY <1>7, <3>1 DEF Pieces
    <3>4. AllSteps(s) /\ EndsOnce(b) /\ heard[i] \in {"nothing", "step"}
      BY <1>4, <1>5, <2>2, <3>1 DEF HasEnded
    <3>5. t = Append(s, e)
      BY <1>10, <2>2, <3>1
    <3>6. t \in Seq(S) /\ Len(t) = Len(s) + 1 /\ Len(s) \in Nat
      BY <3>2, <3>3, <3>4, <3>5, OnePieceMore, LenProperties
    <3>7. (e = "step" => AllSteps(t)) /\ (e \in Endings => EndsOnce(t))
      BY <3>2, <3>3, <3>4, <3>5, OnePieceMore
    <3>8. (e = "step" /\ EndsOnce(rest)) \/ (e \in Endings /\ rest = <<>>)
      BY ZenonT(40), <1>1, <1>5, <1>6, <2>2, <3>4, EndsLess
    <3>9. EndsOnce(rest) => rest # <<>>
      BY DEF EndsOnce
    <3>10. Len(t) <= Capacity
      BY <1>2, <2>2, <3>1, <3>6, SchedulerAssumption
    <3>11. HasEnded(i)'
      BY <1>2, <1>9, <1>12, <3>1, <3>4, <3>7, <3>8, <3>9 DEF HasEnded
    <3> QED
      BY <1>2, <1>3, <1>4, <2>2, <3>1, <3>6, <3>10, <3>11 DEF HearsAt
  <2> QED
    BY <2>1, <2>2
<1> QED
  BY <1>2, <1>9, <1>10, <1>11, <1>13 DEF HearInv

LEMMA SubmitKeepsHearing ==
    ASSUME ThreadInv, HearInv, NEW who \in Asked \cup {NoTicket}, NEW item \in Menu, Submit(who, item)
    PROVE  HearInv'
<1>1. PICK n, j : n = Cardinality(submitted) + 1 /\ j = [n |-> n, who |-> who, kind |-> item.kind, on |-> item.on]
  OBVIOUS
<1>2. /\ jobs' = jobs \cup {j} /\ submitted' = submitted \cup {j} /\ j.n = n
      /\ UNCHANGED <<told, closed, stopping, cur, pc, batch, chan, backlog, trailing, reader, heard>>
  BY <1>1 DEF Submit, cancelVars, threadVars
<1>3. n \notin Told(submitted)
  <2>1. /\ Cardinality(submitted) \in Nat /\ \A i \in submitted : i.n \in 1..Cardinality(submitted)
    BY JobsAreNumbered DEF ThreadInv, JobsInv
  <2> QED
    BY <1>1, <2>1 DEF Told
<1>4. Told(submitted') = Told(submitted) \cup {n} /\ Told(jobs') = Told(jobs) \cup {n}
  BY <1>2 DEF Told
<1>5. \A i \in Ids : (Unheard(i)' <=> Unheard(i)) /\ (InHand(i)' <=> InHand(i))
  BY <1>2, <1>3, <1>4 DEF Unheard, InHand, Spoken, Alone
<1> QED
  BY <1>2, <1>5, AllHearTheSame DEF Forward

LEMMA CancelsKeepHearing ==
    ASSUME ThreadInv, HearInv,
           \/ \E who \in Asked, id \in {0} \cup Ids : CancelWaiting(who, id)
           \/ CancelCount \/ CancelMark
    PROVE  HearInv'
<1>1. ASSUME NEW who \in Asked, NEW id \in {0} \cup Ids, CancelWaiting(who, id) PROVE HearInv'
  <2>1. PICK gone : gone = {j \in jobs : j.who = who /\ id \in {0, j.n}}
    OBVIOUS
  <2>2. /\ stopping = NoCancel /\ stopping' = [at |-> "count", who |-> who, id |-> id, gone |-> gone]
        /\ told' = told \cup Told(gone) /\ jobs' = jobs \ gone
        /\ UNCHANGED <<closed, submitted, cur, pc, batch, chan, backlog, trailing, reader, heard>>
    BY <1>1, <2>1 DEF CancelWaiting, threadVars, callerVars
  <2>3. stopping.at = "rest" /\ stopping'.at = "count" /\ stopping'.gone = gone
    BY <2>2 DEF NoCancel
  <2>4. Told(jobs) = Told(jobs \ gone) \cup Told(gone)
    BY <2>1 DEF Told
  <2>5. \A i \in Ids : (Unheard(i)' <=> Unheard(i)) /\ (InHand(i)' <=> InHand(i))
    BY <2>2, <2>3, <2>4 DEF Unheard, InHand, Spoken, Alone
  <2> QED
    BY <2>2, <2>5, AllHearTheSame DEF Forward
<1>2. CASE CancelCount
  <2>1. /\ stopping.at = "count" /\ stopping' = [stopping EXCEPT !.at = "end"]
        /\ UNCHANGED <<told, jobs, closed, submitted, cur, pc, batch, chan, backlog, trailing, reader, heard>>
    BY <1>2 DEF CancelCount, queueVars, threadVars, callerVars
  <2>2. stopping'.gone = stopping.gone /\ (stopping'.at \in {"count", "end"} \/ stopping' = stopping)
    BY <2>1
  <2>3. stopping'.at \in {"count", "end"} /\ stopping.at \in {"count", "end"}
    BY <2>1, <2>2
  <2>4. \A i \in Ids : (Unheard(i)' <=> Unheard(i)) /\ (InHand(i)' <=> InHand(i))
    BY <2>1, <2>2, <2>3 DEF Unheard, InHand, Spoken, Alone
  <2> QED
    BY <2>1, <2>4, AllHearTheSame DEF Forward
<1>3. CASE CancelMark
  <2>1. /\ stopping.at = "mark" /\ stopping' = NoCancel /\ told \subseteq told'
        /\ UNCHANGED <<jobs, closed, submitted, cur, pc, batch, chan, backlog, trailing, reader, heard>>
    BY <1>3 DEF CancelMark, queueVars, threadVars, callerVars
  <2>2. stopping'.at = "rest"
    BY <2>1 DEF NoCancel
  <2>3. \A i \in Ids : (Unheard(i)' <=> Unheard(i)) /\ (InHand(i)' <=> InHand(i))
    BY <2>1, <2>2 DEF Unheard, InHand, Spoken, Alone
  <2> QED
    BY <2>1, <2>3, AllHearTheSame DEF Forward
<1> QED
  BY <1>1, <1>2, <1>3

\* A job that waits, is taken or has been cancelled is told by its number.
LEMMA OneJobEach ==
    ASSUME ThreadInv
    PROVE  /\ cur # NoJob => cur \in submitted /\ cur.n \in Told(submitted) /\ cur.n \notin Told(jobs)
           /\ stopping.at \in {"count", "end"} =>
                /\ Told(stopping.gone) \subseteq Told(submitted) /\ Told(stopping.gone) \cap Told(jobs) = {}
                /\ cur # NoJob => cur.n \notin Told(stopping.gone)
                /\ Told(stopping.gone) \cap batch.streams = {}
           /\ batch.streams \subseteq Told(submitted) /\ batch.streams \cap Told(jobs) = {}
           /\ cur # NoJob => cur.n \notin batch.streams
           /\ Told(submitted) \subseteq Ids
<1>1. /\ \A i, j \in submitted : i.n = j.n => i = j
      /\ jobs \subseteq submitted /\ cur \in submitted \cup {NoJob} /\ cur \notin jobs
  BY DEF ThreadInv, JobsInv
<1>2. cur # NoJob => cur \in submitted /\ cur.n \in Told(submitted) /\ cur.n \notin Told(jobs)
  BY <1>1 DEF Told
<1>3. ASSUME stopping.at \in {"count", "end"}
      PROVE  /\ Told(stopping.gone) \subseteq Told(submitted) /\ Told(stopping.gone) \cap Told(jobs) = {}
             /\ cur # NoJob => cur.n \notin Told(stopping.gone)
             /\ Told(stopping.gone) \cap batch.streams = {}
  <2>1. /\ stopping.gone \subseteq submitted /\ stopping.gone \cap jobs = {} /\ cur \notin stopping.gone
        /\ \A j \in stopping.gone : j.n \notin batch.streams
    BY <1>3 DEF ThreadInv, CancelInv
  <2> QED
    BY <1>1, <2>1 DEF Told
<1>4. batch.streams \subseteq Told(submitted) /\ \A j \in submitted : j.n \in batch.streams => j \notin jobs /\ j # cur
  BY DEF ThreadInv, StreamsInv
<1>5. batch.streams \cap Told(jobs) = {} /\ (cur # NoJob => cur.n \notin batch.streams)
  BY <1>1, <1>4 DEF Told
<1>6. Told(submitted) \subseteq Ids
  BY DEF Told, ThreadInv, JobsInv, Job
<1> QED
  BY <1>2, <1>3, <1>4, <1>5, <1>6

LEMMA CancelEndKeepsHearing == ASSUME ThreadInv, StopInv, HearInv, CancelEnd PROVE HearInv'
<1>1. PICK gone : gone = Told(stopping.gone)
  OBVIOUS
<1>2. /\ stopping.at = "end" /\ stopping' = [stopping EXCEPT !.at = "mark"]
      /\ chan' = [i \in Ids |-> IF i \in gone \cap reader THEN Append(chan[i], "cancelled") ELSE chan[i]]
      /\ UNCHANGED <<told, jobs, closed, submitted, cur, pc, batch, backlog, trailing, reader, heard>>
  BY <1>1 DEF CancelEnd, queueVars, threadVars
<1>3. stopping'.at \notin {"count", "end"}
  BY <1>2 DEF ThreadInv, CancelInv
<1>4. gone \subseteq Ids /\ gone \subseteq told /\ gone \subseteq Told(submitted) /\ gone \cap Told(jobs) = {}
      /\ (cur # NoJob => cur.n \notin gone) /\ gone \cap batch.streams = {}
  BY <1>1, <1>2, OneJobEach DEF StopInv
<1>5. \A i \in Ids : i \notin gone => (Unheard(i)' <=> Unheard(i)) /\ (InHand(i)' <=> InHand(i))
  BY <1>1, <1>2, <1>3 DEF Unheard, InHand, Spoken, Alone
<1>6. \A i \in gone : Unheard(i) /\ ~Unheard(i)' /\ ~InHand(i)'
  <2>1. \A i \in gone : Unheard(i)
    BY <1>1, <1>2 DEF Unheard
  <2>2. \A i \in gone : ~Unheard(i)'
    BY <1>2, <1>3, <1>4 DEF Unheard
  <2>3. Alone => cur # NoJob
    BY DEF ThreadInv, PlaceInv, Single, Either, Alone
  <2>4. \A i \in gone : ~InHand(i)'
    BY <1>2, <1>4, <2>3 DEF InHand, Alone
  <2> QED
    BY <2>1, <2>2, <2>4
<1>7. "cancelled" \in Endings /\ "cancelled" \notin Words
  BY DEF Endings, Words
<1>8. ASSUME NEW i \in Ids PROVE HearsAt(i)' /\ chan'[i] \in Seq(Words \cup {"cancelled"})
  <2>1. CASE i \notin gone
    <3>1. SameAt(i)
      BY <1>2, <1>5, <2>1 DEF SameAt
    <3> QED
      BY <1>2, <2>1, <3>1, HearsTheSame DEF Forward, HearInv
  <2>2. CASE i \in gone /\ i \notin reader
    <3>1. chan'[i] = chan[i] /\ HearsAt(i) /\ Untold(i)
      BY <1>2, <1>6, <2>2 DEF HearInv, HearsAt
    <3>2. HasEnded(i)'
      BY <1>2, <2>2, <3>1 DEF HasEnded, Untold
    <3> QED
      BY <1>2, <1>4, <1>6, <2>2, <3>1, <3>2 DEF HearsAt, Pieces, HearInv
  <2>3. CASE i \in gone /\ i \in reader
    <3>1. HearsAt(i) /\ Untold(i)
      BY <1>6, <2>3 DEF HearInv, HearsAt
    <3>2. PICK S, t : S = Pieces(i)' /\ t = chan'[i]
      OBVIOUS
    <3>3. "cancelled" \in S /\ S \subseteq Words \cup {"cancelled"}
      BY <1>2, <1>4, <2>3, <3>2 DEF Pieces
    <3>4. <<>> \in Seq(S) /\ AllSteps(<<>>) /\ Len(<<>>) = 0
      BY EmptySeq DEF AllSteps
    <3>5. t = Append(<<>>, "cancelled")
      BY <1>2, <2>3, <3>1, <3>2 DEF Untold
    <3>6. t \in Seq(S) /\ Len(t) = 1 /\ EndsOnce(t)
      <4>1. PICK s : s = <<>>
        OBVIOUS
      <4>2. s \in Seq(S) /\ AllSteps(s) /\ t = Append(s, "cancelled") /\ Len(s) = 0
        BY <3>4, <3>5, <4>1
      <4>3. t \in Seq(S) /\ Len(t) = Len(s) + 1
        BY <3>3, <4>2, OnePieceMore
      <4>4. EndsOnce(t)
        BY <1>7, <3>3, <4>2, OnePieceMore
      <4> QED
        BY <4>2, <4>3, <4>4
    <3>7. t \in Seq(Words \cup {"cancelled"})
      BY <3>3, <3>6, SeqMonotonic
    <3>8. HasEnded(i)'
      BY <1>2, <3>1, <3>2, <3>6 DEF HasEnded, Untold
    <3>9. heard'[i] \in {"nothing"} \cup Pieces(i)'
      BY <1>2, <3>1 DEF Untold
    <3> QED
      BY <1>2, <1>4, <1>6, <2>3, <3>2, <3>6, <3>7, <3>8, <3>9, SchedulerAssumption DEF HearsAt
  <2> QED
    BY <2>1, <2>2, <2>3
<1> QED
  BY <1>2, <1>8 DEF HearInv

LEMMA CloseKeepsHearing == ASSUME ThreadInv, HearInv, Close PROVE HearInv'
<1>1. /\ closed' /\ jobs' = {}
      /\ UNCHANGED <<told, submitted, stopping, cur, pc, batch, chan, backlog, trailing, reader, heard>>
  BY DEF Close, threadVars, cancelVars
<1>2. Told({}) = {}
  BY DEF Told
<1>3. ASSUME NEW i \in Ids PROVE HearsAt(i)'
  <2>1. CASE i \notin Told(jobs)
    <3>1. SameAt(i)
      BY <1>1, <1>2, <2>1 DEF SameAt, Unheard, InHand, Spoken, Alone
    <3> QED
      BY <1>1, <3>1, HearsTheSame DEF Forward
  <2>2. CASE i \in Told(jobs)
    <3>1. HearsAt(i) /\ Untold(i)
      BY <2>2 DEF HearInv, HearsAt, Unheard
    <3>2. Untold(i)' /\ HasEnded(i)'
      BY <1>1, <3>1 DEF Untold, HasEnded
    <3>3. Speaking(i)' /\ backlog'[i] = <<>>
      <4>1. 1..Len(<<>>) = {}
        OBVIOUS
      <4> QED
        BY <1>1, <3>1, <4>1 DEF Untold, Speaking, AllSteps
    <3> QED
      BY <1>1, <3>1, <3>2, <3>3 DEF HearsAt, Pieces
  <2> QED
    BY <2>1, <2>2
<1> QED
  BY <1>1, <1>3 DEF HearInv

LEMMA HandlersKeepHearing ==
    ASSUME ThreadInv, StopInv, HearInv,
           \/ \E who \in Asked \cup {NoTicket}, item \in Menu : Submit(who, item)
           \/ \E who \in Asked, id \in {0} \cup Ids : CancelWaiting(who, id)
           \/ Cancelling
           \/ \E i \in Ids : Read(i) \/ Leave(i) \/ Trail(i)
           \/ Close
    PROVE  HearInv'
BY SubmitKeepsHearing, CancelsKeepHearing, CancelEndKeepsHearing, ReadKeepsHearing, LeaveKeepsHearing,
   TrailKeepsHearing, CloseKeepsHearing DEF Cancelling

\* A job is taken.
LEMMA TakesKeepHearing == ASSUME ThreadInv, HearInv, NEW j \in jobs, TakeNext(j) \/ Join(j) PROVE HearInv'
<1>1. /\ pc \in {"next", "join"} /\ pc' \in {"busy", "count"} /\ jobs' = jobs \ {j} /\ cur' = j
      /\ UNCHANGED <<told, closed, submitted, stopping, batch, chan, backlog, trailing, reader, heard>>
  BY DEF TakeNext, Join, TakeJob, callerVars, cancelVars
<1>2. cur = NoJob
  BY <1>1 DEF ThreadInv, PlaceInv, Single, Either
<1>3. j \in submitted /\ j # NoJob
  <2>1. j \in submitted /\ j.n \in 1..Cardinality(submitted) /\ Cardinality(submitted) \in Nat
    BY JobsAreNumbered DEF ThreadInv, JobsInv
  <2>2. NoJob.n = 0
    BY DEF NoJob
  <2> QED
    BY <2>1, <2>2
<1>4. Told(jobs) = Told(jobs \ {j}) \cup {j.n}
  BY DEF Told
<1>5. \A i \in Ids : (Unheard(i)' <=> Unheard(i)) /\ (InHand(i)' <=> InHand(i))
  BY <1>1, <1>2, <1>3, <1>4 DEF Unheard, InHand, Spoken, Alone
<1> QED
  BY <1>1, <1>5, AllHearTheSame DEF Forward

\* What is sent to the caller of the job in hand. One it is refused to or over
\* for is told so; it was told nothing, or steps.
LEMMA CurIsToldTheEnd ==
    ASSUME ThreadInv, HearInv, cur # NoJob, NEW piece \in Endings, Sending(cur.n, piece),
           cur.n \in reader => piece \in Pieces(cur.n) /\ Len(chan[cur.n]) < Capacity,
           ~Spoken \/ Alone,
           (cur' = NoJob /\ (Spoken' => pc' \in {"clear", "reply"})) \/ (UNCHANGED cur /\ Spoken'), ~Alone',
           batch'.streams = batch.streams,
           UNCHANGED <<jobs, submitted, stopping, told, closed, backlog, heard, trailing, reader>>
    PROVE  HearInv'
<1>1. PICK id \in Ids : id = cur.n
  BY OneJobEach
<1>2. /\ cur \in submitted /\ id \in Told(submitted) /\ id \notin Told(jobs)
      /\ (stopping.at \in {"count", "end"} => id \notin Told(stopping.gone)) /\ id \notin batch.streams
  BY <1>1, OneJobEach
<1>3. HearsAt(id) /\ (Untold(id) \/ Speaking(id)) /\ backlog[id] = <<>>
  <2>1. HearsAt(id)
    BY DEF HearInv
  <2>2. Unheard(id) \/ InHand(id)
    BY <1>1 DEF Unheard, InHand
  <2> QED
    BY <1>2, <2>1, <2>2 DEF HearsAt, Untold
<1>4. ~Unheard(id)' /\ ~InHand(id)'
  BY <1>1, <1>2 DEF Unheard, InHand
<1>5. \A l \in Ids : l # id => (Unheard(l)' <=> Unheard(l)) /\ (InHand(l)' <=> InHand(l))
  BY <1>1 DEF Unheard, InHand
<1>6. Sending(id, piece) /\ (id \in reader => piece \in Pieces(id)' /\ Len(chan[id]) < Capacity)
  BY <1>1 DEF Pieces
<1> QED
  BY <1>2, <1>3, <1>4, <1>5, <1>6, TellsTheEnd DEF Forward

\* A caller that has been told nothing has room.
LEMMA RoomForTheFirst ==
    ASSUME ThreadInv, HearInv, cur # NoJob, ~Spoken
    PROVE  cur.n \in Ids /\ Untold(cur.n) /\ Len(chan[cur.n]) < Capacity
<1>1. PICK id \in Ids : id = cur.n
  BY OneJobEach
<1>2. Unheard(id) /\ HearsAt(id)
  BY <1>1 DEF Unheard, HearInv
<1>3. Untold(id)
  BY <1>2 DEF HearsAt
<1>4. Len(<<>>) = 0
  OBVIOUS
<1> QED
  BY <1>1, <1>3, <1>4, SchedulerAssumption DEF Untold

LEMMA AdmitReplyKeepsHearing == ASSUME ThreadInv, StopInv, HearInv, AdmitReply PROVE HearInv'
<1>1. PICK b : b = IF batch = NoBatch THEN [on |-> cur.on, private |-> cur.kind = "fresh", streams |-> {}] ELSE batch
  OBVIOUS
<1>2. PICK refuse \in BOOLEAN : refuse = (b.on \notin slots \/ stop[cur.n])
  OBVIOUS
<1>3. /\ pc = "admit" /\ cur' = NoJob /\ pc' \in {"settle", "join"}
      /\ IF refuse
         THEN Sending(cur.n, IF b.on \in slots THEN "cancelled" ELSE "failed") /\ UNCHANGED batch
         ELSE batch' = [b EXCEPT !.streams = b.streams \cup {cur.n}] /\ UNCHANGED chan
      /\ UNCHANGED <<jobs, submitted, stopping, told, closed, backlog, heard, trailing, reader>>
  BY <1>1, <1>2 DEF AdmitReply, queueVars, cancelVars
<1>4. cur # NoJob /\ ~Spoken /\ ~Alone /\ ~Alone' /\ ~Spoken'
  BY <1>3 DEF ThreadInv, PlaceInv, Single, Either, Spoken, Alone
<1>5. cur.n \in Ids /\ Untold(cur.n) /\ Len(chan[cur.n]) < Capacity
  BY <1>4, RoomForTheFirst
<1>6. CASE refuse
  <2>1. PICK piece \in Endings : piece = IF b.on \in slots THEN "cancelled" ELSE "failed"
    BY DEF Endings
  <2>2. Sending(cur.n, piece)
    BY <1>3, <1>6, <2>1
  <2>3. cur.n \in reader => piece \in Pieces(cur.n)
    <3>1. piece = "failed" \/ stop[cur.n]
      BY <1>2, <1>6, <2>1
    <3>2. stop[cur.n] /\ cur.n \in reader => cur.n \in told
      BY <1>5 DEF StopInv, MayStop
    <3> QED
      BY <1>3, <2>1, <3>1, <3>2 DEF Pieces, Words
  <2> QED
    BY <1>3, <1>4, <1>5, <1>6, <2>2, <2>3, CurIsToldTheEnd
<1>7. CASE ~refuse
  <2>1. PICK id \in Ids : id = cur.n
    BY <1>5
  <2>2. batch'.streams = batch.streams \cup {id}
    <3>1. b.streams = batch.streams
      BY <1>1 DEF NoBatch
    <3>2. CASE batch = NoBatch
      BY <1>1, <1>3, <1>7, <2>1, <3>1, <3>2
    <3>3. CASE batch # NoBatch
      BY <1>1, <1>3, <1>7, <2>1, <3>1, <3>3 DEF ThreadInv, PlaceInv
    <3> QED
      BY <3>2, <3>3
  <2>3. \A l \in Ids : l # id => (Unheard(l)' <=> Unheard(l)) /\ (InHand(l)' <=> InHand(l))
    BY <1>3, <1>4, <2>1 DEF Unheard, InHand
  <2>4. ~Unheard(id)'
    BY <1>3, <1>4, <2>1, OneJobEach DEF Unheard
  <2>5. UNCHANGED chan
    BY <1>3, <1>7
  <2>6. HearsAt(id)'
    <3>1. HearsAt(id) /\ Untold(id)
      BY <1>5, <2>1 DEF HearInv
    <3>2. Speaking(id)'
      <4>1. 1..Len(<<>>) = {}
        OBVIOUS
      <4> QED
        BY <1>3, <2>5, <3>1, <4>1 DEF Untold, Speaking, AllSteps
    <3>3. Pieces(id)' = Pieces(id)
      BY <1>3 DEF Pieces
    <3> QED
      BY <1>3, <2>2, <2>4, <2>5, <3>1, <3>2, <3>3 DEF HearsAt
  <2>7. ASSUME NEW l \in Ids, l # id PROVE HearsAt(l)'
    <3>1. SameAt(l)
      BY <1>3, <2>2, <2>3, <2>5, <2>7 DEF SameAt
    <3> QED
      BY <1>3, <3>1, HearsTheSame DEF Forward
  <2> QED
    BY <1>3, <2>5, <2>6, <2>7 DEF HearInv
<1> QED
  BY <1>6, <1>7

LEMMA AloneKeepHearing ==
    ASSUME ThreadInv, EngineInv, StopInv, HearInv, EnterAlone \/ BeginAlone \/ DrainEvent \/ DrainQuiet \/ HandOver
    PROVE  HearInv'
<1>1. CASE EnterAlone
  <2>1. PICK unheard \in BOOLEAN, refuse \in BOOLEAN :
            unheard = (cur.kind = "film" /\ cur.n \notin reader) /\ refuse = (stop[cur.n] \/ cur.on \notin slots)
    BY Zenon
  <2>2. /\ pc = "enter" /\ pc' = IF unheard \/ refuse THEN "finish" ELSE "begin"
        /\ IF ~unheard /\ refuse THEN Sending(cur.n, IF stop[cur.n] THEN "cancelled" ELSE "failed") ELSE UNCHANGED chan
        /\ UNCHANGED <<cur, batch, jobs, submitted, stopping, told, closed, backlog, heard, trailing, reader>>
    BY <1>1, <2>1 DEF EnterAlone, queueVars, cancelVars
  <2>3. cur # NoJob /\ ~Spoken /\ ~Alone /\ ~Alone'
    BY <2>2 DEF ThreadInv, PlaceInv, Single, Either, Spoken, Alone
  <2>4. cur.n \in Ids /\ Untold(cur.n) /\ Len(chan[cur.n]) < Capacity
    BY <2>3, RoomForTheFirst
  <2>5. CASE ~unheard /\ ~refuse
    <3>1. UNCHANGED callerVars
      BY <1>1, <2>2, <2>5 DEF EnterAlone, callerVars
    <3>2. ~Spoken'
      BY <2>2, <2>5 DEF Spoken
    <3> QED
      BY <1>1, <2>2, <2>3, <3>1, <3>2, ThreadSaysNothing DEF EnterAlone
  <2>6. CASE unheard \/ refuse
    <3>1. PICK piece \in Endings : piece = IF stop[cur.n] THEN "cancelled" ELSE "failed"
      BY DEF Endings
    <3>2. Sending(cur.n, piece)
      BY <2>1, <2>2, <2>6, <3>1 DEF Sending
    <3>3. cur.n \in reader => piece \in Pieces(cur.n)
      BY <2>2, <2>4, <3>1 DEF StopInv, MayStop, Pieces, Words
    <3>4. Spoken'
      BY <2>2, <2>6 DEF Spoken
    <3> QED
      BY <2>2, <2>3, <2>4, <3>2, <3>3, <3>4, CurIsToldTheEnd
  <2> QED
    BY <2>5, <2>6
<1>2. CASE BeginAlone
  <2>1. /\ pc = "begin" /\ pc' = "drain"
        /\ UNCHANGED <<cur, batch, jobs, submitted, stopping, told, closed, chan, backlog, heard, trailing, reader>>
    BY <1>2 DEF BeginAlone, queueVars, cancelVars, callerVars
  <2>2. cur # NoJob /\ ~Spoken /\ ~Alone /\ Alone' /\ Spoken'
    BY <2>1 DEF ThreadInv, PlaceInv, Single, Either, Spoken, Alone
  <2>3. PICK id \in Ids : id = cur.n /\ Untold(id)
    BY <2>2, RoomForTheFirst
  <2>4. \A l \in Ids : l # id => (Unheard(l)' <=> Unheard(l)) /\ (InHand(l)' <=> InHand(l))
    BY <2>1, <2>2, <2>3 DEF Unheard, InHand
  <2>5. ~Unheard(id)' /\ InHand(id)'
    BY <2>1, <2>2, <2>3, OneJobEach DEF Unheard, InHand
  <2>6. HearsAt(id)'
    <3>1. HearsAt(id) /\ Pieces(id)' = Pieces(id)
      BY <2>1 DEF HearInv, Pieces
    <3>2. Speaking(id)' /\ backlog'[id] = <<>>
      <4>1. 1..Len(<<>>) = {}
        OBVIOUS
      <4> QED
        BY <2>1, <2>3, <4>1 DEF Untold, Speaking, AllSteps
    <3> QED
      BY <2>1, <2>5, <3>1, <3>2 DEF HearsAt
  <2>7. ASSUME NEW l \in Ids, l # id PROVE HearsAt(l)'
    <3>1. SameAt(l)
      BY <2>1, <2>4, <2>7 DEF SameAt
    <3> QED
      BY <2>1, <3>1, HearsTheSame DEF Forward
  <2> QED
    BY <2>1, <2>6, <2>7 DEF HearInv
<1>3. CASE DrainEvent \/ DrainQuiet
  <2>1. /\ pc \in {"drain", "hand"} /\ pc' \in {"drain", "hand"} /\ batch' = batch
        /\ UNCHANGED <<callerVars, cancelVars, queueVars, cur>>
    BY <1>3 DEF DrainEvent, DrainQuiet, threadVars
  <2> QED
    BY <2>1, ThreadSaysNothing DEF Spoken, Alone
<1>4. CASE HandOver
  <2>1. /\ pc = "hand" /\ Sending(cur.n, holding.what) /\ (cur.n \in reader => Len(chan[cur.n]) < Capacity)
        /\ pc' = IF holding.what = "step" THEN "drain" ELSE "finish"
        /\ UNCHANGED <<cur, batch, jobs, submitted, stopping, told, closed, backlog, heard, trailing, reader>>
    BY <1>4 DEF HandOver, Onward, queueVars, cancelVars
  <2>2. cur # NoJob /\ Alone /\ Spoken /\ Spoken'
    BY <2>1 DEF ThreadInv, PlaceInv, Single, Either, Spoken, Alone
  <2>3. PICK id \in Ids : id = cur.n
    BY <2>2, OneJobEach
  <2>4. holding.what \in Words
    <3>1. holding \in [what : {"step", "done", "failed"}, for : Ids]
      BY <2>1 DEF EngineInv, HoldingInv
    <3> QED
      BY <3>1 DEF Words
  <2>5. CASE holding.what # "step"
    <3>1. PICK piece \in Endings : piece = holding.what /\ piece \in Words
      BY <2>4, <2>5 DEF Endings, Words
    <3>2. ~Alone'
      BY <2>1, <2>5 DEF Alone
    <3>3. piece \in Pieces(cur.n)
      BY <3>1 DEF Pieces
    <3> QED
      BY <2>1, <2>2, <3>1, <3>2, <3>3, CurIsToldTheEnd
  <2>6. CASE holding.what = "step"
    <3>1. Alone'
      BY <2>1, <2>6 DEF Alone
    <3>2. \A l \in Ids : (Unheard(l)' <=> Unheard(l)) /\ (InHand(l)' <=> InHand(l))
      BY <2>1, <2>2, <3>1 DEF Unheard, InHand
    <3>3. HearsAt(id) /\ Speaking(id) /\ backlog[id] = <<>> /\ ~Unheard(id) /\ InHand(id) /\ id \notin batch.streams
      <4>1. InHand(id) /\ HearsAt(id)
        BY <2>2, <2>3 DEF InHand, HearInv
      <4>2. ~Unheard(id) /\ id \notin batch.streams
        BY <2>2, <2>3, OneJobEach DEF Unheard
      <4> QED
        BY <4>1, <4>2 DEF HearsAt
    <3>4. Sending(id, "step") /\ "step" \in Words \cup {"cancelled"}
      BY <2>1, <2>3, <2>6 DEF Words
    <3>5. /\ chan' \in [Ids -> Seq(Words \cup {"cancelled"})]
          /\ \A l \in Ids : l # id => chan'[l] = chan[l]
          /\ chan'[id] = IF id \in reader THEN Append(chan[id], "step") ELSE <<>>
      BY <3>4, SendsOnePiece
    <3>6. ASSUME NEW l \in Ids, l # id PROVE HearsAt(l)'
      <4>1. SameAt(l)
        BY <2>1, <3>2, <3>5, <3>6 DEF SameAt
      <4> QED
        BY <2>1, <4>1, HearsTheSame DEF Forward
    <3>7. Pieces(id)' = Pieces(id)
      BY <2>1 DEF Pieces
    <3>8. chan'[id] \in Seq(Pieces(id)) /\ AllSteps(chan'[id]) /\ Len(chan'[id]) <= Capacity
      <4>1. CASE id \notin reader
        BY <3>5, <4>1, EmptySeq, SchedulerAssumption DEF AllSteps
      <4>2. CASE id \in reader
        <5>1. PICK S, s, t : S = Pieces(id) /\ s = chan[id] /\ t = chan'[id]
          OBVIOUS
        <5>2. s \in Seq(S) /\ "step" \in S /\ AllSteps(s) /\ t = Append(s, "step")
          BY <3>3, <3>5, <4>2, <5>1 DEF HearsAt, Speaking, Pieces, Words
        <5>3. t \in Seq(S) /\ Len(t) = Len(s) + 1 /\ Len(s) \in Nat
          BY <5>2, OnePieceMore, LenProperties
        <5>4. AllSteps(t)
          BY <5>2, OnePieceMore
        <5>5. Len(t) <= Capacity
          BY <2>1, <2>3, <4>2, <5>1, <5>3, SchedulerAssumption
        <5> QED
          BY <5>1, <5>3, <5>4, <5>5
      <4> QED
        BY <4>1, <4>2
    <3>9. Speaking(id)'
      BY <2>1, <3>3, <3>8 DEF Speaking
    <3>10. HearsAt(id)'
      BY <2>1, <3>2, <3>3, <3>5, <3>7, <3>8, <3>9 DEF HearsAt
    <3> QED
      BY <2>1, <3>5, <3>6, <3>10 DEF HearInv
  <2> QED
    BY <2>5, <2>6
<1> QED
  BY <1>1, <1>2, <1>3, <1>4

\* What is said of one reply: steps, and its end if it has come to that.
LEMMA SaidOfOne ==
    ASSUME ThreadInv, EngineInv, batch # NoBatch, NEW i \in batch.streams
    PROVE  /\ Said(i) \in Seq(Words)
           /\ i \notin Ending => AllSteps(Said(i))
           /\ i \in Ending => EndsOnce(Said(i))
<1>1. PICK k \in Key : k = batch.on /\ BatchAt(k)
  BY OneAwaited DEF EngineInv, BatchInv
<1>2. i \notin Ending => \A n \in DOMAIN Said(i) : Said(i)[n] = "step"
  BY DEF Ending
<1>3. CASE Disconnected(k)
  <2>1. PICK s : s = Said(i)
    OBVIOUS
  <2>2. s = <<"failed">>
    BY <1>1, <1>3, <2>1 DEF Said
  <2>3. s \in Seq(Words) /\ Len(s) = 1 /\ s[1] = "failed" /\ s # <<>> /\ DOMAIN s = 1..1
    BY <2>2 DEF Words
  <2>4. EndsOnce(s)
    BY <2>3 DEF EndsOnce, Endings
  <2>5. i \in Ending
    <3>1. 1 \in DOMAIN s /\ s[1] # "step"
      BY <2>3
    <3> QED
      BY <2>1, <3>1 DEF Ending
  <2> QED
    BY <2>1, <2>3, <2>4, <2>5
<1>4. CASE ~Disconnected(k)
  <2>1. PICK box, places : box = outbox[k] /\ places = {n \in DOMAIN box : box[n].tagged /\ box[n].for = i}
    BY ZenonT(40)
  <2>2. PICK mine : mine = InOrder(places)
    OBVIOUS
  <2>3. Said(i) = [n \in DOMAIN mine |-> box[mine[n]].what]
    BY <1>1, <1>4, <2>1, <2>2 DEF Said
  <2>4. box \in Seq(Events) /\ DOMAIN box = 1..Len(box) /\ Len(box) \in Nat
    BY <2>1, LenProperties DEF EngineInv, EngineTypeOK
  <2>5. places \in SUBSET Nat /\ IsFiniteSet(places)
    <3>1. PICK c \in Nat : c = Len(box)
      BY <2>4
    <3>2. IsFiniteSet(1..c) /\ places \subseteq 1..c
      BY <2>1, <2>4, <3>1, UpToCount
    <3>3. IsFiniteSet(places)
      BY <3>2, NoLarger
    <3> QED
      BY <3>2, <3>3
  <2>6. mine \in Seq(places) /\ Ascends(mine)
    BY <2>2, <2>5, OrderIsAll
  <2>7. PICK d \in Nat : d = Len(mine) /\ DOMAIN mine = 1..d
    BY <2>6, LenProperties
  <2>8. \A n \in 1..d : mine[n] \in places
    BY <2>6, <2>7, ElementOfSeq
  <2>9. \A n \in 1..d : /\ mine[n] \in 1..Len(box) /\ mine[n] \in Nat /\ box[mine[n]] \in Events
                        /\ box[mine[n]].for = i
    BY <2>1, <2>4, <2>5, <2>8, ElementOfSeq
  <2>10. \A n \in 1..d : box[mine[n]].what \in Words
    BY <2>9 DEF Events, Words
  <2>11. PICK s : s = Said(i)
    OBVIOUS
  <2>12. s = [n \in 1..d |-> box[mine[n]].what]
    BY <2>3, <2>7, <2>11
  <2>13. s \in Seq(Words) /\ Len(s) = d /\ DOMAIN s = 1..d /\ \A n \in 1..d : s[n] = box[mine[n]].what
    BY <2>10, <2>12, IsASeq
  <2>14. \A m, n \in 1..d : m < n => mine[m] < mine[n]
    BY <2>6, <2>7 DEF Ascends
  <2>15. ASSUME NEW n \in 1..d, s[n] # "step" PROVE n = d
    <3>1. box[mine[n]].what # "step"
      BY <2>13, <2>15
    <3>2. \A m \in 1..Len(box) : box[m].for = box[mine[n]].for => m <= mine[n]
      BY <1>1, <2>1, <2>9, <3>1 DEF BatchAt, OutboxAt
    <3>3. d \in 1..d
      OBVIOUS
    <3>4. mine[d] <= mine[n]
      BY <2>9, <3>2, <3>3
    <3>5. n < d => mine[n] < mine[d]
      BY <2>14, <3>3
    <3> QED
      BY <2>9, <3>3, <3>4, <3>5
  <2>16. ASSUME i \in Ending PROVE EndsOnce(s)
    <3>1. PICK n \in 1..d : s[n] # "step"
      BY <2>11, <2>13, <2>16 DEF Ending
    <3>2. n = d
      BY <2>15, <3>1
    <3>3. s[d] \in Words /\ s[d] # "step"
      BY <2>10, <2>13, <3>1, <3>2
    <3>4. s[d] \in Endings
      BY <3>3 DEF Words, Endings
    <3>5. s # <<>>
      <4>1. d # 0
        BY <3>1
      <4> QED
        BY <2>13, <4>1, EmptySeq
    <3> QED
      BY <2>13, <2>15, <3>4, <3>5 DEF EndsOnce
  <2> QED
    BY <1>2, <2>11, <2>13, <2>16 DEF AllSteps
<1> QED
  BY <1>3, <1>4

Pending(i) == backlog[i] \o Said(i)
AsMuch(i) == Min({RoomFor(i), Len(Pending(i))})
Pumped(i, c, b) ==
    c = chan[i] \o SubSeq(Pending(i), 1, AsMuch(i)) /\ b = SubSeq(Pending(i), AsMuch(i) + 1, Len(Pending(i)))

\* The first part of what is said goes behind the steps that were sent.
Behind(P, s, f, m, b, c) ==
    /\ c \in Seq(P) /\ b \in Seq(Words) /\ Len(c) = Len(s) + m
    /\ AllSteps(f) => AllSteps(c) /\ AllSteps(b)
    /\ EndsOnce(f) => IF b = <<>> THEN EndsOnce(c) ELSE AllSteps(c) /\ EndsOnce(b)
LEMMA GoesBehind ==
    ASSUME NEW P, NEW s \in Seq(P), NEW f \in Seq(Words), NEW m \in Nat, NEW a, NEW b, NEW c, AllSteps(s),
           Words \subseteq P, Cut(f, m, a, b), c = s \o a
    PROVE  Behind(P, s, f, m, b, c)
<1>1. a \in Seq(Words) /\ b \in Seq(Words) /\ Len(a) = m
  BY CutInTwo
<1>2. b = <<>> => a = f
  BY CutInTwo
<1>3. AllSteps(f) => AllSteps(a) /\ AllSteps(b)
  BY CutInTwo
<1>4. EndsOnce(f) /\ b # <<>> => AllSteps(a) /\ EndsOnce(b)
  BY CutInTwo
<1>5. a \in Seq(P)
  BY <1>1, SeqMonotonic
<1>6. c \in Seq(P) /\ Len(c) = Len(s) + Len(a)
  BY <1>5, ConcatProperties
<1>7. AllSteps(a) => AllSteps(c)
  BY <1>5, StepsThen
<1>8. EndsOnce(a) => EndsOnce(c)
  BY <1>5, StepsThen
<1> QED
  BY <1>1, <1>2, <1>3, <1>4, <1>6, <1>7, <1>8 DEF Behind

\* As much goes to a reader as there is room for, and the rest waits.
LEMMA PumpsTo ==
    ASSUME ThreadInv, EngineInv, HearInv, batch # NoBatch, NEW i \in batch.streams, i \in reader, Speaking(i),
           NEW c, NEW b, Pumped(i, c, b)
    PROVE  /\ c \in Seq(Pieces(i)) /\ Len(c) <= Capacity /\ b \in Seq(Words)
           /\ i \notin Ending => AllSteps(c) /\ AllSteps(b)
           /\ i \in Ending => IF b = <<>> THEN EndsOnce(c) ELSE AllSteps(c) /\ EndsOnce(b)
<1>1. i \in Ids /\ HearsAt(i) /\ Words \subseteq Pieces(i)
  BY DEF HearInv, ThreadInv, PlaceInv, Pieces
<1>2. PICK f, s, m, P : f = Pending(i) /\ s = chan[i] /\ m = AsMuch(i) /\ P = Pieces(i)
  OBVIOUS
<1>3. s \in Seq(P) /\ AllSteps(s) /\ Len(s) <= Capacity /\ Len(s) \in Nat
  BY <1>1, <1>2, LenProperties DEF HearsAt, Speaking
<1>4. f \in Seq(Words) /\ (i \notin Ending => AllSteps(f)) /\ (i \in Ending => EndsOnce(f))
  <2>1. PICK r, said : r = backlog[i] /\ said = Said(i)
    OBVIOUS
  <2>2. r \in Seq(Words) /\ AllSteps(r) /\ f = r \o said
    BY <1>1, <1>2, <2>1 DEF HearInv, Speaking, Pending
  <2>3. said \in Seq(Words) /\ (i \notin Ending => AllSteps(said)) /\ (i \in Ending => EndsOnce(said))
    BY <2>1, SaidOfOne
  <2>4. f \in Seq(Words)
    BY <2>2, <2>3, ConcatProperties
  <2>5. AllSteps(said) => AllSteps(f)
    BY <2>2, <2>3, StepsThen
  <2>6. EndsOnce(said) => EndsOnce(f)
    BY <2>2, <2>3, StepsThen
  <2> QED
    BY <2>3, <2>4, <2>5, <2>6
<1>5. m \in Nat /\ m <= Len(f) /\ m + Len(s) <= Capacity
  <2>1. PICK room \in Nat, d \in Nat : room = RoomFor(i) /\ d = Len(f) /\ room + Len(s) = Capacity
    <3>1. Capacity - Len(s) \in Nat /\ (Capacity - Len(s)) + Len(s) = Capacity
      BY <1>3, SchedulerAssumption
    <3> QED
      BY <1>2, <1>4, <3>1, LenProperties DEF RoomFor
  <2>2. m = Min({room, d})
    BY <1>2, <2>1 DEF AsMuch
  <2>3. m \in {room, d} /\ m <= room /\ m <= d
    <3>1. room \in Int /\ d \in Int
      OBVIOUS
    <3> QED
      BY <2>2, <3>1, SmallerOfTwo
  <2> QED
    BY <1>3, <2>1, <2>3, SchedulerAssumption
<1>6. PICK a : a = SubSeq(f, 1, m)
  OBVIOUS
<1>7. Cut(f, m, a, b) /\ c = s \o a
  BY <1>2, <1>5, <1>6 DEF Cut, Pumped
<1>8. Behind(P, s, f, m, b, c)
  <2>1. Words \subseteq P
    BY <1>1, <1>2
  <2> QED
    BY <1>3, <1>4, <1>5, <1>7, <2>1, GoesBehind
<1>9. Len(c) <= Capacity
  BY <1>3, <1>5, <1>8, SchedulerAssumption DEF Behind
<1> QED
  BY <1>2, <1>4, <1>8, <1>9 DEF Behind

LEMMA PumpKeepsHearing == ASSUME ThreadInv, EngineInv, HearInv, Pump PROVE HearInv'
<1>1. /\ pc = "pump" /\ pc' = "settle"
      /\ chan' = [i \in Ids |-> IF i \in batch.streams \ (batch.streams \ reader)
                                THEN chan[i] \o SubSeq(Pending(i), 1, AsMuch(i)) ELSE chan[i]]
      /\ backlog' = [i \in Ids |->
              IF i \in batch.streams \ reader THEN <<>>
              ELSE IF i \in batch.streams THEN SubSeq(Pending(i), AsMuch(i) + 1, Len(Pending(i)))
              ELSE backlog[i]]
      /\ trailing' = trailing \cup Unread(Ending, backlog')
      /\ batch' = [batch EXCEPT !.streams = @ \ Ending]
      /\ UNCHANGED <<cur, told, closed, jobs, submitted, stopping, reader, heard>>
  BY DEF Pump, Pending, AsMuch, queueVars, cancelVars
<1>2. batch # NoBatch /\ cur = NoJob /\ batch.streams \subseteq Ids /\ batch'.streams = batch.streams \ Ending
  BY <1>1 DEF ThreadInv, PlaceInv, Single, Either
<1>3. Ending \subseteq batch.streams /\ Unread(Ending, backlog') \subseteq Ending
  BY DEF Ending, Unread
<1>4. \A i \in Ids : (Unheard(i)' <=> Unheard(i)) /\ ~InHand(i) /\ ~InHand(i)' /\ Pieces(i)' = Pieces(i)
  BY <1>1, <1>2 DEF Unheard, InHand, Spoken, Alone, Pieces
<1>5. ASSUME NEW i \in batch.streams PROVE i \in Ids /\ HearsAt(i) /\ ~Unheard(i) /\ Speaking(i)
  <2>1. i \in Ids /\ HearsAt(i)
    BY <1>2 DEF HearInv
  <2>2. ~Unheard(i)
    BY <1>2, OneJobEach DEF Unheard
  <2> QED
    BY <2>1, <2>2 DEF HearsAt
<1>6. ASSUME NEW i \in Ids
      PROVE  HearsAt(i)' /\ chan'[i] \in Seq(Words \cup {"cancelled"}) /\ backlog'[i] \in Seq(Words)
  <2>1. CASE i \notin batch.streams
    <3>1. chan'[i] = chan[i] /\ backlog'[i] = backlog[i]
      BY <1>1, <2>1
    <3>2. SameAt(i)
      BY <1>1, <1>2, <1>3, <1>4, <2>1, <3>1 DEF SameAt
    <3> QED
      BY <1>1, <3>1, <3>2, HearsTheSame DEF Forward, HearInv
  <2>2. CASE i \in batch.streams /\ i \notin reader
    <3>1. chan'[i] = chan[i] /\ chan[i] = <<>> /\ backlog'[i] = <<>>
      BY <1>1, <1>5, <2>2 DEF HearsAt
    <3>2. i \notin trailing'
      BY <1>1, <1>5, <2>2, <3>1 DEF Speaking, Unread
    <3>3. HasEnded(i)'
      BY <1>1, <2>2, <3>2 DEF HasEnded
    <3>4. Speaking(i)'
      <4>1. 1..Len(<<>>) = {}
        OBVIOUS
      <4> QED
        BY <1>1, <1>5, <2>2, <3>1, <3>2, <4>1 DEF Speaking, AllSteps
    <3>5. <<>> \in Seq(Words)
      BY EmptySeq
    <3> QED
      BY <1>1, <1>4, <1>5, <2>2, <3>1, <3>3, <3>4, <3>5 DEF HearsAt, HearInv
  <2>3. CASE i \in batch.streams /\ i \in reader
    <3>1. PICK c, b : c = chan'[i] /\ b = backlog'[i]
      OBVIOUS
    <3>2. Pumped(i, c, b)
      BY <1>1, <2>3, <3>1 DEF Pumped
    <3>3. /\ c \in Seq(Pieces(i)) /\ Len(c) <= Capacity /\ b \in Seq(Words)
          /\ i \notin Ending => AllSteps(c) /\ AllSteps(b)
          /\ i \in Ending => IF b = <<>> THEN EndsOnce(c) ELSE AllSteps(c) /\ EndsOnce(b)
      BY <1>2, <1>5, <2>3, <3>2, PumpsTo
    <3>4. i \notin trailing /\ heard[i] \in {"nothing", "step"}
      BY <1>5, <2>3 DEF Speaking
    <3>5. i \in trailing' <=> i \in Ending /\ b # <<>>
      BY <1>1, <3>1, <3>4 DEF Unread
    <3>6. i \notin Ending => Speaking(i)'
      BY <1>1, <3>1, <3>3, <3>4, <3>5 DEF Speaking
    <3>7. i \in Ending => HasEnded(i)'
      BY <1>1, <2>3, <3>1, <3>3, <3>4, <3>5 DEF HasEnded
    <3>8. Pieces(i) \subseteq Words \cup {"cancelled"}
      BY DEF Pieces
    <3>9. c \in Seq(Words \cup {"cancelled"})
      BY <3>3, <3>8, SeqMonotonic
    <3> QED
      BY <1>1, <1>2, <1>4, <1>5, <2>3, <3>1, <3>3, <3>6, <3>7, <3>9 DEF HearsAt
  <2> QED
    BY <2>1, <2>2, <2>3
<1>7. trailing' \subseteq Ids
  BY <1>1, <1>2, <1>3 DEF HearInv
<1>8. /\ chan' \in [Ids -> Seq(Words \cup {"cancelled"})]
      /\ backlog' \in [Ids -> Seq(Words)]
  BY <1>1, <1>6
<1> QED
  BY <1>1, <1>6, <1>7, <1>8 DEF HearInv

\* Steps of the thread that no caller hears of.
LEMMA QuietKeepHearing ==
    ASSUME ThreadInv, HearInv,
           \/ MarkBusy \/ CountOut \/ JoinNobody \/ FinishAlone \/ ClearBusy \/ PutQuestion \/ AwaitAnswer
           \/ StartLoad \/ EndLoad \/ StartUnload \/ SendUnload \/ EndUnload
    PROVE  HearInv'
<1>1. UNCHANGED <<callerVars, cancelVars, queueVars, cur>> /\ batch' = batch
  BY DEF MarkBusy, CountOut, JoinNobody, FinishAlone, ClearBusy, PutQuestion, AwaitAnswer, StartLoad, EndLoad,
         StartUnload, SendUnload, EndUnload
<1>2. ~Alone /\ ~Alone' /\ (Spoken' <=> Spoken)
  <2>1. CASE CountOut
    <3>1. /\ pc = "count" /\ UNCHANGED cur
          /\ pc' = IF IsText(cur) THEN "admit" ELSE IF cur.kind \in Alones THEN "enter" ELSE cur.kind
      BY <2>1 DEF CountOut
    <3>2. cur.kind \in Kinds
      BY <3>1 DEF ThreadInv, PlaceInv, Single, Either, JobsInv, Job
    <3>3. pc' \in {"admit", "enter", "load", "unload", "ask"}
      BY <3>1, <3>2 DEF IsText, Kinds
    <3> QED
      BY <3>1, <3>3 DEF Alone, Spoken
  <2>2. CASE MarkBusy \/ JoinNobody
    BY <2>2 DEF MarkBusy, JoinNobody, Alone, Spoken
  <2>3. CASE FinishAlone \/ ClearBusy
    <3>1. /\ (pc = "finish" /\ pc' = "clear") \/ (pc = "clear" /\ pc' = "reply")
          /\ UNCHANGED cur
      BY <2>3 DEF FinishAlone, ClearBusy
    <3>2. pc = "finish" => IsGeneration(cur)
      BY DEF ThreadInv, PlaceInv, Single, Either, JobsInv
    <3>3. IsGeneration(cur)' <=> IsGeneration(cur)
      BY <3>1 DEF IsGeneration
    <3> QED
      BY <3>1, <3>2, <3>3 DEF Alone, Spoken
  <2>4. CASE PutQuestion \/ AwaitAnswer \/ StartLoad \/ EndLoad \/ StartUnload \/ SendUnload \/ EndUnload
    <3>1. /\ pc \in {"ask", "await", "load", "loading", "unload", "leaving", "left"}
          /\ pc' \in {"await", "clear", "loading", "leaving", "left"} /\ UNCHANGED cur
      BY <2>4 DEF PutQuestion, AwaitAnswer, StartLoad, EndLoad, StartUnload, SendUnload, EndUnload, Answer
    <3>2. ~IsGeneration(cur) /\ ~IsGeneration(cur)'
      BY <3>1 DEF ThreadInv, PlaceInv, IsGeneration
    <3> QED
      BY <3>1, <3>2 DEF Alone, Spoken
  <2> QED
    BY <2>1, <2>2, <2>3, <2>4
<1> QED
  BY <1>1, <1>2, ThreadSaysNothing

\* The thread ends, and settles and drops what ended.
LEMMA DropsKeepHearing == ASSUME ThreadInv, HearInv, End \/ Settle \/ DropEnded PROVE HearInv'
<1>1. /\ UNCHANGED <<chan, backlog, heard, trailing, reader, told, closed, jobs, submitted, stopping, cur>>
      /\ pc \in {"next", "settle", "drop"} /\ pc' \in {"over", "drop", "next", "join"}
  BY DEF End, Settle, DropEnded, callerVars, cancelVars, queueVars
<1>2. batch'.streams = batch.streams
  BY DEF End, Settle, DropEnded, NoBatch
<1>3. \A i \in Ids : (Unheard(i)' <=> Unheard(i)) /\ (InHand(i)' <=> InHand(i))
  BY <1>1 DEF Unheard, InHand, Spoken, Alone
<1> QED
  BY <1>1, <1>2, <1>3, AllHearTheSame DEF Forward

\* An answer is handed over; a generation's caller has heard its own.
LEMMA ReplyKeepsHearing == ASSUME ThreadInv, EngineInv, HearInv, Reply PROVE HearInv'
<1>1. /\ pc = "reply" /\ pc' = "next" /\ cur' = NoJob /\ batch' = batch
      /\ UNCHANGED <<jobs, submitted, stopping, told, closed, backlog, heard, trailing, reader>>
      /\ IF holding = Silence THEN UNCHANGED chan ELSE Sending(cur.n, holding.what)
  BY DEF Reply, queueVars, cancelVars
<1>2. cur # NoJob /\ ~Alone /\ ~Alone' /\ ~Spoken'
  BY <1>1 DEF ThreadInv, PlaceInv, Single, Either, Alone, Spoken
<1>3. holding = Silence <=> IsGeneration(cur)
  BY <1>1 DEF EngineInv, HoldingInv
<1>4. CASE IsGeneration(cur)
  <2>1. Spoken
    BY <1>1, <1>4 DEF Spoken
  <2>2. \A i \in Ids : (Unheard(i)' <=> Unheard(i)) /\ (InHand(i)' <=> InHand(i))
    BY <1>1, <1>2, <2>1 DEF Unheard, InHand
  <2> QED
    BY <1>1, <1>3, <1>4, <2>2, AllHearTheSame DEF Forward
<1>5. CASE ~IsGeneration(cur)
  <2>1. ~Spoken
    BY <1>1, <1>5 DEF Spoken
  <2>2. cur.n \in Ids /\ Untold(cur.n) /\ Len(chan[cur.n]) < Capacity
    BY <1>2, <2>1, RoomForTheFirst
  <2>3. holding.what \in {"done", "failed"}
    <3>1. holding \in [what : {"step", "done", "failed"}, for : Ids]
      BY <1>3, <1>5 DEF EngineInv, HoldingInv
    <3>2. holding.what # "step"
      BY <1>1 DEF EngineInv, HoldingInv
    <3> QED
      BY <3>1, <3>2
  <2>4. PICK piece \in Endings : piece = holding.what /\ piece \in Words
    BY <2>3 DEF Endings, Words
  <2>5. Sending(cur.n, piece) /\ piece \in Pieces(cur.n)
    BY <1>1, <1>3, <1>5, <2>4 DEF Pieces
  <2> QED
    BY <1>1, <1>2, <2>1, <2>2, <2>5, CurIsToldTheEnd
<1> QED
  BY <1>4, <1>5

LEMMA ThreadKeepsHearing == ASSUME ThreadInv, EngineInv, StopInv, HearInv, Thread PROVE HearInv'
BY TakesKeepHearing, QuietKeepHearing, DropsKeepHearing, AdmitReplyKeepsHearing, PumpKeepsHearing,
   AloneKeepHearing, ReplyKeepsHearing DEF Thread

LEMMA EnginesKeepHearing == ASSUME HearInv, NEW k \in Key, EngineStep(k) PROVE HearInv'
<1>1. UNCHANGED <<callerVars, cancelVars, queueVars, cur, pc, batch>>
  BY DEF EngineStep, threadVars
<1>2. (Spoken' <=> Spoken) /\ (Alone' <=> Alone)
  BY <1>1 DEF Spoken, Alone, IsGeneration
<1> QED
  BY <1>1, <1>2, ThreadSaysNothing

LEMMA HearNext == ASSUME ThreadInv, EngineInv, StopInv, HearInv, [Next]_vars PROVE HearInv'
<1>1. CASE Next
  BY <1>1, HandlersKeepHearing, ThreadKeepsHearing, EnginesKeepHearing DEF Next
<1>2. CASE UNCHANGED vars
  <2>1. UNCHANGED <<callerVars, cancelVars, queueVars, cur, pc, batch>>
    BY <1>2 DEF vars, threadVars
  <2>2. (Spoken' <=> Spoken) /\ (Alone' <=> Alone)
    BY <2>1 DEF Spoken, Alone, IsGeneration
  <2> QED
    BY <2>1, <2>2, ThreadSaysNothing
<1> QED
  BY <1>1, <1>2

LEMMA HearInvariant == Spec => []HearInv
<1>1. Init => HearInv
  BY HearInit
<1>2. ThreadInv /\ EngineInv /\ StopInv /\ HearInv /\ [Next]_vars => HearInv'
  BY HearNext
<1> QED
  BY <1>1, <1>2, ThreadInvariant, EngineInvariant, StopInvariant, PTL DEF Spec

(***************************************************************************)
(* What follows                                                            *)
(***************************************************************************)

\* Every caller that stays hears how its job ended, once, and nothing after
\* that: the thread, a cancellation and the thread a reply's rest was left to
\* send on the same channels, and a channel closes without a word only on jobs
\* that were waiting when the scheduler was dropped.
THEOREM OneEndingTheorem == Spec => []OneEnding
<1>1. ASSUME ThreadInv, HearInv PROVE OneEnding
  <2>1. ASSUME NEW j \in submitted
        PROVE  /\ heard[j.n] # "more"
               /\ ~Open(j) /\ j.n \in reader /\ chan[j.n] = <<>> =>
                    heard[j.n] \in Endings \/ (closed /\ heard[j.n] = "nothing")
    <3>1. PICK i \in Ids : i = j.n /\ i \in Told(submitted)
      BY <1>1 DEF ThreadInv, JobsInv, Job, Told
    <3>2. heard[i] # "more"
      BY <1>1 DEF HearInv, Words
    <3>3. ASSUME i \notin sender, i \notin trailing, i \in reader, chan[i] = <<>>
          PROVE  heard[i] \in Endings \/ (closed /\ heard[i] = "nothing")
      <4>1. i \notin Told(jobs) /\ (cur # NoJob => i # cur.n) /\ i \notin batch.streams
        BY <1>1, <3>3 DEF ThreadInv, SenderInv, Told
      <4>2. stopping.at \in {"count", "end"} => i \notin Told(stopping.gone)
        BY <1>1, <3>3 DEF ThreadInv, SenderInv
      <4>3. ~InHand(i)
        BY <1>1, <4>1 DEF ThreadInv, PlaceInv, Single, Either, InHand, Alone
      <4>4. ~Unheard(i)
        BY <3>1, <4>1, <4>2 DEF Unheard
      <4>5. HasEnded(i)
        BY <1>1, <4>1, <4>3, <4>4 DEF HearInv, HearsAt
      <4>6. ~EndsOnce(chan[i])
        BY <3>3 DEF EndsOnce
      <4> QED
        BY <3>3, <4>5, <4>6 DEF HasEnded
    <3> QED
      BY <3>1, <3>2, <3>3 DEF Open
  <2> QED
    BY <2>1 DEF OneEnding
<1> QED
  BY <1>1, ThreadInvariant, HearInvariant, PTL

\* Nothing is interrupted but what its own account stopped or its own caller
\* hung up on, whichever engines and jobs the flag was left over from.
THEOREM OnlyTheStoppedStopTheorem == Spec => []OnlyTheStoppedStop
<1>1. ASSUME StopInv, HearInv PROVE OnlyTheStoppedStop
  <2>1. ASSUME NEW i \in Ids, heard[i] = "cancelled" PROVE i \in told
    BY <1>1, <2>1 DEF HearInv, HearsAt, Pieces, Words
  <2> QED
    BY <1>1, <2>1 DEF StopInv, MayStop, OnlyTheStoppedStop
<1> QED
  BY <1>1, StopInvariant, HearInvariant, PTL

LEMMA BusyIsBoolean == Spec => [](busy \in BOOLEAN)
<1>1. Init => busy \in BOOLEAN
  BY DEF Init
<1>2. busy \in BOOLEAN /\ [Next]_vars => (busy \in BOOLEAN)'
  <2>1. SUFFICES ASSUME [Next]_vars PROVE busy' = busy \/ busy' = TRUE \/ busy' = FALSE
    OBVIOUS
  <2>2. CASE \/ \E who \in Asked \cup {NoTicket}, item \in Menu : Submit(who, item)
             \/ \E who \in Asked, id \in {0} \cup Ids : CancelWaiting(who, id)
             \/ Cancelling \/ (\E i \in Ids : Read(i) \/ Leave(i) \/ Trail(i)) \/ Close
    BY <2>2 DEF Submit, CancelWaiting, Cancelling, CancelCount, CancelEnd, CancelMark, Read, Leave, Trail, Close,
                sharedVars
  <2>3. CASE Thread
    <3>1. CASE \/ (\E j \in jobs : TakeNext(j) \/ Join(j)) \/ MarkBusy \/ CountOut \/ End
               \/ AdmitReply \/ JoinNobody \/ Pump \/ Settle \/ DropEnded
      BY <3>1 DEF TakeNext, Join, MarkBusy, CountOut, End, AdmitReply, JoinNobody, Pump, Settle, DropEnded, sharedVars
    <3>2. CASE EnterAlone \/ BeginAlone \/ DrainEvent \/ DrainQuiet \/ HandOver \/ FinishAlone \/ ClearBusy \/ Reply
      BY <3>2 DEF EnterAlone, BeginAlone, DrainEvent, DrainQuiet, HandOver, FinishAlone, ClearBusy, Reply, sharedVars
    <3>3. CASE PutQuestion \/ AwaitAnswer \/ StartLoad \/ EndLoad \/ StartUnload \/ SendUnload \/ EndUnload
      BY <3>3 DEF PutQuestion, AwaitAnswer, StartLoad, EndLoad, StartUnload, SendUnload, EndUnload, sharedVars
    <3> QED
      BY <2>3, <3>1, <3>2, <3>3 DEF Thread
  <2>4. CASE \E k \in Key : EngineStep(k)
    BY <2>4 DEF EngineStep, sharedVars
  <2>5. CASE UNCHANGED vars
    BY <2>5 DEF vars, sharedVars
  <2> QED
    BY <2>1, <2>2, <2>3, <2>4, <2>5 DEF Next
<1> QED
  BY <1>1, <1>2, PTL DEF Spec

\* Every variable has its type, and no channel holds more than it may: what is
\* sent without waiting always has room.
THEOREM TypeTheorem == Spec => []TypeOK
<1>1. ASSUME ThreadInv, EngineInv, StopInv, HearInv, busy \in BOOLEAN PROVE TypeOK
  <2>1. /\ submitted \subseteq Job /\ jobs \subseteq submitted /\ books \subseteq submitted
        /\ closed \in BOOLEAN /\ served \in [Owners -> Nat] /\ turn \in Nat /\ waiting \in Nat
        /\ cur \in submitted \cup {NoJob}
    BY <1>1 DEF ThreadInv, JobsInv, BooksInv, WaitingInv
  <2>2. busy \in BOOLEAN
    BY <1>1
  <2>3. /\ begun \in [Ids -> SUBSET Key] /\ slots \subseteq Key /\ told \subseteq Ids /\ reader \subseteq Ids
        /\ EngineTypeOK
    BY <1>1 DEF StopInv, EngineInv, SlotsInv
  <2>4. batch.streams \subseteq Ids /\ ended \subseteq Ids /\ trailing \subseteq Ids
    BY <1>1 DEF ThreadInv, PlaceInv, HearInv
  <2>5. sender \subseteq Ids
    <3>1. sender \subseteq Told(submitted)
      BY <1>1 DEF ThreadInv, SenderInv
    <3> QED
      BY <1>1, <3>1, OneJobEach
  <2>6. \A i \in Ids : Len(chan[i]) <= Capacity
    BY <1>1 DEF HearInv, HearsAt
  <2> QED
    BY <2>1, <2>2, <2>3, <2>4, <2>5, <2>6 DEF TypeOK, Job
<1> QED
  BY <1>1, ThreadInvariant, EngineInvariant, StopInvariant, HearInvariant, BusyIsBoolean, PTL
=============================================================================
