----------------------------- MODULE FairQueue -----------------------------
(***************************************************************************)
(* The scheduler's queue (`Queue` and `Waiting` of                         *)
(* crates/serve/src/scheduler.rs): every operation holds the queue's one   *)
(* lock from beginning to end, so every operation is one action.           *)
(*                                                                         *)
(* The clock is read by the rate alone, and only ticks where there is one. *)
(***************************************************************************)
EXTENDS Turns, Sequences

CONSTANTS
    Rate,         \* generations an account may ask for in a minute; 0 is any
    Minute,       \* MINUTE, in ticks of the clock
    Second,       \* a second, in ticks
    MaxArrivals,  \* bound: jobs ever pushed
    MaxTime       \* bound: the last tick

ASSUME FairQueueAssumption ==
    /\ Rate \in Nat
    /\ Minute \in Nat \ {0}
    /\ Second \in Nat \ {0}
    /\ MaxArrivals \in Nat
    /\ MaxTime \in Nat

VARIABLES
    jobs,       \* Waiting::jobs
    closed,     \* Waiting::closed
    served,     \* Waiting::served: the turn an account last had, 0 for never
    turn,       \* Waiting::turn: generations started
    asked,      \* Waiting::asked: when each account's requests were let in
    now,        \* Instant::now()
    arrivals,   \* how many jobs have ever been pushed
    \* What follows is history, for the properties.
    started,    \* the jobs that were taken
    passed,     \* passed[a][b]: b's turns while a was a candidate, since a's
    letIn       \* when each account's counted requests were ever let in

core   == <<jobs, served, turn, arrivals, started, passed>>
pacing == <<asked, now, letIn>>
vars   == <<jobs, closed, served, turn, asked, now, arrivals, started, passed, letIn>>

Entries == {"request", "continued", "none"}
Job == [n : Nat, who : Owners \cup {NoTicket}, entry : Entries]

Init ==
    /\ jobs = {}
    /\ closed = FALSE
    /\ served = [o \in Owners |-> 0]
    /\ turn = 0
    /\ asked = [a \in Accounts |-> <<>>]
    /\ now = 0
    /\ arrivals = 0
    /\ started = {}
    /\ passed = [a \in Owners |-> [b \in Owners |-> 0]]
    /\ letIn = [a \in Accounts |-> <<>>]

(***************************************************************************)
(* wait_for: what is a minute old is dropped off the front, and an account *)
(* that still has its rate is told in how many seconds the one that has to *)
(* age out will have. 0 is the code's None.                                *)
(***************************************************************************)
Young(log, at) ==
    LET old == {i \in DOMAIN log : \A h \in 1..i : at - log[h] >= Minute}
    IN  SubSeq(log, Cardinality(old) + 1, Len(log))

\* Rounded up: a second less would be too soon. (Mistaken: rounded down.)
WholeSecondsIn(ticks) == ticks \div Second
SecondsIn(ticks) == (ticks + Second - 1) \div Second

\* (Mistaken: one more is let in.)
WaitForOneMore(log) ==
    LET young == Young(log, now)
    IN  IF Len(young) <= Rate THEN 0
        ELSE SecondsIn(Minute - (now - young[Len(young) - Rate + 1]))

WaitFor(log) ==
    LET young == Young(log, now)
    IN  IF Len(young) < Rate THEN 0
        ELSE SecondsIn(Minute - (now - young[Len(young) - Rate + 1]))

\* The part of `admits` that is asked last, and of accounts alone.
Hurried(who) == who \in Accounts /\ Rate > 0 /\ WaitFor(asked[who]) > 0

\* What a question asked of the rate leaves behind: nothing over a minute.
Forget(who) ==
    IF who \in Accounts /\ Rate > 0
    THEN [asked EXCEPT ![who] = Young(@, now)] ELSE asked

Note(log, who) ==
    IF who \in Accounts /\ Rate > 0 THEN [log EXCEPT ![who] = Append(@, now)] ELSE log

(***************************************************************************)
(* The operations                                                          *)
(***************************************************************************)

\* Shared::admit gives the next id, and the job goes to the back. (Mistaken:
\* the id is given again.)
PushUncounted(who, entry) ==
    /\ ~closed
    /\ arrivals < MaxArrivals
    /\ jobs' = jobs \cup {[n |-> arrivals + 1, who |-> who, entry |-> entry]}
    /\ UNCHANGED <<closed, served, turn, now, arrivals, started, passed>>

Push(who, entry) ==
    /\ ~closed
    /\ arrivals < MaxArrivals
    /\ arrivals' = arrivals + 1
    /\ jobs' = jobs \cup {[n |-> arrivals + 1, who |-> who, entry |-> entry]}
    /\ UNCHANGED <<closed, served, turn, now, started, passed>>

\* Scheduler::generate for a request that is let in.
Request(who) ==
    /\ HasRoom(jobs, who)
    /\ ~Hurried(who)
    /\ Push(who, "request")
    /\ asked' = Note(Forget(who), who)
    /\ letIn' = Note(letIn, who)

\* Scheduler::room, and a request turned away: a question, which costs the
\* account nothing of its minute. The rate is only asked where there is room.
Ask(who) ==
    /\ HasRoom(jobs, who)
    /\ asked' = Forget(who)
    /\ UNCHANGED <<core, closed, now, letIn>>

\* Scheduler::generate for Entry::Continued: the next piece of work already
\* let in, which is not asked whether it may.
Continue(who) == Push(who, "continued") /\ UNCHANGED <<asked, letIn>>

\* Scheduler::submit: a load, an unload, a question put to a model.
Submit == Push(NoTicket, "none") /\ UNCHANGED <<asked, letIn>>

\* Waiting::take_if, for Queue::next and for Queue::joining: the job whose
\* turn it is leaves, and the turn is noted if it was a generation's.
Take(j) ==
    /\ ~closed
    /\ IsTurn(jobs, served, j)
    /\ jobs' = jobs \ {j}
    /\ started' = started \cup {j}
    /\ IF IsGeneration(j)
       THEN /\ turn' = turn + 1
            /\ served' = [served EXCEPT ![j.who] = turn + 1]
            /\ passed' =
                LET waiting == {c.who : c \in Candidates(jobs)}
                IN  [a \in Owners |-> [b \in Owners |->
                        IF a = j.who THEN 0
                        ELSE IF b = j.who /\ a \in waiting THEN passed[a][b] + 1
                        ELSE passed[a][b]]]
       ELSE UNCHANGED <<turn, served, passed>>
    /\ UNCHANGED <<closed, arrivals, pacing>>

\* Scheduler::cancel, the part under the queue's lock: the one generation
\* named leaves, or every one of theirs.
Cancel(who, gone) ==
    /\ gone # {}
    /\ \/ gone = Theirs(jobs, who)
       \/ \E j \in jobs : j.who = who /\ gone = {j}
    /\ jobs' = jobs \ gone
    /\ UNCHANGED <<closed, served, turn, arrivals, started, passed, pacing>>

\* Queue::close: nobody takes another job, and the ones waiting are dropped.
Close ==
    /\ ~closed
    /\ closed' = TRUE
    /\ jobs' = {}
    /\ UNCHANGED <<served, turn, arrivals, started, passed, pacing>>

Tick ==
    /\ Rate > 0
    /\ now < MaxTime
    /\ now' = now + 1
    /\ UNCHANGED <<core, closed, asked, letIn>>

Next ==
    \/ \E who \in Owners : Request(who) \/ Ask(who) \/ Continue(who)
    \/ Submit
    \/ \E j \in jobs : Take(j)
    \/ \E who \in Owners : \E gone \in SUBSET jobs : Cancel(who, gone)
    \/ Close
    \/ Tick

Spec == Init /\ [][Next]_vars

(***************************************************************************)
(* Properties                                                              *)
(***************************************************************************)

\* Every variable has its type, and the stamps are those handed out.
TypeOK ==
    /\ jobs \subseteq Job
    /\ started \subseteq Job
    /\ closed \in BOOLEAN
    /\ served \in [Owners -> Nat]
    /\ turn \in Nat
    /\ asked \in [Accounts -> Seq(Nat)]
    /\ letIn \in [Accounts -> Seq(Nat)]
    /\ now \in Nat
    /\ arrivals \in Nat
    /\ passed \in [Owners -> [Owners -> Nat]]
    /\ \A j \in jobs \cup started : j.n \in 1..arrivals

\* While an account has a generation that could run, nobody else has two
\* turns before it has one: what round-robin over accounts promises, however
\* many jobs arrive, are cancelled or are taken in between (`pick`).
NobodyGoesTwiceBefore == \A a, b \in Owners : passed[a][b] <= 1

\* A job that was taken before an earlier one shows that both are
\* generations, of different accounts: nothing passes a load or an unload,
\* a load passes nothing, and an account's own run in the order they arrived.
OrderIsKept ==
    \A i \in jobs : \A s \in started :
        i.n < s.n => IsGeneration(i) /\ IsGeneration(s) /\ i.who # s.who

\* The waiting jobs that were let in by `admits`.
Requests(queue) == {j \in queue : j.entry = "request"}

\* Whatever continued work does to the length of the queue, the requests in
\* it are within the limit, and an account's within its share (`admits`).
RequestsWithinBounds ==
    /\ Limit > 0 => Cardinality(Requests(jobs)) <= Limit
    /\ Share > 0 => \A a \in Accounts :
            Cardinality(Theirs(Requests(jobs), a)) <= Share

\* An account is let in at most Rate times in any minute, counted over all
\* there ever were: what `asked` forgets is never needed again.
AtMostRateInAMinute ==
    Rate > 0 => \A a \in Accounts : \A i \in DOMAIN letIn[a] :
        i + Rate \in DOMAIN letIn[a] => letIn[a][i + Rate] - letIn[a][i] >= Minute

\* An account turned away is told the truth: by the log of what was ever let
\* in, after the seconds it was told there is room again and a second less
\* would have been too soon; and one told to come in has not used its minute
\* (`wait_for`, the Retry-After of a 429).
RetryIsHonest ==
    LET lately(a, at) ==
            Cardinality({i \in DOMAIN letIn[a] : at - letIn[a][i] < Minute})
    IN  Rate > 0 => \A a \in Accounts :
            LET secs == WaitFor(asked[a])
            IN  IF secs = 0 THEN lately(a, now) < Rate
                ELSE /\ lately(a, now + secs * Second) < Rate
                     /\ lately(a, now + (secs - 1) * Second) >= Rate
=============================================================================
