------------------------------- MODULE Turns -------------------------------
(***************************************************************************)
(* Whose turn it is: the choice `pick` makes among the jobs waiting for    *)
(* the scheduler's thread, and who may still join the queue.               *)
(* (crates/serve/src/scheduler.rs)                                         *)
(*                                                                         *)
(* The code keeps the waiting jobs in a deque that is only ever pushed at  *)
(* its back, so a job's place in it is its place in the order of arrival.  *)
(* Here the queue is a set of jobs, each stamped with its arrival `n`: the *)
(* deque is that set read in the order of the stamps.                      *)
(***************************************************************************)
EXTENDS Integers, FiniteSets

CONSTANTS
    Accounts,   \* the accounts of the server
    Nobody,     \* Owner `None`: who asks where there are no accounts
    NoTicket,   \* the owner of a job that is no generation: a load, an unload
    Limit,      \* generations that may wait; 0 is no limit
    Share       \* of them, one account's; 0 is no limit

Owners == Accounts \cup {Nobody}

ASSUME TurnsAssumption ==
    /\ Nobody \notin Accounts
    /\ NoTicket \notin Owners
    /\ Limit \in Nat
    /\ Share \in Nat

(***************************************************************************)
(* pick                                                                    *)
(***************************************************************************)

\* Job::ticket: a chat, a completion, an image, a video or a transcription.
IsGeneration(j) == j.who # NoTicket

\* The generations in front of the first job that is not one. (Mistaken:
\* every generation there is.)
AnyStretch(jobs) == {j \in jobs : IsGeneration(j)}
Stretch(jobs) ==
    {j \in jobs : \A i \in jobs : i.n <= j.n => IsGeneration(i)}

\* Each account's earliest stands for it.
Candidates(jobs) ==
    {j \in Stretch(jobs) :
        \A i \in Stretch(jobs) : i.who = j.who => j.n <= i.n}

\* Served longer ago, or never (0); a tie goes to the earlier arrival.
\* (Mistaken: first come, first served.)
CameBefore(served, j, i) == j.n <= i.n
GoesBefore(served, j, i) ==
    \/ served[j.who] < served[i.who]
    \/ served[j.who] = served[i.who] /\ j.n <= i.n

\* The job `pick` answers with: the front of the queue where that is no
\* generation, and otherwise the candidate served longest ago.
IsTurn(jobs, served, j) ==
    \/ /\ Stretch(jobs) = {}
       /\ j \in jobs
       /\ \A i \in jobs : j.n <= i.n
    \/ /\ j \in Candidates(jobs)
       /\ \A i \in Candidates(jobs) : GoesBefore(served, j, i)

(***************************************************************************)
(* admits, without the rate: who may still join the queue                  *)
(***************************************************************************)

Theirs(jobs, who) == {j \in jobs : j.who = who}

Generations(jobs) == {j \in jobs : IsGeneration(j)}

\* (Mistaken: one more than the limit.)
OverFull(jobs) == Limit > 0 /\ Cardinality(Generations(jobs)) > Limit
Full(jobs) == Limit > 0 /\ Cardinality(Generations(jobs)) >= Limit

\* The share is for accounts alone.
OverShare(jobs, who) ==
    /\ who \in Accounts
    /\ Share > 0
    /\ Cardinality(Theirs(jobs, who)) >= Share

HasRoom(jobs, who) == ~Full(jobs) /\ ~OverShare(jobs, who)
=============================================================================
