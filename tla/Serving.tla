------------------------------ MODULE Serving ------------------------------
(***************************************************************************)
(* What the scheduler promises of its jobs, whatever its thread, its       *)
(* engines and its callers do in between: each waits, then runs, then is   *)
(* over, or leaves the queue unstarted; they start by turns; and none      *)
(* starts beside another unless both are replies that share one resident.  *)
(*                                                                         *)
(* The doc comments this states are those of `Batch`, `joining` and `run`  *)
(* (crates/serve/src/scheduler.rs). Scheduler implements it.               *)
(***************************************************************************)
EXTENDS Turns

CONSTANT Job   \* [n, who, kind, on] records: every job there may be

VARIABLES
    jobs,      \* those waiting
    running,   \* those started and not over
    over,      \* those that ended, or left the queue unstarted
    served, turn

vars == <<jobs, running, over, served, turn>>

Init ==
    /\ jobs = {} /\ running = {} /\ over = {}
    /\ served = [o \in Owners |-> 0]
    /\ turn = 0

\* A reply that keeps a conversation's cache runs beside others like it on
\* the resident they are all for.
Shares(i, j) == i.kind = "text" /\ j.kind = "text" /\ i.on = j.on

Enter(j) ==
    /\ j \notin jobs /\ jobs' = jobs \cup {j}
    /\ \A i \in jobs \cup running \cup over : i.n < j.n
    /\ UNCHANGED <<running, over, served, turn>>

Start(j) ==
    /\ IsTurn(jobs, served, j)
    /\ \A i \in running : Shares(i, j)
    /\ jobs' = jobs \ {j}
    /\ running' = running \cup {j}
    /\ IF IsGeneration(j)
       THEN turn' = turn + 1 /\ served' = [served EXCEPT ![j.who] = turn + 1]
       ELSE UNCHANGED <<served, turn>>
    /\ UNCHANGED over

\* One account's, stopped; or all of them, with the scheduler.
LeaveUnstarted(gone) ==
    /\ jobs' = jobs \ gone
    /\ gone = jobs \/ \E who \in Owners : gone \subseteq Theirs(jobs, who)
    /\ over' = over \cup gone
    /\ UNCHANGED <<running, served, turn>>

Finish(done) ==
    /\ UNCHANGED <<jobs, served, turn>>
    /\ running' = running \ done
    /\ over' = over \cup done

Next ==
    \/ \E j \in Job : Enter(j)
    \/ \E j \in jobs : Start(j)
    \/ \E gone \in (SUBSET jobs) \ {{}} : LeaveUnstarted(gone)
    \/ \E done \in (SUBSET running) \ {{}} : Finish(done)

Spec == Init /\ [][Next]_vars
=============================================================================
