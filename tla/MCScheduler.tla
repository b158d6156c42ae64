---------------------------- MODULE MCScheduler ----------------------------
(* Small instances of the scheduler for TLC.                               *)
EXTENDS Scheduler, TLC

CONSTANTS alice, bob, qwen, gemma

Two == {alice, bob}
OneKey == {qwen}
TwoKeys == {qwen, gemma}

On(kinds, key) == [kind : kinds, on : {key}]

\* Generations on one model that is loaded, which may share it or may not.
Generating == On({"text"} \cup Alones, qwen)
\* What changes which models there are, and what is asked of them.
Models == On({"load"}, gemma) \cup On({"unload"}, Everywhere) \cup On({"ask", "fresh", "text"}, qwen)
Anything == Generating \cup Models

\* Either generations, beside which a caller may hang up; or models that come
\* and go, beside which one of these: a cancellation, a panic, the end. What two
\* accounts both ask for are replies, whose callers stay; who cancels has asked.
Item(j) == [kind |-> j.kind, on |-> j.on]
EitherSide ==
    /\ \/ panics = 0 /\ ~closed /\ \A j \in submitted : Item(j) \in Generating
       \/ /\ leavers = 0 /\ cancels + panics + (IF closed THEN 1 ELSE 0) <= 1
          /\ \A j \in submitted : Item(j) \in Models
    /\ \A j, k \in submitted : alice = j.who /\ bob = k.who =>
           leavers = 0 /\ {j.kind, k.kind} = {"text"}
    /\ stopping # NoCancel => \E j \in submitted : j.who = stopping.who

\* Nothing tells one account from another.
Symmetry == Permutations(Two)

\* Replies on two residents, which do not run beside each other.
Sides == On({"text", "fresh"}, qwen) \cup On({"text"}, gemma)

\* Something of each sort.
Mixed == On({"text", "film"}, qwen) \cup On({"load"}, gemma) \cup On({"unload"}, Everywhere)

\* Either replies on two residents: two of them and the end of the scheduler,
\* or three of two accounts, no two of which are both on the other resident or
\* both without a cache to share. Or two jobs of one account, of any sort, one
\* of which may be stopped, and an engine that panics.
Sorts == Sides \cup Mixed
AtMostOne(js) == \A i, j \in js : i = j
EitherEnds ==
    \/ /\ panics = 0 /\ cancels = 0 /\ steps = [i \in Ids |-> MaxSteps]
       /\ \A j \in submitted : Item(j) \in Sides /\ (j.n = 1 => j.who = alice)
       /\ \/ Cardinality(submitted) <= 2
          \/ /\ ~closed
             /\ AtMostOne({j \in submitted : j.on = gemma}) /\ AtMostOne({j \in submitted : j.kind = "fresh"})
             /\ \E j \in submitted : j.who = bob
    \/ /\ ~closed /\ Cardinality(submitted) <= 2 /\ Cardinality(submitted) + panics + cancels <= 3
       /\ \A j \in submitted : Item(j) \in Mixed /\ j.who # bob
       /\ stopping # NoCancel => stopping.who = alice /\ stopping.id <= Cardinality(submitted)

Ids2 == 1..2
Ids3 == 1..3
=============================================================================
