----------------------------- MODULE MCExperts -----------------------------
(* Small instances of the memory budget with the experts' cache for TLC:   *)
(* amounts in gigabytes of a machine that has five.                        *)
EXTENDS Experts, TLC

CONSTANTS a, b, c

ThreeModels == {a, b, c}
OneModel == {a}
None == {}
One == {6}
Several == {1, 3, 6}
Layered == {{1, 2, 3}, {4}}
RunOf == {3, 4}
Guests == {2, 3}

\* A model with a cache is looked at by itself.
Apart ==
    (\E m \in Models : caches[m] # NoCache) =>
        /\ reserved = {} /\ guests = {} /\ ~raced
        /\ Cardinality(residents) = 1
        /\ \A x \in Askers : asking[x].at = "rest"

Symmetry == Permutations(ThreeModels)
=============================================================================
