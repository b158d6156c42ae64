------------------------------- MODULE Orders -------------------------------
(***************************************************************************)
(* A finite set of numbers as a sequence.                                  *)
(***************************************************************************)
EXTENDS Integers, FiniteSets

\* What `sort_unstable` makes of numbers that differ, and what keeping some of
\* a sequence's places makes of them.
InOrder(numbers) ==
    CHOOSE order \in [1..Cardinality(numbers) -> numbers] :
        \A i, j \in DOMAIN order : i < j => order[i] < order[j]
=============================================================================
