---------------------------- MODULE MCFairQueue ----------------------------
(* Small instances of the scheduler's queue for TLC.                       *)
EXTENDS FairQueue, TLC

CONSTANTS alice, bob

MCAccounts == {alice, bob}

\* Nothing tells one account from another.
Symmetry == Permutations(MCAccounts)
=============================================================================
