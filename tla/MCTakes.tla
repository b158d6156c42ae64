------------------------------- MODULE MCTakes -------------------------------
(* A small instance of a take for TLC.                                     *)
EXTENDS Takes
=============================================================================
