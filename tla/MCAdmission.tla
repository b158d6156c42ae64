---------------------------- MODULE MCAdmission ----------------------------
(* A small instance of the memory budget for TLC: amounts in gigabytes of  *)
(* a machine that has five.                                                *)
EXTENDS Admission

CONSTANTS a, b

TwoModels == {a, b}
None == {}
Some == {2, 6}
RunOf == {3, 4}
=============================================================================
