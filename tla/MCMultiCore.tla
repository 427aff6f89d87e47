---------------------------- MODULE MCMultiCore ----------------------------
(* MultiCore for TLC: two jobs that differ in every word. *)
EXTENDS MultiCore
TwoJobs == {[addr |-> 1, arg0 |-> 2, arg1 |-> 3], [addr |-> 4, arg0 |-> 5, arg1 |-> 6]}
=============================================================================
