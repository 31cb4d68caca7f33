---------------------------- MODULE MCSearchSync ----------------------------
(* Alice's row is changed, when no work for her is left; bob's stays as it *)
(* was made.                                                               *)
EXTENDS SearchSync, TLC

CONSTANTS alice, bob

TaskSymmetry == Permutations(Task) \union Permutations(Worker) \union Permutations(Import)
=============================================================================
