---------------------------- MODULE MCGroupScope ----------------------------
(* A small instance of GroupScope for TLC. *)
EXTENDS GroupScope, TLC

Symmetry == Permutations(Tabs) \cup Permutations(Runs) \cup Permutations(Calls)
=============================================================================
