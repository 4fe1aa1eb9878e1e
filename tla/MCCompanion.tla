---------------------------- MODULE MCCompanion ----------------------------
(* A small instance of Companion for TLC. *)
EXTENDS Companion, TLC

Symmetry == Permutations(Tabs) \cup Permutations(Audiences) \cup Permutations(Calls)
=============================================================================
