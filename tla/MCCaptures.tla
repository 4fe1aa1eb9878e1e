----------------------------- MODULE MCCaptures -----------------------------
(* The screenshot path for TLC. *)
EXTENDS Captures, TLC

Symmetry == Permutations(Captures)
=============================================================================
