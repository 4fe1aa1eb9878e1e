------------------------- MODULE MCMutationJournal -------------------------
(* A small instance of MutationJournal for TLC. *)
EXTENDS MutationJournal, TLC

Symmetry == Permutations(Ids) \cup Permutations(Typed)
=============================================================================
