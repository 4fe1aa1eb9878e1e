--------------------------- MODULE MCActRequests ---------------------------
(* A small instance of ActRequests for TLC. *)
EXTENDS ActRequests, TLC

Symmetry == Permutations(Ids)
=============================================================================
