-------------------------- MODULE MCAssetTransfer --------------------------
(* A small instance of AssetTransfer for TLC. *)
EXTENDS AssetTransfer, TLC

Symmetry == Permutations(Requests)
=============================================================================
