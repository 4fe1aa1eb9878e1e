---------------------------- MODULE MCArtifacts ----------------------------
(* A small instance of Artifacts for TLC. *)
EXTENDS Artifacts, TLC
=============================================================================
