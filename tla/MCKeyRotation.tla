---------------------------- MODULE MCKeyRotation ----------------------------
(***************************************************************************)
(* Replicas are interchangeable in KeyRotation.                            *)
(***************************************************************************)
EXTENDS KeyRotation, TLC

Symmetry == Permutations(Replicas)

=============================================================================
