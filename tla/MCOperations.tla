---------------------------- MODULE MCOperations ----------------------------
(* Small instances of Operations for TLC.                                   *)
EXTENDS Operations, TLC

Symmetry == Permutations(Replicas)
=============================================================================
