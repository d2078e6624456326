---------------------------- MODULE MC_FileSync ----------------------------
(* Instances of FileSync for TLC. *)
EXTENDS FileSync, TLC

Symmetry == Permutations(Replica)
=============================================================================
