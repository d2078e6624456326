-------------------------- MODULE MC_DecisionPull --------------------------
(* Instances of DecisionPull for TLC. *)
EXTENDS DecisionPull, TLC

Symmetry == Permutations(Replica) \cup Permutations(Slug)
=============================================================================
