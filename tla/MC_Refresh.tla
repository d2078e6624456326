----------------------------- MODULE MC_Refresh -----------------------------
EXTENDS Refresh, TLC

Symmetry == Permutations(Process)

=============================================================================
