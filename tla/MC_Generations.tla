--------------------------- MODULE MC_Generations ---------------------------
(***************************************************************************)
(* The generations of a hosted project: how a machine installs and refreshes *)
(* them, and how approved decisions become the next one. They share no state  *)
(* here and are checked in one run: a behaviour chooses one of them and the    *)
(* other keeps its first state.                                             *)
(***************************************************************************)
EXTENDS Refresh, CommitPlan, TLC

VARIABLE chosen

RInit == chosen \in {"replica", "commits"} /\ Init /\ CInit

Refreshing == chosen = "replica" /\ Next /\ UNCHANGED <<chosen, cvars>>
Committing == chosen = "commits" /\ CNext /\ UNCHANGED <<chosen, vars>>

RNext == Refreshing \/ Committing

RSpec == RInit /\ [][RNext]_<<chosen, vars, cvars>>

Symmetry == Permutations(Process)

-----------------------------------------------------------------------------
(* Every component's variables have their types.                             *)
RTypeOK == IF chosen = "replica" THEN TypeOK ELSE CTypeOK
=============================================================================
