------------------------------ MODULE MC_Sync -------------------------------
(***************************************************************************)
(* Two machines sync one file: an ordinary one, a decision, or a set-union   *)
(* log whose ETags are opaque. They differ in the path that is edited, and of  *)
(* each some behaviours meet kills or deletions and others the rest of the     *)
(* faults; a behaviour chooses a case and keeps to it. Another case is the     *)
(* commands of one machine that end in such a push or begin with such a pull:  *)
(* two of them, with a step that fails.                                      *)
(***************************************************************************)
EXTENDS FileSync, Writes, TLC

CONSTANTS Edits, KillFaults, DecisionFaults, DecisionDeletions, UnionFaults, UnionDeletions,
          file, decision, log                                    \* the paths

VARIABLE chosen

K == INSTANCE FileSync WITH MaxEdits <- Edits, Faults <- KillFaults
D == INSTANCE FileSync WITH MaxEdits <- Edits, Faults <- DecisionFaults
DD == INSTANCE FileSync WITH MaxEdits <- Edits, Faults <- DecisionDeletions
U == INSTANCE FileSync WITH ComparableEtag <- FALSE, MaxEdits <- Edits, Faults <- UnionFaults
UD == INSTANCE FileSync WITH ComparableEtag <- FALSE, MaxEdits <- Edits, Faults <- UnionDeletions

Cases == {"plain", "killed", "decision", "decision deleted", "union", "union deleted", "commands"}

(* The one path somebody writes.                                             *)
Edited ==
  IF chosen \in {"plain", "killed"} THEN file
  ELSE IF chosen \in {"decision", "decision deleted"} THEN decision ELSE log
Only == \A r \in Replica, p \in Path \ {Edited} : disk'[r][p] = NoFile

YInit ==
  /\ chosen \in Cases
  /\ Init /\ WInit
  /\ chosen # "commands" => hosting = "local" /\ store = Fresh

Plain == chosen = "plain" /\ Next /\ Only /\ UNCHANGED <<chosen, wvars>>
Killed == chosen = "killed" /\ K!Next /\ Only /\ UNCHANGED <<chosen, wvars>>
Decision == chosen = "decision" /\ D!Next /\ Only /\ UNCHANGED <<chosen, wvars>>
DecisionDeleted == chosen = "decision deleted" /\ DD!Next /\ Only /\ UNCHANGED <<chosen, wvars>>
Union == chosen = "union" /\ U!Next /\ Only /\ UNCHANGED <<chosen, wvars>>
UnionDeleted == chosen = "union deleted" /\ UD!Next /\ Only /\ UNCHANGED <<chosen, wvars>>
Commanding == chosen = "commands" /\ WNext /\ UNCHANGED <<chosen, vars>>

YNext == Commanding \/ Plain \/ Killed \/ Decision \/ DecisionDeleted \/ Union \/ UnionDeleted

YSpec == YInit /\ [][YNext]_<<chosen, vars, wvars>>

Symmetry == Permutations(Replica)
=============================================================================
