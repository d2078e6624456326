------------------------------ MODULE MC_Agents ------------------------------
(***************************************************************************)
(* What the tools of an agent do with a hosted project: calls that read and *)
(* write it, the typed writes of every family, and the repair of a judgment *)
(* whose worker is gone. The three share no state and are checked in one    *)
(* run: a behaviour chooses one and the others keep their first state.      *)
(* Calls come one at a time with more changes around them, or two at once   *)
(* with one; the typed writes as one operation among people and servers     *)
(* that change, or two operations that meet on the documents of one server. *)
(***************************************************************************)
EXTENDS Access, JudgmentRepair, Families, TLC

CONSTANT Pair      \* two calls, operations or persons that differ only in name

VARIABLE chosen

Crowd == INSTANCE Access WITH Process <- Pair, MaxChanges <- 1

Cases == {"one call", "two calls", "one operation", "two operations", "judgment"}
Calls == {"one call", "two calls"}

GInit ==
  /\ chosen \in Cases
  /\ IF chosen = "two calls" THEN Crowd!AInit ELSE AInit
  /\ chosen \notin Calls => authority = "flat"
  /\ FInit /\ login = account
  /\ JInit

OneCall == chosen = "one call" /\ ANext /\ UNCHANGED <<chosen, fvars, jvars>>
TwoCalls == chosen = "two calls" /\ Crowd!ANext /\ UNCHANGED <<chosen, fvars, jvars>>
OneOperation ==
  /\ chosen = "one operation" /\ FNext
  /\ Cardinality({o \in Op : saved'[o].phase # "none" \/ o \in aged'}) <= 1
  /\ UNCHANGED <<chosen, avars, jvars>>
TwoOperations ==
  /\ chosen = "two operations" /\ FNext
  /\ shifts' = 0 /\ \A o \in Op : attempt'[o].sent <= 1
  /\ UNCHANGED <<chosen, avars, jvars>>
Judgment == chosen = "judgment" /\ JNext /\ UNCHANGED <<chosen, avars, fvars>>

Symmetry == Permutations(User) \cup Permutations(Pair)

GNext == OneCall \/ TwoCalls \/ OneOperation \/ TwoOperations \/ Judgment

GSpec == GInit /\ [][GNext]_<<chosen, avars, fvars, jvars>>

-----------------------------------------------------------------------------
(* Every component's variables have their types.                            *)
GTypeOK ==
  /\ IF chosen = "two calls" THEN Crowd!ATypeOK ELSE ATypeOK
  /\ FTypeOK /\ JTypeOK
=============================================================================
