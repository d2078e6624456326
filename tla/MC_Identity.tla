----------------------------- MODULE MC_Identity -----------------------------
(***************************************************************************)
(* Names given by many hands: the numbers of decisions among machines, and   *)
(* the projects of repositories among processes. The two share no state and  *)
(* are checked in one run: a behaviour chooses one and the other keeps its   *)
(* first state. Each comes in several instances: numbers with three          *)
(* decisions and with mishaps; projects with one process that adopts, adds,  *)
(* links and un-adopts over three projects; with one that runs every command *)
(* but attach beside a person who edits configs and renames projects; with   *)
(* one that adopts and joins projects beside one that leaves them.           *)
(***************************************************************************)
EXTENDS DecisionPull, Connections, TLC

VARIABLE chosen

Faulty == INSTANCE DecisionPull WITH
  MaxMints <- 2, MaxNumber <- 4, MaxMishaps <- 2, Faults <- {"crash", "oserror", "rename"}

(* One repository lies inside the other.                                     *)
Nested == [r \in {"top", "sub"} |-> IF r = "sub" THEN "top" ELSE "none"]
Joining == {"init", "adopt", "add", "attach", "reconnect", "link"}
Leaving == {"unadopt", "rm"}
OneByOne == [p \in {"p"} |-> {"adopt", "add", "link", "unadopt"}]

Edited == INSTANCE Connections WITH
  MaxId <- 2, MaxHands <- 1, Commands <- [p \in {"p"} |-> (Joining \ {"attach"}) \union Leaving]
Beside == INSTANCE Connections WITH
  Procs <- {"p", "q"}, MaxId <- 2,
  Commands <- [p \in {"p", "q"} |-> IF p = "p" THEN Joining \ {"init"} ELSE Leaving]

IInit ==
  /\ chosen \in {"numbers", "numbers with mishaps", "one process", "edits", "two processes"}
  /\ Init
  /\ CASE chosen = "two processes" -> Beside!NInit
       [] chosen = "edits" -> Edited!NInit
       [] OTHER -> NInit

Numbering == chosen = "numbers" /\ Next /\ UNCHANGED <<chosen, nvars>>
NumberingBadly == chosen = "numbers with mishaps" /\ Faulty!Next /\ UNCHANGED <<chosen, nvars>>
ConnectingAlone == chosen = "one process" /\ NNext /\ UNCHANGED <<chosen, vars>>
ConnectingEdited == chosen = "edits" /\ Edited!NNext /\ UNCHANGED <<chosen, vars>>
ConnectingBeside == chosen = "two processes" /\ Beside!NNext /\ UNCHANGED <<chosen, vars>>

INext ==
  \/ Numbering \/ NumberingBadly
  \/ ConnectingAlone \/ ConnectingEdited \/ ConnectingBeside

ISpec == IInit /\ [][INext]_<<chosen, vars, nvars>>

Symmetry == Permutations(Replica) \cup Permutations(Slug)

-----------------------------------------------------------------------------
(* Every component's variables have their types.                             *)
ITypeOK ==
  CASE chosen = "numbers" -> TypeOK
    [] chosen = "numbers with mishaps" -> Faulty!TypeOK
    [] chosen = "one process" -> NTypeOK
    [] chosen = "edits" -> Edited!NTypeOK
    [] chosen = "two processes" -> Beside!NTypeOK
=============================================================================
