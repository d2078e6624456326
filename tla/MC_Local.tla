------------------------------ MODULE MC_Local ------------------------------
(***************************************************************************)
(* What one machine keeps of a store: its decisions, write by write, its      *)
(* snapshots, and its open questions with a second machine's copy. They share *)
(* no state here and are checked in one run: a behaviour chooses one of them  *)
(* and the others keep their first state.                                   *)
(***************************************************************************)
EXTENDS Decisions, Snapshots, TLC

CONSTANTS Machines, MaxChanges                                   \* Questions

VARIABLES chosen, file, touched, met, server, version, qjob, written, changes, joined

questions == <<file, touched, met, server, version, qjob, written, changes, joined>>

(* The files the questions start from: the one a project is given; one with  *)
(* legacy entries, text of their own and a paragraph below a blank line; one   *)
(* without a title, with sections; and one in which a union left one number    *)
(* with two questions.                                                      *)
L(k) == [kind |-> k, id |-> 0, by |-> 0, text |-> IF k \in {"more", "prose", "section"} THEN 5 ELSE 0]
E(n, x) == [kind |-> "entry", id |-> n, by |-> 0, text |-> x]
Starts == {
  <<L("title"), L("blank")>>,
  <<L("title"), L("blank"), E(-1, 12), L("more"), L("blank"), L("prose"), L("blank"), E(1, 11)>>,
  <<E(2, 11), L("blank"), L("section"), E(-1, 12), L("blank"), L("divider"), L("blank"),
    [L("section") EXCEPT !.text = 6], L("prose"), L("blank")>>,
  <<L("title"), E(1, 11), L("blank"), E(1, 12)>>}

Q == INSTANCE Questions WITH job <- qjob

LInit ==
  /\ chosen \in {"decisions", "snapshots", "questions"}
  /\ Init /\ SInit
  /\ Q!QInit
  /\ chosen # "questions" => server = <<L("title"), L("blank")>>

Writing == chosen = "decisions" /\ Next /\ UNCHANGED <<chosen, svars, questions>>
Capturing == chosen = "snapshots" /\ SNext /\ UNCHANGED <<chosen, vars, questions>>
Asking == chosen = "questions" /\ Q!QNext /\ UNCHANGED <<chosen, vars, svars>>

LNext == Writing \/ Capturing \/ Asking

LSpec == LInit /\ [][LNext]_<<chosen, vars, svars, questions>>

Symmetry == Permutations(Title) \cup Permutations(Text) \cup Permutations(Machines)

-----------------------------------------------------------------------------
(* Every component's variables have their types.                             *)
LTypeOK == CASE chosen = "decisions" -> TypeOK
             [] chosen = "snapshots" -> STypeOK
             [] OTHER -> Q!QTypeOK

(* Questions.tla: commands keep questions, numbers, resolutions and text; what  *)
(* a command resolves is settled; a union keeps every line of both copies.     *)
QuestionsStand == Q!QuestionsStand
=============================================================================
