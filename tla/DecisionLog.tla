----------------------------- MODULE DecisionLog -----------------------------
(***************************************************************************)
(* What a store of decisions promises: decisions are numbered as they come,   *)
(* a text grows and nothing else of a standing decision changes, a replaced   *)
(* decision is closed for good and knows what replaced it, and no two         *)
(* standing decisions have one title. CommitPlan.tla implements it by plans   *)
(* made from a stale view, claims and a compare-and-swap.                    *)
(***************************************************************************)
EXTENDS Naturals, Sequences

CONSTANTS Title, Text

VARIABLE log    \* the decisions, by number

Standing(n) == n \in DOMAIN log /\ log[n].superseded_by = 0
Decided(title, text, supersedes) ==
  [title |-> title, text |-> <<text>>, supersedes |-> supersedes, superseded_by |-> 0]
Free(title, but) == \A n \in DOMAIN log : Standing(n) /\ n # but => log[n].title # title

LogInit == log = <<>>

Add == \E title \in Title, text \in Text :
  /\ Free(title, 0)
  /\ log' = Append(log, Decided(title, text, 0))

Update == \E n \in DOMAIN log, text \in Text :
  /\ Standing(n)
  /\ log' = [log EXCEPT ![n].text = Append(@, text)]

Supersede == \E n \in DOMAIN log, title \in Title, text \in Text :
  /\ Standing(n) /\ Free(title, n)
  /\ log' = Append([log EXCEPT ![n].superseded_by = Len(log) + 1], Decided(title, text, n))

LogNext == Add \/ Update \/ Supersede
LogSpec == LogInit /\ [][LogNext]_log
=============================================================================
