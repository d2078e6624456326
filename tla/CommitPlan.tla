----------------------------- MODULE CommitPlan -----------------------------
(***************************************************************************)
(* How a hosted project commits an approved decision (nauro_core/operations/  *)
(* _commit_prepare.py, _commit_contract.py, _commit_finalize.py): a plan is    *)
(* prepared from a committed generation, the claims on its title and content   *)
(* are read, and the plan is final once they are as it needs them.            *)
(*                                                                         *)
(* The host that keeps the generations and the claims is not part of the       *)
(* repository. What it does with a plan is taken from the plan: enter its       *)
(* claims, publish the generation if the base still stands, then settle the    *)
(* claims, or abandon them. It may stop between any two of these.             *)
(***************************************************************************)
EXTENDS Naturals, Sequences, FiniteSets

CONSTANTS
  Title, Text,   \* normalized titles and pieces of rationale
  Committers,
  MaxCommits,    \* bound: generations published
  MaxText        \* bound: pieces in one rationale

Rationales == UNION {[1 .. k -> Text] : k \in 1 .. MaxText}
Number == 1 .. MaxCommits
Decision == [title : Title, text : Rationales, supersedes : 0 .. MaxCommits,
             superseded_by : 0 .. MaxCommits]

(* A claim is on a title or on a content, the hash of title and rationale.     *)
TitleKey(t) == <<t, <<>>>>
Keys == Title \X (Rationales \union {<<>>})
Claim == [state : {"absent", "committed", "reserved"}, owner : 0 .. MaxCommits]
NoClaim == [state |-> "absent", owner |-> 0]
Committed(n) == [state |-> "committed", owner |-> n]
Reserved(n) == [state |-> "reserved", owner |-> n]

Ops == {"add", "update", "supersede"}
NoPayload == [op |-> "none", target |-> 0, base |-> 0, counter |-> 0]
NoFile == [k \in {} |-> 0]
NoTask == [at |-> "idle", payload |-> NoPayload, base |-> 0, planned |-> <<>>, probes |-> NoFile,
           publication |-> NoFile, seen |-> NoFile]

NoGeneration == [id |-> 0, counter |-> 0, decisions |-> <<>>]

VARIABLES
  generation,  \* the committed generation: its id, its counter, its decisions
  claims,      \* the claim on every title and content
  task         \* how far each committer is with its decision

cvars == <<generation, claims, task>>

-----------------------------------------------------------------------------
(* What a decision would make of a generation.                               *)
NewNumber(counter) == counter + 1

Planned(p, decisions, counter) ==
  IF p.op = "update"
  THEN [decisions EXCEPT ![p.target].text = Append(@, p.text)]
  ELSE LET replaced == IF p.op = "add" THEN decisions
             ELSE [decisions EXCEPT ![p.target].superseded_by = NewNumber(counter)]
           decision == [title |-> p.title, text |-> <<p.text>>, superseded_by |-> 0,
                        supersedes |-> IF p.op = "add" THEN 0 ELSE p.target]
       IN [n \in DOMAIN decisions \union {NewNumber(counter)} |->
             IF n = NewNumber(counter) THEN decision ELSE replaced[n]]
NewCounter(p, counter) == IF p.op = "update" THEN counter ELSE NewNumber(counter)
Primary(p, counter) == IF p.op = "update" THEN p.target ELSE NewNumber(counter)

(* The claims a plan reads, with the owner it expects, 0 for no claim; and what *)
(* it makes of them when it is published.                                    *)
NewTitle(planned, n) == TitleKey(planned[n].title)
Content(planned, n) == <<planned[n].title, planned[n].text>>

Probes(p, planned, n) ==
  LET old == IF p.op = "add" THEN {} ELSE {TitleKey(planned[p.target].title)}
  IN [k \in old \union {NewTitle(planned, n), Content(planned, n)} |->
        IF k \in old THEN p.target ELSE 0]
(* Mutant: a decision replaced under a new title keeps its old one.           *)
PublicationWithoutRelease(p, planned, n) ==
  [k \in DOMAIN Probes(p, planned, n) |->
     CASE k = Content(planned, n) -> Committed(0)
       [] k = NewTitle(planned, n) -> Committed(n)
       [] OTHER -> Committed(p.target)]
Publication(p, planned, n) ==
  [k \in DOMAIN Probes(p, planned, n) |->
     CASE k = Content(planned, n) -> Committed(0)
       [] k = NewTitle(planned, n) -> Committed(n)
       [] OTHER -> NoClaim]

(* An observation that answers a probe; one that is reserved answers none.     *)
Answers(owner, claim) == claim = IF owner = 0 THEN NoClaim ELSE Committed(owner)

-----------------------------------------------------------------------------
CInit ==
  /\ generation = NoGeneration
  /\ claims = [k \in Keys |-> NoClaim]
  /\ task = [c \in Committers |-> NoTask]

At(c, place) == task[c].at = place
Moves(c, new) == task' = [task EXCEPT ![c] = new]

(* External: a person approves a decision against the generation in view.      *)
Payload(op, target, title, text) ==
  [op |-> op, target |-> target, title |-> title, text |-> text,
   base |-> generation.id, counter |-> generation.counter]
Approve(c, p) ==
  /\ At(c, "idle") /\ generation.id < MaxCommits
  /\ Moves(c, [NoTask EXCEPT !.at = "approved", !.payload = p])
  /\ UNCHANGED <<generation, claims>>

(* Prepare refuses a base that is no longer the committed one, a target that   *)
(* is not there; otherwise it fixes the number, the artifacts and the claims.  *)
(* A replaced target is not refused here: its title is no longer its own.      *)
BaseStands(p) == p.base = generation.id /\ p.counter = generation.counter
TargetFound(p) == p.op = "add" \/ p.target \in DOMAIN generation.decisions

PrepareCommit(c) ==
  LET p == task[c].payload
      planned == Planned(p, generation.decisions, generation.counter)
      n == Primary(p, generation.counter)
  IN /\ At(c, "approved") /\ BaseStands(p) /\ TargetFound(p)
     /\ Len(planned[n].text) <= MaxText
     /\ Moves(c, [task[c] EXCEPT !.at = "prepared", !.planned = planned, !.base = generation.id,
                                 !.probes = Probes(p, planned, n),
                                 !.publication = Publication(p, planned, n)])
     /\ UNCHANGED <<generation, claims>>

PrepareRefused(c) ==
  /\ At(c, "approved") /\ ~(BaseStands(task[c].payload) /\ TargetFound(task[c].payload))
  /\ Moves(c, NoTask)
  /\ UNCHANGED <<generation, claims>>

(* External: the claims are read one after the other.                         *)
Observe(c, k) ==
  /\ At(c, "prepared") /\ k \in DOMAIN task[c].probes \ DOMAIN task[c].seen
  /\ Moves(c, [task[c] EXCEPT !.seen = [j \in DOMAIN @ \union {k} |-> IF j = k THEN claims[k] ELSE @[j]]])
  /\ UNCHANGED <<generation, claims>>

(* Every probe is answered, and by the claim it expects.                      *)
Confirmed(c) ==
  /\ DOMAIN task[c].seen = DOMAIN task[c].probes
  /\ \A k \in DOMAIN task[c].seen : Answers(task[c].probes[k], task[c].seen[k])
Finalize(c) ==
  /\ At(c, "prepared") /\ Confirmed(c)
  /\ Moves(c, [task[c] EXCEPT !.at = "final"])
  /\ UNCHANGED <<generation, claims>>
FinalizeRefused(c) ==
  /\ At(c, "prepared") /\ ~Confirmed(c) /\ task[c].seen # NoFile
  /\ Moves(c, NoTask)
  /\ UNCHANGED <<generation, claims>>

-----------------------------------------------------------------------------
(* External: the host acts on a final plan, or on none of it.                 *)
Enter(c) ==
  LET wanted == task[c].probes
  IN /\ At(c, "final")
     /\ \A k \in DOMAIN wanted : Answers(wanted[k], claims[k])
     /\ claims' = [k \in Keys |-> IF k \in DOMAIN wanted THEN Reserved(wanted[k]) ELSE claims[k]]
     /\ Moves(c, [task[c] EXCEPT !.at = "entered"])
     /\ UNCHANGED generation

PublishCommit(c) ==
  /\ At(c, "entered") /\ generation.id = task[c].base /\ generation.id < MaxCommits
  /\ generation' = [id |-> generation.id + 1, decisions |-> task[c].planned,
                    counter |-> NewCounter(task[c].payload, task[c].payload.counter)]
  /\ Moves(c, [task[c] EXCEPT !.at = "published"])
  /\ UNCHANGED claims

Settle(c) ==
  LET new == task[c].publication
  IN /\ At(c, "published")
     /\ claims' = [k \in Keys |-> IF k \in DOMAIN new THEN new[k] ELSE claims[k]]
     /\ Moves(c, NoTask)
     /\ UNCHANGED generation

Abandon(c) ==
  LET before == task[c].probes
      reserved == IF At(c, "entered") THEN DOMAIN before ELSE {}
  IN /\ At(c, "entered") \/ At(c, "final")
     /\ claims' = [k \in Keys |-> IF k \notin reserved THEN claims[k]
                                  ELSE IF before[k] = 0 THEN NoClaim ELSE Committed(before[k])]
     /\ Moves(c, NoTask)
     /\ UNCHANGED generation

Payloads ==
  {Payload("add", 0, t, x) : t \in Title, x \in Text}
    \union {Payload("update", n, generation.decisions[n].title, x) :
              n \in DOMAIN generation.decisions, x \in Text}
    \union {Payload("supersede", n, t, x) :
              n \in DOMAIN generation.decisions, t \in Title, x \in Text}

CNext == \E c \in Committers :
  \/ \E p \in Payloads : Approve(c, p)
  \/ PrepareCommit(c) \/ PrepareRefused(c)
  \/ \E k \in DOMAIN task[c].probes : Observe(c, k)
  \/ Finalize(c) \/ FinalizeRefused(c)
  \/ Enter(c) \/ PublishCommit(c) \/ Settle(c) \/ Abandon(c)

CSpec == CInit /\ [][CNext]_cvars

-----------------------------------------------------------------------------
(* Every variable has its type.                                              *)
CTypeOK ==
  /\ generation.id \in 0 .. MaxCommits /\ generation.counter \in 0 .. MaxCommits
  /\ DOMAIN generation.decisions = 1 .. generation.counter
  /\ \A n \in DOMAIN generation.decisions : generation.decisions[n] \in Decision
  /\ claims \in [Keys -> Claim]
  /\ \A c \in Committers :
       /\ task[c].at \in {"idle", "approved", "prepared", "final", "entered", "published"}
       /\ DOMAIN task[c].seen \subseteq DOMAIN task[c].probes
       /\ DOMAIN task[c].probes \subseteq Keys
       /\ DOMAIN task[c].publication = DOMAIN task[c].probes

Standing == {n \in DOMAIN generation.decisions : generation.decisions[n].superseded_by = 0}
Unsettled == {k \in Keys : claims[k].state = "reserved"}

(* The claims say what the decisions say, except where a commit is under way:  *)
(* a title is its standing decision's, a title nobody holds is no decision's,   *)
(* and every content that ever stood stays claimed.                          *)
ClaimsMatch ==
  /\ \A t \in Title, n \in Number : claims[TitleKey(t)] = Committed(n) =>
       n \in Standing /\ generation.decisions[n].title = t
  /\ \A n \in Standing : claims[NewTitle(generation.decisions, n)] # NoClaim
  /\ \A n \in DOMAIN generation.decisions : claims[Content(generation.decisions, n)] # NoClaim

(* No title stands twice, no content is decided twice, and a decision and the  *)
(* one it replaced name each other.                                          *)
OneStandingPerTitle == \A m, n \in Standing :
  generation.decisions[m].title = generation.decisions[n].title => m = n
NoContentTwice == \A m, n \in DOMAIN generation.decisions :
  Content(generation.decisions, m) = Content(generation.decisions, n) => m = n
LinksAnswer == \A m, n \in DOMAIN generation.decisions :
  generation.decisions[m].superseded_by = n <=> generation.decisions[n].supersedes = m

(* Publishing is one step of a log that numbers its decisions as they come,    *)
(* changes no closed decision and never has a title stand twice.             *)
Log == INSTANCE DecisionLog WITH log <- generation.decisions
CommitsStand ==
  /\ [](ClaimsMatch /\ OneStandingPerTitle /\ NoContentTwice /\ LinksAnswer)
  /\ Log!LogSpec
=============================================================================
