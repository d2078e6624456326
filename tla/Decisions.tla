----------------------------- MODULE Decisions -----------------------------
(***************************************************************************)
(* Writing decisions on one machine: propose_decision (add, supersede,     *)
(* update), `nauro note` and `nauro repair`, each a run of single-file      *)
(* writes that may stop after any of them. What a proposal does last, to   *)
(* stamp the questions it resolves in open-questions.md, no step here      *)
(* reads and is left out.                                                  *)
(*                                                                         *)
(* Every writer holds the project's migration lock from before its first   *)
(* read to after its last write (store/migration_admission.py), so one job *)
(* runs at a time. Only the plan of a repair is made and shown outside.    *)
(***************************************************************************)
EXTENDS Naturals, FiniteSets, Functions

CONSTANTS
  Title,        \* normalized titles
  Text,         \* rationales; title and rationale together are the hash
  MaxNumber,    \* bound: how many decisions are written
  MaxUpdates,   \* bound: how many updates are appended
  MaxFailures,  \* bound: how many jobs are cut short
  None          \* no job runs, no repair waits for its confirmation

ASSUME BoundsAssumption ==
  /\ MaxNumber \in Nat
  /\ MaxUpdates \in Nat
  /\ MaxFailures \in Nat

Number == 1..MaxNumber
Stem == [num : Number, title : Title]

(* 0 stands for a missing reference.                                       *)
Decision == [text : Text, version : 1..(MaxUpdates + 1), status : {"active", "superseded"},
             supersedes : 0..MaxNumber, superseded_by : 0..MaxNumber]

Ops == {"add", "supersede", "update", "note"}
Job == [op : Ops, title : Title, text : Text, target : 0..MaxNumber,
        new : 0..MaxNumber]
Pcs == {"idle", "write", "index", "attach", "flip", "append"}
Plan == [child : Number, target : Number, pre : Decision]

VARIABLES
  files,      \* decisions/, by file stem
  hashes,     \* the keys of the hash index
  pc,         \* the next write of the job that holds the lock
  job,        \* what it was asked
  shown,      \* the repair plan on a user's screen
  notes,      \* history: the decisions `nauro note` wrote
  halted,     \* history: the decisions of jobs cut short
  failures    \* how many jobs were cut short

history == <<notes, halted>>
vars == <<files, hashes, pc, job, shown, history, failures>>

ASSUME SentinelAssumption == (\A j \in Job : j # None) /\ (\A p \in Plan : p # None)

TypeOK ==
  /\ DOMAIN files \subseteq Stem /\ \A s \in DOMAIN files : files[s] \in Decision
  /\ \A s \in DOMAIN files : files[s].status = "superseded" <=> files[s].superseded_by # 0
  /\ hashes \subseteq Title \X Text
  /\ pc \in Pcs /\ (pc = "idle" <=> job = None) /\ (job # None => job \in Job)
  /\ shown = None \/ shown \in Plan
  /\ notes \subseteq Number /\ halted \subseteq Number
  /\ failures \in 0..MaxFailures

Init ==
  /\ files = <<>>
  /\ hashes = {}
  /\ pc = "idle"
  /\ job = None
  /\ shown = None
  /\ notes = {} /\ halted = {}
  /\ failures = 0

-----------------------------------------------------------------------------
(* Reading the store.                                                      *)

Stems == DOMAIN files
StemsOf(n) == {s \in Stems : s.num = n}
Taken == {s.num : s \in Stems}

(* find_decision_stem_by_num: whatever file carries the number.            *)
StemOf(n) == CHOOSE s \in StemsOf(n) : TRUE
At(n) == files[StemOf(n)]
Active(n) == n \in Taken /\ At(n).status = "active"

(* Mutant: the entries of the hash index are counted, not the files.       *)
NextNumberOfIndex == Cardinality(hashes) + 1

MaxOf(S) == CHOOSE x \in S \cup {0} : \A y \in S : y <= x
NextNumber == MaxOf(Taken) + 1

Updates == Cardinality({p \in Stems \X (2..(MaxUpdates + 1)) : p[2] <= files[p[1]].version})

Put(s, d) == [x \in Stems \cup {s} |-> IF x = s THEN d ELSE files[x]]

MarkSuperseded(d, by) == [d EXCEPT !.status = "superseded", !.superseded_by = by]

(* screen_structural over the decisions in force, the supersede target set *)
(* aside. Notes are not screened, updates have no title to screen.         *)
Passes(op, title, text, target) ==
  op \in {"add", "supersede"} =>
    /\ <<title, text>> \notin hashes
    /\ \A s \in Stems : s.title = title /\ s.num # target => files[s].status # "active"

-----------------------------------------------------------------------------
(* One job: validate under the lock, then write file after file.           *)

Finish == pc' = "idle" /\ job' = None

(* A rejected proposal writes nothing and is no step.                      *)
Begin(op, title, text, target) ==
  /\ pc = "idle"
  /\ IF op \in {"supersede", "update"} THEN target \in Taken ELSE target = 0
  /\ IF op = "update" THEN Updates < MaxUpdates ELSE NextNumber <= MaxNumber
  /\ op = "update" => title = StemOf(target).title /\ text = At(target).text
  /\ Passes(op, title, text, target)
  /\ job' = [op |-> op, title |-> title, text |-> text, target |-> target, new |-> 0]
  /\ pc' = IF op = "update" THEN "append" ELSE "write"
  /\ UNCHANGED <<files, hashes, shown, history, failures>>

(* _write_decision_direct: the file ...                                    *)
WriteNew ==
  LET n == NextNumber IN
  /\ pc = "write"
  /\ n <= MaxNumber
  /\ files' = Put([num |-> n, title |-> job.title],
                  [text |-> job.text, version |-> 1, status |-> "active",
                   supersedes |-> 0, superseded_by |-> 0])
  /\ job' = [job EXCEPT !.new = n]
  /\ notes' = IF job.op = "note" THEN notes \cup {n} ELSE notes
  /\ pc' = "index"
  /\ UNCHANGED <<hashes, shown, halted, failures>>

(* ... and its entry in the hash index.                                    *)
IndexHash ==
  /\ pc = "index"
  /\ hashes' = hashes \cup {<<job.title, job.text>>}
  /\ \/ job.op # "supersede" /\ Finish
     \/ job.op = "supersede" /\ pc' = "attach" /\ UNCHANGED job
  /\ UNCHANGED <<files, shown, history, failures>>

(* Mutant: the reference is attached and not written back.                 *)
AttachUnsaved ==
  /\ pc = "attach"
  /\ pc' = "flip"
  /\ UNCHANGED <<files, hashes, job, shown, history, failures>>

(* The new decision is rewritten to say what it supersedes ...             *)
Attach ==
  /\ pc = "attach"
  /\ files' = [files EXCEPT ![StemOf(job.new)].supersedes = job.target]
  /\ pc' = "flip"
  /\ UNCHANGED <<hashes, job, shown, history, failures>>

(* Mutant: the reference is written and the status forgotten.              *)
FlipKeepsStatus ==
  /\ pc = "flip"
  /\ files' = [files EXCEPT ![StemOf(job.target)].superseded_by = job.new]
  /\ Finish
  /\ UNCHANGED <<hashes, shown, history, failures>>

(* ... before the old one is retired, whatever retired it before.          *)
Flip ==
  /\ pc = "flip"
  /\ files' = [files EXCEPT ![StemOf(job.target)] = MarkSuperseded(@, job.new)]
  /\ Finish
  /\ UNCHANGED <<hashes, shown, history, failures>>

AppendUpdate ==
  /\ pc = "append"
  /\ files' = [files EXCEPT ![StemOf(job.target)].version = @ + 1]
  /\ Finish
  /\ UNCHANGED <<hashes, shown, history, failures>>

(* The process dies or the write fails: what was written stands.           *)
CutShort ==
  /\ pc # "idle"
  /\ failures < MaxFailures
  /\ failures' = failures + 1
  /\ halted' = halted \cup ({job.new} \ {0})
  /\ Finish
  /\ UNCHANGED <<files, hashes, shown, notes>>

-----------------------------------------------------------------------------
(* nauro repair. Numbers have one file each and references point back, so  *)
(* the refusals for duplicates and cycles are the invariants below.        *)

(* doctor: a forward reference nobody answered, and one answered by a      *)
(* third decision.                                                         *)
Orphans == {c \in Taken : /\ Active(c) /\ Active(At(c).supersedes)
                          /\ At(At(c).supersedes).superseded_by = 0}
Contradictions == {c \in Taken : LET t == At(c).supersedes IN
                     t \in Taken /\ At(t).superseded_by \notin {0, c}}

Candidates == {c \in Taken : LET t == At(c).supersedes IN
                 t \in Taken /\ At(t).superseded_by # c}

Siblings(c) == {d \in Candidates : At(d).supersedes = At(c).supersedes}

(* Decisions whose own references compete with the one to be written.      *)
Competing(c) ==
  {d \in Taken \ {c} : At(d).superseded_by = At(c).supersedes}
    \cup {d \in Taken \ {At(c).supersedes} : At(d).supersedes = c}
    \cup {d \in {c} : ~Active(d)}

(* Mutant: the planner looks at the orphan alone.                          *)
RefusalsNone == {}

(* What each refusal names: it blocks any orphan with a side among them.   *)
Refusals ==
  {{At(c).supersedes} \cup Siblings(c) : c \in {d \in Candidates : Cardinality(Siblings(d)) > 1}}
    \cup {{c, At(c).supersedes} \cup Competing(c) : c \in {d \in Candidates : Competing(d) # {}}}

(* A plan exists for a single orphan that nothing else touches.            *)
PlanOf ==
  IF \E c \in Orphans :
       /\ Orphans = {c}
       /\ \A r \in Refusals : c \notin r /\ At(c).supersedes \notin r
  THEN LET c == CHOOSE c \in Orphans : TRUE
       IN  [child |-> c, target |-> At(c).supersedes, pre |-> At(At(c).supersedes)]
  ELSE None

(* Shown without any lock: the job of another process may be under way.    *)
Show ==
  /\ shown = None
  /\ PlanOf # None
  /\ shown' = PlanOf
  /\ UNCHANGED <<files, hashes, pc, job, history, failures>>

(* Mutant: the pair is compared and the target's bytes are not.            *)
UnchangedPair ==
  /\ PlanOf # None
  /\ PlanOf.child = shown.child /\ PlanOf.target = shown.target

(* _require_unchanged: the plan made under the lock is the confirmed one.  *)
Unchanged == PlanOf = shown

Confirm ==
  /\ shown # None
  /\ pc = "idle"
  /\ Unchanged
  /\ files' = [files EXCEPT ![StemOf(shown.target)] = MarkSuperseded(shown.pre, shown.child)]
  /\ shown' = None
  /\ UNCHANGED <<hashes, pc, job, history, failures>>

(* The user declines, or the store moved and nothing is written.           *)
Dismiss ==
  /\ shown # None
  /\ shown' = None
  /\ UNCHANGED <<files, hashes, pc, job, history, failures>>

Next ==
  \/ \E op \in Ops, t \in Title, x \in Text, n \in 0..MaxNumber : Begin(op, t, x, n)
  \/ WriteNew \/ IndexHash \/ Attach \/ Flip \/ AppendUpdate \/ CutShort
  \/ Show \/ Confirm \/ Dismiss

Spec == Init /\ [][Next]_vars

-----------------------------------------------------------------------------
(* Properties.                                                             *)

(* No two decision files carry one number: the number is taken and the     *)
(* file written under one lock, whatever was cut short before.             *)
OneFilePerNumber == \A s, x \in Stems : s.num = x.num => s = x

(* A retired decision was retired by a later one that says so itself: the  *)
(* reference is on disk before the status flips, at every crash point and  *)
(* through every repair. So references never form a cycle.                 *)
BackrefsAnswered ==
  \A n \in Taken :
    LET by == At(n).superseded_by IN
    by # 0 => by > n /\ by \in Taken /\ At(by).supersedes = n

(* Two decisions in force share a title only if the later one is a note or *)
(* what is left of a job cut short: the screen and the flip leave no other.*)
TitleClashesAreLoose ==
  \A m, n \in Taken :
    m < n /\ Active(m) /\ Active(n) /\ StemOf(m).title = StemOf(n).title /\ pc = "idle"
      => n \in notes \cup halted

(* No file disappears, no update is undone, no reference to an older       *)
(* decision is changed and no retired decision comes back: not by a repair *)
(* confirmed long after its plan was shown either.                         *)
NothingIsUndone ==
  [][\A s \in Stems :
       /\ s \in DOMAIN files'
       /\ files'[s].text = files[s].text
       /\ files'[s].version >= files[s].version
       /\ files'[s].superseded_by >= files[s].superseded_by
       /\ files[s].supersedes # 0 => files'[s].supersedes = files[s].supersedes]_vars

(* A confirmed repair closes the orphan and leaves the store without one,  *)
(* and never trades it for a reference two decisions claim.                *)
RepairCloses ==
  [][pc = "idle" /\ pc' = "idle" /\ files' # files =>
       Orphans' = {} /\ Contradictions' = Contradictions]_vars

(* Titles stay told apart, and a confirmed repair undoes no decision and   *)
(* closes what it was shown.                                               *)
RepairsAreSafe == []TitleClashesAreLoose /\ NothingIsUndone /\ RepairCloses
=============================================================================
