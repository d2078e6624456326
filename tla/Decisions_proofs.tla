-------------------------- MODULE Decisions_proofs --------------------------
(***************************************************************************)
(* Proofs about Decisions.tla and Snapshots.tla.                             *)
(*                                                                         *)
(* However many decisions are written, superseded, updated, noted and      *)
(* repaired, and wherever a job is cut short: no number has two files,     *)
(* every retired decision was retired by a later one that says so (IInv),  *)
(* titles in force stay told apart, no step undoes what a file says, and a *)
(* confirmed repair closes what it was shown (TInv: what the job under way *)
(* found when it was screened, and that its decision is the latest).       *)
(*                                                                         *)
(* For any calendar of thinning and any damage by hand: no capture takes the  *)
(* number of one that can be read, near every capture one survives, and a     *)
(* diff looks back. The invariant follows one captured state down to the       *)
(* version that stands for it: within a day by the first rule, from there      *)
(* within a week by the second, within a month by the third (Descends).        *)
(***************************************************************************)
EXTENDS Decisions, Snapshots, FiniteSetTheorems, NaturalsInduction, WellFoundedInduction, TLAPS

(* The largest element of a set of decision numbers exists.                *)
LEMMA MaxBounds ==
  ASSUME NEW S \in SUBSET Number
  PROVE  MaxOf(S) \in Nat /\ \A y \in S : y <= MaxOf(S)
<1>0. MaxNumber \in Nat /\ \A x \in S : x \in Nat /\ x <= MaxNumber /\ MaxNumber - x \in Nat
  BY BoundsAssumption DEF Number
<1>1. \E x \in S \cup {0} : x \in Nat /\ \A y \in S : y <= x
  <2>1. CASE S = {}
    BY <2>1
  <2>2. CASE S # {}
    <3> DEFINE T == {MaxNumber - x : x \in S}
    <3>1. T \subseteq Nat /\ T # {}
      BY <1>0, <2>2
    <3>2. PICK t \in T : \A u \in T : <<u, t>> \notin OpToRel(<, Nat)
      BY <3>1, NatLessThanWellFounded, WFMin
    <3>3. \A u \in T : ~(u < t)
      BY <3>1, <3>2 DEF OpToRel
    <3>4. PICK x \in S : t = MaxNumber - x
      BY <3>2
    <3>5. \A y \in S : ~(MaxNumber - y < MaxNumber - x)
      BY <3>3, <3>4
    <3> QED BY <1>0, <3>5
  <2> QED BY <2>1, <2>2
<1>2. MaxOf(S) \in S \cup {0} /\ \A y \in S : y <= MaxOf(S)
  BY <1>1, Zenon DEF MaxOf
<1> QED BY <1>0, <1>2

-----------------------------------------------------------------------------
(* The inductive invariant.                                                *)

(* A decision file, its version unbounded: the bound on updates is TLC's.  *)
File == [text : Text, version : Nat, status : {"active", "superseded"},
         supersedes : 0..MaxNumber, superseded_by : 0..MaxNumber]

FilesTyped == Stems \subseteq Stem /\ \A s \in Stems : files[s] \in File

(* A decision supersedes older ones only.                                  *)
RefsOlder == \A s \in Stems : files[s].supersedes < s.num

(* Who retired a decision says so.                                         *)
Answered ==
  \A s \in Stems : files[s].superseded_by # 0 =>
    \E x \in Stems : x.num = files[s].superseded_by /\ files[x].supersedes = s.num

(* What the job under way already wrote, and what it is about to retire.   *)
Says(new, target) == \E x \in Stems : x.num = new /\ files[x].supersedes = target

JobInv ==
  /\ pc \in {"write", "index", "attach", "flip", "append"} => job \in Job
  /\ pc = "write" /\ job.op = "supersede" => job.target \in Taken
  /\ pc = "append" => job.target \in Taken
  /\ pc = "index" => Says(job.new, 0)
  /\ pc = "attach" => Says(job.new, 0)
  /\ pc = "index" /\ job.op = "supersede" => job.target \in Taken /\ job.target < job.new
  /\ pc = "attach" => job.target \in Taken /\ job.target < job.new
  /\ pc = "flip" => job.target \in Taken /\ Says(job.new, job.target)

IInv == FilesTyped /\ OneFilePerNumber /\ RefsOlder /\ Answered /\ JobInv

-----------------------------------------------------------------------------
LEMMA StemOfTaken ==
  ASSUME NEW n \in Taken
  PROVE  StemOf(n) \in Stems /\ StemOf(n).num = n
<1>1. StemsOf(n) # {}
  BY DEF Taken, StemsOf
<1>2. StemOf(n) \in StemsOf(n)
  BY <1>1, Zenon DEF StemOf
<1> QED BY <1>2 DEF StemsOf

(* The file of a number is found by the number.                            *)
LEMMA StemOfStem ==
  ASSUME OneFilePerNumber, NEW s \in Stems
  PROVE  s.num \in Taken /\ StemOf(s.num) = s
<1>1. s.num \in Taken
  BY DEF Taken
<1>2. StemOf(s.num) \in Stems /\ StemOf(s.num).num = s.num
  BY <1>1, StemOfTaken
<1> QED BY <1>1, <1>2 DEF OneFilePerNumber

(* The three ways a decision file is rewritten.                            *)
LEMMA Rewritten ==
  ASSUME NEW d \in File, NEW n \in 0..MaxNumber, n # 0
  PROVE  /\ [d EXCEPT !.supersedes = n] \in File
         /\ [d EXCEPT !.supersedes = n].supersedes = n
         /\ [d EXCEPT !.supersedes = n].superseded_by = d.superseded_by
         /\ MarkSuperseded(d, n) \in File
         /\ MarkSuperseded(d, n).supersedes = d.supersedes
         /\ MarkSuperseded(d, n).superseded_by = n
BY DEF File, MarkSuperseded

(* Rewriting one file keeps the set of files, and the references of all    *)
(* the others.                                                             *)
LEMMA RewriteKeeps ==
  ASSUME FilesTyped, OneFilePerNumber, NEW x \in Stems, NEW d \in File,
         files' = [files EXCEPT ![x] = d]
  PROVE  /\ Stems' = Stems /\ Taken' = Taken
         /\ FilesTyped' /\ OneFilePerNumber'
         /\ files'[x] = d /\ \A s \in Stems : s # x => files'[s] = files[s]
<1>1. Stems' = Stems
  BY DEF Stems
<1>2. files'[x] = d /\ \A s \in Stems : s # x => files'[s] = files[s]
  BY DEF Stems
<1>3. Taken' = Taken
  BY <1>1 DEF Taken
<1>4. FilesTyped'
  BY <1>1, <1>2 DEF FilesTyped
<1>5. OneFilePerNumber'
  BY <1>1 DEF OneFilePerNumber
<1> QED BY <1>1, <1>2, <1>3, <1>4, <1>5

-----------------------------------------------------------------------------
(* A step that rewrites no file keeps what the files say.                  *)
LEMMA FilesKept ==
  ASSUME IInv, UNCHANGED files
  PROVE  /\ FilesTyped' /\ OneFilePerNumber' /\ RefsOlder' /\ Answered'
         /\ Taken' = Taken
         /\ \A n, t : Says(n, t) => Says(n, t)'
BY DEF IInv, FilesTyped, OneFilePerNumber, RefsOlder, Answered, Taken, Stems, Says

(* The new file: its number is above every other.                          *)
LEMMA WriteNewKeeps ==
  ASSUME IInv, WriteNew
  PROVE  IInv'
<1> DEFINE n == NextNumber
           s0 == [num |-> n, title |-> job.title]
           d == [text |-> job.text, version |-> 1, status |-> "active",
                 supersedes |-> 0, superseded_by |-> 0]
<1>0. job \in Job /\ n <= MaxNumber /\ files' = Put(s0, d) /\ pc = "write" /\ pc' = "index"
      /\ job' = [job EXCEPT !.new = n]
  BY DEF IInv, JobInv, WriteNew
<1>1. Taken \subseteq Number
  BY DEF IInv, FilesTyped, Taken, Stem
<1>2. n \in Number /\ \A m \in Taken : m < n
  <2>1. MaxOf(Taken) \in Nat /\ \A y \in Taken : y <= MaxOf(Taken)
    BY <1>1, MaxBounds
  <2> QED BY <2>1, <1>0, <1>1, BoundsAssumption DEF NextNumber, Number
<1>3. s0 \in Stem /\ d \in File
  BY <1>0, <1>2, BoundsAssumption DEF Job, Stem, File
<1> HIDE DEF n
<1>4. s0 \notin Stems /\ \A s \in Stems : s.num # n /\ s.num < n
  BY <1>1, <1>2 DEF Taken, Number
<1>5. d.supersedes = 0 /\ d.superseded_by = 0 /\ s0.num = n
  OBVIOUS
<1> HIDE DEF d, s0
<1>6. Stems' = Stems \cup {s0} /\ files'[s0] = d /\ \A s \in Stems : files'[s] = files[s]
  BY <1>0, <1>4 DEF Put, Stems
<1>7. Taken' = Taken \cup {n}
  BY <1>6, <1>5 DEF Taken
<1>8. FilesTyped'
  BY <1>3, <1>6 DEF IInv, FilesTyped
<1>9. OneFilePerNumber'
  BY <1>4, <1>5, <1>6 DEF IInv, OneFilePerNumber
<1>10. RefsOlder'
  BY <1>2, <1>5, <1>6 DEF IInv, RefsOlder, Number
<1>11. Answered'
  BY <1>5, <1>6 DEF IInv, Answered
<1>12. job' \in Job /\ job'.new = n /\ job'.target = job.target /\ job'.op = job.op
  BY <1>0, <1>2 DEF Job, Number
<1>13. Says(job.new, 0)'
  BY <1>5, <1>6, <1>12 DEF Says
<1>14. JobInv'
  BY <1>0, <1>2, <1>7, <1>12, <1>13 DEF IInv, JobInv
<1> QED BY <1>8, <1>9, <1>10, <1>11, <1>14 DEF IInv

(* The new decision comes to say what it supersedes.                       *)
LEMMA AttachKeeps ==
  ASSUME IInv, Attach
  PROVE  IInv'
<1> DEFINE x == StemOf(job.new)
           d == [files[x] EXCEPT !.supersedes = job.target]
<1>0. job \in Job /\ pc = "attach" /\ pc' = "flip" /\ job' = job
      /\ files' = [files EXCEPT ![x] = d]
      /\ job.target \in Taken /\ job.target < job.new
  BY DEF IInv, JobInv, Attach
<1>1. PICK y \in Stems : y.num = job.new /\ files[y].supersedes = 0
  BY DEF IInv, JobInv, Attach, Says
<1>2. x = y
  BY <1>1, StemOfStem DEF IInv
<1>3. job.target \in 0..MaxNumber /\ job.target # 0
  BY <1>0 DEF IInv, FilesTyped, Taken, Stem, Number, Job
<1>4. files[x] \in File /\ x \in Stems
  BY <1>1, <1>2 DEF IInv, FilesTyped
<1>5. d \in File /\ d.supersedes = job.target /\ d.superseded_by = files[x].superseded_by
  BY <1>3, <1>4, Rewritten
<1> HIDE DEF d, x
<1>6. /\ Stems' = Stems /\ Taken' = Taken /\ FilesTyped' /\ OneFilePerNumber'
      /\ files'[x] = d /\ \A s \in Stems : s # x => files'[s] = files[s]
  BY <1>0, <1>4, <1>5, RewriteKeeps DEF IInv
<1>7. RefsOlder'
  BY <1>0, <1>1, <1>2, <1>5, <1>6 DEF IInv, RefsOlder
(* Nobody was retired by it yet: it said so of none.                       *)
<1>8. \A s \in Stems : files[s].superseded_by # 0 => files[s].superseded_by # x.num
  <2>1. SUFFICES ASSUME NEW s \in Stems, files[s].superseded_by # 0,
                        files[s].superseded_by = x.num
                 PROVE FALSE
    OBVIOUS
  <2>2. PICK z \in Stems : z.num = files[s].superseded_by /\ files[z].supersedes = s.num
    BY <2>1 DEF IInv, Answered
  <2>3. z = x
    BY <1>4, <2>1, <2>2 DEF IInv, OneFilePerNumber
  <2>4. s.num # 0
    BY <2>1 DEF IInv, FilesTyped, Stem, Number
  <2> QED BY <1>1, <1>2, <2>2, <2>3, <2>4
<1>9. Answered'
  <2>1. SUFFICES ASSUME NEW s \in Stems, files'[s].superseded_by # 0
                 PROVE \E z \in Stems : z.num = files'[s].superseded_by /\ files'[z].supersedes = s.num
    BY <1>6 DEF Answered
  <2>2. files'[s].superseded_by = files[s].superseded_by
    BY <1>5, <1>6
  <2>3. PICK z \in Stems : z.num = files[s].superseded_by /\ files[z].supersedes = s.num
    BY <2>1, <2>2 DEF IInv, Answered
  <2>4. z # x
    BY <1>8, <2>1, <2>2, <2>3
  <2> QED BY <1>6, <2>2, <2>3, <2>4
<1>10. Says(job.new, job.target)'
  BY <1>0, <1>1, <1>2, <1>5, <1>6 DEF Says
<1>11. JobInv'
  BY <1>0, <1>6, <1>10 DEF JobInv
<1> QED BY <1>6, <1>7, <1>9, <1>11 DEF IInv

(* Retiring a decision in favour of one that says it supersedes it.        *)
LEMMA RetireKeeps ==
  ASSUME IInv, NEW t \in Taken, NEW n \in 0..MaxNumber, n # 0, Says(n, t),
         files' = [files EXCEPT ![StemOf(t)] = MarkSuperseded(files[StemOf(t)], n)]
  PROVE  /\ FilesTyped' /\ OneFilePerNumber' /\ RefsOlder' /\ Answered'
         /\ Taken' = Taken
<1> DEFINE x == StemOf(t)
           d == MarkSuperseded(files[x], n)
<1>1. x \in Stems /\ x.num = t
  BY StemOfTaken
<1>2. files[x] \in File
  BY <1>1 DEF IInv, FilesTyped
<1>3. d \in File /\ d.supersedes = files[x].supersedes /\ d.superseded_by = n
  BY <1>2, Rewritten
<1>4. files' = [files EXCEPT ![x] = d]
  OBVIOUS
<1> HIDE DEF d, x
<1>5. /\ Stems' = Stems /\ Taken' = Taken /\ FilesTyped' /\ OneFilePerNumber'
      /\ files'[x] = d /\ \A s \in Stems : s # x => files'[s] = files[s]
  BY <1>1, <1>3, <1>4, RewriteKeeps DEF IInv
<1>6. \A s \in Stems : files'[s].supersedes = files[s].supersedes
  BY <1>3, <1>5
<1>7. RefsOlder'
  BY <1>5, <1>6 DEF IInv, RefsOlder
<1>8. Answered'
  <2>1. SUFFICES ASSUME NEW s \in Stems, files'[s].superseded_by # 0
                 PROVE \E z \in Stems : z.num = files'[s].superseded_by /\ files[z].supersedes = s.num
    BY <1>5, <1>6 DEF Answered
  <2>2. CASE s = x
    BY <1>1, <1>3, <1>5, <2>2 DEF Says
  <2>3. CASE s # x
    BY <1>5, <2>1, <2>3 DEF IInv, Answered
  <2> QED BY <2>2, <2>3
<1> QED BY <1>5, <1>7, <1>8

LEMMA FlipKeeps ==
  ASSUME IInv, Flip
  PROVE  IInv'
<1>1. job \in Job /\ job.target \in Taken /\ Says(job.new, job.target) /\ pc' = "idle"
      /\ files' = [files EXCEPT ![StemOf(job.target)] = MarkSuperseded(files[StemOf(job.target)], job.new)]
  BY DEF IInv, JobInv, Flip, Finish
<1>2. job.new \in 0..MaxNumber /\ job.new # 0
  <2>1. PICK x \in Stems : x.num = job.new
    BY <1>1 DEF Says
  <2> QED BY <1>1, <2>1 DEF IInv, FilesTyped, Stem, Number, Job
<1>3. FilesTyped' /\ OneFilePerNumber' /\ RefsOlder' /\ Answered'
  BY <1>1, <1>2, RetireKeeps
<1>4. JobInv'
  BY <1>1 DEF JobInv
<1> QED BY <1>3, <1>4 DEF IInv

(* What a plan names: an orphan, its target, and the target's bytes.       *)
LEMMA PlanNames ==
  ASSUME IInv, PlanOf # None
  PROVE  /\ PlanOf.child \in Taken /\ PlanOf.target \in Taken
         /\ Says(PlanOf.child, PlanOf.target)
         /\ PlanOf.pre = files[StemOf(PlanOf.target)]
<1> DEFINE c == CHOOSE c \in Orphans : TRUE
<1>1. Orphans # {}
  BY DEF PlanOf
<1>2. c \in Orphans
  BY <1>1
<1>3. PlanOf = [child |-> c, target |-> At(c).supersedes, pre |-> At(At(c).supersedes)]
  BY DEF PlanOf
<1> HIDE DEF c
<1>4. c \in Taken /\ At(c).supersedes \in Taken
  BY <1>2 DEF Orphans, Active
<1>5. Says(c, At(c).supersedes)
  BY <1>4, StemOfTaken DEF Says, At
<1> QED BY <1>3, <1>4, <1>5 DEF At

(* A repair writes what the plan made under the lock says.                 *)
LEMMA ConfirmKeeps ==
  ASSUME IInv, Confirm
  PROVE  IInv'
<1>1. shown # None /\ PlanOf = shown /\ pc' = "idle"
      /\ files' = [files EXCEPT ![StemOf(shown.target)] = MarkSuperseded(shown.pre, shown.child)]
  BY DEF Confirm, Unchanged
<1>2. /\ shown.child \in Taken /\ shown.target \in Taken
      /\ Says(shown.child, shown.target)
      /\ shown.pre = files[StemOf(shown.target)]
  BY <1>1, PlanNames
<1>3. shown.child \in 0..MaxNumber /\ shown.child # 0
  BY <1>2, BoundsAssumption DEF IInv, FilesTyped, Taken, Stem, Number
<1>4. FilesTyped' /\ OneFilePerNumber' /\ RefsOlder' /\ Answered'
  BY <1>1, <1>2, <1>3, RetireKeeps
<1>5. JobInv'
  BY <1>1 DEF JobInv
<1> QED BY <1>4, <1>5 DEF IInv

-----------------------------------------------------------------------------
(* The steps that write no reference.                                      *)

LEMMA BeginKeeps ==
  ASSUME IInv, NEW op \in Ops, NEW title \in Title, NEW text \in Text, NEW target \in 0..MaxNumber,
         Begin(op, title, text, target)
  PROVE  IInv'
<1>1. FilesTyped' /\ OneFilePerNumber' /\ RefsOlder' /\ Answered' /\ Taken' = Taken
  BY FilesKept DEF Begin
<1>2. /\ job' = [op |-> op, title |-> title, text |-> text, target |-> target, new |-> 0]
      /\ pc' = IF op = "update" THEN "append" ELSE "write"
      /\ op \in {"supersede", "update"} => target \in Taken
  BY DEF Begin
<1>3. job' \in Job /\ job'.op = op /\ job'.target = target
  BY <1>2, BoundsAssumption DEF Job
<1>4. pc' \in {"append", "write"} /\ (pc' = "append" => op = "update")
  BY <1>2
<1>5. JobInv'
  BY <1>1, <1>2, <1>3, <1>4 DEF JobInv
<1> QED BY <1>1, <1>5 DEF IInv

LEMMA IndexHashKeeps ==
  ASSUME IInv, IndexHash
  PROVE  IInv'
<1>1. /\ FilesTyped' /\ OneFilePerNumber' /\ RefsOlder' /\ Answered' /\ Taken' = Taken
      /\ \A n, t : Says(n, t) => Says(n, t)'
  BY FilesKept DEF IndexHash
<1>2. CASE job.op # "supersede" /\ Finish
  <2>1. JobInv'
    BY <1>2 DEF Finish, JobInv
  <2> QED BY <1>1, <2>1 DEF IInv
<1>3. CASE job.op = "supersede" /\ pc' = "attach" /\ UNCHANGED job
  <2>1. job \in Job /\ Says(job.new, 0) /\ job.target \in Taken /\ job.target < job.new
    BY <1>3 DEF IInv, JobInv, IndexHash
  <2>2. Says(job.new, 0)'
    <3>1. Says(job.new, 0) => \E x \in Stems' : x.num = job.new /\ files'[x].supersedes = 0
      BY DEF IndexHash, Says, Stems
    <3> QED BY <1>3, <2>1, <3>1 DEF Says
  <2>3. JobInv'
    BY <1>1, <1>3, <2>1, <2>2 DEF JobInv
  <2> QED BY <1>1, <2>3 DEF IInv
<1> QED BY <1>2, <1>3 DEF IndexHash

(* An update touches neither reference of its target.                      *)
LEMMA Updated ==
  ASSUME NEW d \in File
  PROVE  /\ [d EXCEPT !.version = @ + 1] \in File
         /\ [d EXCEPT !.version = @ + 1].supersedes = d.supersedes
         /\ [d EXCEPT !.version = @ + 1].superseded_by = d.superseded_by
BY DEF File

LEMMA AppendUpdateKeeps ==
  ASSUME IInv, AppendUpdate
  PROVE  IInv'
<1> DEFINE x == StemOf(job.target)
           d == [files[x] EXCEPT !.version = @ + 1]
<1>1. job.target \in Taken /\ pc' = "idle" /\ files' = [files EXCEPT ![x] = d]
  BY DEF IInv, JobInv, AppendUpdate, Finish
<1>2. x \in Stems /\ files[x] \in File
  BY <1>1, StemOfTaken DEF IInv, FilesTyped
<1>3. d \in File /\ d.supersedes = files[x].supersedes /\ d.superseded_by = files[x].superseded_by
  BY <1>2, Updated
<1> HIDE DEF d, x
<1>4. /\ Stems' = Stems /\ FilesTyped' /\ OneFilePerNumber'
      /\ files'[x] = d /\ \A s \in Stems : s # x => files'[s] = files[s]
  BY <1>1, <1>2, <1>3, RewriteKeeps DEF IInv
<1>5. \A s \in Stems : /\ files'[s].supersedes = files[s].supersedes
                       /\ files'[s].superseded_by = files[s].superseded_by
  BY <1>3, <1>4
<1>6. RefsOlder' /\ Answered'
  BY <1>4, <1>5 DEF IInv, RefsOlder, Answered
<1>7. JobInv'
  BY <1>1 DEF JobInv
<1> QED BY <1>4, <1>6, <1>7 DEF IInv

LEMMA CutShortKeeps ==
  ASSUME IInv, CutShort
  PROVE  IInv'
<1>1. FilesTyped' /\ OneFilePerNumber' /\ RefsOlder' /\ Answered'
  BY FilesKept DEF CutShort
<1>2. JobInv'
  BY DEF CutShort, Finish, JobInv
<1> QED BY <1>1, <1>2 DEF IInv

(* Steps that touch neither the store nor the job.                         *)
LEMMA OtherKeeps ==
  ASSUME IInv, UNCHANGED <<files, pc, job>>
  PROVE  IInv'
BY DEF IInv, FilesTyped, OneFilePerNumber, RefsOlder, Answered, JobInv, Taken, Stems, Says

-----------------------------------------------------------------------------
LEMMA InitIInv == Init => IInv
BY DEF Init, IInv, FilesTyped, OneFilePerNumber, RefsOlder, Answered, JobInv, Stems

LEMMA NextIInv == IInv /\ [Next]_vars => IInv'
<1>1. SUFFICES ASSUME IInv, [Next]_vars PROVE IInv'
  OBVIOUS
<1>2. ASSUME NEW op \in Ops, NEW t \in Title, NEW x \in Text, NEW n \in 0..MaxNumber,
             Begin(op, t, x, n)
      PROVE IInv'
  BY <1>1, <1>2, BeginKeeps
<1>3. CASE WriteNew
  BY <1>1, <1>3, WriteNewKeeps
<1>4. CASE IndexHash
  BY <1>1, <1>4, IndexHashKeeps
<1>5. CASE Attach
  BY <1>1, <1>5, AttachKeeps
<1>6. CASE Flip
  BY <1>1, <1>6, FlipKeeps
<1>7. CASE AppendUpdate
  BY <1>1, <1>7, AppendUpdateKeeps
<1>8. CASE CutShort
  BY <1>1, <1>8, CutShortKeeps
<1>9. CASE Show \/ Dismiss
  BY <1>1, <1>9, OtherKeeps DEF Show, Dismiss
<1>10. CASE Confirm
  BY <1>1, <1>10, ConfirmKeeps
<1>11. CASE UNCHANGED vars
  BY <1>1, <1>11, OtherKeeps DEF vars
<1> QED BY <1>1, <1>2, <1>3, <1>4, <1>5, <1>6, <1>7, <1>8, <1>9, <1>10, <1>11 DEF Next

(* The invariant as the reader of the store sees it: every number names    *)
(* one file, so the answer is found where the reference points.            *)
LEMMA IInvAnswers == IInv => BackrefsAnswered
<1>1. SUFFICES ASSUME IInv, NEW n \in Taken, At(n).superseded_by # 0
               PROVE  /\ At(n).superseded_by > n
                      /\ At(n).superseded_by \in Taken
                      /\ At(At(n).superseded_by).supersedes = n
  BY DEF BackrefsAnswered
<1> DEFINE by == At(n).superseded_by
<1>2. StemOf(n) \in Stems /\ StemOf(n).num = n
  BY StemOfTaken
<1>3. PICK x \in Stems : x.num = by /\ files[x].supersedes = n
  BY <1>1, <1>2 DEF IInv, Answered, At
<1>4. by \in Taken /\ StemOf(by) = x
  BY <1>1, <1>3, StemOfStem DEF IInv
<1>5. n < x.num
  BY <1>1, <1>3 DEF IInv, RefsOlder
<1>6. by \in Nat /\ n \in Nat
  BY <1>1, <1>2, <1>3 DEF IInv, FilesTyped, Stem, Number
<1> QED BY <1>3, <1>4, <1>5, <1>6 DEF At

-----------------------------------------------------------------------------
LEMMA SpecIInv == Spec => []IInv
BY InitIInv, NextIInv, PTL DEF Spec

(* Numbering holds for any number of decisions and crashes: _next_decision_num *)
(* counts above every file on disk, also those a crash left half done.     *)
THEOREM NumbersAreUnique == Spec => []OneFilePerNumber
<1>1. IInv => OneFilePerNumber
  BY DEF IInv
<1> QED BY <1>1, SpecIInv, PTL

(* _do_supersede writes the new reference before it retires the old        *)
(* decision, and repair writes only what a surviving reference already     *)
(* says: so nothing is retired without an answer, wherever a job stops.    *)
THEOREM RetirementsAreAnswered == Spec => []BackrefsAnswered
BY SpecIInv, IInvAnswers, PTL

-----------------------------------------------------------------------------
(* Titles and repairs. What the job under way found when it was screened,   *)
(* and that its decision is the latest until it is done.                    *)
Screened ==
  pc = "write" /\ job.op # "note" =>
    /\ job.op = "add" => job.target = 0
    /\ \A s \in Stems : s.title = job.title /\ s.num # job.target => files[s].status # "active"

Latest == pc \in {"index", "attach", "flip"} => \A s \in Stems : s.num <= job.new

(* Whose title is not screened: notes, what is left of a job, and the         *)
(* replacement under its target's title until the target is retired.         *)
Loose(s, x) ==
  \/ x.num \in notes \cup halted
  \/ pc \in {"index", "attach", "flip"} /\ job.op = "supersede" /\ x.num = job.new /\ s.num = job.target

Clashes(s, x) ==
  /\ s.num < x.num /\ s.title = x.title
  /\ files[s].status = "active" /\ files[x].status = "active"

ClashesAreLoose == \A s, x \in Stems : Clashes(s, x) => Loose(s, x)

Statuses == \A s \in Stems : files[s].superseded_by # 0 => files[s].status = "superseded"

TInv ==
  /\ Screened /\ Latest /\ ClashesAreLoose /\ Statuses
  /\ pc \in {"write", "index"} => job.op \in Ops \ {"update"}
  /\ pc \in {"attach", "flip"} => job.op = "supersede"

(* A step that rewrites a file changes no title and makes none active.       *)
Rests == /\ Stems' = Stems
         /\ \A s \in Stems : files'[s].status = "active" => files[s].status = "active"

LEMMA ClashesRest ==
  ASSUME ClashesAreLoose, Rests, \A s, x \in Stems : Loose(s, x) => Loose(s, x)'
  PROVE  ClashesAreLoose'
<1>1. SUFFICES ASSUME NEW s \in Stems, NEW x \in Stems, Clashes(s, x)' PROVE Loose(s, x)'
  BY DEF ClashesAreLoose, Rests
<1>2. Clashes(s, x)
  BY <1>1 DEF Clashes, Rests
<1> QED BY <1>2 DEF ClashesAreLoose

-----------------------------------------------------------------------------
(* What each writing step does to the files.                                *)
Changes(x, d) == Stems' = Stems /\ files'[x] = d /\ \A s \in Stems \ {x} : files'[s] = files[s]

LEMMA FileFields ==
  ASSUME NEW d \in File, NEW n
  PROVE  /\ [d EXCEPT !.supersedes = n].text = d.text
         /\ [d EXCEPT !.supersedes = n].version = d.version
         /\ [d EXCEPT !.supersedes = n].status = d.status
         /\ [d EXCEPT !.supersedes = n].superseded_by = d.superseded_by
         /\ [d EXCEPT !.supersedes = n].supersedes = n
         /\ [d EXCEPT !.version = @ + 1].text = d.text
         /\ [d EXCEPT !.version = @ + 1].version = d.version + 1
         /\ [d EXCEPT !.version = @ + 1].status = d.status
         /\ [d EXCEPT !.version = @ + 1].supersedes = d.supersedes
         /\ [d EXCEPT !.version = @ + 1].superseded_by = d.superseded_by
         /\ MarkSuperseded(d, n).text = d.text
         /\ MarkSuperseded(d, n).version = d.version
         /\ MarkSuperseded(d, n).status = "superseded"
         /\ MarkSuperseded(d, n).supersedes = d.supersedes
         /\ MarkSuperseded(d, n).superseded_by = n
  BY DEF File, MarkSuperseded

LEMMA Rewrite ==
  ASSUME NEW x \in Stems, NEW d, files' = [files EXCEPT ![x] = d]
  PROVE  Changes(x, d)
  BY DEF Changes, Stems

LEMMA WriteNewWrites ==
  ASSUME IInv, WriteNew
  PROVE  \E x \in Stem :
           /\ x.title = job.title /\ x.num = job'.new /\ x \notin Stems
           /\ \A s \in Stems : s.num < x.num
           /\ Stems' = Stems \cup {x} /\ \A s \in Stems : files'[s] = files[s]
           /\ files'[x].superseded_by = 0
<1> DEFINE n == NextNumber
           x == [num |-> n, title |-> job.title]
           d == [text |-> job.text, version |-> 1, status |-> "active",
                 supersedes |-> 0, superseded_by |-> 0]
<1>0. job \in Job /\ n <= MaxNumber /\ files' = Put(x, d) /\ job' = [job EXCEPT !.new = n]
  BY DEF IInv, JobInv, WriteNew
<1>1. Taken \subseteq Number
  BY DEF IInv, FilesTyped, Taken, Stem
<1>2. n \in Number /\ \A m \in Taken : m < n
  <2>1. MaxOf(Taken) \in Nat /\ \A y \in Taken : y <= MaxOf(Taken)
    BY <1>1, MaxBounds
  <2> QED BY <2>1, <1>0, <1>1, BoundsAssumption DEF NextNumber, Number
<1>3. x \in Stem /\ d.superseded_by = 0
  BY <1>0, <1>2 DEF Job, Stem
<1>4. job'.new = n
  BY <1>0 DEF Job
<1>5. x.num = n /\ x.title = job.title
  OBVIOUS
<1> HIDE DEF n, d
<1>6. x \notin Stems /\ \A s \in Stems : s.num < x.num
  BY <1>1, <1>2, <1>5 DEF Taken, Number
<1> HIDE DEF x
<1>7. Stems' = Stems \cup {x} /\ files'[x] = d /\ \A s \in Stems : files'[s] = files[s]
  BY <1>0, <1>6 DEF Put, Stems
<1> QED
  BY <1>3, <1>4, <1>5, <1>6, <1>7

LEMMA AttachWrites ==
  ASSUME IInv, Attach
  PROVE  \E x \in Stems : \E d : /\ Changes(x, d) /\ files[x].supersedes = 0
                                 /\ d.text = files[x].text /\ d.version = files[x].version
                                 /\ d.status = files[x].status
                                 /\ d.superseded_by = files[x].superseded_by
<1>1. PICK x \in Stems : x.num = job.new /\ files[x].supersedes = 0
  BY DEF IInv, JobInv, Attach, Says
<1>2. StemOf(job.new) = x
  BY <1>1, StemOfStem DEF IInv
<1> DEFINE d == [files[x] EXCEPT !.supersedes = job.target]
<1>3. files' = [files EXCEPT ![x] = d]
  BY <1>2 DEF Attach
<1>4. files[x] \in File
  BY DEF IInv, FilesTyped
<1>5. /\ d.text = files[x].text /\ d.version = files[x].version
      /\ d.status = files[x].status /\ d.superseded_by = files[x].superseded_by
  BY <1>4, FileFields
<1> HIDE DEF d
<1> QED
  BY <1>1, <1>3, <1>5, Rewrite

(* The same of a supersede's last write and of a repair.                     *)
Retires(x, d, n) ==
  /\ Changes(x, d)
  /\ d.text = files[x].text /\ d.version = files[x].version
  /\ d.status = "superseded"
  /\ d.supersedes = files[x].supersedes /\ d.superseded_by = n

LEMMA RetireWrites ==
  ASSUME IInv, NEW t \in Taken, NEW n,
         files' = [files EXCEPT ![StemOf(t)] = MarkSuperseded(files[StemOf(t)], n)]
  PROVE  \E x \in Stems : \E d : x.num = t /\ Retires(x, d, n)
<1> DEFINE x == StemOf(t)
           d == MarkSuperseded(files[x], n)
<1>1. x \in Stems /\ x.num = t
  BY StemOfTaken
<1>2. files[x] \in File
  BY <1>1 DEF IInv, FilesTyped
<1>3. /\ d.text = files[x].text /\ d.version = files[x].version
      /\ d.status = "superseded"
      /\ d.supersedes = files[x].supersedes /\ d.superseded_by = n
  BY <1>2, FileFields
<1>4. files' = [files EXCEPT ![x] = d]
  OBVIOUS
<1> HIDE DEF d, x
<1>5. Changes(x, d)
  BY <1>1, <1>4, Rewrite
<1> QED
  BY <1>1, <1>3, <1>5 DEF Retires

LEMMA FlipWrites ==
  ASSUME IInv, Flip
  PROVE  \E x \in Stems : \E d : x.num = job.target /\ Retires(x, d, job.new)
<1>1. job.target \in Taken
      /\ files' = [files EXCEPT ![StemOf(job.target)] = MarkSuperseded(files[StemOf(job.target)], job.new)]
  BY DEF IInv, JobInv, Flip
<1> QED
  BY <1>1, RetireWrites

(* The plan of a confirmed repair is the one orphan's.                        *)
LEMMA PlanIsOrphan ==
  ASSUME IInv, PlanOf # None
  PROVE  /\ Orphans = {PlanOf.child} /\ PlanOf.target = At(PlanOf.child).supersedes
         /\ \A r \in Refusals : PlanOf.child \notin r
<1>1. PICK c \in Orphans : Orphans = {c} /\ \A r \in Refusals : c \notin r /\ At(c).supersedes \notin r
  BY DEF PlanOf
<1>2. (CHOOSE e \in Orphans : TRUE) = c
  BY <1>1
<1>3. PlanOf = [child |-> c, target |-> At(c).supersedes, pre |-> At(At(c).supersedes)]
  BY <1>1, <1>2 DEF PlanOf
<1> QED
  BY <1>1, <1>3

LEMMA ConfirmWrites ==
  ASSUME IInv, Confirm
  PROVE  \E x \in Stems : \E d :
           /\ x.num = shown.target /\ Retires(x, d, shown.child)
           /\ files[x].superseded_by = 0 /\ shown.child \in Taken
<1>1. /\ shown # None /\ PlanOf = shown
      /\ files' = [files EXCEPT ![StemOf(shown.target)] = MarkSuperseded(shown.pre, shown.child)]
  BY DEF Confirm, Unchanged
<1>2. /\ shown.child \in Taken /\ shown.target \in Taken
      /\ shown.pre = files[StemOf(shown.target)]
  BY <1>1, PlanNames
<1>3. PICK x \in Stems : \E d : x.num = shown.target /\ Retires(x, d, shown.child)
  BY <1>1, <1>2, RetireWrites
<1>4. shown.child \in Orphans /\ shown.target = At(shown.child).supersedes
  BY <1>1, PlanIsOrphan
<1>5. At(shown.target).superseded_by = 0
  BY <1>4 DEF Orphans
<1>6. StemOf(shown.target) = x
  BY <1>3, StemOfStem DEF IInv
<1> QED
  BY <1>2, <1>3, <1>5, <1>6 DEF At

LEMMA AppendWrites ==
  ASSUME IInv, AppendUpdate
  PROVE  \E x \in Stems : \E d : /\ Changes(x, d)
                                 /\ d.text = files[x].text /\ d.version >= files[x].version
                                 /\ d.status = files[x].status /\ d.supersedes = files[x].supersedes
                                 /\ d.superseded_by = files[x].superseded_by
<1> DEFINE x == StemOf(job.target)
           d == [files[x] EXCEPT !.version = @ + 1]
<1>1. job.target \in Taken /\ files' = [files EXCEPT ![x] = d]
  BY DEF IInv, JobInv, AppendUpdate
<1>2. x \in Stems /\ files[x] \in File
  BY <1>1, StemOfTaken DEF IInv, FilesTyped
<1>3. /\ d.text = files[x].text /\ d.version = files[x].version + 1 /\ files[x].version \in Nat
      /\ d.status = files[x].status /\ d.supersedes = files[x].supersedes
      /\ d.superseded_by = files[x].superseded_by
  BY <1>2, FileFields DEF File
<1> HIDE DEF d, x
<1>4. Changes(x, d)
  BY <1>1, <1>2, Rewrite
<1>5. d.version >= files[x].version
  BY <1>3
<1> QED
  BY <1>2, <1>3, <1>4, <1>5

-----------------------------------------------------------------------------
(* The steps keep the titles told apart.                                    *)
LEMMA BeginLoose ==
  ASSUME IInv, TInv, NEW op \in Ops, NEW title, NEW text, NEW target, Begin(op, title, text, target)
  PROVE  TInv'
<1>1. /\ UNCHANGED <<files, notes, halted>> /\ pc = "idle"
      /\ job' = [op |-> op, title |-> title, text |-> text, target |-> target, new |-> 0]
      /\ pc' = IF op = "update" THEN "append" ELSE "write"
      /\ op = "add" => target = 0
      /\ Passes(op, title, text, target)
  BY DEF Begin, history
<1>2. job'.op = op /\ job'.title = title /\ job'.target = target
  BY <1>1
<1>3. Screened'
  BY <1>1, <1>2 DEF Screened, Passes, Ops, Stems
<1>4. Rests /\ \A s, x \in Stems : Loose(s, x) => Loose(s, x)'
  BY <1>1 DEF Rests, Stems, Loose
<1>5. ClashesAreLoose'
  BY <1>4, ClashesRest DEF TInv
<1>6. Latest' /\ Statuses'
  BY <1>1 DEF TInv, Latest, Statuses, Stems
<1> QED
  BY <1>1, <1>2, <1>3, <1>5, <1>6 DEF TInv

LEMMA WriteNewLoose ==
  ASSUME IInv, TInv, WriteNew
  PROVE  TInv'
<1>1. PICK y \in Stem :
           /\ y.title = job.title /\ y.num = job'.new /\ y \notin Stems
           /\ \A s \in Stems : s.num < y.num
           /\ Stems' = Stems \cup {y} /\ \A s \in Stems : files'[s] = files[s]
           /\ files'[y].superseded_by = 0
  BY WriteNewWrites
<1>2. /\ pc = "write" /\ pc' = "index" /\ UNCHANGED halted /\ job \in Job
      /\ job' = [job EXCEPT !.new = NextNumber]
      /\ notes' = IF job.op = "note" THEN notes \cup {NextNumber} ELSE notes
  BY DEF WriteNew, IInv, JobInv
<1>3. job'.op = job.op /\ job'.target = job.target /\ job'.new = NextNumber
  BY <1>2 DEF Job
<1>4. \A s \in Stems' : s.num \in Nat \ {0}
  BY <1>1 DEF IInv, FilesTyped, Stem, Number
<1>5. Latest'
  BY <1>1, <1>4 DEF Latest
<1>6. ClashesAreLoose'
  <2>1. SUFFICES ASSUME NEW s \in Stems', NEW x \in Stems', Clashes(s, x)' PROVE Loose(s, x)'
    BY DEF ClashesAreLoose
  <2>2. CASE s \in Stems /\ x \in Stems
    <3>1. Clashes(s, x)
      BY <1>1, <2>1, <2>2 DEF Clashes
    <3>2. x.num \in notes \cup halted
      BY <1>2, <2>2, <3>1 DEF TInv, ClashesAreLoose, Loose
    <3> QED BY <1>2, <3>2 DEF Loose
  <2>3. CASE x = y /\ s \in Stems
    <3>1. files[s].status = "active" /\ s.title = job.title
      BY <1>1, <2>1, <2>3 DEF Clashes
    <3>2. CASE job.op = "note"
      BY <1>1, <1>2, <1>3, <2>3, <3>2 DEF Loose
    <3>3. CASE job.op # "note"
      <4>1. s.num = job.target /\ (job.op = "add" => job.target = 0)
        BY <1>2, <2>3, <3>1, <3>3 DEF TInv, Screened
      <4>2. job.op = "supersede"
        BY <1>2, <1>4, <2>1, <3>3, <4>1 DEF TInv, Ops
      <4> QED BY <1>1, <1>2, <1>3, <2>3, <4>1, <4>2 DEF Loose
    <3> QED BY <3>2, <3>3
  <2>4. CASE s = y
    <3>1. s.num < x.num
      BY <2>1 DEF Clashes
    <3>2. x = y \/ x.num < y.num
      BY <1>1
    <3> QED BY <1>4, <2>1, <2>4, <3>1, <3>2
  <2> QED BY <1>1, <2>2, <2>3, <2>4
<1>7. Statuses'
  BY <1>1 DEF TInv, Statuses
<1>8. Screened' /\ job'.op \in Ops
  BY <1>2, <1>3 DEF TInv, Screened
<1> QED
  BY <1>2, <1>5, <1>6, <1>7, <1>8 DEF TInv

LEMMA IndexHashLoose ==
  ASSUME IInv, TInv, IndexHash
  PROVE  TInv'
<1>1. /\ UNCHANGED <<files, notes, halted>> /\ pc = "index"
      /\ \/ job.op # "supersede" /\ pc' = "idle"
         \/ job.op = "supersede" /\ pc' = "attach" /\ job' = job
  BY DEF IndexHash, Finish, history
<1>2. Rests /\ \A s, x \in Stems : Loose(s, x) => Loose(s, x)'
  BY <1>1 DEF Rests, Stems, Loose
<1>3. ClashesAreLoose'
  BY <1>2, ClashesRest DEF TInv
<1>4. Latest' /\ Screened' /\ Statuses'
  BY <1>1 DEF TInv, Latest, Screened, Statuses, Stems
<1> QED
  BY <1>1, <1>3, <1>4 DEF TInv

LEMMA AttachLoose ==
  ASSUME IInv, TInv, Attach
  PROVE  TInv'
<1>1. PICK y \in Stems : \E d : /\ Changes(y, d) /\ d.status = files[y].status
                                /\ d.superseded_by = files[y].superseded_by
  BY AttachWrites
<1>2. pc = "attach" /\ pc' = "flip" /\ UNCHANGED <<job, notes, halted>>
  BY DEF Attach, history
<1>3. /\ Stems' = Stems
      /\ \A s \in Stems : files'[s].status = files[s].status /\ files'[s].superseded_by = files[s].superseded_by
  BY <1>1 DEF Changes
<1>4. Rests /\ \A s, x \in Stems : Loose(s, x) => Loose(s, x)'
  BY <1>2, <1>3 DEF Rests, Loose
<1>5. ClashesAreLoose'
  BY <1>4, ClashesRest DEF TInv
<1>6. Latest' /\ Screened' /\ Statuses'
  BY <1>2, <1>3 DEF TInv, Latest, Screened, Statuses
<1> QED
  BY <1>2, <1>5, <1>6 DEF TInv

(* The target of a supersede leaves the clash with its replacement.          *)
LEMMA FlipLoose ==
  ASSUME IInv, TInv, Flip
  PROVE  TInv'
<1>1. PICK y \in Stems : \E d : y.num = job.target /\ Retires(y, d, job.new)
  BY FlipWrites
<1>2. pc = "flip" /\ pc' = "idle" /\ UNCHANGED <<notes, halted>>
  BY DEF Flip, Finish, history
<1>3. /\ Stems' = Stems /\ files'[y].status = "superseded"
      /\ \A s \in Stems \ {y} : files'[s] = files[s]
  BY <1>1 DEF Retires, Changes
<1>4. ClashesAreLoose'
  <2>1. SUFFICES ASSUME NEW s \in Stems, NEW x \in Stems, Clashes(s, x)' PROVE Loose(s, x)'
    BY <1>3 DEF ClashesAreLoose
  <2>2. s # y /\ Clashes(s, x)
    BY <1>3, <2>1 DEF Clashes
  <2>3. s.num # job.target
    BY <1>1, <2>2 DEF IInv, OneFilePerNumber
  <2>4. x.num \in notes \cup halted
    BY <2>2, <2>3 DEF TInv, ClashesAreLoose, Loose
  <2> QED BY <1>2, <2>4 DEF Loose
<1>5. Statuses'
  BY <1>3 DEF TInv, Statuses
<1>6. Latest' /\ Screened'
  BY <1>2 DEF Latest, Screened
<1> QED
  BY <1>2, <1>4, <1>5, <1>6 DEF TInv

LEMMA AppendLoose ==
  ASSUME IInv, TInv, AppendUpdate
  PROVE  TInv'
<1>1. PICK y \in Stems : \E d : /\ Changes(y, d) /\ d.status = files[y].status
                                /\ d.superseded_by = files[y].superseded_by
  BY AppendWrites
<1>2. pc = "append" /\ pc' = "idle" /\ UNCHANGED <<notes, halted>>
  BY DEF AppendUpdate, Finish, history
<1>3. /\ Stems' = Stems
      /\ \A s \in Stems : files'[s].status = files[s].status /\ files'[s].superseded_by = files[s].superseded_by
  BY <1>1 DEF Changes
<1>4. Rests /\ \A s, x \in Stems : Loose(s, x) => Loose(s, x)'
  BY <1>2, <1>3 DEF Rests, Loose
<1>5. ClashesAreLoose'
  BY <1>4, ClashesRest DEF TInv
<1>6. Latest' /\ Screened' /\ Statuses'
  BY <1>2, <1>3 DEF TInv, Latest, Screened, Statuses
<1> QED
  BY <1>2, <1>5, <1>6 DEF TInv

LEMMA ConfirmLoose ==
  ASSUME IInv, TInv, Confirm
  PROVE  TInv'
<1>1. PICK y \in Stems : \E d : Retires(y, d, shown.child)
  BY ConfirmWrites
<1>2. pc = "idle" /\ UNCHANGED <<pc, job, notes, halted>>
  BY DEF Confirm, history
<1>3. /\ Stems' = Stems /\ files'[y].status = "superseded"
      /\ \A s \in Stems \ {y} : files'[s] = files[s]
  BY <1>1 DEF Retires, Changes
<1>4. Rests /\ \A s, x \in Stems : Loose(s, x) => Loose(s, x)'
  BY <1>2, <1>3 DEF Rests, Loose
<1>5. ClashesAreLoose'
  BY <1>4, ClashesRest DEF TInv
<1>6. Latest' /\ Screened' /\ Statuses'
  BY <1>2, <1>3 DEF TInv, Latest, Screened, Statuses
<1> QED
  BY <1>2, <1>5, <1>6 DEF TInv

(* What is left of a job is loose from then on.                              *)
LEMMA CutShortLoose ==
  ASSUME IInv, TInv, CutShort
  PROVE  TInv'
<1>1. /\ UNCHANGED <<files, notes>> /\ pc' = "idle" /\ halted' = halted \cup ({job.new} \ {0})
  BY DEF CutShort, Finish
<1>2. \A x \in Stems : x.num # 0
  BY DEF IInv, FilesTyped, Stem, Number
<1>3. Rests /\ \A s, x \in Stems : Loose(s, x) => Loose(s, x)'
  BY <1>1, <1>2 DEF Rests, Stems, Loose
<1>4. ClashesAreLoose'
  BY <1>3, ClashesRest DEF TInv
<1>5. Latest' /\ Screened' /\ Statuses'
  BY <1>1 DEF TInv, Latest, Screened, Statuses, Stems
<1> QED
  BY <1>1, <1>4, <1>5 DEF TInv

LEMMA TStep == IInv /\ TInv /\ [Next]_vars => TInv'
<1>1. SUFFICES ASSUME IInv, TInv, [Next]_vars PROVE TInv'
  OBVIOUS
<1>2. ASSUME NEW op \in Ops, NEW t \in Title, NEW x \in Text, NEW n \in 0..MaxNumber,
             Begin(op, t, x, n)
      PROVE TInv'
  BY <1>1, <1>2, BeginLoose
<1>3. CASE Show \/ Dismiss \/ UNCHANGED vars
  <2>1. UNCHANGED <<files, pc, job, notes, halted>>
    BY <1>3 DEF Show, Dismiss, vars, history
  <2>2. Rests /\ \A s, x \in Stems : Loose(s, x) => Loose(s, x)'
    BY <2>1 DEF Rests, Stems, Loose
  <2>3. ClashesAreLoose'
    BY <1>1, <2>2, ClashesRest DEF TInv
  <2>4. Latest' /\ Screened' /\ Statuses'
    BY <1>1, <2>1 DEF TInv, Latest, Screened, Statuses, Stems
  <2> QED BY <1>1, <2>1, <2>3, <2>4 DEF TInv
<1> QED
  BY <1>1, <1>2, <1>3, WriteNewLoose, IndexHashLoose, AttachLoose, FlipLoose, AppendLoose,
     CutShortLoose, ConfirmLoose DEF Next

-----------------------------------------------------------------------------
(* No step undoes what a file says.                                         *)
Outlives(s) ==
  /\ s \in DOMAIN files'
  /\ files'[s].text = files[s].text
  /\ files'[s].version >= files[s].version
  /\ files'[s].superseded_by >= files[s].superseded_by
  /\ files[s].supersedes # 0 => files'[s].supersedes = files[s].supersedes

LEMMA StaysOutlives ==
  ASSUME IInv, NEW s \in Stems, s \in Stems', files'[s] = files[s]
  PROVE  Outlives(s)
<1>1. files[s].version \in Nat /\ files[s].superseded_by \in Nat
  BY BoundsAssumption DEF IInv, FilesTyped, File
<1> QED
  BY <1>1 DEF Outlives, Stems

LEMMA Outliving ==
  ASSUME IInv, TInv, Next, NEW s \in Stems
  PROVE  Outlives(s)
<1>t. files[s].version \in Nat /\ files[s].superseded_by \in 0..MaxNumber /\ MaxNumber \in Nat
  BY BoundsAssumption DEF IInv, FilesTyped, File
<1>1. CASE WriteNew
  BY <1>1, WriteNewWrites, StaysOutlives
<1>2. CASE Attach
  <2>1. PICK x \in Stems : \E d : /\ Changes(x, d) /\ files[x].supersedes = 0
                                  /\ d.text = files[x].text /\ d.version = files[x].version
                                  /\ d.superseded_by = files[x].superseded_by
    BY <1>2, AttachWrites
  <2>2. CASE s = x
    BY <1>t, <2>1, <2>2 DEF Changes, Outlives, Stems
  <2>3. CASE s # x
    BY <2>1, <2>3, StaysOutlives DEF Changes
  <2> QED BY <2>2, <2>3
<1>3. CASE Flip
  <2>1. PICK x \in Stems : \E d : x.num = job.target /\ Retires(x, d, job.new)
    BY <1>3, FlipWrites
  <2>2. CASE s = x
    <3>1. files[s].superseded_by <= job.new
      <4>1. pc = "flip" /\ job.new \in 0..MaxNumber
        BY <1>3 DEF Flip, IInv, JobInv, Job
      <4>2. CASE files[s].superseded_by = 0
        BY <1>t, <4>1, <4>2
      <4>3. CASE files[s].superseded_by # 0
        BY <4>1, <4>3 DEF IInv, Answered, TInv, Latest
      <4> QED BY <4>2, <4>3
    <3>2. job.new \in Nat
      BY <1>3, <1>t DEF Flip, IInv, JobInv, Job
    <3> QED BY <1>t, <2>1, <2>2, <3>1, <3>2 DEF Retires, Changes, Outlives, Stems
  <2>3. CASE s # x
    BY <2>1, <2>3, StaysOutlives DEF Retires, Changes
  <2> QED BY <2>2, <2>3
<1>4. CASE AppendUpdate
  <2>1. PICK x \in Stems : \E d : /\ Changes(x, d)
                                  /\ d.text = files[x].text /\ d.version >= files[x].version
                                  /\ d.supersedes = files[x].supersedes
                                  /\ d.superseded_by = files[x].superseded_by
    BY <1>4, AppendWrites
  <2>2. CASE s = x
    BY <1>t, <2>1, <2>2 DEF Changes, Outlives, Stems
  <2>3. CASE s # x
    BY <2>1, <2>3, StaysOutlives DEF Changes
  <2> QED BY <2>2, <2>3
<1>5. CASE Confirm
  <2>1. PICK x \in Stems : \E d : /\ x.num = shown.target /\ Retires(x, d, shown.child)
                                  /\ files[x].superseded_by = 0 /\ shown.child \in Taken
    BY <1>5, ConfirmWrites
  <2>2. CASE s = x
    <3>1. shown.child \in Nat
      BY <2>1 DEF IInv, FilesTyped, Taken, Stem, Number
    <3> QED BY <1>t, <2>1, <2>2, <3>1 DEF Retires, Changes, Outlives, Stems
  <2>3. CASE s # x
    BY <2>1, <2>3, StaysOutlives DEF Retires, Changes
  <2> QED BY <2>2, <2>3
<1>6. ASSUME UNCHANGED files PROVE Outlives(s)
  BY <1>6, StaysOutlives DEF Stems
<1> QED
  BY <1>1, <1>2, <1>3, <1>4, <1>5, <1>6 DEF Next, Begin, IndexHash, CutShort, Show, Dismiss

(* An orphan and a contradiction in the next state, of the decision they name. *)
LEMMA NextOrphan ==
  ASSUME NEW d, NEW u, At(d)'.supersedes = u
  PROVE  d \in Orphans' <=> d \in Taken' /\ Active(d)' /\ Active(u)' /\ At(u)'.superseded_by = 0
  BY DEF Orphans, Active, At, StemOf, StemsOf, Stems, Taken

LEMMA NextContradiction ==
  ASSUME NEW d, NEW u, At(d)'.supersedes = u
  PROVE  d \in Contradictions' <=> d \in Taken' /\ u \in Taken' /\ At(u)'.superseded_by \notin {0, d}
  BY DEF Contradictions, At, StemOf, StemsOf, Stems, Taken

(* What a repair leaves: the orphan is answered, and its target was nobody    *)
(* else's, since the planner refuses an orphan with a sibling.               *)
LEMMA Closing ==
  ASSUME IInv, Confirm
  PROVE  Orphans' = {} /\ Contradictions' = Contradictions
<1>0. PICK c, t : c = shown.child /\ t = shown.target
  OBVIOUS
<1>1. /\ PlanOf # None /\ PlanOf = shown
  BY DEF Confirm, Unchanged
<1>2. /\ Orphans = {c} /\ t = At(c).supersedes /\ \A r \in Refusals : c \notin r
      /\ c \in Taken /\ t \in Taken
  BY <1>0, <1>1, PlanIsOrphan, PlanNames
<1>3. PICK x \in Stems : \E d : x.num = t /\ Retires(x, d, c)
  BY <1>0, ConfirmWrites
<1>4. /\ Stems' = Stems /\ Taken' = Taken
      /\ \A n : StemOf(n)' = StemOf(n)
  <2>1. Stems' = Stems
    BY <1>3 DEF Retires, Changes
  <2> QED BY <2>1 DEF Taken, StemOf, StemsOf
<1>5. StemOf(t) = x
  BY <1>3, StemOfStem DEF IInv
<1>6. /\ \A n \in Taken : At(n)'.supersedes = At(n).supersedes
      /\ \A n \in Taken \ {t} : At(n)' = At(n)
      /\ At(t)'.superseded_by = c /\ At(t)'.status = "superseded"
  <2>1. \A n \in Taken : StemOf(n) \in Stems /\ StemOf(n).num = n
    BY StemOfTaken
  <2>2. /\ files'[x].superseded_by = c /\ files'[x].status = "superseded"
        /\ files'[x].supersedes = files[x].supersedes
        /\ \A s \in Stems \ {x} : files'[s] = files[s]
    BY <1>3 DEF Retires, Changes
  <2> QED BY <1>3, <1>4, <1>5, <2>1, <2>2 DEF At
<1>7. At(t).superseded_by = 0 /\ c \in Nat \ {0}
  <2>1. c \in Orphans
    BY <1>2
  <2>2. c \in Nat \ {0}
    BY <1>2 DEF IInv, FilesTyped, Taken, Stem, Number
  <2> QED BY <1>2, <2>1, <2>2 DEF Orphans
<1>8. \A n : Active(n)' => Active(n) /\ n # t
  BY <1>4, <1>6 DEF Active
<1>9. Orphans' = {}
  <2>1. SUFFICES ASSUME NEW d \in Orphans' PROVE FALSE
    OBVIOUS
  <2>u. PICK u : u = At(d).supersedes
    OBVIOUS
  <2>2. d \in Taken /\ At(d)'.supersedes = u
    <3>1. d \in Taken'
      BY <2>1 DEF Orphans
    <3> QED BY <1>4, <1>6, <2>u, <3>1
  <2>3. Active(d)' /\ Active(u)' /\ At(u)'.superseded_by = 0
    BY <2>1, <2>2, NextOrphan
  <2>4. Active(d) /\ Active(u) /\ u # t
    BY <1>8, <2>3
  <2>5. At(u).superseded_by = 0
    BY <1>6, <2>3, <2>4 DEF Active
  <2>6. d \in Orphans
    BY <2>u, <2>2, <2>4, <2>5 DEF Orphans
  <2> QED BY <1>2, <2>u, <2>4, <2>6
(* Whoever else pointed at the target would be a sibling.                     *)
<1>10. ASSUME NEW d \in Taken, At(d).supersedes = t PROVE d = c
  <2>1. SUFFICES ASSUME d # c PROVE FALSE
    OBVIOUS
  <2>2. \A e \in Taken : e \in Nat \ {0}
    BY DEF IInv, FilesTyped, Taken, Stem, Number
  <2>3. d \in Candidates /\ c \in Candidates
    BY <1>2, <1>7, <1>10, <2>2 DEF Candidates
  <2>4. d \in Siblings(c) /\ c \in Siblings(c)
    BY <1>2, <1>10, <2>3 DEF Siblings
  <2>5. IsFiniteSet(Siblings(c))
    <3>1. Siblings(c) \subseteq 1..MaxNumber
      BY DEF Siblings, Candidates, IInv, FilesTyped, Taken, Stem, Number
    <3>2. IsFiniteSet(1..MaxNumber)
      BY FS_Interval, BoundsAssumption
    <3> QED BY <3>1, <3>2, FS_Subset
  <2>6. Cardinality(Siblings(c)) > 1
    <3>1. Cardinality({c}) = 1
      BY FS_Singleton
    <3>2. {c} \subseteq Siblings(c) /\ {c} # Siblings(c)
      BY <2>1, <2>4
    <3>3. Cardinality({c}) <= Cardinality(Siblings(c)) /\ Cardinality({c}) # Cardinality(Siblings(c))
      BY <2>5, <3>2, FS_Subset
    <3>4. Cardinality(Siblings(c)) \in Nat
      BY <2>5, FS_CardinalityType
    <3> QED BY <3>1, <3>3, <3>4
  <2>7. {At(c).supersedes} \cup Siblings(c) \in Refusals
    BY <2>3, <2>6 DEF Refusals
  <2> QED BY <1>2, <2>4, <2>7
<1>11. \A d \in Taken : d \in Contradictions' <=> d \in Contradictions
  <2> SUFFICES ASSUME NEW d \in Taken PROVE d \in Contradictions' <=> d \in Contradictions
    OBVIOUS
  <2>u. PICK u : u = At(d).supersedes
    OBVIOUS
  <2>1. At(d)'.supersedes = u
    BY <1>6, <2>u
  <2>2. d \in Contradictions' <=> u \in Taken /\ At(u)'.superseded_by \notin {0, d}
    BY <1>4, <2>1, NextContradiction
  <2>3. d \in Contradictions <=> u \in Taken /\ At(u).superseded_by \notin {0, d}
    BY <2>u DEF Contradictions
  <2>4. CASE u = t
    <3>1. d = c
      BY <1>10, <2>u, <2>4
    <3> QED BY <1>6, <1>7, <2>2, <2>3, <2>4, <3>1
  <2>5. CASE u # t
    BY <1>6, <2>2, <2>3, <2>5
  <2> QED BY <2>4, <2>5
<1>12. Contradictions' \subseteq Taken /\ Contradictions \subseteq Taken
  BY <1>4 DEF Contradictions
<1> QED
  BY <1>9, <1>11, <1>12

LEMMA SpecTInv == Spec => [](IInv /\ TInv)
<1>1. Init => TInv
  BY DEF Init, TInv, Screened, Latest, ClashesAreLoose, Statuses, Stems
<1> QED
  BY <1>1, TStep, SpecIInv, PTL DEF Spec

(* Propose, note and repair leave two decisions in force under one title     *)
(* only for a reason; none of their steps undoes what a file says; and a     *)
(* repair confirmed after any delay closes the orphan it showed, leaves no   *)
(* other and makes no new contradiction.                                     *)
THEOREM RepairsStand == Spec => RepairsAreSafe
<1>1. IInv /\ TInv => TitleClashesAreLoose
  <2>1. SUFFICES ASSUME IInv, TInv, NEW m \in Taken, NEW n \in Taken,
                        m < n, Active(m), Active(n), StemOf(m).title = StemOf(n).title, pc = "idle"
                 PROVE  n \in notes \cup halted
    BY DEF TitleClashesAreLoose
  <2>2. /\ StemOf(m) \in Stems /\ StemOf(m).num = m
        /\ StemOf(n) \in Stems /\ StemOf(n).num = n
    BY StemOfTaken
  <2>3. Clashes(StemOf(m), StemOf(n))
    BY <2>1, <2>2 DEF Clashes, Active, At
  <2> QED BY <2>1, <2>2, <2>3 DEF TInv, ClashesAreLoose, Loose
<1>2. IInv /\ TInv /\ [Next]_vars =>
        [\A s \in Stems :
           /\ s \in DOMAIN files'
           /\ files'[s].text = files[s].text
           /\ files'[s].version >= files[s].version
           /\ files'[s].superseded_by >= files[s].superseded_by
           /\ files[s].supersedes # 0 => files'[s].supersedes = files[s].supersedes]_vars
  BY Outliving DEF Outlives
<1>3. IInv /\ TInv /\ [Next]_vars =>
        [pc = "idle" /\ pc' = "idle" /\ files' # files =>
           Orphans' = {} /\ Contradictions' = Contradictions]_vars
  <2>1. SUFFICES ASSUME IInv, TInv, Next, pc = "idle", pc' = "idle", files' # files
                 PROVE  Orphans' = {} /\ Contradictions' = Contradictions
    OBVIOUS
  <2>2. Confirm
    BY <2>1 DEF Next, Begin, WriteNew, IndexHash, Attach, Flip, AppendUpdate, CutShort, Show, Dismiss
  <2> QED BY <2>1, <2>2, Closing
<1>4. Spec => []TitleClashesAreLoose
  BY <1>1, SpecTInv, PTL
<1>5. Spec => NothingIsUndone
  BY <1>2, SpecTInv, PTL DEF Spec, NothingIsUndone
<1>6. Spec => RepairCloses
  BY <1>3, SpecTInv, PTL DEF Spec, RepairCloses
<1> QED
  BY <1>4, <1>5, <1>6 DEF RepairsAreSafe

-----------------------------------------------------------------------------
(* Snapshots.tla: captures, their thinning and the diff.                     *)

(* Versions, ticks and ages are counted; the rules hold one after another; a   *)
(* process captures or compares, and nobody is no process.                    *)
Calendar ==
  /\ MaxVersion \in Nat /\ MaxTime \in Nat \ {0} /\ MaxEdits \in Nat
  /\ KeepAll \in Nat /\ Daily \in Nat /\ Weekly \in Nat /\ Daily <= Weekly
  /\ DayLen \in Nat \ {0} /\ WeekLen \in Nat \ {0} /\ MonthLen \in Nat \ {0}
  /\ Capturers \intersect Differs = {} /\ "nobody" \notin Capturers

Tasks == [at : {"idle", "write", "prune", "baseline", "latest"}, seen : SUBSET Versions,
          next : Nat, base : Nat, last : Nat, from : Nat]

Typed ==
  /\ captures \in [Versions -> Files] /\ now \in 1 .. MaxTime
  /\ watched \in 0 .. MaxTime /\ edits \in 0 .. MaxEdits
  /\ task \in [Capturers \union Differs -> Tasks]

(* No capture is of the future; a later number is a later capture.            *)
Chronological ==
  /\ \A v \in Versions : captures[v].made <= now
  /\ \A v, w \in Versions : Loadable(v) /\ Loadable(w) /\ v <= w
       => captures[v].made <= captures[w].made

(* The holder of the lock knows what is there: before it writes the versions   *)
(* of its scan, then those and its own.                                     *)
Holding ==
  /\ \A p \in Capturers : task[p].at \in {"idle", "write", "prune"}
  /\ \A p \in Capturers : task[p].at # "idle" <=> locked = p
  /\ \A p \in Capturers : Stands(p, "write") =>
       /\ task[p].seen = Scanned /\ task[p].next = NextVersion(Scanned)
       /\ task[p].next \in Versions
  /\ \A p \in Capturers : Stands(p, "prune") =>
       task[p].seen \union {task[p].next} = Scanned

(* The versions of a diff are in order, and so is what it has read of them.    *)
Comparing ==
  \A d \in Differs :
    /\ task[d].at \in {"idle", "baseline", "latest"}
    /\ Stands(d, "baseline") =>
         task[d].base \in Versions /\ task[d].last \in Versions /\ task[d].base <= task[d].last
    /\ Stands(d, "latest") =>
         /\ task[d].last \in Versions /\ task[d].from <= now
         /\ Loadable(task[d].last) => task[d].from <= captures[task[d].last].made

(* How the record of the watched time has come down to version v: kept by the   *)
(* rule of the day up to d, of the week up to e, and of the month from there.   *)
Descends(v, d, e) ==
  /\ IsDated(v)
  /\ watched <= d /\ d <= e /\ e <= captures[v].made
  /\ watched \div DayLen = d \div DayLen /\ (d # watched => now - d > KeepAll)
  /\ d \div WeekLen = e \div WeekLen /\ (e # d => now - e > Daily)
  /\ e \div MonthLen = captures[v].made \div MonthLen
  /\ captures[v].made # e => now - captures[v].made > Weekly

Descended == watched # 0 => \E v \in Versions : \E d, e \in Nat : Descends(v, d, e)

SInv == Typed /\ Chronological /\ Holding /\ Comparing /\ Descended
-----------------------------------------------------------------------------
(* Extremes, and periods of the calendar.                                    *)

LEMMA Greatest ==
  ASSUME NEW S, S # {}, NEW f, NEW b \in Nat, \A x \in S : f[x] \in 0 .. b
  PROVE  \E x \in S : \A y \in S : f[y] <= f[x]
<1> DEFINE T == {b - f[x] : x \in S}
<1>1. T \subseteq Nat /\ T # {}
  OBVIOUS
<1>2. PICK t \in T : \A u \in T : <<u, t>> \notin OpToRel(<, Nat)
  BY <1>1, NatLessThanWellFounded, WFMin
<1>3. \A u \in T : ~(u < t)
  BY <1>1, <1>2 DEF OpToRel
<1>4. PICK x \in S : t = b - f[x]
  BY <1>2
<1>5. \A y \in S : ~(b - f[y] < b - f[x])
  BY <1>3, <1>4
<1> QED
  BY <1>5

LEMMA Least ==
  ASSUME NEW S, S # {}, NEW f, \A x \in S : f[x] \in Nat
  PROVE  \E x \in S : \A y \in S : f[x] <= f[y]
<1> DEFINE T == {f[x] : x \in S}
<1>1. T \subseteq Nat /\ T # {}
  OBVIOUS
<1>2. PICK t \in T : \A u \in T : <<u, t>> \notin OpToRel(<, Nat)
  BY <1>1, NatLessThanWellFounded, WFMin
<1>3. \A u \in T : ~(u < t)
  BY <1>1, <1>2 DEF OpToRel
<1>4. PICK x \in S : t = f[x]
  BY <1>2
<1>5. \A y \in S : ~(f[y] < f[x])
  BY <1>3, <1>4
<1> QED
  BY <1>5

LEMMA MaxVersionIs ==
  ASSUME Calendar, NEW S \in SUBSET Versions, S # {}
  PROVE  Max(S) \in S /\ \A v \in S : v <= Max(S)
<1> DEFINE f == [v \in Versions |-> v]
<1>1. \A v \in S : f[v] \in 0 .. MaxVersion
  BY DEF Calendar, Versions
<1>2. \E x \in S : \A y \in S : f[y] <= f[x]
  BY <1>1, Greatest DEF Calendar
<1>3. \E x \in S : \A y \in S : x >= y
  BY <1>2 DEF Versions, Calendar
<1>4. Max(S) \in S /\ \A y \in S : Max(S) >= y
  BY <1>3, Zenon DEF Max
<1> QED
  BY <1>4 DEF Versions, Calendar

(* The newest and the oldest of some versions, by the time they were made.     *)
LEMMA NewestIs ==
  ASSUME Calendar, Typed, NEW S \in SUBSET Versions, S # {}
  PROVE  Newest(S) \in S /\ \A w \in S : captures[w].made <= captures[Newest(S)].made
<1> DEFINE f == [v \in Versions |-> captures[v].made]
<1>1. \A v \in S : f[v] \in 0 .. MaxTime
  BY DEF Typed, Files
<1>2. \E x \in S : \A y \in S : f[y] <= f[x]
  BY <1>1, Greatest DEF Calendar
<1>3. \E x \in S : \A y \in S : captures[y].made <= captures[x].made
  BY <1>2
<1> QED
  BY <1>3, Zenon DEF Newest

LEMMA OldestIs ==
  ASSUME Calendar, Typed, NEW S \in SUBSET Versions, S # {}
  PROVE  \E x \in S : \A y \in S : captures[x].made <= captures[y].made
<1> DEFINE f == [v \in Versions |-> captures[v].made]
<1>1. \A v \in S : f[v] \in Nat
  BY DEF Typed, Files, Calendar
<1>2. \E x \in S : \A y \in S : f[x] <= f[y]
  BY <1>1, Least
<1> QED
  BY <1>2

(* Two times of one period are less than its length apart.                    *)
LEMMA SamePeriod ==
  ASSUME NEW a \in Nat, NEW b \in Nat, NEW len \in Nat \ {0},
         a <= b, a \div len = b \div len
  PROVE  b - a <= len - 1
OBVIOUS

(* The next version is above every version that can be read.                  *)
LEMMA NextIsNew ==
  ASSUME Calendar, Typed
  PROVE  /\ NextVersion(Scanned) \in Nat /\ NextVersion(Scanned) \notin Scanned
         /\ \A v \in Scanned : v <= NextVersion(Scanned)
<1>1. Scanned \subseteq Versions /\ Versions \subseteq Nat
  BY DEF Scanned, Versions
<1>2. CASE Scanned = {}
  BY <1>2 DEF NextVersion
<1>3. CASE Scanned # {}
<2>1. Max(Scanned) \in Scanned /\ \A v \in Scanned : v <= Max(Scanned)
  BY <1>1, <1>3, MaxVersionIs
<2>2. PICK m \in Nat : m = Max(Scanned)
  BY <1>1, <2>1
<2>3. NextVersion(Scanned) = m + 1
  BY <1>3, <2>2 DEF NextVersion
<2>4. \A v \in Scanned : v \in Nat /\ v <= m
  BY <1>1, <2>1, <2>2
<2>5. m + 1 \in Nat /\ m + 1 \notin Scanned /\ \A v \in Scanned : v <= m + 1
  BY <2>4
<2> QED
  BY <2>3, <2>5
<1> QED
  BY <1>2, <1>3

LEMMA TaskIs ==
  ASSUME Typed, NEW p \in Capturers \union Differs, NEW t \in Tasks, Moves(p, t)
  PROVE  /\ task' \in [Capturers \union Differs -> Tasks] /\ task'[p] = t
         /\ \A q \in (Capturers \union Differs) \ {p} : task'[q] = task[q]
BY DEF Typed, Moves

LEMMA TaskRests ==
  NoTask \in Tasks /\ NoTask.at = "idle"
BY DEF NoTask, Tasks

-----------------------------------------------------------------------------
(* What a step that changes no file keeps.                                   *)
LEMMA SameFiles ==
  ASSUME Calendar, SInv, UNCHANGED <<captures, now, watched>>
  PROVE  Chronological' /\ Descended' /\ Scanned' = Scanned
         /\ \A v \in Versions : Loadable(v)' = Loadable(v)
<1>1. Scanned' = Scanned /\ \A v \in Versions : Loadable(v)' = Loadable(v)
  BY DEF Scanned, Loadable
<1>2. Chronological'
  BY <1>1 DEF SInv, Chronological
<1>3. \A v : IsDated(v)' = IsDated(v)
  BY DEF IsDated
<1>4. \A v, d, e : Descends(v, d, e)' = Descends(v, d, e)
  BY <1>3 DEF Descends
<1>5. Descended'
  BY <1>4 DEF SInv, Descended
<1> QED
  BY <1>1, <1>2, <1>5

LEMMA ScanKeeps ==
  ASSUME Calendar, SInv, NEW p \in Capturers, Scan(p)
  PROVE  SInv'
<1> USE DEF Calendar, SInv
<1> DEFINE t == [NoTask EXCEPT !.at = "write", !.seen = Scanned, !.next = NextVersion(Scanned)]
<1>1. /\ t \in Tasks /\ t.at = "write" /\ t.seen = Scanned /\ t.next = NextVersion(Scanned)
      /\ t.next \in Versions /\ locked = "nobody"
<2>1. Scanned \in SUBSET Versions /\ NextVersion(Scanned) \in Nat
  BY NextIsNew DEF Scanned
<2> QED
  BY <2>1 DEF Scan, NoTask, Tasks
<1>2. /\ Moves(p, t) /\ locked' = p /\ UNCHANGED <<captures, now, watched, edits>>
  BY DEF Scan
<1> HIDE DEF t
<1>3. /\ task' \in [Capturers \union Differs -> Tasks] /\ task'[p] = t
      /\ \A q \in (Capturers \union Differs) \ {p} : task'[q] = task[q]
  BY <1>1, <1>2, TaskIs
<1>4. Chronological' /\ Descended' /\ Scanned' = Scanned
      /\ \A v \in Versions : Loadable(v)' = Loadable(v)
  BY <1>2, SameFiles
<1>5. NextVersion(Scanned)' = NextVersion(Scanned)
  BY <1>4 DEF NextVersion
<1>6. Typed'
  BY <1>2, <1>3 DEF Typed
<1>7. Holding'
  BY <1>1, <1>2, <1>3, <1>4, <1>5 DEF Holding, Stands
<1>8. Comparing'
  BY <1>2, <1>3, <1>4 DEF Comparing, Stands
<1> QED
  BY <1>4, <1>6, <1>7, <1>8

LEMMA DieKeeps ==
  ASSUME Calendar, SInv, NEW p \in Capturers, Die(p)
  PROVE  SInv'
<1> USE DEF Calendar, SInv
<1>1. /\ task' \in [Capturers \union Differs -> Tasks] /\ task'[p] = NoTask
      /\ \A q \in (Capturers \union Differs) \ {p} : task'[q] = task[q]
  BY TaskIs, TaskRests DEF Die
<1>2. /\ locked = p /\ locked' = "nobody" /\ UNCHANGED <<captures, now, watched, edits>>
  BY DEF Die, Holding
<1>3. Chronological' /\ Descended' /\ Scanned' = Scanned
      /\ \A v \in Versions : Loadable(v)' = Loadable(v)
  BY <1>2, SameFiles
<1>4. Typed'
  BY <1>1, <1>2 DEF Typed
<1>5. Holding'
  BY <1>1, <1>2, TaskRests DEF Holding, Stands
<1>6. Comparing'
  BY <1>1, <1>2, <1>3 DEF Comparing, Stands
<1> QED
  BY <1>3, <1>4, <1>5, <1>6

LEMMA ResolveKeeps ==
  ASSUME Calendar, SInv, NEW d \in Differs, NEW n \in Lookbacks, Resolve(d, n)
  PROVE  SInv'
<1> USE DEF Calendar, SInv
<1>1. Scanned \in SUBSET Versions /\ Scanned # {}
  BY DEF Scanned, Resolve
<1>2. Max(Scanned) \in Scanned /\ \A v \in Scanned : v <= Max(Scanned)
  BY <1>1, MaxVersionIs
<1>3. Baseline(Scanned, n) \in Scanned
<2>1. CASE n = Previous
<3>1. Cardinality(Scanned) >= 2 /\ Baseline(Scanned, n) = Max(Scanned \ {Max(Scanned)})
<4>1. IsFiniteSet(Versions)
  BY FS_Interval DEF Versions
<4>2. IsFiniteSet(Scanned)
  BY <1>1, <4>1, FS_Subset
<4>3. Cardinality(Scanned) \in Nat
  BY <4>2, FS_CardinalityType
<4> QED
  BY <2>1, <4>3 DEF Baseline, Resolve
<3>2. Scanned \ {Max(Scanned)} # {}
<4>1. SUFFICES ASSUME Scanned = {Max(Scanned)} PROVE FALSE
  BY <1>2
<4>2. Cardinality({Max(Scanned)}) = 1
  BY FS_Singleton
<4> QED
  BY <3>1, <4>1, <4>2
<3> QED
  BY <1>1, <3>1, <3>2, MaxVersionIs
<2>2. CASE n # Previous
<3>1. PICK target : Baseline(Scanned, n) = NearestAtOrBefore(Scanned, target)
                    /\ \E v \in Scanned : IsDated(v)
  BY <2>2 DEF Baseline, Resolve
<3> DEFINE dated == {v \in Scanned : IsDated(v)}
           before == {v \in dated : captures[v].made <= target}
<3>2. CASE before # {}
<4>1. Newest(before) \in before
  BY <1>1, <3>2, NewestIs
<4> QED
  BY <3>1, <3>2, <4>1 DEF NearestAtOrBefore
<3>3. CASE before = {}
<4>1. \E x \in dated : \A y \in dated : captures[x].made <= captures[y].made
  BY <1>1, <3>1, OldestIs
<4>2. (CHOOSE v \in dated : \A w \in dated : captures[v].made <= captures[w].made) \in dated
  BY <4>1
<4>3. Baseline(Scanned, n)
        = (CHOOSE v \in dated : \A w \in dated : captures[v].made <= captures[w].made)
  BY <3>1, <3>3 DEF NearestAtOrBefore
<4> QED
  BY <4>2, <4>3
<3> QED
  BY <3>2, <3>3
<2> QED
  BY <2>1, <2>2
<1> DEFINE t == [NoTask EXCEPT !.at = "baseline", !.base = Baseline(Scanned, n),
                               !.last = Max(Scanned)]
<1>4. /\ t \in Tasks /\ t.at = "baseline" /\ t.base = Baseline(Scanned, n)
      /\ t.last = Max(Scanned)
<2>1. Baseline(Scanned, n) \in Nat /\ Max(Scanned) \in Nat
<3>1. Versions \subseteq Nat
  BY DEF Versions
<3> QED
  BY <1>1, <1>2, <1>3, <3>1
<2> QED
  BY <2>1 DEF NoTask, Tasks
<1>5. /\ Moves(d, t) /\ UNCHANGED <<captures, now, watched, edits, locked>>
  BY DEF Resolve
<1> HIDE DEF t
<1>6. /\ task' \in [Capturers \union Differs -> Tasks] /\ task'[d] = t
      /\ \A q \in (Capturers \union Differs) \ {d} : task'[q] = task[q]
  BY <1>4, <1>5, TaskIs
<1>7. Chronological' /\ Descended' /\ Scanned' = Scanned
      /\ \A v \in Versions : Loadable(v)' = Loadable(v)
  BY <1>5, SameFiles
<1>8. Typed'
  BY <1>5, <1>6 DEF Typed
<1>9. Holding'
<2>1. NextVersion(Scanned)' = NextVersion(Scanned)
  BY <1>7 DEF NextVersion
<2> QED
  BY <1>5, <1>6, <1>7, <2>1 DEF Holding, Stands
<1>10. Comparing'
  BY <1>1, <1>2, <1>3, <1>4, <1>5, <1>6, <1>7 DEF Comparing, Stands
<1> QED
  BY <1>7, <1>8, <1>9, <1>10

LEMMA LoadBaselineKeeps ==
  ASSUME Calendar, SInv, NEW d \in Differs, LoadBaseline(d)
  PROVE  SInv'
<1> USE DEF Calendar, SInv
<1>1. PICK t \in Tasks :
        /\ Moves(d, t)
        /\ \/ t.at = "idle"
           \/ /\ t.at = "latest" /\ t.last = task[d].last
              /\ t.from = captures[task[d].base].made /\ Loadable(task[d].base)
<2>1. task[d] \in Tasks /\ task[d].base \in Versions
  BY DEF Typed, LoadBaseline, Comparing
<2>2. captures[task[d].base].made \in Nat
  BY <2>1 DEF Typed, Files
<2> DEFINE t == [task[d] EXCEPT !.at = "latest", !.from = captures[task[d].base].made]
<2>3. /\ t \in Tasks /\ t.at = "latest" /\ t.last = task[d].last
      /\ t.from = captures[task[d].base].made
  BY <2>1, <2>2 DEF Tasks
<2>4. Moves(d, IF Loadable(task[d].base) THEN t ELSE NoTask)
  BY DEF LoadBaseline
<2> HIDE DEF t
<2> QED
  BY <2>3, <2>4, TaskRests
<1>2. UNCHANGED <<captures, now, watched, edits, locked>>
  BY DEF LoadBaseline
<1>3. /\ task' \in [Capturers \union Differs -> Tasks] /\ task'[d] = t
      /\ \A q \in (Capturers \union Differs) \ {d} : task'[q] = task[q]
  BY <1>1, TaskIs
<1>4. Chronological' /\ Descended' /\ Scanned' = Scanned
      /\ \A v \in Versions : Loadable(v)' = Loadable(v)
  BY <1>2, SameFiles
<1>5. Typed'
  BY <1>2, <1>3 DEF Typed
<1>6. Holding'
<2>1. NextVersion(Scanned)' = NextVersion(Scanned)
  BY <1>4 DEF NextVersion
<2> QED
  BY <1>2, <1>3, <1>4, <2>1 DEF Holding, Stands
<1>7. Comparing'
<2>1. /\ task[d].base \in Versions /\ task[d].last \in Versions
      /\ task[d].base <= task[d].last
  BY DEF Comparing, LoadBaseline
<2>2. t.at = "latest" =>
        /\ t.last \in Versions /\ t.from <= now
        /\ Loadable(t.last) => t.from <= captures[t.last].made
  BY <1>1, <2>1 DEF Chronological
<2> QED
  BY <1>1, <1>2, <1>3, <1>4, <2>2 DEF Comparing, Stands
<1> QED
  BY <1>4, <1>5, <1>6, <1>7

LEMMA LoadLatestKeeps ==
  ASSUME Calendar, SInv, NEW d \in Differs, LoadLatest(d)
  PROVE  SInv'
<1> USE DEF Calendar, SInv
<1>1. UNCHANGED <<captures, now, watched, edits, locked>>
  BY DEF LoadLatest
<1>2. /\ task' \in [Capturers \union Differs -> Tasks] /\ task'[d] = NoTask
      /\ \A q \in (Capturers \union Differs) \ {d} : task'[q] = task[q]
  BY TaskIs, TaskRests DEF LoadLatest
<1>3. Chronological' /\ Descended' /\ Scanned' = Scanned
      /\ \A v \in Versions : Loadable(v)' = Loadable(v)
  BY <1>1, SameFiles
<1>4. Typed'
  BY <1>1, <1>2 DEF Typed
<1>5. Holding'
<2>1. NextVersion(Scanned)' = NextVersion(Scanned)
  BY <1>3 DEF NextVersion
<2> QED
  BY <1>1, <1>2, <1>3, <2>1 DEF Holding, Stands
<1>6. Comparing'
  BY <1>1, <1>2, <1>3, TaskRests DEF Comparing, Stands
<1> QED
  BY <1>3, <1>4, <1>5, <1>6

LEMMA WriteKeeps ==
  ASSUME Calendar, SInv, NEW p \in Capturers, Write(p)
  PROVE  SInv' /\ task[p].next \notin Scanned
<1> USE DEF Calendar, SInv
<1>0. PICK n \in Versions : n = task[p].next
  BY DEF Holding, Write
<1> DEFINE new == [made |-> now, kind |-> "dated"]
<1>1. /\ n \notin Scanned /\ task[p].seen = Scanned
      /\ \A v \in Scanned : v <= n
  BY <1>0, NextIsNew DEF Holding, Write
<1>2. /\ captures' = [captures EXCEPT ![n] = new] /\ new \in Files
      /\ UNCHANGED <<now, locked, edits>> /\ locked = p
      /\ watched' \in IF watched = 0 THEN {0, now} ELSE {watched}
  BY <1>0 DEF Write, Typed, Files, Holding, Stands
<1>3. /\ task' \in [Capturers \union Differs -> Tasks] /\ task'[p].at = "prune"
      /\ task'[p].seen = Scanned /\ task'[p].next = n
      /\ \A q \in (Capturers \union Differs) \ {p} : task'[q] = task[q]
<2> DEFINE t == [task[p] EXCEPT !.at = "prune"]
<2>1. t \in Tasks /\ t.at = "prune" /\ t.seen = task[p].seen /\ t.next = n
<3>1. task[p] \in Tasks
  BY DEF Typed
<3> QED
  BY <1>0, <3>1 DEF Tasks
<2>2. Moves(p, t)
  BY DEF Write
<2> HIDE DEF t
<2> QED
  BY <1>1, <2>1, <2>2, TaskIs
<1> HIDE DEF new
<1>4. /\ captures'[n].made = now /\ captures'[n].kind = "dated"
      /\ \A v \in Versions \ {n} : captures'[v] = captures[v]
      /\ captures' \in [Versions -> Files] /\ now \in 1 .. MaxTime
  BY <1>1, <1>2 DEF Typed, new
<1>5. /\ Scanned' = Scanned \union {n}
      /\ \A v \in Versions : Loadable(v) <=> v \in Scanned
      /\ \A v \in Versions : Loadable(v)' <=> v \in Scanned \union {n}
  BY <1>1, <1>4 DEF Scanned, Loadable
<1>6. Typed'
  BY <1>2, <1>3, <1>4 DEF Typed
<1>7. Chronological'
<2>1. \A v \in Versions : captures'[v].made <= now
  BY <1>4 DEF Chronological, Typed, Files
<2>2. ASSUME NEW v \in Versions, NEW w \in Versions, Loadable(v)', Loadable(w)', v <= w
      PROVE  captures'[v].made <= captures'[w].made
<3>1. CASE w = n
  BY <1>4, <2>1, <3>1
<3>2. CASE v = n /\ w # n
  BY <1>1, <1>5, <2>2, <3>2 DEF Versions
<3>3. CASE v # n /\ w # n
  BY <1>4, <1>5, <2>2, <3>3 DEF Chronological
<3> QED
  BY <3>1, <3>2, <3>3
<2> QED
  BY <1>2, <2>1, <2>2 DEF Chronological
<1>8. Holding'
<2>1. \A q \in Capturers \ {p} : task[q].at = "idle" /\ task'[q] = task[q]
  BY <1>2, <1>3 DEF Holding
<2> QED
  BY <1>2, <1>3, <1>5, <2>1 DEF Holding, Stands
<1>9. Comparing'
<2>1. ASSUME NEW d \in Differs
      PROVE  task'[d] = task[d]
  BY <1>3
<2>2. ASSUME NEW d \in Differs, Stands(d, "latest"),
             NEW m \in Versions, m = task[d].last, Loadable(m)'
      PROVE  task[d].from <= captures'[m].made
<3>1. CASE m = n
  BY <1>4, <2>2, <3>1 DEF Comparing
<3>2. CASE m # n
  BY <1>4, <1>5, <2>2, <3>2 DEF Comparing
<3> QED
  BY <3>1, <3>2
<2> QED
  BY <1>2, <2>1, <2>2 DEF Comparing, Stands
<1>10. Descended'
<2>1. CASE watched' = watched
<3>1. SUFFICES ASSUME watched # 0
               PROVE  \E v \in Versions : \E d, e \in Nat : Descends(v, d, e)'
  BY <2>1 DEF Descended
<3>2. PICK v \in Versions, d \in Nat, e \in Nat : Descends(v, d, e)
  BY <3>1 DEF Descended
<3>3. v # n
  BY <1>1, <3>2 DEF Descends, IsDated, Scanned
<3>4. Descends(v, d, e)'
  BY <1>2, <1>4, <2>1, <3>2, <3>3 DEF Descends, IsDated
<3> QED
  BY <3>4
<2>2. CASE watched' = now
<3>1. Descends(n, now, now)'
  BY <1>2, <1>4, <2>2 DEF Descends, IsDated
<3>2. now \in Nat /\ now' = now
  BY <1>2, <1>4
<3> QED
  BY <3>1, <3>2 DEF Descended
<2> QED
  BY <1>2, <2>1, <2>2
<1> QED
  BY <1>0, <1>1, <1>6, <1>7, <1>8, <1>9, <1>10

(* Where the record went when pruning took its version: to the newest of the    *)
(* same period, which the same rule thins.                                  *)
LEMMA ThinnedDescends ==
  ASSUME Calendar, Typed, Chronological,
         NEW v \in Scanned, v \notin Kept(Scanned),
         NEW d \in Nat, NEW e \in Nat, Descends(v, d, e)
  PROVE  \E u \in Versions \cap Kept(Scanned) : \E c, f \in Nat : Descends(u, c, f)
<1> USE DEF Calendar
<1> DEFINE dated == {w \in Scanned : IsDated(w)}
           always == {w \in Scanned : ~IsDated(w)} \union {Max(Scanned), Max(dated)}
                       \union {w \in dated : Age(w) <= KeepAll}
           thinned == dated \ always
           bucketOf(x) == {w \in thinned : Bucket(w) = Bucket(x)}
<1>1. Scanned \subseteq Versions
  BY DEF Scanned
<1>2. Kept(Scanned) = always \union {Newest(bucketOf(x)) : x \in thinned}
  BY DEF Kept
<1>3. v \in thinned
  BY <1>2 DEF Descends
<1> DEFINE u == Newest(bucketOf(v))
<1>4. u \in bucketOf(v) /\ captures[v].made <= captures[u].made
  BY <1>1, <1>3, NewestIs
<1>5. u \in Kept(Scanned) /\ u \in Versions /\ IsDated(u) /\ Bucket(u) = Bucket(v)
      /\ ~(Age(u) <= KeepAll)
  BY <1>1, <1>2, <1>3, <1>4
<1> HIDE DEF u, dated, always, thinned, bucketOf
<1> DEFINE a == captures[v].made
           b == captures[u].made
<1>6. a \in Nat /\ b \in Nat /\ now \in Nat /\ a <= b /\ b <= now /\ watched \in Nat
  BY <1>1, <1>4, <1>5 DEF Typed, Files, Chronological
<1>7. /\ Rule(u) = Rule(v) /\ b \div Length(Rule(u)) = a \div Length(Rule(u))
      /\ now - b > KeepAll
  BY <1>5, <1>6 DEF Bucket, Age
<1>8. /\ watched <= d /\ d <= e /\ e <= a
      /\ watched \div DayLen = d \div DayLen /\ (d # watched => now - d > KeepAll)
      /\ d \div WeekLen = e \div WeekLen /\ (e # d => now - e > Daily)
      /\ e \div MonthLen = a \div MonthLen /\ (a # e => now - a > Weekly)
  BY DEF Descends
<1>9. CASE Rule(v) = "day"
<2>1. now - a <= Daily /\ b \div DayLen = a \div DayLen
  BY <1>7, <1>9 DEF Rule, Length, Age
<2>2. a = e /\ e = d
  BY <1>6, <1>8, <2>1
<2>3. watched <= b /\ watched \div DayLen = b \div DayLen
  BY <1>6, <1>8, <2>1, <2>2
<2>4. b = captures[u].made /\ b <= b
  BY <1>6
<2> HIDE DEF b
<2>5. Descends(u, b, b)
  BY <1>5, <1>7, <2>3, <2>4 DEF Descends
<2> QED
  BY <1>5, <1>6, <2>5
<1>10. CASE Rule(v) = "week"
<2>1. now - a <= Weekly /\ b \div WeekLen = a \div WeekLen /\ now - b > Daily
  BY <1>6, <1>7, <1>10 DEF Rule, Length, Age
<2>2. a = e
  BY <1>6, <1>8, <2>1
<2>3. Descends(u, d, b)
  BY <1>5, <1>6, <1>7, <1>8, <2>1, <2>2 DEF Descends
<2> QED
  BY <1>5, <1>6, <2>3
<1>11. CASE Rule(v) = "month"
<2>1. b \div MonthLen = a \div MonthLen /\ now - b > Weekly
  BY <1>6, <1>7, <1>11 DEF Rule, Length, Age
<2>2. Descends(u, d, e)
  BY <1>5, <1>6, <1>7, <1>8, <2>1 DEF Descends
<2> QED
  BY <1>5, <2>2
<1> QED
  BY <1>9, <1>10, <1>11 DEF Rule

LEMMA PruneKeeps ==
  ASSUME Calendar, SInv, NEW p \in Capturers, Prune(p)
  PROVE  SInv'
<1> USE DEF Calendar, SInv
<1> DEFINE gone == Scanned \ Kept(Scanned)
<1>1. /\ captures' = [v \in Versions |-> IF v \in gone THEN NoFile ELSE captures[v]]
      /\ locked = p /\ locked' = "nobody" /\ UNCHANGED <<now, watched, edits>>
  BY DEF Prune, Holding, Stands
<1>2. /\ task' \in [Capturers \union Differs -> Tasks] /\ task'[p] = NoTask
      /\ \A q \in (Capturers \union Differs) \ {p} : task'[q] = task[q]
  BY TaskIs, TaskRests DEF Prune
<1>3. /\ \A v \in Versions : captures'[v] = captures[v] \/ captures'[v] = NoFile
      /\ \A v \in Versions : Loadable(v)' => captures'[v] = captures[v] /\ Loadable(v)
      /\ captures' \in [Versions -> Files]
  BY <1>1 DEF Loadable, NoFile, Files, Typed
<1>4. Typed'
  BY <1>1, <1>2, <1>3 DEF Typed
<1>5. Chronological'
<2>1. \A v \in Versions : captures'[v].made <= now'
  BY <1>1, <1>3 DEF Chronological, NoFile, Typed
<2> QED
  BY <1>3, <2>1 DEF Chronological
<1>6. Holding'
<2>1. \A q \in Capturers \ {p} : task[q].at = "idle" /\ task'[q] = task[q]
  BY <1>1, <1>2 DEF Holding
<2> QED
  BY <1>1, <1>2, <2>1, TaskRests DEF Holding, Stands
<1>7. Comparing'
  BY <1>1, <1>2, <1>3 DEF Comparing, Stands
<1>8. Descended'
<2>1. SUFFICES ASSUME watched # 0
               PROVE  \E v \in Versions : \E d, e \in Nat : Descends(v, d, e)'
  BY <1>1 DEF Descended
<2>2. PICK v \in Versions, d \in Nat, e \in Nat : Descends(v, d, e)
  BY <2>1 DEF Descended
<2>3. PICK u \in Versions \ gone, c \in Nat, f \in Nat : Descends(u, c, f)
<3>1. v \in Scanned
  BY <2>2 DEF Descends, IsDated, Scanned
<3>2. CASE v \in Kept(Scanned)
  BY <2>2, <3>2
<3>3. CASE v \notin Kept(Scanned)
  BY <2>2, <3>1, <3>3, ThinnedDescends
<3> QED
  BY <3>2, <3>3
<2>4. captures'[u] = captures[u]
  BY <1>1
<2>5. Descends(u, c, f)'
  BY <1>1, <2>3, <2>4 DEF Descends, IsDated
<2> QED
  BY <2>5
<1> QED
  BY <1>4, <1>5, <1>6, <1>7, <1>8

LEMMA TickKeeps ==
  ASSUME Calendar, SInv, Tick
  PROVE  SInv'
<1> USE DEF Calendar, SInv
<1>1. /\ now' = now + 1 /\ now' \in 1 .. MaxTime /\ now \in Nat
      /\ UNCHANGED <<captures, locked, task, watched, edits>>
  BY DEF Tick, Typed
<1>2. Scanned' = Scanned /\ \A v \in Versions : Loadable(v)' = Loadable(v)
  BY <1>1 DEF Scanned, Loadable
<1>3. Typed'
  BY <1>1 DEF Typed
<1>4. Chronological'
  BY <1>1, <1>2 DEF Chronological, Typed, Files
<1>5. Holding'
<2>1. NextVersion(Scanned)' = NextVersion(Scanned)
  BY <1>2 DEF NextVersion
<2> QED
  BY <1>1, <1>2, <2>1 DEF Holding, Stands
<1>6. Comparing'
<2>1. \A d \in Differs : task[d].from \in Nat
  BY DEF Typed, Tasks
<2> QED
  BY <1>1, <1>2, <2>1 DEF Comparing, Stands
<1>7. Descended'
<2>1. \A v \in Versions : captures[v].made \in Nat
  BY DEF Typed, Files
<2>2. \A v \in Versions : \A d, e \in Nat : Descends(v, d, e) => Descends(v, d, e)'
  BY <1>1, <2>1 DEF Descends, IsDated
<2> QED
  BY <1>1, <2>2 DEF Descended
<1> QED
  BY <1>3, <1>4, <1>5, <1>6, <1>7

LEMMA DamageKeeps ==
  ASSUME Calendar, SInv, NEW v \in Versions, Damage(v)
  PROVE  SInv' /\ \A w \in Versions : captures'[w].made = captures[w].made
<1> USE DEF Calendar, SInv
<1>1. /\ locked = "nobody" /\ watched' = 0 /\ edits' \in 0 .. MaxEdits
      /\ UNCHANGED <<now, locked, task>>
  BY DEF Damage, Typed
<1>2. /\ captures' \in [Versions -> Files]
      /\ \A w \in Versions : captures'[w].made = captures[w].made
      /\ \A w \in Versions : Loadable(w)' => Loadable(w)
<2>1. PICK kind \in {"undated", "broken"} : captures' = [captures EXCEPT ![v].kind = kind]
  BY DEF Damage
<2>2. captures[v] \in Files /\ captures[v].kind = "dated"
  BY DEF Typed, Damage
<2> DEFINE x == [captures[v] EXCEPT !.kind = kind]
<2>3. x \in Files /\ x.made = captures[v].made
  BY <2>2 DEF Files
<2>4. captures' = [captures EXCEPT ![v] = x]
  BY <2>1
<2> HIDE DEF x
<2> QED
  BY <2>2, <2>3, <2>4 DEF Typed, Loadable
<1>3. Typed'
  BY <1>1, <1>2 DEF Typed
<1>4. Chronological'
  BY <1>1, <1>2 DEF Chronological
<1>5. Holding'
  BY <1>1 DEF Holding, Stands
<1>6. Comparing'
  BY <1>1, <1>2 DEF Comparing, Stands
<1>7. Descended'
  BY <1>1 DEF Descended
<1> QED
  BY <1>2, <1>3, <1>4, <1>5, <1>6, <1>7

-----------------------------------------------------------------------------
(* Every behaviour.                                                         *)

LEMMA SInitKeeps ==
  ASSUME Calendar, SInit
  PROVE  SInv
<1> USE DEF Calendar, SInit
<1>1. Typed
  BY TaskRests DEF Typed, NoFile, Files
<1>2. Chronological /\ Descended
  BY DEF Chronological, NoFile, Descended
<1>3. Holding /\ Comparing
  BY TaskRests DEF Holding, Comparing, Stands
<1> QED
  BY <1>1, <1>2, <1>3 DEF SInv

LEMMA SNextKeeps ==
  ASSUME Calendar, SInv, [SNext]_svars
  PROVE  SInv'
<1>1. CASE UNCHANGED svars
<2>1. Chronological' /\ Descended' /\ Scanned' = Scanned
      /\ \A v \in Versions : Loadable(v)' = Loadable(v)
  BY <1>1, SameFiles DEF svars
<2>2. NextVersion(Scanned)' = NextVersion(Scanned)
  BY <2>1 DEF NextVersion
<2> QED
  BY <1>1, <2>1, <2>2 DEF svars, SInv, Typed, Holding, Comparing, Stands
<1> QED
  BY <1>1, ScanKeeps, WriteKeeps, PruneKeeps, DieKeeps, ResolveKeeps, LoadBaselineKeeps,
     LoadLatestKeeps, TickKeeps, DamageKeeps DEF SNext

(* How far the survivor is from the record it stands for.                     *)
LEMMA DescendantIsNear ==
  ASSUME Calendar, Typed, Chronological,
         NEW v \in Versions, NEW d \in Nat, NEW e \in Nat, Descends(v, d, e)
  PROVE  captures[v].made \in watched .. watched + Slack(now - watched)
<1> USE DEF Calendar
<1> DEFINE a == captures[v].made
<1>1. a \in Nat /\ a <= now /\ now \in Nat /\ watched \in Nat
  BY DEF Typed, Files, Chronological
<1>2. /\ watched <= d /\ d <= e /\ e <= a
      /\ watched \div DayLen = d \div DayLen /\ (d # watched => now - d > KeepAll)
      /\ d \div WeekLen = e \div WeekLen /\ (e # d => now - e > Daily)
      /\ e \div MonthLen = a \div MonthLen /\ (a # e => now - a > Weekly)
  BY DEF Descends
<1> HIDE DEF a
<1>3. /\ d - watched <= DayLen - 1 /\ e - d <= WeekLen - 1 /\ a - e <= MonthLen - 1
  BY <1>1, <1>2, SamePeriod
<1>4. /\ d - watched <= IF now - watched > KeepAll THEN DayLen - 1 ELSE 0
      /\ e - d <= IF now - watched > Daily THEN WeekLen - 1 ELSE 0
      /\ a - e <= IF now - watched > Weekly THEN MonthLen - 1 ELSE 0
  BY <1>1, <1>2, <1>3
<1>5. Slack(now - watched) \in Nat /\ a - watched <= Slack(now - watched)
  BY <1>1, <1>2, <1>4 DEF Slack
<1>6. a \in watched .. watched + Slack(now - watched)
  BY <1>1, <1>2, <1>5
<1> QED
  BY <1>6 DEF a

LEMMA NothingReadableReplaced ==
  ASSUME Calendar, SInv, [SNext]_svars
  PROVE  [\A v \in Versions : captures[v].kind \in {"dated", "undated"} =>
            captures'[v] = NoFile \/ captures'[v].made = captures[v].made]_svars
<1>1. SUFFICES ASSUME SNext, NEW v \in Versions, v \in Scanned
               PROVE  captures'[v] = NoFile \/ captures'[v].made = captures[v].made
  BY DEF Scanned
<1>2. ASSUME NEW p \in Capturers, Write(p)
      PROVE  captures'[v] = captures[v]
  BY <1>1, <1>2, WriteKeeps DEF Write, SInv, Typed
<1>3. ASSUME NEW p \in Capturers, Prune(p)
      PROVE  captures'[v] \in {NoFile, captures[v]}
  BY <1>3 DEF Prune
<1>4. ASSUME NEW w \in Versions, Damage(w)
      PROVE  captures'[v].made = captures[v].made
  BY <1>4, DamageKeeps
<1>5. CASE UNCHANGED captures
  BY <1>5
<1> QED
  BY <1>1, <1>2, <1>3, <1>4, <1>5
  DEF SNext, Scan, Die, Resolve, LoadBaseline, LoadLatest, Tick

(* CapturesStand, for any calendar, any number of captures and diffs, and any   *)
(* hand that damages files: a capture takes no readable file's number, near     *)
(* every capture one survives, and a diff looks back.                        *)
THEOREM SnapshotsStand ==
  ASSUME Calendar
  PROVE  SSpec => CapturesStand
<1>1. SInit => SInv
  BY SInitKeeps
<1>2. SInv /\ [SNext]_svars => SInv'
  BY SNextKeeps
<1>3. SInv => NearbySurvivor
<2>1. SUFFICES ASSUME SInv, watched # 0 PROVE NearbySurvivor
  BY DEF NearbySurvivor
<2>2. PICK v \in Versions, d \in Nat, e \in Nat : Descends(v, d, e)
  BY <2>1 DEF SInv, Descended
<2> QED
  BY <2>1, <2>2, DescendantIsNear DEF SInv, NearbySurvivor, Descends, IsDated
<1>4. SInv => DiffLooksBack
  BY DEF SInv, Comparing, DiffLooksBack
<1>5. SInv /\ [SNext]_svars =>
        [\A v \in Versions : captures[v].kind \in {"dated", "undated"} =>
           captures'[v] = NoFile \/ captures'[v].made = captures[v].made]_svars
  BY NothingReadableReplaced
<1> QED
  BY <1>1, <1>2, <1>3, <1>4, <1>5, PTL DEF SSpec, CapturesStand, NoCaptureReplaced

(* Types of the captures, the clock, the lock and the tasks.                  *)
THEOREM SnapshotTypes ==
  ASSUME Calendar
  PROVE  SSpec => []STypeOK
<1>1. SInit => SInv
  BY SInitKeeps
<1>2. SInv /\ [SNext]_svars => SInv'
  BY SNextKeeps
<1>3. SInv => STypeOK
  BY DEF SInv, Typed, Holding, STypeOK
<1> QED
  BY <1>1, <1>2, <1>3, PTL DEF SSpec

=============================================================================
