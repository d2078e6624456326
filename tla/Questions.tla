------------------------------ MODULE Questions ------------------------------
(***************************************************************************)
(* The open-questions file (nauro_core/questions.py): what the commands of   *)
(* two machines do to its lines, and the union that joins two copies both    *)
(* of which changed (sync/merge.py).                                       *)
(*                                                                         *)
(* A file is a sequence of lines. A writer holds the store's lock for the    *)
(* whole of its command, and so does a sync; only a proposal, which first     *)
(* writes its decision and then stamps the questions it resolves, can be cut  *)
(* short in between, and only hands edit the file without the lock.          *)
(***************************************************************************)
EXTENDS Integers, Sequences, SequencesExt

CONSTANTS
  Machines,
  Starts,        \* the files a history may start from
  MaxChanges     \* bound: commands run and lines added by hand

(***************************************************************************)
(* Lines. An entry has an id: its number, or for a legacy entry a time, kept  *)
(* here as a negative number. "more" is an indented line; "prose" is any      *)
(* other line that is no header, a `### ` topic and an unreadable entry among *)
(* them; "divider" is the first `## ` header that names "resolved".           *)
(***************************************************************************)
Kinds == {"title", "blank", "entry", "more", "prose", "divider", "section"}
Line(k, x) == [kind |-> k, id |-> 0, by |-> 0, text |-> x]
Entry(n, x) == [kind |-> "entry", id |-> n, by |-> 0, text |-> x]
Blank == Line("blank", 0)
TitleLine == Line("title", 0)
Divider == Line("divider", 0)
Nobody == [at |-> "idle", by |-> 0, ids |-> {}]

VARIABLES
  file,      \* open-questions.md on each machine
  touched,   \* it changed since it last met the server's
  met,       \* the server's version it last met
  server,    \* the file on the server
  version,   \* how often that was replaced
  job,       \* the proposal under way on each machine
  written,   \* how many decisions are written
  changes,   \* how many commands were run and lines added by hand
  joined     \* history: some machine joined two changed copies

sync == <<touched, met, server, version>>
qvars == <<file, sync, job, written, changes, joined>>

-----------------------------------------------------------------------------
(* Reading.                                                                *)
Is(f, i, ks) == i \in DOMAIN f /\ f[i].kind \in ks
EntriesAt(f) == {i \in DOMAIN f : f[i].kind = "entry"}
IdsOf(f) == {f[i].id : i \in EntriesAt(f)}
Headers == {"divider", "section"}

(* The last line of the block an entry opens: the indented lines are its own. *)
BlockEnd(f, i) == CHOOSE j \in i .. Len(f) :
  /\ \A m \in i + 1 .. j : f[m].kind = "more"
  /\ ~Is(f, j + 1, {"more"})

(* Parsing drops what blank lines open the file and gives it a title.         *)
Reformat(f) ==
  LET first == SelectInSeq(f, LAMBDA l : l.kind # "blank")
      rest == IF first = 0 THEN <<>> ELSE SubSeq(f, first, Len(f))
  IN IF rest # <<>> /\ Head(rest).kind = "title" THEN rest ELSE <<TitleLine>> \o rest

DividerAt(f) == SelectInSeq(f, LAMBDA l : l.kind = "divider")
Ambiguous(f) == {n \in IdsOf(f) : \E i, j \in EntriesAt(f) : i # j /\ f[i].id = n /\ f[j].id = n}
Allocate(f) == Max({n \in IdsOf(f) : n > 0} \union {0}) + 1

(* A question is asked below the title and the blank lines after it; in a    *)
(* file without a title, below its first line.                              *)
Insert(f, entry) ==
  LET title == SelectInSeq(f, LAMBDA l : l.kind = "title")
      from == IF title = 0 THEN 2 ELSE title + 1
      text == SelectInSubSeq(f, from, Len(f), LAMBDA l : l.kind # "blank")
  IN InsertAt(f, IF text = 0 THEN Len(f) + 1 ELSE text, entry)

-----------------------------------------------------------------------------
(* Resolving: stamp the entries named, then move below the divider each       *)
(* resolved entry that no paragraph follows.                                 *)
Stamp(f, ids, d) ==
  LET open == {i \in EntriesAt(f) : f[i].id \in ids /\ f[i].by = 0}
      stamped == [i \in DOMAIN f |-> IF i \in open THEN [f[i] EXCEPT !.by = d] ELSE f[i]]
  IN IF ids \intersect Ambiguous(f) # {} THEN f
     ELSE IF DividerAt(f) = 0 /\ open # {} THEN stamped \o <<Blank, Divider>>
     ELSE stamped

(* The blank lines that follow an entry, and whether only they do.            *)
BlanksAfter(f, i) == {j \in BlockEnd(f, i) + 1 .. Len(f) :
  \A m \in BlockEnd(f, i) + 1 .. j : f[m].kind = "blank"}
(* Mutant: what follows an entry is not looked at.                            *)
EveryBlockSafe(f, i) == i \in EntriesAt(f)
ProseSafe(f, i) ==
  LET next == BlockEnd(f, i) + 1 + Cardinality(BlanksAfter(f, i))
  IN next > Len(f) \/ Is(f, next, {"entry"} \union Headers)

Movable(f) == {i \in EntriesAt(f) :
  /\ f[i].by # 0 /\ ProseSafe(f, i)
  /\ DividerAt(f) = 0 \/ i < DividerAt(f)}

Ordered(is) == [k \in 1 .. Cardinality(is) |->
  CHOOSE i \in is : Cardinality({j \in is : j < i}) = k - 1]
Lines(f, is) == [k \in DOMAIN Ordered(is) |-> f[Ordered(is)[k]]]
Block(f, i) == Lines(f, i .. BlockEnd(f, i))

Normalize(f) ==
  LET moved == Ordered(Movable(f))
      gone == UNION {(i .. BlockEnd(f, i)) \union BlanksAfter(f, i) : i \in Movable(f)}
      kept == Lines(f, DOMAIN f \ gone)
      placed == FlattenSeq([k \in DOMAIN moved |-> <<Blank>> \o Block(f, moved[k])])
      below == DividerAt(kept) + 1
      header == SelectInSubSeq(kept, below, Len(kept), LAMBDA l : l.kind \in Headers)
      at == IF header = 0 THEN Len(kept) ELSE header - 1
  IN IF moved = <<>> THEN f
     ELSE IF DividerAt(f) = 0 THEN kept \o <<Blank, Divider>> \o placed
     ELSE SubSeq(kept, 1, at) \o placed \o SubSeq(kept, at + 1, Len(kept))

ResolveContent(f, ids, d) == Normalize(Stamp(Reformat(f), ids, d))

(* Legacy entries take the next numbers, in the order of the file.            *)
Legacy(f) == {i \in EntriesAt(f) : f[i].id < 0}
Migrated(f) == [i \in DOMAIN f |->
  IF i \notin Legacy(f) THEN f[i]
  ELSE [f[i] EXCEPT !.id = Allocate(f) + Cardinality({j \in Legacy(f) : j < i})]]

-----------------------------------------------------------------------------
(* The union of two copies: the lines before any header, then header by       *)
(* header in the order they are met; a line equal to an earlier one is left   *)
(* out wherever it stands, a blank line never.                               *)
Dedupe(f) == Lines(f, {i \in DOMAIN f : f[i].kind = "blank" \/ \A j \in 1 .. i - 1 : f[j] # f[i]})
EndsBlank(f) == f # <<>> /\ Last(f).kind = "blank"
Chopped(f) == IF EndsBlank(f) THEN Front(f) ELSE f
HeaderOver(f, i) == SelectLastInSubSeq(f, 1, i, LAMBDA l : l.kind \in Headers)
Preamble(f) == Lines(f, {i \in DOMAIN f : HeaderOver(f, i) = 0})
Body(f, h) == Lines(f, {i \in DOMAIN f : HeaderOver(f, i) \notin {0, i} /\ f[HeaderOver(f, i)] = h})

Union(mine, theirs) ==
  LET l == Chopped(mine)
      r == Chopped(theirs)
      headers == Dedupe(SelectSeq(l \o r, LAMBDA x : x.kind \in Headers))
      section(h) == <<h>> \o Dedupe(Body(l, h) \o Body(r, h))
      merged == Dedupe(Preamble(l) \o Preamble(r))
                  \o FlattenSeq([k \in DOMAIN headers |-> section(headers[k])])
  IN Dedupe(merged) \o IF EndsBlank(mine) \/ EndsBlank(theirs) THEN <<Blank>> ELSE <<>>

-----------------------------------------------------------------------------
QInit ==
  /\ server \in Starts
  /\ file = [m \in Machines |-> server]
  /\ touched = [m \in Machines |-> FALSE] /\ met = [m \in Machines |-> 0] /\ version = 0
  /\ job = [m \in Machines |-> Nobody]
  /\ written = 0 /\ changes = 0
  /\ joined = ( Ambiguous(server) # {})

(* A command leaves the file as it was, or saves new content.                 *)
Save(m, content) ==
  /\ file' = [file EXCEPT ![m] = content]
  /\ touched' = [touched EXCEPT ![m] = @ \/ content # file[m]]
  /\ UNCHANGED <<met, server, version, joined>>

Another == changes < MaxChanges /\ changes' = changes + 1

(* Ask a question, perhaps about others: a resolved or ambiguous one refuses.  *)
Refers(f, targets) == \A i \in EntriesAt(f) : f[i].id \in targets =>
  f[i].id \notin Ambiguous(f) /\ f[i].by = 0
Flag(m, targets) ==
  /\ Another /\ job[m] = Nobody /\ Refers(file[m], targets)
  /\ Save(m, Insert(file[m], Entry(Allocate(file[m]), changes + 1)))
  /\ UNCHANGED <<job, written>>

(* Resolve by a decision that stands: every target is there, and only once.    *)
ResolveBy(m, targets, d) ==
  /\ Another /\ job[m] = Nobody /\ d \in 1 .. written
  /\ targets \subseteq IdsOf(file[m]) \ Ambiguous(file[m]) /\ targets # {}
  /\ Save(m, ResolveContent(file[m], targets, d))
  /\ UNCHANGED <<job, written>>

(* Propose a decision that resolves questions: the decision is written first. *)
Propose(m, ids) ==
  /\ Another /\ job[m] = Nobody
  /\ ids \subseteq IdsOf(file[m]) \ Ambiguous(file[m]) /\ ids # {}
  /\ written' = written + 1
  /\ job' = [job EXCEPT ![m] = [at |-> "stamp", by |-> written + 1, ids |-> ids]]
  /\ UNCHANGED <<file, sync, joined>>

Resolves(m) ==
  /\ job[m].at = "stamp"
  /\ Save(m, ResolveContent(file[m], job[m].ids, job[m].by))
  /\ job' = [job EXCEPT ![m] = Nobody]
  /\ UNCHANGED <<written, changes>>

(* The stamp fails, or the process dies: the decision stands without it.      *)
CutShort(m) ==
  /\ job[m] # Nobody
  /\ job' = [job EXCEPT ![m] = Nobody]
  /\ UNCHANGED <<file, sync, written, changes, joined>>

Migrate(m) ==
  /\ Another /\ job[m] = Nobody /\ Legacy(file[m]) # {}
  /\ Save(m, Migrated(Reformat(file[m])))
  /\ UNCHANGED <<job, written>>

(* External: a line is added below a question in an editor.                  *)
EditByHand(m, i, k) ==
  /\ Another
  /\ Save(m, InsertAt(file[m], i + 1, Line(k, 1)))
  /\ UNCHANGED <<job, written>>

-----------------------------------------------------------------------------
(* Sync, in outline (FileSync.tla has its steps). A pull that finds both      *)
(* copies changed joins them, and counts the result as in step.              *)
Pull(m) ==
  /\ job[m] = Nobody /\ met[m] < version
  /\ file' = [file EXCEPT ![m] = IF touched[m] THEN Union(@, server) ELSE server]
  /\ touched' = [touched EXCEPT ![m] = FALSE] /\ met' = [met EXCEPT ![m] = version]
  /\ joined' = (joined \/ touched[m])
  /\ UNCHANGED <<server, version, job, written, changes>>

Push(m) ==
  /\ job[m] = Nobody /\ touched[m] /\ met[m] = version
  /\ server' = file[m] /\ version' = version + 1
  /\ met' = [met EXCEPT ![m] = version + 1] /\ touched' = [touched EXCEPT ![m] = FALSE]
  /\ UNCHANGED <<file, job, written, changes, joined>>

(* A question is referred to by its id, if at all one at a time.              *)
Chosen(m) == {{n} : n \in IdsOf(file[m])}
Command(m) ==
  \/ \E targets \in Chosen(m) \union {{}} : Flag(m, targets)
  \/ \E targets \in Chosen(m), d \in 1 .. written : ResolveBy(m, targets, d)
  \/ \E ids \in Chosen(m) \union {IdsOf(file[m])} : Propose(m, ids)
  \/ Resolves(m)
  \/ Migrate(m)

QNext == \E m \in Machines :
  \/ Command(m)
  \/ CutShort(m)
  \/ \E i \in EntriesAt(file[m]), k \in {"prose", "more"} : EditByHand(m, i, k)
  \/ Pull(m)
  \/ Push(m)

QSpec == QInit /\ [][QNext]_qvars

-----------------------------------------------------------------------------
(* Lines are lines, and a machine never met a version that is not there.      *)
IsFile(f) == \A i \in DOMAIN f :
  /\ f[i].kind \in Kinds /\ f[i].id \in Int /\ f[i].by \in 0 .. MaxChanges
  /\ f[i].kind # "entry" => f[i].id = 0 /\ f[i].by = 0
QTypeOK ==
  /\ \A m \in Machines : IsFile(file[m]) /\ met[m] <= version
  /\ IsFile(server)
  /\ touched \in [Machines -> BOOLEAN] /\ joined \in BOOLEAN
  /\ written <= changes /\ changes <= MaxChanges
  /\ \A m \in Machines : job[m] = Nobody \/ (job[m].at = "stamp" /\ job[m].by \in 1 .. written)

(* Until two changed copies are joined a number names one question of a file;  *)
(* whatever happened, nothing below the divider is open, and no entry is       *)
(* resolved by a decision that was not written.                              *)
NumbersNameOne == ~joined =>
  \A m \in Machines : \A i, j \in EntriesAt(file[m]) :
    i # j /\ file[m][i].id > 0 => file[m][i].id # file[m][j].id
ResolvedBelow == \A m \in Machines : \A i \in EntriesAt(file[m]) :
  /\ DividerAt(file[m]) \in 1 .. i => file[m][i].by # 0
  /\ file[m][i].by <= written

(* The question a line stands under, the entry or header above it.            *)
Under(f, i) ==
  LET over == SelectLastInSubSeq(f, 1, i - 1, LAMBDA l : l.kind \in {"entry"} \union Headers)
  IN IF over # 0 /\ f[over].kind = "entry" THEN f[over].text ELSE 0
Attached(f, k) == {<<f[i].text, Under(f, i)>> : i \in {j \in DOMAIN f : f[j].kind = k}}

(* A command keeps every question, its resolution and, if it has one, its      *)
(* number, and leaves each line of text under the question it stood under. A   *)
(* question asked may come between a line of introduction and the title, and   *)
(* in a file without a title between a question and its text.                *)
KeepsQuestions(old, new) == \A i \in EntriesAt(old) : \E j \in EntriesAt(new) :
  /\ new[j].text = old[i].text
  /\ old[i].id > 0 => new[j].id = old[i].id
  /\ old[i].by # 0 => new[j].by = old[i].by
KeepsText(old, new) == \A k \in {"more", "prose"} : \A a \in Attached(old, k) :
  \/ a \in Attached(new, k)
  \/ a[2] = 0 /\ \E b \in Attached(new, k) : b[1] = a[1]
  \/ DividerAt(old) # 1 /\ \A i \in DOMAIN old : old[i].kind # "title"
InPlace == file' # file /\ UNCHANGED <<met, version>>
CommandsKeep == [][InPlace => \A m \in Machines :
  KeepsQuestions(file[m], file'[m]) /\ KeepsText(file[m], file'[m])]_qvars

(* Once a command resolves a question, every resolved one that no text holds   *)
(* is below the divider, so that normalizing again changes nothing.           *)
Resolved(f) == {f[i].text : i \in {j \in EntriesAt(f) : f[j].by # 0}}
ResolvingSettles == [][InPlace => \A m \in Machines :
  Resolved(file[m]) # Resolved(file'[m]) => Movable(file'[m]) = {}]_qvars

(* Joining two copies keeps every line of both, once (sync/merge.py).         *)
JoinKeeps(one, other, both) == \A f \in {one, other} : \A i \in DOMAIN f :
  f[i].kind # "blank" => Cardinality({j \in DOMAIN both : both[j] = f[i]}) = 1
UnionKeepsLines == [][file' # file /\ version' = version => \A m \in Machines :
  met[m] # met'[m] /\ touched[m] => JoinKeeps(file[m], server, file'[m])]_qvars

(* Together, of open-questions.md: what flag_question, propose_decision and     *)
(* `questions migrate` may never do to it, and what a union may never lose.     *)
QuestionsStand ==
  /\ [](NumbersNameOne /\ ResolvedBelow)
  /\ CommandsKeep /\ ResolvingSettles /\ UnionKeepsLines
=============================================================================
