---------------------------- MODULE DecisionPull ----------------------------
(***************************************************************************)
(* Decision numbers: machines mint max + 1 on their own copy of decisions/ *)
(* and publish whole files, so two of them can claim one number. The pull  *)
(* classifies every untracked remote decision under the decision lock and  *)
(* installs it, adopts or renames the local twin, moves the local holder   *)
(* of the number aside, or quarantines the remote one                      *)
(* (sync/collisions.py, sync/corpus.py, sync/headings.py, sync/pull.py).   *)
(*                                                                         *)
(* What FileSync models step by step (transfers, ambiguous PUTs, streamed  *)
(* updates of tracked files) is one step here.                             *)
(***************************************************************************)
EXTENDS Naturals, Sequences, FiniteSets, Functions

CONSTANTS
  Replica,     \* the machines
  Slug,        \* the file names' titles
  MaxMints,    \* bound: how many decisions are made
  MaxNumber,   \* bound: the largest decision number
  MaxMishaps,  \* bound: how many crashes, failed writes and moves by hand
  SameTitle,   \* TRUE when two decisions may carry the same title
  Faults       \* the environment events this instance allows

FaultKinds == {"crash", "oserror", "rename", "cite"}

ASSUME BoundsAssumption ==
  /\ MaxMints \in Nat
  /\ MaxNumber \in Nat
  /\ MaxMishaps \in Nat
  /\ SameTitle \in BOOLEAN
  /\ Faults \subseteq FaultKinds

Number == 1..MaxNumber
Id == 1..MaxMints
Name == [num : Number, slug : Slug]

(* A record cites a decision by its number; which one was meant, and on    *)
(* which machine, is history the code does not keep.                       *)
Citation == [num : Number, id : Id, by : Replica]
Body == [id : Id, heading : Number, cites : SUBSET Citation]
Entry == [sha : Body, etag : Body]

VARIABLES
  server,     \* the objects under decisions/, by name
  announced,  \* history: the <<name, id>> pairs the server ever held
  titles,     \* the titles given so far, in order of the decisions' ids
  mishaps,    \* how many of those happened
  disk,       \* disk[r]: the decision files of machine r, by name
  index,      \* index[r]: the file stem the hash index gives, by decision
  questions,  \* questions[r]: what r's open-questions.md cites
  synced,     \* synced[r]: the decisions of r's saved .sync-state.json
  backup,     \* backup[r]: the decisions in r's .conflict-backup/
  pc,         \* where r's pull is
  manifest,   \* the file list and the bodies the pull fetched, by name
  todo,       \* the gated rows still to classify
  mem,        \* the pull's SyncState
  moving,     \* <<row, old name, new name>> while a file moves for a row
  shifted,    \* history: the decisions renumbered in this run
  clean       \* no step of this run was refused

pullVars == <<pc, manifest, todo, mem, moving, shifted, clean>>
storeVars == <<disk, index, questions, backup>>
vars == <<server, announced, titles, mishaps, storeVars, synced, pullVars>>

Pcs == {"idle", "planned", "completing", "applying", "renamed", "rewritten",
        "again", "canonicalized"}

Files(r) == DOMAIN disk[r]

TypeOK ==
  /\ DOMAIN server \subseteq Name /\ \A n \in DOMAIN server : server[n] \in Body
  /\ announced \subseteq Name \X Id
  /\ titles \in Seq(Slug) /\ Len(titles) <= MaxMints
  /\ mishaps \in 0..MaxMishaps
  /\ \A r \in Replica :
       /\ Files(r) \subseteq Name /\ \A n \in Files(r) : disk[r][n] \in Body
       /\ DOMAIN index[r] \subseteq Id /\ \A d \in DOMAIN index[r] : index[r][d] \in Name
       /\ questions[r] \subseteq Citation
       /\ DOMAIN synced[r] \subseteq Name /\ \A n \in DOMAIN synced[r] : synced[r][n] \in Entry
       /\ backup[r] \subseteq Id
       /\ pc[r] \in Pcs
       /\ DOMAIN manifest[r] \subseteq Name /\ \A n \in DOMAIN manifest[r] : manifest[r][n] \in Body
       /\ todo[r] \subseteq DOMAIN manifest[r]
       /\ DOMAIN mem[r] \subseteq Name /\ \A n \in DOMAIN mem[r] : mem[r][n] \in Entry
       /\ moving[r] \in {<<>>} \cup (Name \X Name \X Name)
       /\ moving[r] # <<>> <=> pc[r] \in {"renamed", "rewritten", "again", "canonicalized"}
       /\ shifted[r] \subseteq Id
       /\ clean[r] \in BOOLEAN

Init ==
  /\ server = <<>>
  /\ announced = {}
  /\ titles = <<>>
  /\ mishaps = 0
  /\ disk = [r \in Replica |-> <<>>]
  /\ index = [r \in Replica |-> <<>>]
  /\ questions = [r \in Replica |-> {}]
  /\ synced = [r \in Replica |-> <<>>]
  /\ backup = [r \in Replica |-> {}]
  /\ pc = [r \in Replica |-> "idle"]
  /\ manifest = [r \in Replica |-> <<>>]
  /\ todo = [r \in Replica |-> {}]
  /\ mem = [r \in Replica |-> <<>>]
  /\ moving = [r \in Replica |-> <<>>]
  /\ shifted = [r \in Replica |-> {}]
  /\ clean = [r \in Replica |-> TRUE]

-----------------------------------------------------------------------------
(* The corpus: decisions/ as one view.                                     *)

Holders(r, num) == {n \in Files(r) : n.num = num}
Claimed(r) == {n.num : n \in Files(r)}

(* Every number a question resolution or a supersession names.             *)
Citations(r) == questions[r] \cup UNION {disk[r][n].cites : n \in Files(r)}
CitedNumbers(r) == {c.num : c \in Citations(r)}

MaxOf(S) == CHOOSE x \in S \cup {0} : \A y \in S : y <= x
NextNumber(S) == MaxOf(S) + 1

Isolated(r, n, nums) ==
  disk[r][n].cites = {} /\ nums \cap CitedNumbers(r) = {}

(* The environment strikes, a bounded number of times.                     *)
Mishap(kind) ==
  /\ kind \in Faults
  /\ mishaps < MaxMishaps
  /\ mishaps' = mishaps + 1

Put(f, x, y) == [z \in DOMAIN f \cup {x} |-> IF z = x THEN y ELSE f[z]]
Drop(f, x) == Restrict(f, DOMAIN f \ {x})

Move(r, old, new) ==
  disk' = [disk EXCEPT ![r] = Put(Drop(@, old), new, @[old])]

(* Every hash-index entry naming the old stem names the new one.           *)
RetargetIndex(r, old, new) ==
  index' = [index EXCEPT ![r] = [d \in DOMAIN @ |-> IF @[d] = old THEN new ELSE @[d]]]

-----------------------------------------------------------------------------
(* Local writers and the user.                                             *)

(* The migration lock, which every writer and the whole of a pull hold.    *)
StoreLockFree(r) == pc[r] = "idle"

(* propose_decision: number, file, then the hash index. The number is the  *)
(* local maximum plus one: the writer asks no server.                      *)
Mint(r, s) ==
  LET id == Len(titles) + 1
      n == [num |-> NextNumber(Claimed(r)), slug |-> s]
  IN  /\ StoreLockFree(r)
      /\ id <= MaxMints /\ n.num <= MaxNumber
      /\ SameTitle \/ \A i \in 1..Len(titles) : titles[i] # s
      /\ titles' = Append(titles, s)
      /\ \E cited \in {{}} \cup (IF "cite" \in Faults
                                 THEN {{[num |-> o.num, id |-> disk[r][o].id, by |-> r]} : o \in Files(r)} ELSE {}) :
           disk' = [disk EXCEPT ![r] = Put(@, n, [id |-> id, heading |-> n.num, cites |-> cited])]
      /\ \/ index' = [index EXCEPT ![r] = Put(@, id, n)] /\ UNCHANGED mishaps
         \/ Mishap("crash") /\ UNCHANGED index
      /\ UNCHANGED <<server, announced, questions, synced, backup, pullVars>>

(* A question is resolved by a decision of this machine.                   *)
Cite(r, n) ==
  /\ "cite" \in Faults
  /\ StoreLockFree(r)
  /\ n \in Files(r)
  /\ questions[r] = {}
  /\ questions' = [questions EXCEPT ![r] = {[num |-> n.num, id |-> disk[r][n].id, by |-> r]}]
  /\ UNCHANGED <<server, announced, titles, mishaps, disk, index, synced, backup, pullVars>>

(* To a title of its own: what the code can tell apart.                    *)
RenameByHand(r, old, s) ==
  LET new == [num |-> old.num, slug |-> s] IN
  /\ Mishap("rename")
  /\ pc[r] \in {"idle", "planned"}
  /\ old \in Files(r) /\ new \notin Files(r)
  /\ SameTitle \/ \A q \in Replica : \A n \in Files(q) : n.slug # s
  /\ Move(r, old, new)
  /\ UNCHANGED <<server, announced, titles, index, questions, synced, backup, pullVars>>

-----------------------------------------------------------------------------
(* Push one changed file: the PUT, then the checkpoint of the sync state.  *)
Push(r, n) ==
  LET b == disk[r][n] IN
  /\ pc[r] = "idle"
  /\ n \in Files(r)
  /\ n \in DOMAIN synced[r] => synced[r][n].sha # b
  /\ server' = Put(server, n, b)
  /\ announced' = announced \cup {<<n, b.id>>}
  /\ \/ synced' = [synced EXCEPT ![r] = Put(@, n, [sha |-> b, etag |-> b])] /\ UNCHANGED mishaps
     \/ Mishap("crash") /\ UNCHANGED synced
  /\ UNCHANGED <<titles, storeVars, pullVars>>

-----------------------------------------------------------------------------
(* Pull: plan and fetch under the sync lock.                               *)

(* The rows that ask for the classifier: decisions that are not on disk,   *)
(* and untracked ones.                                                     *)
Gated(r) == {n \in DOMAIN server : n \notin Files(r) \/ n \notin DOMAIN synced[r]}

PullPlan(r) ==
  /\ pc[r] = "idle"
  /\ pc' = [pc EXCEPT ![r] = "planned"]
  /\ manifest' = [manifest EXCEPT ![r] = server]
  /\ mem' = [mem EXCEPT ![r] = synced[r]]
  /\ todo' = [todo EXCEPT ![r] = Gated(r)]
  /\ UNCHANGED <<server, announced, titles, mishaps, storeVars, synced, moving, shifted, clean>>

(* The decision lock: the corpus is scanned, which here is the disk.       *)
PullLock(r) ==
  /\ pc[r] = "planned"
  /\ pc' = [pc EXCEPT ![r] = "completing"]
  /\ UNCHANGED <<server, announced, titles, mishaps, storeVars, synced, manifest, todo, mem, moving, shifted, clean>>

-----------------------------------------------------------------------------
(* The completion pass: finish a renumber that died between its steps.     *)

Repairable(r, n) ==
  /\ disk[r][n].heading # n.num
  /\ Holders(r, n.num) = {n}
  /\ Isolated(r, n, {n.num, disk[r][n].heading})

CompleteHeading(r, n) ==
  /\ pc[r] = "completing"
  /\ n \in Files(r) /\ Repairable(r, n)
  /\ disk' = [disk EXCEPT ![r][n].heading = n.num]
  /\ UNCHANGED <<server, announced, titles, mishaps, index, questions, backup, synced, pullVars>>

(* Mutant: dangling stems are matched by number, not by slug.              *)
RepairedStemByNumber(r, stem) ==
  LET twins == {n \in Files(r) : n.num = stem.num} IN
  IF stem \in Files(r) \/ Cardinality(twins) # 1 THEN stem ELSE CHOOSE n \in twins : TRUE

(* A dangling stem goes to the one file with its slug, if there is one.    *)
RepairedStem(r, stem) ==
  LET twins == {n \in Files(r) : n.slug = stem.slug} IN
  IF stem \in Files(r) \/ Cardinality(twins) # 1 THEN stem ELSE CHOOSE n \in twins : TRUE

RepairDanglingStems(r) ==
  /\ pc[r] = "completing"
  /\ \A n \in Files(r) : ~Repairable(r, n)
  /\ index' = [index EXCEPT ![r] = [d \in DOMAIN @ |-> RepairedStem(r, @[d])]]
  /\ pc' = [pc EXCEPT ![r] = "applying"]
  /\ UNCHANGED <<server, announced, titles, mishaps, disk, questions, backup, synced, manifest, todo, mem, moving, shifted, clean>>

CompletionFails(r) ==
  /\ Mishap("oserror")
  /\ pc[r] = "completing"
  /\ pc' = [pc EXCEPT ![r] = "applying"]
  /\ clean' = [clean EXCEPT ![r] = FALSE]
  /\ UNCHANGED <<server, announced, titles, storeVars, synced, manifest, todo, mem, moving, shifted>>

-----------------------------------------------------------------------------
(* Classification.                                                         *)

(* Mutants: the local holder is renumbered though the server lists it, or  *)
(* though records cite it.                                                 *)
ColliderVerdictUntracked(r, c, num, remote) ==
  IF disk[r][c] = remote THEN "canonicalize"
  ELSE IF Isolated(r, c, {num}) /\ disk[r][c].heading = num THEN "renumber"
  ELSE "quarantine"

ColliderVerdictUncited(r, c, num, remote) ==
  IF c \in DOMAIN mem[r] \cup DOMAIN manifest[r] THEN "quarantine"
  ELSE IF disk[r][c] = remote THEN "canonicalize"
  ELSE IF disk[r][c].heading = num THEN "renumber"
  ELSE "quarantine"

(* The collision matrix for the one other file holding the number.         *)
ColliderVerdict(r, c, num, remote) ==
  IF c \in DOMAIN mem[r] \cup DOMAIN manifest[r] THEN "quarantine"
  ELSE IF disk[r][c] = remote THEN "canonicalize"
  ELSE IF Isolated(r, c, {num}) /\ disk[r][c].heading = num THEN "renumber"
  ELSE "quarantine"

(* Mutant: only the files the sync state tracks are seen as holders.       *)
SiblingsTracked(r, n) == (Holders(r, n.num) \cap DOMAIN mem[r]) \ {n}

Siblings(r, n) == Holders(r, n.num) \ {n}

Verdict(r, n) ==
  LET remote == manifest[r][n]
      sole == CHOOSE c \in Siblings(r, n) : TRUE
      collision == IF Cardinality(Siblings(r, n)) > 1 THEN "quarantine"
                   ELSE ColliderVerdict(r, sole, n.num, remote)
  IN  IF Siblings(r, n) # {}
      THEN IF n \in Files(r) /\ collision = "canonicalize" THEN "quarantine" ELSE collision
      ELSE IF n \notin Files(r) THEN "install"
      ELSE IF disk[r][n] = remote THEN "adopt"
      ELSE "keep local"

Collider(r, n) == CHOOSE c \in Siblings(r, n) : TRUE

(* Mutant: the next row finds the last one's move.                         *)
DoneKeepsMove(r, n) ==
  /\ pc' = [pc EXCEPT ![r] = "applying"]
  /\ todo' = [todo EXCEPT ![r] = @ \ {n}]
  /\ UNCHANGED moving

(* The row is settled: back to the rest of the batch.                      *)
Done(r, n) ==
  /\ pc' = [pc EXCEPT ![r] = "applying"]
  /\ todo' = [todo EXCEPT ![r] = @ \ {n}]
  /\ moving' = [moving EXCEPT ![r] = <<>>]

Record(r, n, local) ==
  mem' = [mem EXCEPT ![r] = Put(@, n, [sha |-> local, etag |-> manifest[r][n]])]

(* A row is classified when its turn comes, and once more after the file   *)
(* in its way was renumbered.                                              *)
Classifies(r, n, verdict) ==
  /\ \/ pc[r] = "applying" /\ n \in todo[r]
     \/ pc[r] = "again" /\ n = moving[r][1]
  /\ Verdict(r, n) = verdict

Install(r, n) ==
  /\ Classifies(r, n, "install")
  /\ disk' = [disk EXCEPT ![r] = Put(@, n, manifest[r][n])]
  /\ Record(r, n, manifest[r][n])
  /\ Done(r, n)
  /\ UNCHANGED <<server, announced, titles, mishaps, index, questions, backup, synced, manifest, shifted, clean>>

Adopt(r, n) ==
  /\ Classifies(r, n, "adopt")
  /\ Record(r, n, disk[r][n])
  /\ Done(r, n)
  /\ UNCHANGED <<server, announced, titles, mishaps, storeVars, synced, manifest, shifted, clean>>

KeepLocal(r, n) ==
  /\ Classifies(r, n, "keep local")
  /\ backup' = [backup EXCEPT ![r] = @ \cup {manifest[r][n].id}]
  /\ Record(r, n, disk[r][n])
  /\ Done(r, n)
  /\ UNCHANGED <<server, announced, titles, mishaps, disk, index, questions, synced, manifest, shifted, clean>>

(* Nothing is installed or tracked; a second renumber is refused too.      *)
Quarantine(r, n) ==
  /\ \/ Classifies(r, n, "quarantine")
     \/ pc[r] = "again" /\ Classifies(r, n, "renumber")
  /\ backup' = [backup EXCEPT ![r] = @ \cup {manifest[r][n].id}]
  /\ Done(r, n)
  /\ UNCHANGED <<server, announced, titles, mishaps, disk, index, questions, synced, manifest, mem, shifted, clean>>

(* The byte-identical local twin takes the server's name, then its entries *)
(* in the hash index follow.                                               *)
Canonicalize(r, n) ==
  LET c == Collider(r, n) IN
  /\ Classifies(r, n, "canonicalize")
  /\ Move(r, c, n)
  /\ pc' = [pc EXCEPT ![r] = "canonicalized"]
  /\ moving' = [moving EXCEPT ![r] = <<n, c, n>>]
  /\ UNCHANGED <<server, announced, titles, mishaps, index, questions, backup, synced, manifest, todo, mem, shifted, clean>>

FinishCanonicalize(r) ==
  /\ pc[r] = "canonicalized"
  /\ RetargetIndex(r, moving[r][2], moving[r][3])
  /\ Record(r, moving[r][1], disk[r][moving[r][1]])
  /\ Done(r, moving[r][1])
  /\ UNCHANGED <<server, announced, titles, mishaps, disk, questions, backup, synced, manifest, shifted, clean>>

(* Mutant: the new number clears the local files alone.                    *)
ReservedNone(r) == {}

(* The numbers the manifest lists are taken too.                           *)
Reserved(r) == {n.num : n \in DOMAIN manifest[r]}

(* apply_renumber: the number is minted above every local one and every    *)
(* one the manifest lists; rename, heading, hash index, in that order.     *)
Renumber(r, n) ==
  LET old == Collider(r, n)
      new == [num |-> NextNumber(Claimed(r) \cup Reserved(r)), slug |-> old.slug]
  IN  /\ pc[r] = "applying" /\ Classifies(r, n, "renumber")
      /\ new.num <= MaxNumber
      /\ Move(r, old, new)
      /\ pc' = [pc EXCEPT ![r] = "renamed"]
      /\ moving' = [moving EXCEPT ![r] = <<n, old, new>>]
      /\ shifted' = [shifted EXCEPT ![r] = @ \cup {disk[r][old].id}]
      /\ UNCHANGED <<server, announced, titles, mishaps, index, questions, backup, synced, manifest, todo, mem, clean>>

RewriteHeading(r) ==
  /\ pc[r] = "renamed"
  /\ disk' = [disk EXCEPT ![r][moving[r][3]].heading = moving[r][3].num]
  /\ pc' = [pc EXCEPT ![r] = "rewritten"]
  /\ UNCHANGED <<server, announced, titles, mishaps, index, questions, backup, synced, manifest, todo, mem, moving, shifted, clean>>

RetargetRenumbered(r) ==
  /\ pc[r] = "rewritten"
  /\ RetargetIndex(r, moving[r][2], moving[r][3])
  /\ pc' = [pc EXCEPT ![r] = "again"]
  /\ UNCHANGED <<server, announced, titles, mishaps, disk, questions, backup, synced, manifest, todo, mem, moving, shifted, clean>>

(* A local filesystem error stops this row where it is; the batch goes on. *)
ApplyFails(r, n) ==
  /\ Mishap("oserror")
  /\ \/ pc[r] = "applying" /\ n \in todo[r]
     \/ pc[r] \in {"renamed", "rewritten", "again", "canonicalized"} /\ n = moving[r][1]
  /\ Done(r, n)
  /\ clean' = [clean EXCEPT ![r] = FALSE]
  /\ UNCHANGED <<server, announced, titles, storeVars, synced, manifest, mem, shifted>>

-----------------------------------------------------------------------------
(* The decision lock is released; tracked decisions are updated as any     *)
(* file is, and the state is saved.                                        *)

(* The tracked rows of the run: the server's copy replaces an unchanged    *)
(* file, a changed one stays and the server's copy is backed up.           *)
Stale(r) ==
  {n \in Files(r) \cap DOMAIN synced[r] \cap DOMAIN manifest[r] :
     synced[r][n].etag # manifest[r][n] /\ mem[r][n] = synced[r][n]}

Unchanged(r, n) == synced[r][n].sha = disk[r][n]

EndPull(r) ==
  /\ pc' = [pc EXCEPT ![r] = "idle"]
  /\ manifest' = [manifest EXCEPT ![r] = <<>>]
  /\ todo' = [todo EXCEPT ![r] = {}]
  /\ mem' = [mem EXCEPT ![r] = <<>>]
  /\ moving' = [moving EXCEPT ![r] = <<>>]
  /\ shifted' = [shifted EXCEPT ![r] = {}]
  /\ clean' = [clean EXCEPT ![r] = TRUE]

PullFinish(r) ==
  /\ pc[r] = "applying"
  /\ todo[r] = {}
  /\ disk' = [disk EXCEPT ![r] = [n \in Files(r) |->
                IF n \in Stale(r) /\ Unchanged(r, n) THEN manifest[r][n] ELSE @[n]]]
  /\ backup' = [backup EXCEPT ![r] = @ \cup {manifest[r][n].id : n \in {m \in Stale(r) : ~Unchanged(r, m)}}]
  /\ synced' = [synced EXCEPT ![r] = [n \in DOMAIN mem[r] |->
                  IF n \in Stale(r) THEN [sha |-> disk'[r][n], etag |-> manifest[r][n]] ELSE mem[r][n]]]
  /\ EndPull(r)
  /\ UNCHANGED <<server, announced, titles, mishaps, index, questions>>

(* Killed: nothing is saved.                                               *)
Crash(r) ==
  /\ Mishap("crash")
  /\ pc[r] # "idle"
  /\ EndPull(r)
  /\ UNCHANGED <<server, announced, titles, storeVars, synced>>

PullStep(r) ==
  \/ PullLock(r)
  \/ \E n \in Files(r) : CompleteHeading(r, n)
  \/ RepairDanglingStems(r) \/ CompletionFails(r)
  \/ \E n \in todo[r] : \/ Install(r, n) \/ Adopt(r, n) \/ KeepLocal(r, n) \/ Quarantine(r, n)
                     \/ Canonicalize(r, n) \/ Renumber(r, n) \/ ApplyFails(r, n)
  \/ FinishCanonicalize(r) \/ RewriteHeading(r) \/ RetargetRenumbered(r)
  \/ PullFinish(r)

LocalStep(r) ==
  \/ \E s \in Slug : Mint(r, s)
  \/ \E n \in Files(r) : Cite(r, n) \/ \E s \in Slug : RenameByHand(r, n, s)

Next ==
  \E r \in Replica :
    \/ LocalStep(r)
    \/ \E n \in Files(r) : Push(r, n)
    \/ PullPlan(r) \/ PullStep(r) \/ Crash(r)

Spec == Init /\ [][Next]_vars

-----------------------------------------------------------------------------
(* Safety.                                                                 *)

(* No machine ever holds two files with one number, whatever the others    *)
(* minted and published: only the user's own renames could break it, and   *)
(* they keep the number.                                                   *)
UniqueNumbers ==
  \A r \in Replica : \A m, n \in Files(r) : m.num = n.num => m = n

(* "The remote number is shared state other machines reference, so it      *)
(* never moves": a pull renumbers no decision the server ever held under   *)
(* the name it has.                                                        *)
PublishedNumbersNeverMove ==
  [][\A r \in Replica :
       (pc[r] # "renamed" /\ pc'[r] = "renamed")
       => <<moving'[r][2], disk[r][moving'[r][2]].id>> \notin announced]_vars

(* On the machine where it was written, a citation names the decision its  *)
(* author meant or no decision at all: renumbering never hands a cited     *)
(* number to another one. (Other machines may have quarantined the one it  *)
(* means and read it differently.)                                         *)
CitationsKeepTheirMeaning ==
  \A r \in Replica : \A c \in Citations(r) :
    c.by = r => \A n \in Files(r) : n.num = c.num => disk[r][n].id = c.id

(* Every decision that was made is on a disk, on the server or in a backup. *)
DecisionsKept ==
  \A d \in 1..Len(titles) :
    \/ \E r \in Replica : d \in backup[r] \/ \E n \in Files(r) : disk[r][n].id = d
    \/ \E n \in DOMAIN server : server[n].id = d

(* What was written stands: citations keep their meaning, and until a      *)
(* crash, a failed write or a move by hand no decision is lost.            *)
DecisionsStand == CitationsKeepTheirMeaning /\ (mishaps = 0 => DecisionsKept)

(* A file steps aside at most once per run: the number it is given clears  *)
(* every row the manifest still has in store.                              *)
ShiftedOnce ==
  [][\A r \in Replica :
       (pc[r] = "applying" /\ pc'[r] = "renamed")
       => disk[r][moving'[r][2]].id \notin shifted[r]]_vars

(* A number a pull gave is given for the run, and a published number for   *)
(* good.                                                                   *)
NumbersStand == ShiftedOnce /\ PublishedNumbersNeverMove

(* "each crash window leaves a state the next pull heals": once a pull ran *)
(* to its end and refused nothing, every decision the server does not list *)
(* has the number of its name in its heading, and the hash index knows     *)
(* where it is if it still has the title it was minted with.               *)
PullHeals ==
  [][\A r \in Replica :
       PullFinish(r) /\ clean[r] =>
         \A n \in Files(r) \ DOMAIN manifest[r] :
           LET d == disk[r][n].id IN
           /\ disk[r][n].heading = n.num
           /\ d \in DOMAIN index[r] /\ n.slug = titles[d] => index[r][d] \in Files(r)]_vars

=============================================================================
