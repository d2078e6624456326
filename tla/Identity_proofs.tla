--------------------------- MODULE Identity_proofs ---------------------------
(***************************************************************************)
(* Proofs about DecisionPull, for any machines, titles and bounds, and then *)
(* about Connections.                                                      *)
(*                                                                         *)
(* No machine ever holds two decision files with one number, whatever      *)
(* fails. UniqueNumbers is not inductive alone: a pull installs a row's    *)
(* name, so rows must be names of the manifest it fetched, and a minted    *)
(* number is fresh only among numbers that have a maximum (NamesInv).      *)
(*                                                                         *)
(* While titles are not given twice and nobody renames files by hand,      *)
(* citations keep their meaning, no decision is lost, and no published     *)
(* number moves, whatever crashes or fails to write (Setting). The second  *)
(* invariant, Stand, is about many machines at once: a decision's title    *)
(* tells it from every other, it has one name once the server held it, and *)
(* it cites the same wherever it is, beginning with where it was written.  *)
(* Its steps are argued on what one does to one machine's files (Seen).    *)
(*                                                                         *)
(* Where what may be cut short is never cited (Healing), a pull that ran   *)
(* to its end and refused nothing leaves every heading and every stem of   *)
(* the hash index right: HealInv says what each step after the completion  *)
(* pass leaves out of step, one file in the middle of its move.            *)
(***************************************************************************)
EXTENDS DecisionPull, Connections, TLAPS, WellFoundedInduction, FiniteSetTheorems,
        SequenceTheorems

(* The largest number of a set of them exists, and bounds it.              *)
LEMMA MaxBounds ==
  ASSUME NEW S \in SUBSET Number
  PROVE  MaxOf(S) \in Nat /\ \A y \in S : y <= MaxOf(S)
<1>0. MaxNumber \in Nat /\ \A x \in S : x \in Nat /\ x <= MaxNumber /\ MaxNumber - x \in Nat
  BY BoundsAssumption DEF Number
<1>1. CASE S = {}
  <2>1. \E x \in S \cup {0} : \A y \in S : y <= x
    BY <1>1
  <2> QED BY <2>1, <1>1 DEF MaxOf
<1>2. CASE S # {}
  <2> DEFINE T == {MaxNumber - x : x \in S}
  <2>1. IsWellFoundedOn(OpToRel(<, Nat), Nat)
    BY NatLessThanWellFounded
  <2>2. T \subseteq Nat /\ T # {}
    BY <1>0, <1>2
  <2>3. PICK t \in T : \A u \in T : <<u, t>> \notin OpToRel(<, Nat)
    BY <2>1, <2>2, WFMin
  <2>4. \A u \in T : ~(u < t)
    BY <2>2, <2>3 DEF OpToRel
  <2>5. PICK x \in S : t = MaxNumber - x
    BY <2>3
  <2>6. \A y \in S : ~(MaxNumber - y < MaxNumber - x)
    BY <2>4, <2>5
  <2>7. \A y \in S : y <= x
    BY <1>0, <2>6
  <2>8. \E z \in S \cup {0} : \A y \in S : y <= z
    BY <2>7
  <2>9. MaxOf(S) \in S \cup {0} /\ \A y \in S : y <= MaxOf(S)
    BY <2>8, Zenon DEF MaxOf
  <2> QED BY <1>0, <2>9
<1> QED BY <1>1, <1>2

(* A minted number is held by no file.                                     *)
LEMMA MintedIsFresh ==
  ASSUME NEW S \in SUBSET Number
  PROVE  NextNumber(S) \in Nat \ {0} /\ NextNumber(S) \notin S
BY MaxBounds DEF NextNumber, Number

(* Every name is a name, and a row still to classify is in the manifest.   *)
FilesInv ==
  DOMAIN disk = Replica /\ \A r \in Replica : Files(r) \subseteq Name

RowsInv ==
  /\ DOMAIN manifest = Replica /\ DOMAIN todo = Replica
  /\ DOMAIN server \subseteq Name
  /\ \A r \in Replica : /\ DOMAIN manifest[r] \subseteq Name
                        /\ todo[r] \subseteq DOMAIN manifest[r]

NamesInv == FilesInv /\ RowsInv

Inv == NamesInv /\ UniqueNumbers

(* A step adds at most one file to a machine, under a number that no file  *)
(* staying there carries.                                                  *)
Arrival(r, n) ==
  /\ Files(r)' \subseteq Files(r) \cup {n}
  /\ \A m \in Files(r) \cap Files(r)' : m.num = n.num => m = n

LEMMA MoveFiles ==
  ASSUME NamesInv, NEW r \in Replica, NEW old, NEW new, Move(r, old, new)
  PROVE  /\ Files(r)' = (Files(r) \ {old}) \cup {new}
         /\ \A q \in Replica \ {r} : Files(q)' = Files(q)
         /\ DOMAIN disk' = Replica
<1> DEFINE moved == Put(Drop(disk[r], old), new, disk[r][old])
<1>1. DOMAIN moved = (DOMAIN disk[r] \ {old}) \cup {new}
  BY DEF Put, Drop, Restrict
<1>2. disk' = [disk EXCEPT ![r] = moved] /\ DOMAIN disk = Replica
  BY DEF Move, NamesInv, FilesInv, RowsInv
<1> HIDE DEF moved
<1> QED BY <1>1, <1>2 DEF Files

LEMMA HeadingFiles ==
  ASSUME NamesInv, NEW r \in Replica, NEW n, NEW num,
         disk' = [disk EXCEPT ![r][n].heading = num]
  PROVE  /\ \A q \in Replica : Files(q)' = Files(q)
         /\ DOMAIN disk' = Replica
BY DEF Files, NamesInv, FilesInv, RowsInv

(* The files a row's classification reads, when it lets the row in.        *)
LEMMA InstalledIsFree ==
  ASSUME NEW r \in Replica, NEW n, Verdict(r, n) = "install"
  PROVE  Siblings(r, n) = {}
<1>1. \A c : ColliderVerdict(r, c, n.num, manifest[r][n]) # "install"
  BY DEF ColliderVerdict
<1> QED BY <1>1 DEF Verdict

LEMMA ColliderHolds ==
  ASSUME NEW r \in Replica, NEW n, Verdict(r, n) \in {"canonicalize", "renumber"}
  PROVE  Collider(r, n) \in Files(r) /\ Collider(r, n).num = n.num
<1>1. Siblings(r, n) # {}
  BY DEF Verdict
<1>2. Collider(r, n) \in Siblings(r, n)
  BY <1>1 DEF Collider
<1> QED BY <1>2 DEF Siblings, Holders

(* One case per action that touches decisions/; the others leave the names *)
(* alone.                                                                  *)
LEMMA StepFiles ==
  ASSUME NamesInv, UniqueNumbers, Next
  PROVE  /\ DOMAIN disk' = Replica
         /\ \A q \in Replica : \/ Files(q)' \subseteq Files(q)
                               \/ \E n \in Name : Arrival(q, n)
<1> DEFINE Goal == /\ DOMAIN disk' = Replica
                   /\ \A q \in Replica : \/ Files(q)' \subseteq Files(q)
                                         \/ \E n \in Name : Arrival(q, n)
<1>0. PICK r \in Replica : \/ LocalStep(r)
                           \/ \E n \in Files(r) : Push(r, n)
                           \/ PullPlan(r) \/ PullStep(r) \/ Crash(r)
  BY DEF Next
<1>a. UNCHANGED disk => Goal
  BY DEF Files, NamesInv, FilesInv, RowsInv
<1>b. \A n, num : disk' = [disk EXCEPT ![r][n].heading = num] => Goal
  BY HeadingFiles
<1>c. ASSUME NEW n \in Name,
             DOMAIN disk' = Replica, \A q \in Replica \ {r} : Files(q)' = Files(q),
             Arrival(r, n)
      PROVE  Goal
  BY <1>c
<1>1. ASSUME NEW s \in Slug, Mint(r, s) PROVE Goal
  <2> DEFINE n == [num |-> NextNumber(Claimed(r)), slug |-> s]
  <2>1. n \in Name /\ n.num \notin Claimed(r)
    <3>1. Claimed(r) \subseteq Number
      BY DEF Claimed, NamesInv, FilesInv, RowsInv, Name
    <3>2. NextNumber(Claimed(r)) \in Nat \ {0} /\ NextNumber(Claimed(r)) \notin Claimed(r)
      BY <3>1, MintedIsFresh
    <3>3. NextNumber(Claimed(r)) <= MaxNumber
      BY <1>1 DEF Mint
    <3>4. NextNumber(Claimed(r)) \in Number
      BY <3>2, <3>3, BoundsAssumption DEF Number
    <3> QED BY <3>2, <3>4 DEF Name
  <2>2. PICK b : disk' = [disk EXCEPT ![r] = Put(@, n, b)]
    BY <1>1 DEF Mint
  <2> HIDE DEF n
  <2>3. /\ DOMAIN disk' = Replica
        /\ \A q \in Replica \ {r} : Files(q)' = Files(q)
        /\ Files(r)' = Files(r) \cup {n}
    BY <2>2 DEF Files, NamesInv, FilesInv, RowsInv, Put
  <2>4. Arrival(r, n)
    BY <2>1, <2>3 DEF Arrival, Claimed
  <2> QED BY <1>c, <2>1, <2>3, <2>4
<1>2. ASSUME NEW n, Cite(r, n) PROVE Goal
  BY <1>2, <1>a DEF Cite
<1>4. ASSUME NEW n \in Files(r), NEW s \in Slug, RenameByHand(r, n, s) PROVE Goal
  <2> DEFINE new == [num |-> n.num, slug |-> s]
  <2>1. Move(r, n, new) /\ n \in Name
    BY <1>4 DEF RenameByHand, NamesInv, FilesInv, RowsInv
  <2>2. new \in Name /\ new.num = n.num
    BY <2>1 DEF Name
  <2> HIDE DEF new
  <2>3. /\ DOMAIN disk' = Replica
        /\ \A q \in Replica \ {r} : Files(q)' = Files(q)
        /\ Files(r)' = (Files(r) \ {n}) \cup {new}
    BY <2>1, MoveFiles
  <2>4. Arrival(r, new)
    BY <2>2, <2>3 DEF Arrival, UniqueNumbers
  <2> QED BY <1>c, <2>2, <2>3, <2>4
<1>5. ASSUME NEW n, Push(r, n) PROVE Goal
  BY <1>5, <1>a DEF Push, storeVars
<1>6. CASE PullPlan(r) \/ PullLock(r) \/ RepairDanglingStems(r) \/ CompletionFails(r) \/ Crash(r)
  BY <1>6, <1>a DEF PullPlan, PullLock, RepairDanglingStems, CompletionFails, Crash, storeVars
<1>7. ASSUME NEW n, CompleteHeading(r, n) PROVE Goal
  BY <1>7, <1>b DEF CompleteHeading
<1>8. ASSUME NEW n \in todo[r], Install(r, n) PROVE Goal
  <2>1. n \in Name
    BY DEF NamesInv, FilesInv, RowsInv
  <2>2. disk' = [disk EXCEPT ![r] = Put(@, n, manifest[r][n])]
    BY <1>8 DEF Install
  <2>3. /\ DOMAIN disk' = Replica
        /\ \A q \in Replica \ {r} : Files(q)' = Files(q)
        /\ Files(r)' = Files(r) \cup {n}
    BY <2>2 DEF Files, NamesInv, FilesInv, RowsInv, Put
  <2>4. Holders(r, n.num) \ {n} = {}
    BY <1>8, InstalledIsFree DEF Install, Classifies, Siblings
  <2>5. Arrival(r, n)
    BY <2>3, <2>4 DEF Arrival, Holders
  <2> QED BY <1>c, <2>1, <2>3, <2>5
<1>9. ASSUME NEW n, Adopt(r, n) \/ KeepLocal(r, n) \/ Quarantine(r, n) \/ ApplyFails(r, n)
      PROVE  Goal
  BY <1>9, <1>a DEF Adopt, KeepLocal, Quarantine, ApplyFails, storeVars
<1>10. ASSUME NEW n \in todo[r], Canonicalize(r, n) PROVE Goal
  <2> DEFINE c == Collider(r, n)
  <2>1. n \in Name
    BY DEF NamesInv, FilesInv, RowsInv
  <2>2. Move(r, c, n) /\ c \in Files(r) /\ c.num = n.num
    BY <1>10, ColliderHolds DEF Canonicalize, Classifies
  <2> HIDE DEF c
  <2>3. /\ DOMAIN disk' = Replica
        /\ \A q \in Replica \ {r} : Files(q)' = Files(q)
        /\ Files(r)' = (Files(r) \ {c}) \cup {n}
    BY <2>2, MoveFiles
  <2>4. Arrival(r, n)
    BY <2>2, <2>3 DEF Arrival, UniqueNumbers
  <2> QED BY <1>c, <2>1, <2>3, <2>4
<1>11. ASSUME NEW n \in todo[r], Renumber(r, n) PROVE Goal
  <2> DEFINE c == Collider(r, n)
             num == NextNumber(Claimed(r) \cup Reserved(r))
             new == [num |-> num, slug |-> c.slug]
  <2>1. Move(r, c, new) /\ c \in Files(r) /\ num <= MaxNumber
    BY <1>11, ColliderHolds DEF Renumber, Classifies
  <2>2. new \in Name /\ new.num \notin Claimed(r)
    <3>1. Claimed(r) \cup Reserved(r) \subseteq Number
      BY DEF Claimed, Reserved, NamesInv, FilesInv, RowsInv, Name
    <3>2. num \in Nat \ {0} /\ num \notin Claimed(r)
      BY <3>1, MintedIsFresh
    <3>3. num \in Number
      BY <2>1, <3>2, BoundsAssumption DEF Number
    <3>4. c.slug \in Slug
      BY <2>1 DEF NamesInv, FilesInv, RowsInv, Name
    <3> QED BY <3>2, <3>3, <3>4 DEF Name
  <2> HIDE DEF c, new
  <2>3. /\ DOMAIN disk' = Replica
        /\ \A q \in Replica \ {r} : Files(q)' = Files(q)
        /\ Files(r)' = (Files(r) \ {c}) \cup {new}
    BY <2>1, MoveFiles
  <2>4. Arrival(r, new)
    BY <2>2, <2>3 DEF Arrival, Claimed
  <2> QED BY <1>c, <2>2, <2>3, <2>4
<1>12. CASE FinishCanonicalize(r) \/ RetargetRenumbered(r)
  BY <1>12, <1>a DEF FinishCanonicalize, RetargetRenumbered
<1>13. CASE RewriteHeading(r)
  BY <1>13, <1>b DEF RewriteHeading
<1>14. CASE PullFinish(r)
  <2> DEFINE f == [n \in Files(r) |-> IF n \in Stale(r) /\ Unchanged(r, n)
                                    THEN manifest[r][n] ELSE disk[r][n]]
  <2>1. disk' = [disk EXCEPT ![r] = f]
    BY <1>14 DEF PullFinish
  <2>2. DOMAIN f = DOMAIN disk[r]
    BY DEF Files
  <2> HIDE DEF f
  <2> QED BY <2>1, <2>2 DEF Files, NamesInv, FilesInv, RowsInv
<1> QED BY <1>0, <1>1, <1>2, <1>4, <1>5, <1>6, <1>7, <1>8, <1>9, <1>10, <1>11, <1>12,
           <1>13, <1>14 DEF LocalStep, PullStep

(* The server's rows and the run's are names that were on a disk.          *)
LEMMA RowsKept ==
  ASSUME RowsInv, UNCHANGED <<server, manifest, todo>>
  PROVE  RowsInv'
BY DEF RowsInv

LEMMA RowsDone ==
  ASSUME RowsInv, NEW r \in Replica, NEW n, UNCHANGED <<server, manifest>>, Done(r, n)
  PROVE  RowsInv'
BY DEF RowsInv, Done

LEMMA RowsEnd ==
  ASSUME RowsInv, NEW r \in Replica, UNCHANGED server, EndPull(r)
  PROVE  RowsInv'
BY DEF RowsInv, EndPull

LEMMA StepNames ==
  ASSUME NamesInv, UniqueNumbers, Next
  PROVE  NamesInv'
<1>1. FilesInv'
  BY StepFiles DEF Arrival, FilesInv, NamesInv
<1>2. RowsInv
  BY DEF NamesInv
<1>3. SUFFICES RowsInv'
  BY <1>1 DEF NamesInv
<1>4. PICK r \in Replica : \/ LocalStep(r)
                           \/ \E n \in Files(r) : Push(r, n)
                           \/ PullPlan(r) \/ PullStep(r) \/ Crash(r)
  BY DEF Next
<1>5. CASE LocalStep(r)
  <2>1. UNCHANGED <<server, manifest, todo>>
    BY <1>5 DEF LocalStep, Mint, Cite, RenameByHand, pullVars
  <2> QED BY <1>2, <2>1, RowsKept
<1>6. ASSUME NEW n \in Files(r), Push(r, n) PROVE RowsInv'
  BY <1>6, <1>2 DEF Push, pullVars, NamesInv, FilesInv, RowsInv, Put
<1>7. CASE PullPlan(r)
  BY <1>7, <1>2 DEF PullPlan, Gated, RowsInv
<1>8. CASE Crash(r)
  BY <1>8, <1>2, RowsEnd DEF Crash
<1>9. CASE PullStep(r)
  <2>1. CASE PullFinish(r)
    <3>1. UNCHANGED server /\ EndPull(r)
      BY <2>1 DEF PullFinish
    <3> QED BY <1>2, <3>1, RowsEnd
  <2>2. ASSUME NEW n, \/ Install(r, n) \/ Adopt(r, n) \/ KeepLocal(r, n) \/ Quarantine(r, n)
                      \/ ApplyFails(r, n)
        PROVE  RowsInv'
    <3>1. UNCHANGED <<server, manifest>> /\ Done(r, n)
      BY <2>2 DEF Install, Adopt, KeepLocal, Quarantine, ApplyFails
    <3> QED BY <1>2, <3>1, RowsDone
  <2>3. ASSUME NEW n, CompleteHeading(r, n) \/ Canonicalize(r, n) \/ Renumber(r, n)
        PROVE  RowsInv'
    <3>1. UNCHANGED <<server, manifest, todo>>
      BY <2>3 DEF CompleteHeading, Canonicalize, Renumber, pullVars
    <3> QED BY <1>2, <3>1, RowsKept
  <2>4. CASE FinishCanonicalize(r)
    <3>1. UNCHANGED <<server, manifest>> /\ Done(r, moving[r][1])
      BY <2>4 DEF FinishCanonicalize
    <3> QED BY <1>2, <3>1, RowsDone
  <2>5. CASE \/ PullLock(r) \/ RepairDanglingStems(r) \/ CompletionFails(r) \/ RewriteHeading(r)
             \/ RetargetRenumbered(r)
    <3>1. UNCHANGED <<server, manifest, todo>>
      BY <2>5 DEF PullLock, RepairDanglingStems, CompletionFails, RewriteHeading,
         RetargetRenumbered
    <3> QED BY <1>2, <3>1, RowsKept
  <2>6. \/ PullFinish(r) \/ FinishCanonicalize(r)
        \/ \E n : \/ Install(r, n) \/ Adopt(r, n) \/ KeepLocal(r, n) \/ Quarantine(r, n)
                  \/ ApplyFails(r, n)
        \/ \E n : CompleteHeading(r, n) \/ Canonicalize(r, n) \/ Renumber(r, n)
        \/ \/ PullLock(r) \/ RepairDanglingStems(r) \/ CompletionFails(r) \/ RewriteHeading(r)
           \/ RetargetRenumbered(r)
    BY <1>9 DEF PullStep
  <2> QED BY <2>1, <2>2, <2>3, <2>4, <2>5, <2>6
<1> QED BY <1>4, <1>5, <1>6, <1>7, <1>8, <1>9

THEOREM Invariant == Spec => []Inv
<1>1. Init => Inv
  BY DEF Init, Inv, NamesInv, FilesInv, RowsInv, UniqueNumbers, Files
<1>2. Inv /\ [Next]_vars => Inv'
  <2> SUFFICES ASSUME Inv, [Next]_vars PROVE Inv'
    OBVIOUS
  <2>1. CASE Next
    <3>1. NamesInv'
      BY <2>1, StepNames DEF Inv
    <3>2. UniqueNumbers'
      BY <2>1, StepFiles DEF Inv, UniqueNumbers, Arrival
    <3> QED BY <3>1, <3>2 DEF Inv
  <2>2. CASE UNCHANGED vars
    BY <2>2 DEF vars, storeVars, pullVars, Inv, NamesInv, FilesInv, RowsInv, UniqueNumbers, Files
  <2> QED BY <2>1, <2>2
<1> QED BY <1>1, <1>2, PTL DEF Spec

(* Two machines may mint one number and publish both files; no pull, crash *)
(* or rename ever leaves them side by side on a machine.                   *)
THEOREM NumbersStayUnique == Spec => []UniqueNumbers
<1>1. Inv => UniqueNumbers
  BY DEF Inv
<1> QED BY <1>1, Invariant, PTL

-----------------------------------------------------------------------------
(* Decisions stand. While nobody renames files by hand and every decision    *)
(* has its own title, the title in a name tells which decision a file is, and *)
(* a decision has one name everywhere once the server held it.               *)

Setting == ~SameTitle /\ "rename" \notin Faults

(* What the proof needs of the variables' types.                             *)
Typed ==
  /\ titles \in Seq(Slug)
  /\ DOMAIN pc = Replica /\ DOMAIN shifted = Replica /\ DOMAIN questions = Replica
  /\ DOMAIN moving = Replica
  /\ \A n \in DOMAIN server : server[n] \in Body
  /\ \A r \in Replica :
       /\ \A n \in Files(r) : disk[r][n] \in Body
       /\ \A n \in DOMAIN manifest[r] : manifest[r][n] \in Body
       /\ questions[r] \subseteq Citation
       /\ pc[r] = "renamed" => moving[r][3] \in Name

(* A title is given once, and each file and each published pair carries the   *)
(* title its decision was given.                                             *)
Titled ==
  /\ \A i, j \in 1..Len(titles) : titles[i] = titles[j] => i = j
  /\ \A r \in Replica : \A n \in Files(r) :
       disk[r][n].id \in 1..Len(titles) /\ titles[disk[r][n].id] = n.slug
  /\ \A a \in announced : a[2] \in 1..Len(titles) /\ titles[a[2]] = a[1].slug

(* The server forgets nothing, a manifest lists what the server held, and one *)
(* in use lists every published file of its machine.                         *)
Listed ==
  /\ \A n \in DOMAIN server : <<n, server[n].id>> \in announced
  /\ \A a \in announced : a[1] \in DOMAIN server
  /\ \A r \in Replica : \A n \in DOMAIN manifest[r] : <<n, manifest[r][n].id>> \in announced
  /\ \A r \in Replica : \A n \in Files(r) :
       pc[r] # "idle" /\ <<n, disk[r][n].id>> \in announced => n \in DOMAIN manifest[r]

(* Two machines share a decision only through the server, under one name.    *)
OneName ==
  /\ \A q, r \in Replica : \A m \in Files(q) : \A n \in Files(r) :
       disk[q][m].id = disk[r][n].id => m = n
  /\ \A q, r \in Replica : \A n \in Files(q) :
       n \in Files(r) /\ disk[q][n].id = disk[r][n].id /\ q # r => <<n, disk[q][n].id>> \in announced
  /\ \A a \in announced, r \in Replica : \A n \in Files(r) : disk[r][n].id = a[2] => n = a[1]
  /\ \A a, b \in announced : a[2] = b[2] => a[1] = b[1]

(* A file moved aside in this run is in no later row's way.                  *)
Cleared ==
  \A r \in Replica :
    /\ pc[r] = "idle" => shifted[r] = {}
    /\ \A n \in Files(r) :
         disk[r][n].id \in shifted[r] => n.num \notin Reserved(r) \/ n \in DOMAIN manifest[r]

IsBody(b) ==
  \/ \E n \in DOMAIN server : b = server[n]
  \/ \E r \in Replica : \E n \in Files(r) : b = disk[r][n]
  \/ \E r \in Replica : \E n \in DOMAIN manifest[r] : b = manifest[r][n]

(* A decision cites the same everywhere, and is still where it was written.  *)
SameCites == \A b, d : IsBody(b) /\ IsBody(d) /\ b.id = d.id => b.cites = d.cites

Homed == \A b : IsBody(b) => \A c \in b.cites : \E n \in Files(c.by) : disk[c.by][n].id = b.id

(* What a citation of this machine names is here, under the number cited.    *)
Anchored ==
  \A r \in Replica : \A c \in Citations(r) :
    c.by = r => \E n \in Files(r) : n.num = c.num /\ disk[r][n].id = c.id

Held == \A d \in 1..Len(titles) : \E r \in Replica : \E n \in Files(r) : disk[r][n].id = d

Stand == Titled /\ Listed /\ OneName /\ Cleared /\ SameCites /\ Homed /\ Anchored /\ Held

-----------------------------------------------------------------------------
(* What a step does to one machine's files, d before and e after: a file that *)
(* stays says and cites the same.                                            *)
SameBody(d, e, m, n) == e[n].id = d[m].id /\ e[n].cites = d[m].cites

Stays(d, e) == DOMAIN e = DOMAIN d /\ \A n \in DOMAIN d : SameBody(d, e, n, n)

Gains(d, e, n) ==
  /\ n \notin DOMAIN d /\ DOMAIN e = DOMAIN d \cup {n}
  /\ \A m \in DOMAIN d : SameBody(d, e, m, m)

Shifts(d, e, old, new) ==
  /\ old \in DOMAIN d /\ new \notin DOMAIN d
  /\ DOMAIN e = (DOMAIN d \ {old}) \cup {new}
  /\ SameBody(d, e, old, new)
  /\ \A m \in DOMAIN d \ {old} : SameBody(d, e, m, m)

(* The steps as the argument sees them.                                      *)
Others(r) ==
  \A q \in Replica \ {r} :
    /\ disk'[q] = disk[q] /\ manifest'[q] = manifest[q] /\ questions'[q] = questions[q]
    /\ pc'[q] = pc[q] /\ shifted'[q] = shifted[q]

Private == UNCHANGED <<server, announced>>

SeesMint(r) ==
  /\ Private /\ UNCHANGED <<manifest, questions, pc, shifted>> /\ pc[r] = "idle"
  /\ \E n \in Name :
       /\ Gains(disk[r], disk'[r], n)
       /\ disk'[r][n].id = Len(titles) + 1 /\ titles' = Append(titles, n.slug)
       /\ \A i \in 1..Len(titles) : titles[i] # n.slug
       /\ \A c \in disk'[r][n].cites :
            c.by = r /\ \E o \in Files(r) : o.num = c.num /\ disk[r][o].id = c.id
       /\ "cite" \notin Faults => disk'[r][n].cites = {}

SeesInstall(r) ==
  /\ Private /\ UNCHANGED <<titles, manifest, questions, shifted>>
  /\ pc[r] # "idle" /\ pc'[r] # "idle"
  /\ \E n \in DOMAIN manifest[r] :
       Gains(disk[r], disk'[r], n) /\ disk'[r][n] = manifest[r][n]

SeesAside(r) ==
  /\ Private /\ UNCHANGED <<titles, manifest, questions>>
  /\ pc[r] # "idle" /\ pc'[r] # "idle"
  /\ \E old \in Files(r), new \in Name :
       /\ Shifts(disk[r], disk'[r], old, new)
       /\ new.slug = old.slug /\ new.num \notin Reserved(r)
       /\ old \notin DOMAIN manifest[r] /\ old.num \in Reserved(r)
       /\ old.num \notin CitedNumbers(r)
       /\ shifted'[r] = shifted[r] \cup {disk[r][old].id}

SeesPush(r) ==
  /\ UNCHANGED <<titles, disk, manifest, questions, pc, shifted>> /\ pc[r] = "idle"
  /\ \E n \in Files(r) :
       /\ server' = Put(server, n, disk[r][n])
       /\ announced' = announced \cup {<<n, disk[r][n].id>>}

SeesPlan(r) ==
  /\ Private /\ UNCHANGED <<titles, disk, questions, shifted>>
  /\ pc[r] = "idle" /\ manifest'[r] = server

SeesEnd(r) ==
  /\ Private /\ UNCHANGED <<titles, questions>>
  /\ Stays(disk[r], disk'[r])
  /\ pc'[r] = "idle" /\ shifted'[r] = {} /\ manifest'[r] = <<>>

SeesCite(r) ==
  /\ Private /\ UNCHANGED <<titles, disk, manifest, pc, shifted>> /\ "cite" \in Faults
  /\ \E n \in Files(r) : questions'[r] = {[num |-> n.num, id |-> disk[r][n].id, by |-> r]}

SeesQuiet(r) ==
  /\ Private /\ UNCHANGED <<titles, manifest, questions, shifted>>
  /\ Stays(disk[r], disk'[r])
  /\ pc'[r] = "idle" <=> pc[r] = "idle"

Seen(r) ==
  \/ SeesMint(r) \/ SeesInstall(r) \/ SeesAside(r) \/ SeesPush(r)
  \/ SeesPlan(r) \/ SeesEnd(r) \/ SeesCite(r) \/ SeesQuiet(r)

LEMMA PutGains ==
  ASSUME NEW d, NEW n, NEW b, n \notin DOMAIN d
  PROVE  Gains(d, Put(d, n, b), n) /\ Put(d, n, b)[n] = b
  BY DEF Gains, Put, SameBody

LEMMA MoveShifts ==
  ASSUME Inv, NEW r \in Replica, NEW old \in Files(r), NEW new, new \notin Files(r),
         Move(r, old, new)
  PROVE  Shifts(disk[r], disk'[r], old, new)
<1> DEFINE moved == Put(Drop(disk[r], old), new, disk[r][old])
<1>1. disk'[r] = moved
  BY DEF Move, Inv, NamesInv, FilesInv
<1>2. /\ DOMAIN moved = (DOMAIN disk[r] \ {old}) \cup {new}
      /\ moved[new] = disk[r][old]
      /\ \A m \in DOMAIN disk[r] \ {old} : moved[m] = disk[r][m]
  BY DEF Put, Drop, Restrict, Files
<1> HIDE DEF moved
<1> QED
  BY <1>1, <1>2 DEF Shifts, SameBody, Files

LEMMA HeadingStays ==
  ASSUME Inv, Typed, NEW r \in Replica, NEW n, NEW num,
         disk' = [disk EXCEPT ![r][n].heading = num]
  PROVE  Stays(disk[r], disk'[r])
<1>1. DOMAIN disk'[r] = DOMAIN disk[r]
  BY DEF Inv, NamesInv, FilesInv
<1>2. ASSUME NEW m \in DOMAIN disk[r] PROVE SameBody(disk[r], disk'[r], m, m)
  <2>1. disk[r][m] \in Body
    BY DEF Typed, Files
  <2>2. disk'[r][m] = IF m = n THEN [disk[r][m] EXCEPT !.heading = num] ELSE disk[r][m]
    BY DEF Inv, NamesInv, FilesInv
  <2> QED
    BY <2>1, <2>2 DEF SameBody, Body
<1> QED
  BY <1>1, <1>2 DEF Stays

(* The twin of a published decision has its name already.                    *)
LEMMA NoTwins ==
  ASSUME Inv, Stand, NEW r \in Replica, NEW n \in todo[r], Canonicalize(r, n)
  PROVE  FALSE
<1> DEFINE c == Collider(r, n)
<1>1. Verdict(r, n) = "canonicalize"
  BY DEF Canonicalize, Classifies
<1>2. Siblings(r, n) # {}
  BY <1>1 DEF Verdict
<1>3. c \in Siblings(r, n)
  BY <1>2 DEF Collider
<1>4. c \in Files(r) /\ c # n
  BY <1>3 DEF Siblings, Holders
<1>5. disk[r][c] = manifest[r][n]
  BY <1>1, <1>2 DEF Verdict, ColliderVerdict, Collider
<1>6. <<n, manifest[r][n].id>> \in announced
  BY DEF Inv, NamesInv, RowsInv, Stand, Listed
<1> HIDE DEF c
<1>7. \A a \in announced : disk[r][c].id = a[2] => c = a[1]
  BY <1>4 DEF Stand, OneName
<1> QED
  BY <1>4, <1>5, <1>6, <1>7

(* Every step is one of these.                                               *)
LEMMA Views ==
  ASSUME Setting, Inv, Typed, Stand, Next
  PROVE  \E r \in Replica : Others(r) /\ Seen(r)
<1>0. PICK r \in Replica : \/ LocalStep(r)
                           \/ \E n \in Files(r) : Push(r, n)
                           \/ PullPlan(r) \/ PullStep(r) \/ Crash(r)
  BY DEF Next
<1>d. DOMAIN disk = Replica /\ DOMAIN manifest = Replica /\ DOMAIN todo = Replica
      /\ DOMAIN questions = Replica /\ DOMAIN pc = Replica /\ DOMAIN shifted = Replica
      /\ DOMAIN moving = Replica
  BY DEF Inv, NamesInv, FilesInv, RowsInv, Typed
<1>e. Stays(disk[r], disk[r])
  BY DEF Stays, SameBody
<1>f. todo[r] \subseteq DOMAIN manifest[r] /\ DOMAIN manifest[r] \subseteq Name /\ Files(r) \subseteq Name
  BY DEF Inv, NamesInv, FilesInv, RowsInv
<1>1. ASSUME NEW s \in Slug, Mint(r, s) PROVE Others(r) /\ SeesMint(r)
  <2> DEFINE n == [num |-> NextNumber(Claimed(r)), slug |-> s]
  <2>1. n \in Name /\ n.num \notin Claimed(r)
    <3>1. Claimed(r) \subseteq Number
      BY <1>f DEF Claimed, Name
    <3>2. NextNumber(Claimed(r)) \in Nat \ {0} /\ NextNumber(Claimed(r)) \notin Claimed(r)
      BY <3>1, MintedIsFresh
    <3>3. NextNumber(Claimed(r)) <= MaxNumber
      BY <1>1 DEF Mint
    <3>4. NextNumber(Claimed(r)) \in Number
      BY <3>2, <3>3, BoundsAssumption DEF Number
    <3> QED BY <3>2, <3>4 DEF Name
  <2>2. PICK cited \in {{}} \cup {{[num |-> o.num, id |-> disk[r][o].id, by |-> r]} : o \in Files(r)} :
          /\ disk' = [disk EXCEPT ![r] = Put(@, n, [id |-> Len(titles) + 1, heading |-> n.num, cites |-> cited])]
          /\ "cite" \notin Faults => cited = {}
    BY <1>1 DEF Mint
  <2>3. /\ UNCHANGED <<server, announced, questions, pullVars>> /\ pc[r] = "idle"
        /\ titles' = Append(titles, n.slug)
        /\ \A i \in 1..Len(titles) : titles[i] # n.slug
    BY <1>1 DEF Mint, StoreLockFree, Setting
  <2>4. n \notin DOMAIN disk[r]
    BY <2>1 DEF Claimed, Files
  <2> HIDE DEF n
  <2> DEFINE b == [id |-> Len(titles) + 1, heading |-> n.num, cites |-> cited]
  <2>5. disk'[r] = Put(disk[r], n, b) /\ \A q \in Replica \ {r} : disk'[q] = disk[q]
    BY <1>d, <2>2
  <2>6. b.id = Len(titles) + 1 /\ b.cites = cited
    OBVIOUS
  <2> HIDE DEF b
  <2>7. Gains(disk[r], disk'[r], n) /\ disk'[r][n] = b
    BY <2>4, <2>5, PutGains
  <2>8. \A c \in disk'[r][n].cites :
            c.by = r /\ \E o \in Files(r) : o.num = c.num /\ disk[r][o].id = c.id
    BY <2>2, <2>6, <2>7
  <2>8a. "cite" \notin Faults => disk'[r][n].cites = {}
    BY <2>2, <2>6, <2>7
  <2>9. UNCHANGED <<manifest, questions, pc, shifted>>
    BY <2>3 DEF pullVars
  <2>10. Others(r)
    BY <2>5, <2>9 DEF Others
  <2>11. Private
    BY <2>3 DEF Private
  <2> QED
    BY <2>1, <2>3, <2>6, <2>7, <2>8, <2>8a, <2>9, <2>10, <2>11 DEF SeesMint
<1>2. ASSUME NEW n \in Files(r), Cite(r, n) PROVE Others(r) /\ SeesCite(r)
  BY <1>2, <1>d DEF Cite, Others, SeesCite, Private, pullVars
<1>3. ASSUME NEW n, NEW s, RenameByHand(r, n, s) PROVE FALSE
  BY <1>3 DEF RenameByHand, Mishap, Setting
<1>4. ASSUME NEW n \in Files(r), Push(r, n) PROVE Others(r) /\ SeesPush(r)
  BY <1>4 DEF Push, Others, SeesPush, storeVars, pullVars
<1>5. CASE PullPlan(r)
  <2>1. Others(r) /\ SeesPlan(r)
    BY <1>5, <1>d DEF PullPlan, Others, SeesPlan, Private, storeVars
  <2> QED BY <2>1 DEF Seen
<1>6. CASE Crash(r)
  <2>1. Others(r) /\ SeesEnd(r)
    BY <1>6, <1>d, <1>e DEF Crash, EndPull, Others, SeesEnd, Private, storeVars
  <2> QED BY <2>1 DEF Seen
<1>7. CASE PullLock(r) \/ RepairDanglingStems(r) \/ CompletionFails(r) \/ RetargetRenumbered(r)
  <2>1. Others(r) /\ SeesQuiet(r)
    BY <1>7, <1>d, <1>e DEF PullLock, RepairDanglingStems, CompletionFails, RetargetRenumbered,
       Others, SeesQuiet, Private, storeVars
  <2> QED BY <2>1 DEF Seen
<1>8. ASSUME NEW n, CompleteHeading(r, n) PROVE Others(r) /\ SeesQuiet(r)
  <2>1. Stays(disk[r], disk'[r])
    BY <1>8, HeadingStays DEF CompleteHeading
  <2> QED
    BY <1>8, <1>d, <2>1 DEF CompleteHeading, Others, SeesQuiet, Private, pullVars
<1>9. CASE RewriteHeading(r)
  <2>1. Stays(disk[r], disk'[r])
    BY <1>9, HeadingStays DEF RewriteHeading
  <2>2. Others(r) /\ SeesQuiet(r)
    BY <1>9, <1>d, <2>1 DEF RewriteHeading, Others, SeesQuiet, Private
  <2> QED BY <2>2 DEF Seen
<1>10. ASSUME NEW n \in todo[r], Install(r, n) PROVE Others(r) /\ SeesInstall(r)
  <2>1. disk' = [disk EXCEPT ![r] = Put(@, n, manifest[r][n])]
    BY <1>10 DEF Install
  <2>2. n \notin DOMAIN disk[r]
    <3>1. \A c : ColliderVerdict(r, c, n.num, manifest[r][n]) # "install"
      BY DEF ColliderVerdict
    <3> QED BY <1>10, <3>1 DEF Install, Classifies, Verdict, Files
  <2>3. disk'[r] = Put(disk[r], n, manifest[r][n]) /\ \A q \in Replica \ {r} : disk'[q] = disk[q]
    BY <1>d, <2>1
  <2>4. Gains(disk[r], disk'[r], n) /\ disk'[r][n] = manifest[r][n]
    BY <2>2, <2>3, PutGains
  <2>5. pc[r] # "idle" /\ pc'[r] # "idle" /\ \A q \in Replica \ {r} : pc'[q] = pc[q]
    BY <1>10, <1>d DEF Install, Classifies, Done
  <2>6. UNCHANGED <<server, announced, titles, manifest, questions, shifted>>
    BY <1>10 DEF Install
  <2> QED
    BY <1>f, <2>3, <2>4, <2>5, <2>6 DEF Others, SeesInstall, Private
<1>11. ASSUME NEW n, Adopt(r, n) \/ KeepLocal(r, n) \/ Quarantine(r, n) \/ ApplyFails(r, n)
       PROVE  Others(r) /\ SeesQuiet(r)
  <2>1. pc[r] # "idle" /\ pc'[r] # "idle" /\ \A q \in Replica \ {r} : pc'[q] = pc[q]
    BY <1>11, <1>d DEF Adopt, KeepLocal, Quarantine, ApplyFails, Classifies, Done
  <2>2. UNCHANGED <<server, announced, titles, disk, manifest, questions, shifted>>
    BY <1>11 DEF Adopt, KeepLocal, Quarantine, ApplyFails, storeVars
  <2> QED
    BY <1>e, <2>1, <2>2 DEF Others, SeesQuiet, Private
<1>12. CASE FinishCanonicalize(r)
  <2>1. pc[r] # "idle" /\ pc'[r] # "idle" /\ \A q \in Replica \ {r} : pc'[q] = pc[q]
    BY <1>12, <1>d DEF FinishCanonicalize, Done
  <2>2. UNCHANGED <<server, announced, titles, disk, manifest, questions, shifted>>
    BY <1>12 DEF FinishCanonicalize
  <2>3. Others(r) /\ SeesQuiet(r)
    BY <1>e, <2>1, <2>2 DEF Others, SeesQuiet, Private
  <2> QED BY <2>3 DEF Seen
<1>13. ASSUME NEW n \in todo[r], Canonicalize(r, n) PROVE FALSE
  BY <1>13, NoTwins
<1>14. ASSUME NEW n \in todo[r], Renumber(r, n) PROVE Others(r) /\ SeesAside(r)
  <2> DEFINE old == Collider(r, n)
             num == NextNumber(Claimed(r) \cup Reserved(r))
             new == [num |-> num, slug |-> old.slug]
  <2>1. /\ Move(r, old, new) /\ num <= MaxNumber /\ pc[r] = "applying"
        /\ shifted' = [shifted EXCEPT ![r] = @ \cup {disk[r][old].id}]
        /\ pc' = [pc EXCEPT ![r] = "renamed"]
        /\ UNCHANGED <<server, announced, titles, questions, manifest>>
        /\ Verdict(r, n) = "renumber"
    BY <1>14 DEF Renumber, Classifies
  <2>2. old \in Files(r) /\ old.num = n.num
    BY <2>1, ColliderHolds
  <2>3. Siblings(r, n) # {}
    BY <2>1 DEF Verdict
  <2>4. ColliderVerdict(r, old, n.num, manifest[r][n]) = "renumber"
    BY <2>1, <2>3 DEF Verdict, Collider
  <2>5. old \notin DOMAIN manifest[r] /\ n.num \notin CitedNumbers(r)
    BY <2>4 DEF ColliderVerdict, Isolated
  <2>6. old.num \in Reserved(r)
    BY <2>2, <1>f DEF Reserved
  <2>7. new \in Name /\ new.num \notin Claimed(r) /\ new.num \notin Reserved(r) /\ new.slug = old.slug
    <3>1. Claimed(r) \cup Reserved(r) \subseteq Number
      BY <1>f DEF Claimed, Reserved, Name
    <3>2. num \in Nat \ {0} /\ num \notin Claimed(r) \cup Reserved(r)
      BY <3>1, MintedIsFresh
    <3>3. num \in Number
      BY <2>1, <3>2, BoundsAssumption DEF Number
    <3>4. old.slug \in Slug
      BY <2>2, <1>f DEF Name
    <3> QED BY <3>2, <3>3, <3>4 DEF Name
  <2>8. new \notin Files(r)
    BY <2>7 DEF Claimed
  <2> HIDE DEF old, num, new
  <2>9. Shifts(disk[r], disk'[r], old, new)
    BY <2>1, <2>2, <2>8, MoveShifts
  <2>10. \A q \in Replica \ {r} : disk'[q] = disk[q]
    BY <2>1, <1>d DEF Move
  <2>11. shifted'[r] = shifted[r] \cup {disk[r][old].id} /\ \A q \in Replica \ {r} : shifted'[q] = shifted[q]
    BY <2>1, <1>d
  <2>12. pc'[r] # "idle" /\ \A q \in Replica \ {r} : pc'[q] = pc[q]
    BY <2>1, <1>d
  <2>13. Others(r)
    BY <2>1, <2>10, <2>11, <2>12 DEF Others
  <2> QED
    BY <2>1, <2>2, <2>5, <2>6, <2>7, <2>9, <2>11, <2>12, <2>13 DEF SeesAside, Private
<1>15. CASE PullFinish(r)
  <2> DEFINE f == [n \in Files(r) |-> IF n \in Stale(r) /\ Unchanged(r, n)
                                    THEN manifest[r][n] ELSE disk[r][n]]
  <2>1. disk' = [disk EXCEPT ![r] = f]
    BY <1>15 DEF PullFinish
  <2>2. disk'[r] = f /\ \A q \in Replica \ {r} : disk'[q] = disk[q]
    BY <2>1, <1>d
  <2>3. ASSUME NEW n \in Files(r) PROVE SameBody(disk[r], f, n, n)
    <3>1. CASE n \in Stale(r)
      <4>1. n \in DOMAIN manifest[r]
        BY <3>1 DEF Stale
      <4>2. <<n, manifest[r][n].id>> \in announced
        BY <4>1 DEF Stand, Listed
      <4> DEFINE i == manifest[r][n].id
                 j == disk[r][n].id
      <4>3. i \in 1..Len(titles) /\ titles[i] = n.slug
        BY <4>2 DEF Stand, Titled
      <4>4. j \in 1..Len(titles) /\ titles[j] = n.slug
        BY DEF Stand, Titled
      <4> HIDE DEF i, j
      <4>5. i = j
        BY <4>3, <4>4 DEF Stand, Titled
      <4>6. IsBody(manifest[r][n]) /\ IsBody(disk[r][n])
        BY <4>1 DEF IsBody
      <4>7. manifest[r][n].cites = disk[r][n].cites
        BY <4>5, <4>6 DEF i, j, Stand, SameCites
      <4> QED
        BY <4>5, <4>7 DEF i, j, SameBody
    <3>2. CASE n \notin Stale(r)
      BY <3>2 DEF SameBody
    <3> QED BY <3>1, <3>2
  <2>4. DOMAIN f = DOMAIN disk[r]
    BY DEF Files
  <2> HIDE DEF f
  <2>5. Stays(disk[r], disk'[r])
    BY <2>2, <2>3, <2>4 DEF Stays, Files
  <2>6. Others(r) /\ SeesEnd(r)
    BY <1>15, <1>d, <2>2, <2>5 DEF PullFinish, EndPull, Others, SeesEnd, Private
  <2> QED BY <2>6 DEF Seen
<1>16. CASE LocalStep(r)
  BY <1>1, <1>2, <1>3, <1>16 DEF LocalStep, Seen
<1>17. CASE PullStep(r)
  BY <1>7, <1>8, <1>9, <1>10, <1>11, <1>12, <1>13, <1>14, <1>15, <1>17 DEF PullStep, Seen
<1> QED
  BY <1>0, <1>4, <1>5, <1>6, <1>16, <1>17 DEF Seen

-----------------------------------------------------------------------------
(* Types.                                                                    *)
LEMMA HeadingTyped ==
  ASSUME Inv, Typed, NEW r \in Replica, NEW n, NEW num \in Number,
         disk' = [disk EXCEPT ![r][n].heading = num]
  PROVE  \A q \in Replica : \A m \in Files(q)' : disk'[q][m] \in Body
<1> SUFFICES ASSUME NEW q \in Replica, NEW m \in Files(q)' PROVE disk'[q][m] \in Body
  OBVIOUS
<1>1. m \in Files(q)
  BY HeadingFiles DEF Inv
<1>2. disk[q][m] \in Body
  BY <1>1 DEF Typed
<1>3. disk'[q][m] = IF q = r /\ m = n THEN [disk[q][m] EXCEPT !.heading = num] ELSE disk[q][m]
  BY <1>1 DEF Inv, NamesInv, FilesInv, Files
<1> QED
  BY <1>2, <1>3 DEF Body

(* Every body a step leaves on a disk has the type of a body.                *)
LEMMA BodiesStep ==
  ASSUME Inv, Typed, Next
  PROVE  \A q \in Replica : \A m \in Files(q)' : disk'[q][m] \in Body
<1> DEFINE Goal == \A q \in Replica : \A m \in Files(q)' : disk'[q][m] \in Body
<1>0. PICK r \in Replica : \/ LocalStep(r)
                           \/ \E n \in Files(r) : Push(r, n)
                           \/ PullPlan(r) \/ PullStep(r) \/ Crash(r)
  BY DEF Next
<1>d. DOMAIN disk = Replica
  BY DEF Inv, NamesInv, FilesInv
<1>f. todo[r] \subseteq DOMAIN manifest[r] /\ DOMAIN manifest[r] \subseteq Name /\ Files(r) \subseteq Name
  BY DEF Inv, NamesInv, FilesInv, RowsInv
<1>a. UNCHANGED disk => Goal
  BY DEF Typed, Files
<1>b. ASSUME NEW d, disk' = [disk EXCEPT ![r] = d], \A m \in DOMAIN d : d[m] \in Body
      PROVE  Goal
  BY <1>b, <1>d DEF Typed, Files
<1>c. ASSUME NEW old \in Files(r), NEW new, Move(r, old, new) PROVE Goal
  <2> DEFINE d == Put(Drop(disk[r], old), new, disk[r][old])
  <2>1. disk' = [disk EXCEPT ![r] = d]
    BY <1>c DEF Move
  <2>2. \A m \in DOMAIN d : d[m] \in Body
    BY DEF Put, Drop, Restrict, Typed, Files
  <2> HIDE DEF d
  <2> QED BY <1>b, <2>1, <2>2
<1>1. ASSUME NEW s \in Slug, Mint(r, s) PROVE Goal
  <2> DEFINE n == [num |-> NextNumber(Claimed(r)), slug |-> s]
             Cites == {{}} \cup (IF "cite" \in Faults
                        THEN {{[num |-> o.num, id |-> disk[r][o].id, by |-> r]} : o \in Files(r)}
                        ELSE {})
  <2>1. PICK cited \in Cites :
          disk' = [disk EXCEPT ![r] = Put(@, n, [id |-> Len(titles) + 1, heading |-> n.num, cites |-> cited])]
    BY <1>1 DEF Mint
  <2>2. n.num <= MaxNumber /\ Len(titles) + 1 <= MaxMints
    BY <1>1 DEF Mint
  <2>3. n.num \in Number
    <3>1. Claimed(r) \subseteq Number
      BY <1>f DEF Claimed, Name
    <3>2. NextNumber(Claimed(r)) \in Nat \ {0}
      BY <3>1, MintedIsFresh
    <3> QED BY <2>2, <3>2, BoundsAssumption DEF Number
  <2>4. Len(titles) + 1 \in Id
    <3>1. Len(titles) \in Nat
      BY DEF Typed
    <3> QED BY <2>2, <3>1, BoundsAssumption DEF Id
  <2>5. \A o \in Files(r) : [num |-> o.num, id |-> disk[r][o].id, by |-> r] \in Citation
    BY <1>f DEF Typed, Body, Citation, Name
  <2>6. cited \subseteq Citation
    <3>1. CASE cited = {}
      BY <3>1
    <3>2. ASSUME NEW o \in Files(r), cited = {[num |-> o.num, id |-> disk[r][o].id, by |-> r]}
          PROVE  cited \subseteq Citation
      BY <2>5, <3>2
    <3>3. cited = {} \/ \E o \in Files(r) : cited = {[num |-> o.num, id |-> disk[r][o].id, by |-> r]}
      BY <2>1
    <3> QED BY <3>1, <3>2, <3>3
  <2> HIDE DEF n, Cites
  <2> DEFINE b == [id |-> Len(titles) + 1, heading |-> n.num, cites |-> cited]
             d == Put(disk[r], n, b)
  <2>7. b \in Body
    BY <2>3, <2>4, <2>6 DEF Body
  <2>8. disk' = [disk EXCEPT ![r] = d]
    BY <2>1, <1>d
  <2> HIDE DEF b
  <2>9. \A m \in DOMAIN d : d[m] \in Body
    BY <2>7 DEF Put, Typed, Files
  <2> HIDE DEF d
  <2> QED BY <1>b, <2>8, <2>9
<1>2. ASSUME NEW n \in Files(r), \/ Cite(r, n) \/ Push(r, n)
      PROVE  Goal
  BY <1>2, <1>a DEF Cite, Push, storeVars
<1>3. ASSUME NEW n \in Files(r), NEW s, RenameByHand(r, n, s) PROVE Goal
  BY <1>3, <1>c DEF RenameByHand
<1>4. CASE PullPlan(r) \/ Crash(r) \/ PullLock(r) \/ RepairDanglingStems(r) \/ CompletionFails(r)
           \/ RetargetRenumbered(r) \/ FinishCanonicalize(r)
  BY <1>4, <1>a DEF PullPlan, Crash, PullLock, RepairDanglingStems, CompletionFails,
     RetargetRenumbered, FinishCanonicalize, storeVars
<1>5. ASSUME NEW n \in Files(r), CompleteHeading(r, n) PROVE Goal
  <2>1. n.num \in Number
    BY <1>f DEF Name
  <2> QED BY <1>5, <2>1, HeadingTyped DEF CompleteHeading
<1>6. CASE RewriteHeading(r)
  <2>1. moving[r][3].num \in Number
    BY <1>6 DEF RewriteHeading, Typed, Name
  <2> QED BY <1>6, <2>1, HeadingTyped DEF RewriteHeading
<1>7. ASSUME NEW n \in todo[r], Install(r, n) PROVE Goal
  <2> DEFINE d == Put(disk[r], n, manifest[r][n])
  <2>1. disk' = [disk EXCEPT ![r] = d]
    BY <1>7, <1>d DEF Install
  <2>2. \A m \in DOMAIN d : d[m] \in Body
    BY <1>f DEF Put, Typed, Files
  <2> HIDE DEF d
  <2> QED BY <1>b, <2>1, <2>2
<1>8. ASSUME NEW n, Adopt(r, n) \/ KeepLocal(r, n) \/ Quarantine(r, n) \/ ApplyFails(r, n)
      PROVE  Goal
  BY <1>8, <1>a DEF Adopt, KeepLocal, Quarantine, ApplyFails, storeVars
<1>9. ASSUME NEW n \in todo[r], Canonicalize(r, n) PROVE Goal
  <2>1. Move(r, Collider(r, n), n) /\ Collider(r, n) \in Files(r)
    BY <1>9, ColliderHolds DEF Canonicalize, Classifies
  <2> QED BY <1>c, <2>1
<1>10. ASSUME NEW n \in todo[r], Renumber(r, n) PROVE Goal
  <2>1. Collider(r, n) \in Files(r) /\ \E new : Move(r, Collider(r, n), new)
    BY <1>10, ColliderHolds DEF Renumber, Classifies
  <2> QED BY <1>c, <2>1
<1>11. CASE PullFinish(r)
  <2> DEFINE f == [n \in Files(r) |-> IF n \in Stale(r) /\ Unchanged(r, n)
                                    THEN manifest[r][n] ELSE disk[r][n]]
  <2>1. disk' = [disk EXCEPT ![r] = f]
    BY <1>11 DEF PullFinish
  <2>2. \A m \in DOMAIN f : f[m] \in Body
    BY DEF Typed, Stale
  <2> HIDE DEF f
  <2> QED BY <1>b, <2>1, <2>2
<1> QED
  BY <1>0, <1>1, <1>2, <1>3, <1>4, <1>5, <1>6, <1>7, <1>8, <1>9, <1>10, <1>11
     DEF LocalStep, PullStep

LEMMA TypedStep ==
  ASSUME Inv, Typed, Next
  PROVE  Typed'
<1>0. PICK r \in Replica : \/ LocalStep(r)
                           \/ \E n \in Files(r) : Push(r, n)
                           \/ PullPlan(r) \/ PullStep(r) \/ Crash(r)
  BY DEF Next
<1>f. todo[r] \subseteq DOMAIN manifest[r] /\ DOMAIN manifest[r] \subseteq Name /\ Files(r) \subseteq Name
      /\ DOMAIN manifest = Replica
  BY DEF Inv, NamesInv, FilesInv, RowsInv
<1>g. \A q \in Replica : \A m \in Files(q)' : disk'[q][m] \in Body
  BY BodiesStep
(* A step that leaves the rows, or lets them go, and the place of the move.   *)
<1> DEFINE Kept == /\ titles' \in Seq(Slug)
                   /\ UNCHANGED server /\ DOMAIN questions' = Replica
                   /\ \A q \in Replica : questions'[q] \subseteq Citation
             Run == /\ DOMAIN pc' = Replica /\ DOMAIN shifted' = Replica /\ DOMAIN moving' = Replica
                    /\ \A q \in Replica : \A n \in DOMAIN manifest'[q] : manifest'[q][n] \in Body
                    /\ \A q \in Replica : pc'[q] = "renamed" => moving'[q][3] \in Name
<1>k. Kept /\ Run => Typed'
  BY <1>g DEF Typed
<1>1. UNCHANGED <<server, titles, questions>> => Kept
  BY DEF Typed
<1>2. UNCHANGED pullVars => Run
  BY DEF Typed, pullVars
<1>3. ASSUME NEW n, Done(r, n), UNCHANGED <<manifest, shifted>> PROVE Run
  BY <1>3 DEF Done, Typed
<1>4. ASSUME NEW p \in Pcs \ {"renamed"}, pc' = [pc EXCEPT ![r] = p],
             UNCHANGED <<manifest, shifted, moving>>
      PROVE  Run
  BY <1>4 DEF Typed
<1>5. EndPull(r) => Run
  BY <1>f DEF EndPull, Typed
<1>6. ASSUME NEW s \in Slug, Mint(r, s) PROVE Typed'
  <2>1. titles' = Append(titles, s) /\ UNCHANGED <<server, questions, pullVars>>
    BY <1>6 DEF Mint
  <2>2. titles' \in Seq(Slug)
    BY <2>1 DEF Typed
  <2>3. Kept
    BY <2>1, <2>2 DEF Typed
  <2> QED BY <1>2, <1>k, <2>1, <2>3
<1>7. ASSUME NEW n \in Files(r), Cite(r, n) PROVE Typed'
  <2>1. /\ questions' = [questions EXCEPT ![r] = {[num |-> n.num, id |-> disk[r][n].id, by |-> r]}]
        /\ UNCHANGED <<server, titles, pullVars>>
    BY <1>7 DEF Cite
  <2>2. [num |-> n.num, id |-> disk[r][n].id, by |-> r] \in Citation
    BY <1>f DEF Typed, Body, Citation, Name
  <2>3. Kept
    BY <2>1, <2>2 DEF Typed
  <2> QED BY <1>2, <1>k, <2>1, <2>3
<1>8. ASSUME NEW n, NEW s, RenameByHand(r, n, s) PROVE Typed'
  BY <1>8, <1>1, <1>2, <1>k DEF RenameByHand
<1>9. ASSUME NEW n \in Files(r), Push(r, n) PROVE Typed'
  <2>1. server' = Put(server, n, disk[r][n]) /\ UNCHANGED <<titles, questions, pullVars>>
    BY <1>9 DEF Push, storeVars
  <2>2. \A m \in DOMAIN server' : server'[m] \in Body
    BY <2>1 DEF Put, Typed
  <2>3. Run
    BY <1>2, <2>1
  <2> QED BY <1>g, <2>1, <2>2, <2>3 DEF Typed
<1>10. CASE PullPlan(r)
  <2>1. /\ manifest' = [manifest EXCEPT ![r] = server] /\ pc' = [pc EXCEPT ![r] = "planned"]
        /\ UNCHANGED <<server, titles, questions, shifted, moving>>
    BY <1>10 DEF PullPlan, storeVars
  <2>2. Run
    BY <2>1, <1>f DEF Typed
  <2> QED BY <1>1, <1>k, <2>1, <2>2
<1>11. CASE Crash(r) \/ PullFinish(r)
  BY <1>11, <1>1, <1>5, <1>k DEF Crash, PullFinish, storeVars
<1>12. CASE PullLock(r) \/ RepairDanglingStems(r) \/ CompletionFails(r) \/ RewriteHeading(r)
            \/ RetargetRenumbered(r)
  <2>1. PICK p \in Pcs \ {"renamed"} : pc' = [pc EXCEPT ![r] = p]
    BY <1>12 DEF PullLock, RepairDanglingStems, CompletionFails, RewriteHeading,
       RetargetRenumbered, Pcs
  <2>2. UNCHANGED <<server, titles, questions, manifest, shifted, moving>>
    BY <1>12 DEF PullLock, RepairDanglingStems, CompletionFails, RewriteHeading,
       RetargetRenumbered, storeVars
  <2> QED BY <1>1, <1>4, <1>k, <2>1, <2>2
<1>13. ASSUME NEW n, CompleteHeading(r, n) PROVE Typed'
  BY <1>13, <1>1, <1>2, <1>k DEF CompleteHeading
<1>14. ASSUME NEW n, \/ Install(r, n) \/ Adopt(r, n) \/ KeepLocal(r, n) \/ Quarantine(r, n)
                     \/ ApplyFails(r, n)
       PROVE  Typed'
  <2>1. Done(r, n) /\ UNCHANGED <<server, titles, questions, manifest, shifted>>
    BY <1>14 DEF Install, Adopt, KeepLocal, Quarantine, ApplyFails, storeVars
  <2> QED BY <1>1, <1>3, <1>k, <2>1
<1>15. CASE FinishCanonicalize(r)
  <2>1. Done(r, moving[r][1]) /\ UNCHANGED <<server, titles, questions, manifest, shifted>>
    BY <1>15 DEF FinishCanonicalize
  <2> QED BY <1>1, <1>3, <1>k, <2>1
<1>16. ASSUME NEW n, Canonicalize(r, n) PROVE Typed'
  <2>1. /\ pc' = [pc EXCEPT ![r] = "canonicalized"]
        /\ \E x : moving' = [moving EXCEPT ![r] = x]
        /\ UNCHANGED <<server, titles, questions, manifest, shifted>>
    BY <1>16 DEF Canonicalize
  <2>2. Run
    BY <2>1 DEF Typed
  <2> QED BY <1>1, <1>k, <2>1, <2>2
<1>17. ASSUME NEW n \in todo[r], Renumber(r, n) PROVE Typed'
  <2> DEFINE old == Collider(r, n)
             num == NextNumber(Claimed(r) \cup Reserved(r))
             new == [num |-> num, slug |-> old.slug]
  <2>1. /\ pc' = [pc EXCEPT ![r] = "renamed"] /\ moving' = [moving EXCEPT ![r] = <<n, old, new>>]
        /\ shifted' = [shifted EXCEPT ![r] = @ \cup {disk[r][old].id}]
        /\ UNCHANGED <<server, titles, questions, manifest>> /\ num <= MaxNumber
        /\ Verdict(r, n) = "renumber"
    BY <1>17 DEF Renumber, Classifies
  <2>2. new \in Name
    <3>1. Claimed(r) \cup Reserved(r) \subseteq Number
      BY <1>f DEF Claimed, Reserved, Name
    <3>2. num \in Nat \ {0}
      BY <3>1, MintedIsFresh
    <3>3. num \in Number
      BY <2>1, <3>2, BoundsAssumption DEF Number
    <3>4. old.slug \in Slug
      BY <2>1, <1>f, ColliderHolds DEF Name
    <3> QED BY <3>3, <3>4 DEF Name
  <2> HIDE DEF old, num, new
  <2>3. Run
    BY <2>1, <2>2 DEF Typed
  <2> QED BY <1>1, <1>k, <2>1, <2>3
<1> QED
  BY <1>0, <1>6, <1>7, <1>8, <1>9, <1>10, <1>11, <1>12, <1>13, <1>14, <1>15, <1>16, <1>17
     DEF LocalStep, PullStep

-----------------------------------------------------------------------------
(* Where the files and the bodies of the next state come from.               *)
LEMMA FilesFrom ==
  ASSUME NEW r \in Replica, Others(r), Seen(r), NEW q \in Replica, NEW n \in Files(q)'
  PROVE  \/ \E m \in Files(q) : /\ disk'[q][n].id = disk[q][m].id
                                /\ disk'[q][n].cites = disk[q][m].cites
                                /\ n.slug = m.slug
                                /\ n # m => SeesAside(r) /\ q = r
         \/ SeesInstall(r) /\ q = r /\ n \in DOMAIN manifest[r] /\ disk'[q][n] = manifest[r][n]
         \/ SeesMint(r) /\ q = r /\ n \notin Files(r) /\ disk'[q][n].id = Len(titles) + 1
<1>1. CASE q # r
  BY <1>1 DEF Others, Files
<1>2. CASE q = r /\ Stays(disk[r], disk'[r])
  BY <1>2 DEF Stays, SameBody, Files
<1>3. CASE q = r /\ SeesMint(r)
  BY <1>3 DEF SeesMint, Gains, SameBody, Files
<1>4. CASE q = r /\ SeesInstall(r)
  BY <1>4 DEF SeesInstall, Gains, SameBody, Files
<1>5. CASE q = r /\ SeesAside(r)
  BY <1>5 DEF SeesAside, Shifts, SameBody, Files
<1>6. CASE UNCHANGED disk
  BY <1>6 DEF Files
<1> QED
  BY <1>1, <1>2, <1>3, <1>4, <1>5, <1>6 DEF Seen, SeesPush, SeesPlan, SeesEnd, SeesCite, SeesQuiet

(* No machine ever loses a decision.                                         *)
LEMMA FilesStay ==
  ASSUME NEW r \in Replica, Others(r), Seen(r), NEW q \in Replica, NEW m \in Files(q)
  PROVE  \E n \in Files(q)' : /\ disk'[q][n].id = disk[q][m].id
                              /\ disk'[q][n].cites = disk[q][m].cites
                              /\ n # m => SeesAside(r) /\ q = r /\ m.num \notin CitedNumbers(r)
<1>1. CASE q # r
  BY <1>1 DEF Others, Files
<1>2. CASE q = r /\ Stays(disk[r], disk'[r])
  BY <1>2 DEF Stays, SameBody, Files
<1>3. CASE q = r /\ SeesMint(r)
  BY <1>3 DEF SeesMint, Gains, SameBody, Files
<1>4. CASE q = r /\ SeesInstall(r)
  BY <1>4 DEF SeesInstall, Gains, SameBody, Files
<1>5. CASE q = r /\ SeesAside(r)
  BY <1>5 DEF SeesAside, Shifts, SameBody, Files
<1>6. CASE UNCHANGED disk
  BY <1>6 DEF Files
<1> QED
  BY <1>1, <1>2, <1>3, <1>4, <1>5, <1>6 DEF Seen, SeesPush, SeesPlan, SeesEnd, SeesCite, SeesQuiet

(* What is said of the server and of the published pairs.                    *)
LEMMA ServerStep ==
  ASSUME NEW r \in Replica, Seen(r)
  PROVE  \/ Private
         \/ SeesPush(r) /\ UNCHANGED <<titles, disk, manifest, questions, pc, shifted>> /\ pc[r] = "idle"
            /\ \E n \in Files(r) : /\ server' = Put(server, n, disk[r][n])
                                   /\ announced' = announced \cup {<<n, disk[r][n].id>>}
  BY DEF Seen, SeesMint, SeesInstall, SeesAside, SeesPush, SeesPlan, SeesEnd, SeesCite, SeesQuiet

LEMMA TitlesStep ==
  ASSUME Typed, NEW r \in Replica, Seen(r)
  PROVE  \/ UNCHANGED titles
         \/ /\ SeesMint(r) /\ Len(titles') = Len(titles) + 1 /\ Len(titles) \in Nat
            /\ \A i \in 1..Len(titles) : titles'[i] = titles[i] /\ titles[i] # titles'[Len(titles) + 1]
            /\ \A n \in Files(r)' \ Files(r) : n.slug = titles'[Len(titles) + 1]
<1>1. CASE SeesMint(r)
  <2>1. PICK n \in Name : /\ Gains(disk[r], disk'[r], n)
                          /\ titles' = Append(titles, n.slug)
                          /\ \A i \in 1..Len(titles) : titles[i] # n.slug
    BY <1>1 DEF SeesMint
  <2>2. titles \in Seq(Slug)
    BY DEF Typed
  <2>3. /\ Len(titles') = Len(titles) + 1 /\ Len(titles) \in Nat
        /\ \A i \in 1..Len(titles) : titles'[i] = titles[i]
        /\ titles'[Len(titles) + 1] = n.slug
    BY <2>1, <2>2 DEF Name
  <2>4. \A m \in Files(r)' \ Files(r) : m = n
    BY <2>1 DEF Gains, Files
  <2> QED BY <1>1, <2>1, <2>3, <2>4
<1>2. CASE ~SeesMint(r)
  BY <1>2 DEF Seen, SeesInstall, SeesAside, SeesPush, SeesPlan, SeesEnd, SeesCite, SeesQuiet
<1> QED BY <1>1, <1>2

LEMMA TitledStep ==
  ASSUME Typed, Titled, Listed, NEW r \in Replica, Others(r), Seen(r)
  PROVE  Titled'
<1>0. Len(titles) \in Nat
  BY DEF Typed
<1>1. /\ \A i \in 1..Len(titles) : i \in 1..Len(titles') /\ titles'[i] = titles[i]
      /\ \A i \in 1..Len(titles') : i \in 1..Len(titles) \/ (i = Len(titles) + 1 /\ SeesMint(r))
  <2>1. CASE titles' = titles
    BY <2>1
  <2>2. CASE titles' # titles
    <3>1. /\ SeesMint(r) /\ Len(titles') = Len(titles) + 1
          /\ \A i \in 1..Len(titles) : titles'[i] = titles[i]
      BY <2>2, TitlesStep
    <3> QED BY <1>0, <3>1
  <2> QED BY <2>1, <2>2
<1>2. \A i, j \in 1..Len(titles') : titles'[i] = titles'[j] => i = j
  <2>1. CASE titles' = titles
    BY <2>1 DEF Titled
  <2>2. CASE titles' # titles
    BY <2>2, <1>0, <1>1, TitlesStep DEF Titled
  <2> QED BY <2>1, <2>2
<1>3. \A a \in announced : a[2] \in 1..Len(titles') /\ titles'[a[2]] = a[1].slug
  BY <1>1 DEF Titled
<1>4. \A q \in Replica : \A m \in Files(q) :
        disk[q][m].id \in 1..Len(titles') /\ titles'[disk[q][m].id] = m.slug
  BY <1>1 DEF Titled
<1>5. ASSUME NEW q \in Replica, NEW n \in Files(q)'
      PROVE  disk'[q][n].id \in 1..Len(titles') /\ titles'[disk'[q][n].id] = n.slug
  <2>1. CASE \E m \in Files(q) : disk'[q][n].id = disk[q][m].id /\ n.slug = m.slug
    BY <1>4, <2>1
  <2>2. CASE n \in DOMAIN manifest[r] /\ disk'[q][n] = manifest[r][n]
    <3>1. <<n, manifest[r][n].id>> \in announced
      BY <2>2 DEF Listed
    <3> QED BY <1>3, <2>2, <3>1
  <2>3. CASE SeesMint(r) /\ q = r /\ n \notin Files(r) /\ disk'[q][n].id = Len(titles) + 1
    <3>1. ~UNCHANGED titles
      <4>1. \E x \in Name : titles' = Append(titles, x.slug)
        BY <2>3 DEF SeesMint
      <4>2. titles \in Seq(Slug)
        BY DEF Typed
      <4> QED BY <4>1, <4>2 DEF Name
    <3>2. n.slug = titles'[Len(titles) + 1] /\ Len(titles') = Len(titles) + 1
      BY <2>3, <3>1, TitlesStep
    <3> QED BY <1>0, <2>3, <3>2
  <2> QED BY <2>1, <2>2, <2>3, FilesFrom
<1>6. \A a \in announced' : a[2] \in 1..Len(titles') /\ titles'[a[2]] = a[1].slug
  <2>1. CASE Private
    BY <1>3, <2>1 DEF Private
  <2>2. CASE ~Private
    <3>1. PICK n \in Files(r) : announced' = announced \cup {<<n, disk[r][n].id>>}
      BY <2>2, ServerStep
    <3> QED BY <1>3, <1>4, <3>1
  <2> QED BY <2>1, <2>2
<1> QED
  BY <1>2, <1>5, <1>6 DEF Titled

LEMMA ListedStep ==
  ASSUME Typed, Titled, Listed, OneName, NEW r \in Replica, Others(r), Seen(r)
  PROVE  Listed'
<1>1. announced \subseteq announced' /\ DOMAIN server \subseteq DOMAIN server'
  BY ServerStep DEF Private, Put
<1>2. \A n \in DOMAIN server' : <<n, server'[n].id>> \in announced'
  <2>1. CASE Private
    BY <2>1 DEF Private, Listed
  <2>2. CASE ~Private
    <3>1. PICK m \in Files(r) : /\ server' = Put(server, m, disk[r][m])
                                /\ announced' = announced \cup {<<m, disk[r][m].id>>}
      BY <2>2, ServerStep
    <3> QED BY <3>1 DEF Put, Listed
  <2> QED BY <2>1, <2>2
<1>3. \A a \in announced' : a[1] \in DOMAIN server'
  <2>1. CASE Private
    BY <2>1 DEF Private, Listed
  <2>2. CASE ~Private
    <3>1. PICK m \in Files(r) : /\ server' = Put(server, m, disk[r][m])
                                /\ announced' = announced \cup {<<m, disk[r][m].id>>}
      BY <2>2, ServerStep
    <3> QED BY <3>1 DEF Put, Listed
  <2> QED BY <2>1, <2>2
<1>4. ASSUME NEW q \in Replica
      PROVE  \/ manifest'[q] = manifest[q]
             \/ q = r /\ SeesPlan(r) /\ manifest'[q] = server
             \/ q = r /\ SeesEnd(r) /\ manifest'[q] = <<>>
  <2>1. CASE q # r
    BY <2>1 DEF Others
  <2>2. CASE q = r
    BY <2>2 DEF Seen, SeesMint, SeesInstall, SeesAside, SeesPush, SeesPlan, SeesEnd, SeesCite, SeesQuiet
  <2> QED BY <2>1, <2>2
<1>5. ASSUME NEW q \in Replica, NEW n \in DOMAIN manifest'[q]
      PROVE  <<n, manifest'[q][n].id>> \in announced'
  <2>1. CASE manifest'[q] = <<>>
    BY <2>1
  <2>2. CASE manifest'[q] # <<>>
    BY <1>1, <1>4, <2>2 DEF Listed
  <2> QED BY <2>1, <2>2
<1>6. ASSUME NEW q \in Replica, NEW n \in Files(q)', pc'[q] # "idle",
             <<n, disk'[q][n].id>> \in announced'
      PROVE  n \in DOMAIN manifest'[q]
  <2>1. CASE q = r /\ SeesPlan(r)
    <3>1. n \in Files(r) /\ disk'[q][n] = disk[r][n] /\ announced' = announced
      BY <2>1 DEF SeesPlan, Private, Files
    <3>2. n \in DOMAIN server
      BY <1>6, <2>1, <3>1 DEF Listed
    <3> QED BY <2>1, <3>2 DEF SeesPlan
  <2>2. CASE q = r /\ SeesEnd(r)
    BY <1>6, <2>2 DEF SeesEnd
  <2>3. CASE q = r /\ SeesInstall(r)
    <3>1. /\ pc[r] # "idle" /\ manifest' = manifest /\ announced' = announced
      BY <2>3 DEF SeesInstall, Private
    <3>2. CASE n \in DOMAIN manifest[r]
      BY <2>3, <3>1, <3>2
    <3>3. CASE n \notin DOMAIN manifest[r]
      <4>1. n \in Files(r) /\ disk'[r][n].id = disk[r][n].id
        BY <2>3, <3>3 DEF SeesInstall, Gains, SameBody, Files
      <4> QED BY <1>6, <2>3, <3>1, <4>1 DEF Listed
    <3> QED BY <3>2, <3>3
  <2>4. CASE q = r /\ SeesAside(r)
    <3>1. /\ pc[r] # "idle" /\ manifest' = manifest /\ announced' = announced
      BY <2>4 DEF SeesAside, Private
    <3>2. PICK m \in Files(r) : disk'[r][n].id = disk[r][m].id /\ (n = m \/ n \notin Files(r)) /\
                 (n # m => m \notin DOMAIN manifest[r])
      BY <2>4 DEF SeesAside, Shifts, SameBody, Files
    <3>3. n = m
      BY <1>6, <2>4, <3>1, <3>2 DEF OneName
    <3> QED BY <1>6, <2>4, <3>1, <3>2, <3>3 DEF Listed
  <2>5. CASE q = r /\ (SeesMint(r) \/ SeesPush(r) \/ SeesCite(r))
    <3>1. CASE pc[r] = "idle"
      BY <1>6, <2>5, <3>1 DEF SeesMint, SeesPush, SeesCite
    <3>2. CASE pc[r] # "idle"
      <4>1. SeesCite(r)
        BY <2>5, <3>2 DEF SeesMint, SeesPush
      <4> QED BY <1>6, <2>5, <3>2, <4>1 DEF SeesCite, Private, Listed, Files
    <3> QED BY <3>1, <3>2
  <2>6. CASE q = r /\ SeesQuiet(r)
    BY <1>6, <2>6 DEF SeesQuiet, Private, Stays, SameBody, Listed, Files
  <2>7. CASE q # r
    <3>1. n \in Files(q) /\ disk'[q] = disk[q] /\ pc[q] # "idle" /\ manifest'[q] = manifest[q]
      BY <1>6, <2>7 DEF Others, Files
    <3>2. <<n, disk[q][n].id>> \in announced
      <4>1. CASE Private
        BY <1>6, <3>1, <4>1 DEF Private
      <4>2. CASE ~Private
        <5>1. PICK m \in Files(r) : announced' = announced \cup {<<m, disk[r][m].id>>}
          BY <4>2, ServerStep
        <5>2. CASE <<n, disk[q][n].id>> = <<m, disk[r][m].id>>
          BY <2>7, <3>1, <5>2 DEF OneName
        <5> QED BY <1>6, <3>1, <5>1, <5>2
      <4> QED BY <4>1, <4>2
    <3> QED BY <3>1, <3>2 DEF Listed
  <2> QED BY <2>1, <2>2, <2>3, <2>4, <2>5, <2>6, <2>7 DEF Seen
<1> QED
  BY <1>2, <1>3, <1>5, <1>6 DEF Listed

(* The files and what they say, when no file comes, goes or moves.           *)
LEMMA Steady ==
  ASSUME NEW r \in Replica, Others(r), Seen(r), ~SeesMint(r), ~SeesInstall(r), ~SeesAside(r)
  PROVE  \A q \in Replica : /\ Files(q)' = Files(q)
                            /\ \A n \in Files(q) : /\ disk'[q][n].id = disk[q][n].id
                                                   /\ disk'[q][n].cites = disk[q][n].cites
<1>1. Stays(disk[r], disk'[r])
  <2>1. CASE disk' = disk
    BY <2>1 DEF Stays, SameBody
  <2>2. CASE disk' # disk
    BY <2>2 DEF Seen, SeesPush, SeesPlan, SeesEnd, SeesCite, SeesQuiet
  <2> QED BY <2>1, <2>2
<1>2. \A q \in Replica \ {r} : disk'[q] = disk[q]
  BY DEF Others
<1> QED
  BY <1>1, <1>2 DEF Stays, SameBody, Files

LEMMA OneNameStep ==
  ASSUME Typed, Titled, Listed, OneName, NEW r \in Replica, Others(r), Seen(r)
  PROVE  OneName'
<1>o. \A q \in Replica \ {r} : Files(q)' = Files(q) /\ disk'[q] = disk[q]
  BY DEF Others, Files
<1>1. CASE SeesAside(r)
  <2>1. PICK old \in Files(r), new \in Name :
          /\ Shifts(disk[r], disk'[r], old, new) /\ old \notin DOMAIN manifest[r]
    BY <1>1 DEF SeesAside
  <2>2. announced' = announced /\ <<old, disk[r][old].id>> \notin announced
    BY <1>1, <2>1 DEF SeesAside, Private, Listed
  <2>3. \A q \in Replica : \A n \in Files(q) : disk[q][n].id = disk[r][old].id => q = r /\ n = old
    BY <2>2 DEF OneName
  <2>4. \A n \in Files(r)' : \/ n = new /\ disk'[r][n].id = disk[r][old].id
                             \/ n \in Files(r) \ {old} /\ disk'[r][n].id = disk[r][n].id
    BY <2>1 DEF Shifts, SameBody, Files
  <2>5. ASSUME NEW q \in Replica, NEW n \in Files(q)'
        PROVE  \/ q = r /\ n = new /\ disk'[q][n].id = disk[r][old].id
               \/ /\ n \in Files(q) /\ disk'[q][n].id = disk[q][n].id
                  /\ disk'[q][n].id # disk[r][old].id
    BY <1>o, <2>3, <2>4
  <2>6. ASSUME NEW q \in Replica, NEW p \in Replica, NEW m \in Files(q)', NEW n \in Files(p)',
               disk'[q][m].id = disk'[p][n].id
        PROVE  m = n
    BY <2>2, <2>5, <2>6 DEF OneName
  <2>6a. ASSUME NEW q \in Replica, NEW p \in Replica, NEW n \in Files(q)', n \in Files(p)',
               disk'[q][n].id = disk'[p][n].id, q # p
        PROVE  <<n, disk'[q][n].id>> \in announced'
    BY <2>2, <2>5, <2>6a DEF OneName
  <2>7. ASSUME NEW a \in announced', NEW p \in Replica, NEW n \in Files(p)', disk'[p][n].id = a[2]
        PROVE  n = a[1]
    <3>1. CASE n \in Files(p) /\ disk'[p][n].id = disk[p][n].id
      BY <2>2, <2>7, <3>1 DEF OneName
    <3>2. CASE n = new /\ disk'[p][n].id = disk[r][old].id
      <4>1. a[1] = old
        BY <2>2, <2>7, <3>2 DEF OneName
      <4>2. a[1] \in DOMAIN server /\ <<a[1], server[a[1]].id>> \in announced
        BY <2>2, <2>7 DEF Listed
      <4>3. server[old].id \in 1..Len(titles) /\ titles[server[old].id] = old.slug
        BY <4>1, <4>2 DEF Titled
      <4>4. disk[r][old].id \in 1..Len(titles) /\ titles[disk[r][old].id] = old.slug
        BY <2>1 DEF Titled
      <4>5. server[old].id = disk[r][old].id
        BY <4>3, <4>4 DEF Titled
      <4> QED BY <2>2, <4>1, <4>2, <4>5
    <3> QED BY <2>5, <3>1, <3>2
  <2> QED BY <2>2, <2>6, <2>6a, <2>7 DEF OneName
<1>2. CASE SeesInstall(r)
  <2>1. PICK x \in DOMAIN manifest[r] : Gains(disk[r], disk'[r], x) /\ disk'[r][x] = manifest[r][x]
    BY <1>2 DEF SeesInstall
  <2>2. announced' = announced /\ <<x, disk'[r][x].id>> \in announced
    BY <1>2, <2>1 DEF SeesInstall, Private, Listed
  <2>3. \A q \in Replica : \A n \in Files(q) : disk[q][n].id = disk'[r][x].id => n = x
    BY <2>2 DEF OneName
  <2>4. ASSUME NEW q \in Replica, NEW n \in Files(q)'
        PROVE  \/ q = r /\ n = x
               \/ n \in Files(q) /\ disk'[q][n].id = disk[q][n].id
    <3>1. CASE q = r
      BY <2>1, <3>1 DEF Gains, SameBody, Files
    <3>2. CASE q # r
      BY <1>o, <3>2
    <3> QED BY <3>1, <3>2
  <2>5. ASSUME NEW q \in Replica, NEW p \in Replica, NEW m \in Files(q)', NEW n \in Files(p)',
               disk'[q][m].id = disk'[p][n].id
        PROVE  m = n
    BY <2>2, <2>3, <2>4, <2>5 DEF OneName
  <2>5a. ASSUME NEW q \in Replica, NEW p \in Replica, NEW n \in Files(q)', n \in Files(p)',
               disk'[q][n].id = disk'[p][n].id, q # p
        PROVE  <<n, disk'[q][n].id>> \in announced'
    BY <2>2, <2>3, <2>4, <2>5a DEF OneName
  <2>6. ASSUME NEW a \in announced', NEW p \in Replica, NEW n \in Files(p)', disk'[p][n].id = a[2]
        PROVE  n = a[1]
    <3>1. CASE n \in Files(p) /\ disk'[p][n].id = disk[p][n].id
      BY <2>2, <2>6, <3>1 DEF OneName
    <3>2. CASE p = r /\ n = x
      BY <2>2, <2>6, <3>2 DEF OneName
    <3> QED BY <2>4, <3>1, <3>2
  <2> QED BY <2>2, <2>5, <2>5a, <2>6 DEF OneName
<1>3. CASE SeesMint(r)
  <2>1. PICK x \in Name : Gains(disk[r], disk'[r], x) /\ disk'[r][x].id = Len(titles) + 1
    BY <1>3 DEF SeesMint
  <2>2. announced' = announced
    BY <1>3 DEF SeesMint, Private
  <2>3. Len(titles) \in Nat
    BY DEF Typed
  <2>4. ASSUME NEW q \in Replica, NEW n \in Files(q)'
        PROVE  \/ q = r /\ n = x /\ disk'[q][n].id = Len(titles) + 1
               \/ n \in Files(q) /\ disk'[q][n].id = disk[q][n].id /\ disk'[q][n].id \in 1..Len(titles)
    <3>1. CASE q = r
      BY <2>1, <3>1 DEF Gains, SameBody, Files, Titled
    <3>2. CASE q # r
      BY <1>o, <3>2 DEF Titled
    <3> QED BY <3>1, <3>2
  <2>5. Len(titles) + 1 \notin 1..Len(titles)
    BY <2>3
  <2>6. ASSUME NEW q \in Replica, NEW p \in Replica, NEW m \in Files(q)', NEW n \in Files(p)',
               disk'[q][m].id = disk'[p][n].id
        PROVE  m = n
    BY <2>2, <2>4, <2>5, <2>6 DEF OneName
  <2>6a. ASSUME NEW q \in Replica, NEW p \in Replica, NEW n \in Files(q)', n \in Files(p)',
               disk'[q][n].id = disk'[p][n].id, q # p
        PROVE  <<n, disk'[q][n].id>> \in announced'
    BY <2>2, <2>4, <2>5, <2>6a DEF OneName
  <2>7. ASSUME NEW a \in announced', NEW p \in Replica, NEW n \in Files(p)', disk'[p][n].id = a[2]
        PROVE  n = a[1]
    BY <2>2, <2>4, <2>5, <2>7 DEF OneName, Titled
  <2> QED BY <2>2, <2>6, <2>6a, <2>7 DEF OneName
<1>4. CASE ~SeesMint(r) /\ ~SeesInstall(r) /\ ~SeesAside(r)
  <2>1. \A q \in Replica : Files(q)' = Files(q) /\ \A n \in Files(q) : disk'[q][n].id = disk[q][n].id
    BY <1>4, Steady
  <2>2. announced \subseteq announced' /\ \A a \in announced' : a \in announced \/
            \E m \in Files(r) : a = <<m, disk[r][m].id>>
    BY ServerStep DEF Private
  <2>3. ASSUME NEW q \in Replica, NEW p \in Replica, NEW m \in Files(q)', NEW n \in Files(p)',
               disk'[q][m].id = disk'[p][n].id
        PROVE  m = n
    BY <2>1, <2>2, <2>3 DEF OneName
  <2>3a. ASSUME NEW q \in Replica, NEW p \in Replica, NEW n \in Files(q)', n \in Files(p)',
               disk'[q][n].id = disk'[p][n].id, q # p
        PROVE  <<n, disk'[q][n].id>> \in announced'
    BY <2>1, <2>2, <2>3a DEF OneName
  <2>4. ASSUME NEW a \in announced', NEW p \in Replica, NEW n \in Files(p)', disk'[p][n].id = a[2]
        PROVE  n = a[1]
    <3>1. n \in Files(p) /\ disk[p][n].id = a[2]
      BY <2>1, <2>4
    <3>2. CASE a \in announced
      BY <3>1, <3>2 DEF OneName
    <3>3. ASSUME NEW m \in Files(r), a = <<m, disk[r][m].id>> PROVE n = a[1]
      BY <3>1, <3>3 DEF OneName
    <3> QED BY <2>2, <3>2, <3>3
  <2>5. \A a, b \in announced' : a[2] = b[2] => a[1] = b[1]
    BY <2>2 DEF OneName
  <2> QED BY <2>3, <2>3a, <2>4, <2>5 DEF OneName
<1> QED BY <1>1, <1>2, <1>3, <1>4

LEMMA ClearedStep ==
  ASSUME Typed, Titled, OneName, Cleared, NEW r \in Replica, Others(r), Seen(r)
  PROVE  Cleared'
<1> DEFINE Fine(q) == /\ pc'[q] = "idle" => shifted'[q] = {}
                      /\ \A n \in Files(q)' :
                           disk'[q][n].id \in shifted'[q] =>
                             n.num \notin {m.num : m \in DOMAIN manifest'[q]} \/ n \in DOMAIN manifest'[q]
<1>1. ASSUME NEW q \in Replica \ {r} PROVE Fine(q)
  BY DEF Others, Cleared, Files, Reserved
<1>2. ASSUME SeesMint(r) PROVE Fine(r)
  <2>1. shifted'[r] = {}
    BY <1>2 DEF SeesMint, Cleared
  <2> QED BY <2>1
<1>3. ASSUME SeesInstall(r) PROVE Fine(r)
  <2>1. PICK x \in DOMAIN manifest[r] : Gains(disk[r], disk'[r], x)
    BY <1>3 DEF SeesInstall
  <2>2. /\ \A n \in Files(r)' : n # x => n \in Files(r) /\ disk'[r][n].id = disk[r][n].id
        /\ UNCHANGED <<manifest, shifted>> /\ pc'[r] # "idle"
    BY <1>3, <2>1 DEF SeesInstall, Gains, SameBody, Files
  <2> QED BY <2>1, <2>2 DEF Cleared, Reserved
<1>4. ASSUME SeesAside(r) PROVE Fine(r)
  <2>1. PICK old \in Files(r), new \in Name :
          /\ Shifts(disk[r], disk'[r], old, new)
          /\ new.num \notin Reserved(r)
          /\ shifted'[r] = shifted[r] \cup {disk[r][old].id}
    BY <1>4 DEF SeesAside
  <2>2. /\ \A n \in Files(r)' : n # new => /\ n \in Files(r) /\ disk'[r][n].id = disk[r][n].id
                                           /\ n # old
        /\ UNCHANGED manifest /\ pc'[r] # "idle"
    BY <1>4, <2>1 DEF SeesAside, Shifts, SameBody, Files
  <2>3. ASSUME NEW n \in Files(r), disk[r][n].id = disk[r][old].id PROVE n = old
    BY <2>3 DEF OneName
  <2> QED BY <2>1, <2>2, <2>3 DEF Cleared, Reserved
<1>5. ASSUME ~SeesMint(r), ~SeesInstall(r), ~SeesAside(r) PROVE Fine(r)
  <2>1. Files(r)' = Files(r) /\ \A n \in Files(r) : disk'[r][n].id = disk[r][n].id
    BY <1>5, Steady
  <2>2. CASE shifted'[r] = {}
    BY <2>2
  <2>3. CASE shifted'[r] # {}
    <3>1. /\ manifest'[r] = manifest[r] /\ shifted'[r] = shifted[r]
          /\ pc'[r] = "idle" => pc[r] = "idle"
      BY <1>5, <2>3 DEF Seen, SeesPush, SeesPlan, SeesEnd, SeesCite, SeesQuiet, Cleared
    <3> QED BY <2>1, <3>1 DEF Cleared, Reserved
  <2> QED BY <2>2, <2>3
<1>6. Fine(r)
  BY <1>2, <1>3, <1>4, <1>5
<1>7. \A q \in Replica : Fine(q)
  BY <1>1, <1>6
<1> QED
  BY <1>7 DEF Cleared, Reserved

(* A body of the next state says what one of this state said, unless it was   *)
(* just written, under an id nothing else has.                               *)
LEMMA BodiesFrom ==
  ASSUME NEW r \in Replica, Others(r), Seen(r), NEW b, IsBody(b)'
  PROVE  \/ \E d : IsBody(d) /\ b.id = d.id /\ b.cites = d.cites
         \/ SeesMint(r) /\ \E n \in Files(r)' : n \notin Files(r) /\ b = disk'[r][n]
<1> DEFINE Old == \E d : IsBody(d) /\ b.id = d.id /\ b.cites = d.cites
<1>o. \A d : IsBody(d) /\ b.id = d.id /\ b.cites = d.cites => Old
  OBVIOUS
<1>p. IsBody(b) => Old
  OBVIOUS
<1> HIDE DEF Old
<1>1. ASSUME NEW n \in DOMAIN server', b = server'[n] PROVE Old
  <2>1. CASE Private
    BY <1>1, <1>p, <2>1 DEF Private, IsBody
  <2>2. CASE ~Private
    <3>1. PICK m \in Files(r) : server' = Put(server, m, disk[r][m])
      BY <2>2, ServerStep
    <3>2. b = disk[r][m] \/ (n \in DOMAIN server /\ b = server[n])
      BY <1>1, <3>1 DEF Put
    <3>3. IsBody(b)
      BY <3>2 DEF IsBody
    <3> QED BY <1>p, <3>3
  <2> QED BY <2>1, <2>2
<1>2. ASSUME NEW q \in Replica, NEW n \in DOMAIN manifest'[q], b = manifest'[q][n] PROVE Old
  <2>1. \/ manifest'[q] = manifest[q]
        \/ manifest'[q] = server
        \/ manifest'[q] = <<>>
    <3>1. CASE q # r
      BY <3>1 DEF Others
    <3>2. CASE q = r
      BY <3>2 DEF Seen, SeesMint, SeesInstall, SeesAside, SeesPush, SeesPlan, SeesEnd, SeesCite,
         SeesQuiet
    <3> QED BY <3>1, <3>2
  <2>2. IsBody(b)
    BY <1>2, <2>1 DEF IsBody
  <2> QED BY <1>p, <2>2
<1>3. ASSUME NEW q \in Replica, NEW n \in Files(q)', b = disk'[q][n]
      PROVE  Old \/ (SeesMint(r) /\ q = r /\ n \notin Files(r))
  <2>1. CASE \E m \in Files(q) : disk'[q][n].id = disk[q][m].id /\ disk'[q][n].cites = disk[q][m].cites
    <3>1. PICK m \in Files(q) : disk'[q][n].id = disk[q][m].id /\ disk'[q][n].cites = disk[q][m].cites
      BY <2>1
    <3>2. IsBody(disk[q][m])
      BY DEF IsBody
    <3> QED BY <1>3, <1>o, <3>1, <3>2
  <2>2. CASE n \in DOMAIN manifest[r] /\ disk'[q][n] = manifest[r][n]
    <3>1. IsBody(b)
      BY <1>3, <2>2 DEF IsBody
    <3> QED BY <1>p, <3>1
  <2> QED BY <2>1, <2>2, FilesFrom
<1> QED
  BY <1>1, <1>2, <1>3 DEF IsBody, Old

LEMMA CitesStep ==
  ASSUME Typed, Titled, Listed, SameCites, Homed, NEW r \in Replica, Others(r), Seen(r)
  PROVE  SameCites' /\ Homed'
<1>0. Len(titles) \in Nat
  BY DEF Typed
<1>1. ASSUME NEW b, IsBody(b) PROVE b.id \in 1..Len(titles)
  <2>1. \A n \in DOMAIN server : <<n, server[n].id>> \in announced
    BY DEF Listed
  <2>2. \A q \in Replica : \A n \in DOMAIN manifest[q] : <<n, manifest[q][n].id>> \in announced
    BY DEF Listed
  <2> QED BY <1>1, <2>1, <2>2 DEF IsBody, Titled
(* Two machines share the ids of one mint at most: the new body is alone.    *)
<1>2. ASSUME NEW b, IsBody(b)'
      PROVE  \/ \E d : IsBody(d) /\ b.id = d.id /\ b.cites = d.cites
             \/ SeesMint(r) /\ b.id = Len(titles) + 1
                /\ \E n \in Files(r)' : n \notin Files(r) /\ b = disk'[r][n]
  <2>1. CASE SeesMint(r) /\ \E n \in Files(r)' : n \notin Files(r) /\ b = disk'[r][n]
    <3>1. PICK n \in Files(r)' : n \notin Files(r) /\ b = disk'[r][n]
      BY <2>1
    <3>2. disk'[r][n].id = Len(titles) + 1
      BY <2>1, <3>1 DEF SeesMint, Gains, Files
    <3> QED BY <2>1, <3>1, <3>2
  <2> QED BY <1>2, <2>1, BodiesFrom
<1>3. Len(titles) + 1 \notin 1..Len(titles)
  BY <1>0
<1>4. ASSUME NEW b, NEW c, IsBody(b)', IsBody(c)', b.id = c.id PROVE b.cites = c.cites
  <2>1. CASE b.id = Len(titles) + 1
    <3>1. SeesMint(r) /\ \E n \in Files(r)' : n \notin Files(r) /\ b = disk'[r][n]
      BY <1>1, <1>2, <1>3, <1>4, <2>1
    <3>2. \E n \in Files(r)' : n \notin Files(r) /\ c = disk'[r][n]
      <4>1. c.id = Len(titles) + 1 /\ IsBody(c)'
        BY <1>4, <2>1
      <4>2. ~\E d : IsBody(d) /\ c.id = d.id /\ c.cites = d.cites
        BY <1>1, <1>3, <4>1
      <4> QED BY <1>2, <4>1, <4>2
    <3>3. \E x : \A n \in Files(r)' : n \notin Files(r) => n = x
      BY <3>1 DEF SeesMint, Gains, Files
    <3> QED BY <3>1, <3>2, <3>3
  <2>2. CASE b.id # Len(titles) + 1
    <3>1. PICK d : IsBody(d) /\ b.id = d.id /\ b.cites = d.cites
      BY <1>2, <1>4, <2>2
    <3>2. PICK e : IsBody(e) /\ c.id = e.id /\ c.cites = e.cites
      BY <1>2, <1>4, <2>2
    <3> QED BY <1>4, <3>1, <3>2 DEF SameCites
  <2> QED BY <2>1, <2>2
<1>5. ASSUME NEW b, IsBody(b)', NEW c \in b.cites
      PROVE  \E n \in Files(c.by)' : disk'[c.by][n].id = b.id
  <2>1. CASE \E d : IsBody(d) /\ b.id = d.id /\ b.cites = d.cites
    <3>1. PICK d : IsBody(d) /\ b.id = d.id /\ b.cites = d.cites
      BY <2>1
    <3>2. PICK m \in Files(c.by) : disk[c.by][m].id = b.id
      BY <1>5, <3>1 DEF Homed
    <3>3. c.by \in Replica
      <4>1. d.cites \subseteq Citation
        BY <3>1 DEF IsBody, Typed, Body
      <4> QED BY <1>5, <3>1, <4>1 DEF Citation
    <3> QED BY <3>2, <3>3, FilesStay
  <2>2. CASE SeesMint(r) /\ \E n \in Files(r)' : n \notin Files(r) /\ b = disk'[r][n]
    <3>1. PICK n \in Files(r)' : n \notin Files(r) /\ b = disk'[r][n]
      BY <2>2
    <3>2. c.by = r
      BY <1>5, <2>2, <3>1 DEF SeesMint, Gains, Files
    <3> QED BY <3>1, <3>2
  <2> QED BY <1>2, <1>5, <2>1, <2>2
<1> QED
  BY <1>4, <1>5 DEF SameCites, Homed

LEMMA HeldStep ==
  ASSUME Typed, Held, NEW r \in Replica, Others(r), Seen(r)
  PROVE  Held'
<1>1. ASSUME NEW d \in 1..Len(titles') PROVE \E q \in Replica : \E n \in Files(q)' : disk'[q][n].id = d
  <2>1. CASE d \in 1..Len(titles)
    <3>1. PICK q \in Replica : \E m \in Files(q) : disk[q][m].id = d
      BY <2>1 DEF Held
    <3> QED BY <3>1, FilesStay
  <2>2. CASE d \notin 1..Len(titles)
    <3>1. titles' # titles
      BY <1>1, <2>2
    <3>2. SeesMint(r) /\ Len(titles') = Len(titles) + 1 /\ Len(titles) \in Nat
      BY <3>1, TitlesStep
    <3>3. d = Len(titles) + 1
      BY <1>1, <2>2, <3>2
    <3>4. \E n \in Files(r)' : disk'[r][n].id = Len(titles) + 1
      BY <3>2 DEF SeesMint, Gains, Files
    <3> QED BY <3>3, <3>4
  <2> QED BY <2>1, <2>2
<1> QED BY <1>1 DEF Held

LEMMA CitationsAre ==
  ASSUME NEW q \in Replica, NEW c
  PROVE  c \in Citations(q) <=> c \in questions[q] \/ \E n \in Files(q) : c \in disk[q][n].cites
<1>1. c \in UNION {disk[q][n].cites : n \in Files(q)} <=> \E n \in Files(q) : c \in disk[q][n].cites
  OBVIOUS
<1> QED
  BY <1>1 DEF Citations

LEMMA CitationsWillBe ==
  ASSUME NEW q \in Replica, NEW c
  PROVE  c \in Citations(q)' <=> c \in questions'[q] \/ \E n \in Files(q)' : c \in disk'[q][n].cites
<1>1. c \in UNION {disk'[q][n].cites : n \in Files(q)'} <=> \E n \in Files(q)' : c \in disk'[q][n].cites
  OBVIOUS
<1> QED
  BY <1>1 DEF Citations

(* A citation that was here keeps its anchor: what moves aside is not cited.  *)
LEMMA AnchorStays ==
  ASSUME Anchored, NEW r \in Replica, Others(r), Seen(r),
         NEW q \in Replica, NEW c \in Citations(q), c.by = q
  PROVE  \E n \in Files(q)' : n.num = c.num /\ disk'[q][n].id = c.id
<1>1. PICK m \in Files(q) : m.num = c.num /\ disk[q][m].id = c.id
  BY DEF Anchored
<1>2. m.num \in CitedNumbers(q)
  BY <1>1 DEF CitedNumbers
<1>3. PICK n \in Files(q)' : /\ disk'[q][n].id = disk[q][m].id
                             /\ n # m => q = r /\ m.num \notin CitedNumbers(r)
  BY FilesStay
<1>4. n = m
  BY <1>2, <1>3
<1> QED
  BY <1>1, <1>3, <1>4

LEMMA AnchoredStep ==
  ASSUME Typed, SameCites, Homed, Anchored, NEW r \in Replica, Others(r), Seen(r)
  PROVE  Anchored'
<1> SUFFICES ASSUME NEW q \in Replica, NEW c \in Citations(q)', c.by = q
             PROVE  \E n \in Files(q)' : n.num = c.num /\ disk'[q][n].id = c.id
  BY DEF Anchored
<1>1. CASE c \in questions'[q]
  <2>1. CASE questions'[q] = questions[q]
    BY <1>1, <2>1, CitationsAre, AnchorStays
  <2>2. CASE questions'[q] # questions[q]
    <3>1. q = r /\ SeesCite(r)
      BY <2>2 DEF Others, Seen, SeesMint, SeesInstall, SeesAside, SeesPush, SeesPlan, SeesEnd, SeesQuiet
    <3>2. PICK n \in Files(r) : questions'[r] = {[num |-> n.num, id |-> disk[r][n].id, by |-> r]}
      BY <3>1 DEF SeesCite
    <3>3. n \in Files(r)' /\ disk'[r][n].id = disk[r][n].id
      BY <3>1 DEF SeesCite, Files
    <3> QED BY <1>1, <3>1, <3>2, <3>3
  <2> QED BY <2>1, <2>2
<1>2. ASSUME NEW n \in Files(q)', c \in disk'[q][n].cites
      PROVE  \E m \in Files(q)' : m.num = c.num /\ disk'[q][m].id = c.id
  <2>1. CASE \E m \in Files(q) : disk'[q][n].cites = disk[q][m].cites
    BY <1>2, <2>1, CitationsAre, AnchorStays
  <2>2. CASE q = r /\ n \in DOMAIN manifest[r] /\ disk'[q][n] = manifest[r][n]
    <3> DEFINE b == manifest[q][n]
    <3>1. IsBody(b) /\ c \in b.cites
      BY <1>2, <2>2 DEF IsBody
    <3> HIDE DEF b
    <3>2. PICK m \in Files(q) : disk[q][m].id = b.id
      BY <3>1 DEF Homed
    <3>3. IsBody(disk[q][m])
      BY DEF IsBody
    <3>4. disk[q][m].cites = b.cites
      BY <3>1, <3>2, <3>3 DEF SameCites
    <3> QED BY <3>1, <3>4, CitationsAre, AnchorStays
  <2>3. CASE SeesMint(r) /\ q = r /\ n \notin Files(r)
    <3>1. PICK x \in Name :
            /\ Gains(disk[r], disk'[r], x)
            /\ \A e \in disk'[r][x].cites : \E o \in Files(r) : o.num = e.num /\ disk[r][o].id = e.id
      BY <2>3 DEF SeesMint
    <3>2. n = x
      BY <2>3, <3>1 DEF Gains, Files
    <3>3. PICK o \in Files(r) : o.num = c.num /\ disk[r][o].id = c.id
      BY <1>2, <2>3, <3>1, <3>2
    <3>4. o \in Files(r)' /\ disk'[r][o].id = disk[r][o].id
      BY <3>1 DEF Gains, SameBody, Files
    <3> QED BY <2>3, <3>3, <3>4
  <2> QED BY <2>1, <2>2, <2>3, FilesFrom
<1> QED
  BY <1>1, <1>2, CitationsWillBe

(* A step of the specification that moves a file aside is a renumbering.     *)
LEMMA Shifting ==
  ASSUME Inv, Typed, Next, NEW r \in Replica, pc[r] # "renamed", pc'[r] = "renamed"
  PROVE  \E n \in todo[r] : Renumber(r, n)
<1>0. PICK q \in Replica : \/ LocalStep(q)
                           \/ \E n \in Files(q) : Push(q, n)
                           \/ PullPlan(q) \/ PullStep(q) \/ Crash(q)
  BY DEF Next
<1>d. DOMAIN pc = Replica
  BY DEF Typed
<1>1. CASE LocalStep(q) \/ \E n \in Files(q) : Push(q, n)
  BY <1>1 DEF LocalStep, Mint, Cite, RenameByHand, Push, pullVars
<1>2. CASE PullPlan(q) \/ Crash(q)
  BY <1>2, <1>d DEF PullPlan, Crash, EndPull
<1>3. CASE PullStep(q)
  <2>1. CASE \E n \in todo[q] : Renumber(q, n)
    <3>1. q = r
      BY <1>d, <2>1 DEF Renumber
    <3> QED BY <2>1, <3>1
  <2>2. CASE ~\E n \in todo[q] : Renumber(q, n)
    <3>1. CASE PullLock(q) \/ RepairDanglingStems(q) \/ CompletionFails(q) \/ \E n \in Files(q) : CompleteHeading(q, n)
      BY <1>d, <3>1 DEF PullLock, CompleteHeading, RepairDanglingStems, CompletionFails, pullVars
    <3>2. ASSUME NEW n, \/ Install(q, n) \/ Adopt(q, n) \/ KeepLocal(q, n) \/ Quarantine(q, n)
                        \/ Canonicalize(q, n) \/ ApplyFails(q, n)
          PROVE  FALSE
      <4>1. pc' = [pc EXCEPT ![q] = "applying"] \/ pc' = [pc EXCEPT ![q] = "canonicalized"]
        BY <3>2 DEF Install, Adopt, KeepLocal, Quarantine, Canonicalize, ApplyFails, Done
      <4> QED BY <1>d, <4>1
    <3>3. CASE FinishCanonicalize(q) \/ RewriteHeading(q) \/ RetargetRenumbered(q) \/ PullFinish(q)
      <4>1. \/ pc' = [pc EXCEPT ![q] = "applying"] \/ pc' = [pc EXCEPT ![q] = "rewritten"]
            \/ pc' = [pc EXCEPT ![q] = "again"] \/ pc' = [pc EXCEPT ![q] = "idle"]
        BY <3>3 DEF FinishCanonicalize, RewriteHeading, RetargetRenumbered, PullFinish, EndPull, Done
      <4> QED BY <1>d, <4>1
    <3> QED BY <1>3, <2>2, <3>1, <3>2, <3>3 DEF PullStep
  <2> QED BY <2>1, <2>2
<1> QED
  BY <1>0, <1>1, <1>2, <1>3

(* What a renumbering moves holds the row's number and is listed nowhere.    *)
LEMMA AsideIsPrivate ==
  ASSUME Inv, Typed, NEW r \in Replica, NEW n \in todo[r], Renumber(r, n)
  PROVE  /\ moving'[r][2] \in Files(r) /\ moving'[r][2] \notin DOMAIN manifest[r]
         /\ moving'[r][2].num \in Reserved(r) /\ pc[r] # "idle"
<1> DEFINE old == Collider(r, n)
<1>1. moving'[r][2] = old
  <2> DEFINE new == [num |-> NextNumber(Claimed(r) \cup Reserved(r)), slug |-> old.slug]
  <2>1. moving' = [moving EXCEPT ![r] = <<n, old, new>>]
    BY DEF Renumber
  <2>2. DOMAIN moving = Replica
    BY DEF Typed
  <2> HIDE DEF new, old
  <2> QED BY <2>1, <2>2
<1>2. Verdict(r, n) = "renumber" /\ pc[r] = "applying"
  BY DEF Renumber, Classifies
<1>3. old \in Files(r) /\ old.num = n.num
  BY <1>2, ColliderHolds
<1>4. Siblings(r, n) # {}
  BY <1>2 DEF Verdict
<1>5. ColliderVerdict(r, old, n.num, manifest[r][n]) = "renumber"
  BY <1>2, <1>4 DEF Verdict, Collider
<1>6. old \notin DOMAIN manifest[r]
  BY <1>5 DEF ColliderVerdict
<1>7. n \in DOMAIN manifest[r]
  BY DEF Inv, NamesInv, RowsInv
<1> HIDE DEF old
<1> QED
  BY <1>1, <1>2, <1>3, <1>6, <1>7 DEF Reserved

LEMMA StandStep ==
  ASSUME Setting, Inv, Typed, Stand, Next
  PROVE  Stand'
<1>1. PICK r \in Replica : Others(r) /\ Seen(r)
  BY Views
<1>2. Titled /\ Listed /\ OneName /\ Cleared /\ SameCites /\ Homed /\ Anchored /\ Held
  BY DEF Stand
<1>3. Titled' /\ Listed'
  BY <1>1, <1>2, TitledStep, ListedStep
<1>4. OneName' /\ Cleared'
  BY <1>1, <1>2, OneNameStep, ClearedStep
<1>5. SameCites' /\ Homed'
  BY <1>1, <1>2, CitesStep
<1>6. Anchored' /\ Held'
  BY <1>1, <1>2, AnchoredStep, HeldStep
<1> QED
  BY <1>3, <1>4, <1>5, <1>6 DEF Stand

LEMMA StandInit ==
  ASSUME Init
  PROVE  Typed /\ Stand
<1>1. Typed
  BY DEF Init, Typed, Files
<1>2. Titled
  BY DEF Init, Titled, Files
<1>3. Listed /\ OneName
  BY DEF Init, Listed, OneName, Files
<1>4. Cleared
  BY DEF Init, Cleared, Files
<1>5. \A b : ~IsBody(b)
  BY DEF Init, IsBody, Files
<1>6. SameCites /\ Homed
  BY <1>5 DEF SameCites, Homed
<1>7. Anchored
  <2>1. \A r \in Replica : \A c : c \notin Citations(r)
    <3> SUFFICES ASSUME NEW r \in Replica, NEW c PROVE c \notin Citations(r)
      OBVIOUS
    <3>1. questions[r] = {} /\ Files(r) = {}
      BY DEF Init, Files
    <3> QED BY <3>1, CitationsAre
  <2> QED BY <2>1 DEF Anchored
<1>8. Held
  BY DEF Init, Held
<1> QED
  BY <1>1, <1>2, <1>3, <1>4, <1>6, <1>7, <1>8 DEF Stand

LEMMA StandIdle ==
  ASSUME Typed, Stand, UNCHANGED vars
  PROVE  Typed' /\ Stand'
<1>1. UNCHANGED <<server, announced, titles, disk, questions, manifest, pc, shifted, moving>>
  BY DEF vars, storeVars, pullVars
<1>2. Typed'
  BY <1>1 DEF Typed, Files
<1>3. \A r \in Replica : Files(r)' = Files(r) /\ Reserved(r)' = Reserved(r) /\ Citations(r)' = Citations(r)
  BY <1>1 DEF Files, Reserved, Citations
<1>4. \A b : IsBody(b)' <=> IsBody(b)
  BY <1>1 DEF IsBody, Files
<1>5. Titled' /\ Listed'
  BY <1>1, <1>3 DEF Stand, Titled, Listed
<1>6. OneName' /\ Cleared'
  BY <1>1, <1>3 DEF Stand, OneName, Cleared
<1>7. SameCites'
  BY <1>4 DEF Stand, SameCites
<1>8. Homed'
  BY <1>1, <1>4 DEF Stand, Homed, Files
<1>9. Anchored' /\ Held'
  BY <1>1, <1>3 DEF Stand, Anchored, Held
<1> QED
  BY <1>2, <1>5, <1>6, <1>7, <1>8, <1>9 DEF Stand

(* Under Setting, everything above stands in every state.                    *)
LEMMA Standing ==
  ASSUME Setting
  PROVE  Spec => [](Inv /\ Typed /\ Stand)
<1>1. Init => Inv
  BY DEF Init, Inv, NamesInv, FilesInv, RowsInv, UniqueNumbers, Files
<1>2. Init => Typed /\ Stand
  BY StandInit
<1>3. Inv /\ Typed /\ Stand /\ [Next]_vars => (Typed /\ Stand)'
  BY TypedStep, StandStep, StandIdle
<1> QED
  BY <1>1, <1>2, <1>3, Invariant, PTL DEF Spec

(* What was written stands: renumbering, installing and adopting never hand  *)
(* a cited number to another decision on the machine where it was cited, and *)
(* every decision made stays on a disk, through crashes and failed writes    *)
(* too, which DecisionsStand does not ask.                                   *)
THEOREM DecisionsAreSafe ==
  ASSUME Setting
  PROVE  Spec => [](DecisionsStand /\ DecisionsKept)
<1>1. Inv /\ Stand => CitationsKeepTheirMeaning
  <2> SUFFICES ASSUME Inv, Stand, NEW r \in Replica, NEW c \in Citations(r), c.by = r,
                      NEW n \in Files(r), n.num = c.num
               PROVE  disk[r][n].id = c.id
    BY DEF CitationsKeepTheirMeaning
  <2>1. PICK m \in Files(r) : m.num = c.num /\ disk[r][m].id = c.id
    BY DEF Stand, Anchored
  <2>2. m = n
    BY <2>1 DEF Inv, UniqueNumbers
  <2> QED BY <2>1, <2>2
<1>2. Stand => DecisionsKept
  BY DEF Stand, Held, DecisionsKept
<1>3. Inv /\ Typed /\ Stand => DecisionsStand /\ DecisionsKept
  BY <1>1, <1>2 DEF DecisionsStand
<1> QED
  BY <1>3, Standing, PTL

(* Numbers stand: a pull moves no decision the server ever held under the    *)
(* name it has, and moves none twice in a run, since the number it gives     *)
(* clears every row of its manifest.                                         *)
THEOREM NumbersAreFinal ==
  ASSUME Setting
  PROVE  Spec => NumbersStand
<1>1. ASSUME Inv, Typed, Stand, [Next]_vars, NEW r \in Replica, pc[r] # "renamed", pc'[r] = "renamed"
      PROVE  /\ <<moving'[r][2], disk[r][moving'[r][2]].id>> \notin announced
             /\ disk[r][moving'[r][2]].id \notin shifted[r]
  <2>1. Next
    BY <1>1 DEF vars, pullVars
  <2>2. PICK n \in todo[r] : Renumber(r, n)
    BY <1>1, <2>1, Shifting
  <2> DEFINE old == moving'[r][2]
  <2>3. old \in Files(r) /\ old \notin DOMAIN manifest[r] /\ old.num \in Reserved(r) /\ pc[r] # "idle"
    BY <1>1, <2>2, AsideIsPrivate
  <2> HIDE DEF old
  <2>4. <<old, disk[r][old].id>> \notin announced
    BY <1>1, <2>3 DEF Stand, Listed
  <2>5. disk[r][old].id \notin shifted[r]
    BY <1>1, <2>3 DEF Stand, Cleared
  <2> QED BY <2>4, <2>5 DEF old
<1>2. Inv /\ Typed /\ Stand /\ [Next]_vars =>
        [\A r \in Replica :
           (pc[r] # "renamed" /\ pc'[r] = "renamed")
           => <<moving'[r][2], disk[r][moving'[r][2]].id>> \notin announced]_vars
  BY <1>1
<1>3. Inv /\ Typed /\ Stand /\ [Next]_vars =>
        [\A r \in Replica :
           (pc[r] = "applying" /\ pc'[r] = "renamed")
           => disk[r][moving'[r][2]].id \notin shifted[r]]_vars
  <2>1. ASSUME Inv, Typed, Stand, [Next]_vars, NEW r \in Replica, pc[r] = "applying", pc'[r] = "renamed"
        PROVE  disk[r][moving'[r][2]].id \notin shifted[r]
    BY <1>1, <2>1
  <2> QED BY <2>1
<1>4. Spec => PublishedNumbersNeverMove
  BY <1>2, Standing, PTL DEF Spec, PublishedNumbersNeverMove
<1>5. Spec => ShiftedOnce
  BY <1>3, Standing, PTL DEF Spec, ShiftedOnce
<1> QED
  BY <1>4, <1>5 DEF NumbersStand

-----------------------------------------------------------------------------
(* Pulls heal. A pull repairs a heading whose file and number no record      *)
(* cites, so that each crash leaves what the next pull repairs needs records *)
(* that cite nothing, or a machine where nothing crashes or fails to write.  *)

Healing == "cite" \notin Faults \/ Faults \cap {"crash", "oserror"} = {}

Whole == DOMAIN index = Replica /\ DOMAIN clean = Replica

(* Where the tests cite nothing, no record does.                             *)
Uncited ==
  "cite" \notin Faults =>
    /\ \A r \in Replica : questions[r] = {}
    /\ \A b : IsBody(b) => b.cites = {}

(* A file between its rename and the rewriting of its heading.               *)
Aside(r, n) == pc[r] = "renamed" /\ n = moving[r][3]

(* Where no run is cut short, the server's headings and a machine's are the  *)
(* numbers of their names.                                                   *)
NeverCut == Faults \cap {"crash", "oserror"} = {}

Published == NeverCut => \A n \in DOMAIN server : server[n].heading = n.num

Headed(r) ==
  NeverCut => /\ \A n \in DOMAIN manifest[r] : manifest[r][n].heading = n.num
              /\ \A n \in Files(r) : disk[r][n].heading = n.num \/ Aside(r, n)

(* The index gives a decision a stem with its title.                         *)
Stems(r) ==
  \A d \in DOMAIN index[r] : d \in 1..Len(titles) /\ index[r][d].slug = titles[d]

(* A file that moves for a row keeps its title.                              *)
Moving(r) ==
  /\ pc[r] # "canonicalized"
  /\ pc[r] \in {"renamed", "rewritten"} =>
       moving[r][3] \in Files(r) /\ moving[r][3].slug = moving[r][2].slug

(* After the completion pass, and while nothing is refused: the file in the  *)
(* middle of its move is the only one out of step.                           *)
Healed(r) ==
  clean[r] /\ pc[r] \in {"applying", "renamed", "rewritten", "again"} =>
    \A n \in Files(r) \ DOMAIN manifest[r] :
      /\ disk[r][n].heading = n.num \/ Aside(r, n)
      /\ disk[r][n].id \in DOMAIN index[r] =>
           \/ index[r][disk[r][n].id] \in Files(r)
           \/ pc[r] \in {"renamed", "rewritten"} /\ index[r][disk[r][n].id] = moving[r][2]

Sound(r) == Headed(r) /\ Stems(r) /\ Moving(r) /\ Healed(r)

HealInv == Whole /\ Uncited /\ Published /\ \A r \in Replica : Sound(r)

Acts(r) ==
  \/ LocalStep(r)
  \/ \E n \in Files(r) : Push(r, n)
  \/ PullPlan(r) \/ PullStep(r) \/ Crash(r)

(* A step of one machine leaves the others' state alone.                     *)
Rest(q) ==
  /\ disk'[q] = disk[q] /\ manifest'[q] = manifest[q] /\ index'[q] = index[q]
  /\ pc'[q] = pc[q] /\ moving'[q] = moving[q] /\ clean'[q] = clean[q]

LEMMA Apart ==
  ASSUME Inv, Typed, Whole, NEW r \in Replica, Acts(r)
  PROVE  Whole' /\ \A q \in Replica \ {r} : Rest(q)
<1>d. /\ DOMAIN disk = Replica /\ DOMAIN manifest = Replica /\ DOMAIN index = Replica
      /\ DOMAIN pc = Replica /\ DOMAIN moving = Replica /\ DOMAIN clean = Replica
  BY DEF Inv, NamesInv, FilesInv, RowsInv, Typed, Whole
<1>1. CASE LocalStep(r)
  <2>1. /\ UNCHANGED pullVars
        /\ UNCHANGED disk \/ \E d : disk' = [disk EXCEPT ![r] = d]
        /\ UNCHANGED index \/ \E d : index' = [index EXCEPT ![r] = d]
    BY <1>1 DEF LocalStep, Mint, Cite, RenameByHand, Move
  <2> QED BY <1>d, <2>1 DEF Whole, Rest, pullVars
<1>2. ASSUME NEW n \in Files(r), Push(r, n) PROVE Whole' /\ \A q \in Replica \ {r} : Rest(q)
  BY <1>2, <1>d DEF Push, Whole, Rest, storeVars, pullVars
<1>3. CASE PullPlan(r)
  BY <1>3, <1>d DEF PullPlan, Whole, Rest, storeVars
<1>4. CASE Crash(r)
  BY <1>4, <1>d DEF Crash, EndPull, Whole, Rest, storeVars
<1>5. CASE PullStep(r)
  <2>1. CASE PullLock(r) \/ CompletionFails(r)
    BY <2>1, <1>d DEF PullLock, CompletionFails, Whole, Rest, storeVars
  <2>2. CASE RepairDanglingStems(r) \/ RetargetRenumbered(r) \/ FinishCanonicalize(r)
    <3>1. /\ UNCHANGED <<disk, manifest, clean>> /\ \E p : pc' = [pc EXCEPT ![r] = p]
          /\ UNCHANGED moving \/ \E m : moving' = [moving EXCEPT ![r] = m]
          /\ \E d : index' = [index EXCEPT ![r] = d]
      BY <2>2 DEF RepairDanglingStems, RetargetRenumbered, RetargetIndex, FinishCanonicalize, Done
    <3> QED BY <1>d, <3>1 DEF Whole, Rest
  <2>3. CASE RewriteHeading(r) \/ \E n \in Files(r) : CompleteHeading(r, n)
    <3>1. /\ UNCHANGED <<manifest, clean, index, moving>>
          /\ UNCHANGED pc \/ \E p : pc' = [pc EXCEPT ![r] = p]
          /\ \E n, x : disk' = [disk EXCEPT ![r][n].heading = x]
      BY <2>3 DEF RewriteHeading, CompleteHeading, pullVars
    <3> QED BY <1>d, <3>1 DEF Whole, Rest
  <2>4. ASSUME NEW n, \/ Install(r, n) \/ Adopt(r, n) \/ KeepLocal(r, n) \/ Quarantine(r, n)
                      \/ Canonicalize(r, n) \/ Renumber(r, n) \/ ApplyFails(r, n)
        PROVE  Whole' /\ \A q \in Replica \ {r} : Rest(q)
    <3>1. /\ UNCHANGED <<manifest, index>> /\ \E p : pc' = [pc EXCEPT ![r] = p]
          /\ \E m : moving' = [moving EXCEPT ![r] = m]
          /\ UNCHANGED disk \/ \E d : disk' = [disk EXCEPT ![r] = d]
          /\ UNCHANGED clean \/ \E c : clean' = [clean EXCEPT ![r] = c]
      BY <2>4 DEF Install, Adopt, KeepLocal, Quarantine, Canonicalize, Renumber, ApplyFails, Done,
         Move, storeVars
    <3> QED BY <1>d, <3>1 DEF Whole, Rest
  <2>5. CASE PullFinish(r)
    <3>1. UNCHANGED index /\ EndPull(r) /\ \E d : disk' = [disk EXCEPT ![r] = d]
      BY <2>5 DEF PullFinish
    <3> QED BY <1>d, <3>1 DEF EndPull, Whole, Rest
  <2> QED BY <1>5, <2>1, <2>2, <2>3, <2>4, <2>5 DEF PullStep
<1> QED
  BY <1>1, <1>2, <1>3, <1>4, <1>5 DEF Acts

LEMMA UncitedStep ==
  ASSUME Setting, Inv, Typed, Stand, Uncited, Next
  PROVE  Uncited'
<1> SUFFICES ASSUME "cite" \notin Faults
             PROVE  /\ \A q \in Replica : questions'[q] = {}
                    /\ \A b : IsBody(b)' => b.cites = {}
  BY DEF Uncited
<1>1. PICK r \in Replica : Others(r) /\ Seen(r)
  BY Views
<1>2. /\ \A q \in Replica : questions[q] = {}
      /\ \A b : IsBody(b) => b.cites = {}
  BY DEF Uncited
<1>3. UNCHANGED questions
  BY <1>1 DEF Seen, SeesMint, SeesInstall, SeesAside, SeesPush, SeesPlan, SeesEnd, SeesCite,
     SeesQuiet
<1>4. ASSUME NEW b, IsBody(b)' PROVE b.cites = {}
  <2>1. CASE \E d : IsBody(d) /\ b.id = d.id /\ b.cites = d.cites
    BY <1>2, <2>1
  <2>2. CASE SeesMint(r) /\ \E n \in Files(r)' : n \notin Files(r) /\ b = disk'[r][n]
    <3>1. PICK n \in Name : Gains(disk[r], disk'[r], n) /\ disk'[r][n].cites = {}
      BY <2>2 DEF SeesMint
    <3> QED BY <2>2, <3>1 DEF Gains, Files
  <2> QED BY <1>1, <1>4, <2>1, <2>2, BodiesFrom
<1> QED
  BY <1>2, <1>3, <1>4

(* What the index's stems do in a step of their machine.                     *)
LEMMA StemsStep ==
  ASSUME Setting, Inv, Typed, Stand, Whole, NEW r \in Replica, Acts(r), Stems(r), Moving(r)
  PROVE  Stems(r)'
<1>d. DOMAIN index = Replica /\ titles \in Seq(Slug) /\ Len(titles) \in Nat
  BY DEF Typed, Whole
<1>k. UNCHANGED <<index, titles>> => Stems(r)'
  BY DEF Stems
<1>1. ASSUME NEW s \in Slug, Mint(r, s) PROVE Stems(r)'
  <2> DEFINE n == [num |-> NextNumber(Claimed(r)), slug |-> s]
  <2>1. /\ titles' = Append(titles, s)
        /\ index' = [index EXCEPT ![r] = Put(@, Len(titles) + 1, n)] \/ UNCHANGED index
    BY <1>1 DEF Mint
  <2>2. n.slug = s
    OBVIOUS
  <2> HIDE DEF n
  <2>3. /\ Len(titles') = Len(titles) + 1 /\ titles'[Len(titles) + 1] = s
        /\ \A d \in 1..Len(titles) : titles'[d] = titles[d] /\ d \in 1..Len(titles')
        /\ Len(titles) + 1 \in 1..Len(titles')
    BY <1>d, <2>1
  <2>4. \A d \in DOMAIN index'[r] : \/ d \in DOMAIN index[r] /\ index'[r][d] = index[r][d]
                                    \/ d = Len(titles) + 1 /\ index'[r][d] = n
    BY <1>d, <2>1 DEF Put
  <2> QED BY <2>2, <2>3, <2>4 DEF Stems
<1>2. CASE RepairDanglingStems(r)
  <2>1. index' = [index EXCEPT ![r] = [d \in DOMAIN @ |-> RepairedStem(r, @[d])]] /\ UNCHANGED titles
    BY <1>2 DEF RepairDanglingStems
  <2>2. \A stem : RepairedStem(r, stem).slug = stem.slug
    <3> SUFFICES ASSUME NEW stem PROVE RepairedStem(r, stem).slug = stem.slug
      OBVIOUS
    <3> DEFINE twins == {n \in Files(r) : n.slug = stem.slug}
    <3>1. CASE stem \in Files(r) \/ Cardinality(twins) # 1
      BY <3>1 DEF RepairedStem
    <3>2. CASE stem \notin Files(r) /\ Cardinality(twins) = 1
      <4>1. twins # {}
        BY <3>2, FS_EmptySet
      <4>2. RepairedStem(r, stem) \in twins
        BY <3>2, <4>1 DEF RepairedStem
      <4> QED BY <4>2
    <3> QED BY <3>1, <3>2
  <2>3. /\ DOMAIN index'[r] = DOMAIN index[r]
        /\ \A d \in DOMAIN index[r] : index'[r][d] = RepairedStem(r, index[r][d])
    BY <1>d, <2>1
  <2> QED BY <2>1, <2>2, <2>3 DEF Stems
<1>3. CASE RetargetRenumbered(r)
  <2>1. /\ index' = [index EXCEPT ![r] = [d \in DOMAIN @ |-> IF @[d] = moving[r][2] THEN moving[r][3] ELSE @[d]]]
        /\ UNCHANGED titles /\ moving[r][3].slug = moving[r][2].slug
    BY <1>3 DEF RetargetRenumbered, RetargetIndex, Moving
  <2>2. /\ DOMAIN index'[r] = DOMAIN index[r]
        /\ \A d \in DOMAIN index[r] :
             index'[r][d] = IF index[r][d] = moving[r][2] THEN moving[r][3] ELSE index[r][d]
    BY <1>d, <2>1
  <2> QED BY <2>1, <2>2 DEF Stems
<1>4. CASE FinishCanonicalize(r)
  BY <1>4 DEF FinishCanonicalize, Moving
<1>5. CASE (\E n : Cite(r, n) \/ Push(r, n) \/ \E s : RenameByHand(r, n, s)) \/ PullPlan(r) \/ Crash(r)
  BY <1>5, <1>k DEF Cite, RenameByHand, Push, PullPlan, Crash, storeVars
<1>6. CASE \/ PullLock(r) \/ CompletionFails(r) \/ RewriteHeading(r) \/ PullFinish(r)
           \/ \E n : CompleteHeading(r, n)
  BY <1>6, <1>k DEF PullLock, CompletionFails, RewriteHeading, PullFinish, CompleteHeading, storeVars
<1>7. CASE \E n : \/ Install(r, n) \/ Adopt(r, n) \/ KeepLocal(r, n) \/ Quarantine(r, n)
                  \/ Canonicalize(r, n) \/ Renumber(r, n) \/ ApplyFails(r, n)
  BY <1>7, <1>k DEF Install, Adopt, KeepLocal, Quarantine, Canonicalize, Renumber, ApplyFails,
     storeVars
<1> QED
  BY <1>1, <1>2, <1>3, <1>4, <1>5, <1>6, <1>7 DEF Acts, LocalStep, PullStep

(* A file on the move is there, under the title it had.                      *)
LEMMA MovingStep ==
  ASSUME Setting, Inv, Typed, Stand, NEW r \in Replica, Acts(r), Moving(r)
  PROVE  Moving(r)'
<1>d. DOMAIN disk = Replica /\ DOMAIN pc = Replica /\ DOMAIN moving = Replica
  BY DEF Inv, NamesInv, FilesInv, Typed
<1>k. ASSUME NEW p \in Pcs \ {"canonicalized", "renamed", "rewritten"}, pc' = [pc EXCEPT ![r] = p]
      PROVE  Moving(r)'
  BY <1>k, <1>d DEF Moving
<1>i. ASSUME pc'[r] = pc[r], pc[r] \in {"idle", "completing"} PROVE Moving(r)'
  BY <1>i DEF Moving
<1>1. CASE LocalStep(r) \/ \E n : Push(r, n)
  <2>1. pc[r] = "idle" /\ UNCHANGED pc
    BY <1>1 DEF LocalStep, Mint, Cite, RenameByHand, Push, StoreLockFree, pullVars, Mishap, Setting
  <2> QED BY <2>1, <1>i
<1>2. ASSUME NEW n, CompleteHeading(r, n) PROVE Moving(r)'
  BY <1>2, <1>i DEF CompleteHeading, pullVars
<1>3. CASE RewriteHeading(r)
  <2>1. /\ disk' = [disk EXCEPT ![r][moving[r][3]].heading = moving[r][3].num]
        /\ pc[r] = "renamed" /\ pc' = [pc EXCEPT ![r] = "rewritten"] /\ UNCHANGED moving
    BY <1>3 DEF RewriteHeading
  <2>2. Files(r)' = Files(r) /\ pc'[r] = "rewritten"
    BY <1>d, <2>1 DEF Files
  <2> QED BY <2>1, <2>2 DEF Moving
<1>4. ASSUME NEW n \in todo[r], Canonicalize(r, n) PROVE FALSE
  BY <1>4, NoTwins
<1>5. ASSUME NEW n \in todo[r], Renumber(r, n) PROVE Moving(r)'
  <2> DEFINE old == Collider(r, n)
             new == [num |-> NextNumber(Claimed(r) \cup Reserved(r)), slug |-> old.slug]
  <2>1. /\ Move(r, old, new) /\ pc' = [pc EXCEPT ![r] = "renamed"]
        /\ moving' = [moving EXCEPT ![r] = <<n, old, new>>]
    BY <1>5 DEF Renumber
  <2>2. new.slug = old.slug
    OBVIOUS
  <2> HIDE DEF old, new
  <2>3. new \in Files(r)'
    BY <2>1, MoveFiles DEF Inv
  <2>4. pc'[r] = "renamed" /\ moving'[r] = <<n, old, new>>
    BY <1>d, <2>1
  <2> QED BY <2>2, <2>3, <2>4 DEF Moving
<1>6. CASE PullPlan(r) \/ Crash(r) \/ PullFinish(r) \/ PullLock(r) \/ RepairDanglingStems(r)
           \/ CompletionFails(r) \/ RetargetRenumbered(r) \/ FinishCanonicalize(r)
           \/ \E n : \/ Install(r, n) \/ Adopt(r, n) \/ KeepLocal(r, n) \/ Quarantine(r, n)
                     \/ ApplyFails(r, n)
  <2>1. \E p \in {"planned", "idle", "completing", "applying", "again"} : pc' = [pc EXCEPT ![r] = p]
    BY <1>6 DEF PullPlan, Crash, PullFinish, EndPull, PullLock, RepairDanglingStems,
       CompletionFails, RetargetRenumbered, FinishCanonicalize, Install, Adopt, KeepLocal,
       Quarantine, ApplyFails, Done
  <2>2. \E p \in Pcs \ {"canonicalized", "renamed", "rewritten"} : pc' = [pc EXCEPT ![r] = p]
    BY <2>1 DEF Pcs
  <2> QED BY <2>2, <1>k
<1> QED
  BY <1>1, <1>2, <1>3, <1>4, <1>5, <1>6 DEF Acts, PullStep

(* What a file is after a heading was rewritten.                             *)
LEMMA Rewritten ==
  ASSUME Inv, Typed, NEW r \in Replica, NEW m \in Files(r), NEW num,
         disk' = [disk EXCEPT ![r][m].heading = num]
  PROVE  /\ Files(r)' = Files(r) /\ disk'[r][m].heading = num
         /\ \A n \in Files(r) : disk'[r][n].id = disk[r][n].id
         /\ \A n \in Files(r) \ {m} : disk'[r][n] = disk[r][n]
<1>1. DOMAIN disk = Replica /\ \A n \in Files(r) : disk[r][n] \in Body
  BY DEF Inv, NamesInv, FilesInv, Typed
<1>2. /\ DOMAIN disk'[r] = DOMAIN disk[r]
      /\ \A n \in DOMAIN disk[r] :
           disk'[r][n] = IF n = m THEN [disk[r][n] EXCEPT !.heading = num] ELSE disk[r][n]
  BY <1>1
<1>3. \A b \in Body : [b EXCEPT !.heading = num].heading = num /\ [b EXCEPT !.heading = num].id = b.id
  BY DEF Body
<1> QED BY <1>1, <1>2, <1>3 DEF Files

(* What a machine's files are after one of them moved.                       *)
LEMMA Moved ==
  ASSUME Inv, NEW r \in Replica, NEW old \in Files(r), NEW new, Move(r, old, new)
  PROVE  /\ Files(r)' = (Files(r) \ {old}) \cup {new}
         /\ disk'[r][new] = disk[r][old]
         /\ \A n \in Files(r) \ {old, new} : disk'[r][n] = disk[r][n]
<1> DEFINE moved == Put(Drop(disk[r], old), new, disk[r][old])
<1>1. disk'[r] = moved
  BY DEF Move, Inv, NamesInv, FilesInv
<1>2. /\ DOMAIN moved = (DOMAIN disk[r] \ {old}) \cup {new}
      /\ moved[new] = disk[r][old]
      /\ \A m \in DOMAIN disk[r] \ {old, new} : moved[m] = disk[r][m]
  BY DEF Put, Drop, Restrict, Files
<1> HIDE DEF moved
<1> QED BY <1>1, <1>2 DEF Files

(* What a renumbering does.                                                  *)
LEMMA Renumbered ==
  ASSUME Inv, Typed, NEW r \in Replica, NEW n \in todo[r], Renumber(r, n)
  PROVE  \E old, new :
           /\ old \in Files(r) \ DOMAIN manifest[r]
           /\ Move(r, old, new) /\ new \notin Files(r) /\ pc[r] = "applying" /\ pc'[r] = "renamed"
           /\ moving'[r][2] = old /\ moving'[r][3] = new
<1> DEFINE old == Collider(r, n)
           num == NextNumber(Claimed(r) \cup Reserved(r))
           new == [num |-> num, slug |-> old.slug]
<1>1. /\ Move(r, old, new) /\ pc[r] = "applying" /\ pc' = [pc EXCEPT ![r] = "renamed"]
      /\ moving' = [moving EXCEPT ![r] = <<n, old, new>>]
      /\ Verdict(r, n) = "renumber"
  BY DEF Renumber, Classifies
<1>2. num \notin Claimed(r)
  <2>1. Claimed(r) \cup Reserved(r) \subseteq Number
    BY DEF Claimed, Reserved, Inv, NamesInv, FilesInv, RowsInv, Name
  <2> QED BY <2>1, MintedIsFresh
<1> HIDE DEF num
<1>3. new \notin Files(r)
  <2>1. new.num = num
    OBVIOUS
  <2> HIDE DEF new
  <2> QED BY <1>2, <2>1 DEF Claimed
<1> HIDE DEF new
<1>4. pc'[r] = "renamed" /\ moving'[r] = <<n, old, new>>
  BY <1>1 DEF Typed
<1>5. moving'[r][2] = old /\ moving'[r][3] = new
  BY <1>4
<1>6. old \in Files(r) /\ old \notin DOMAIN manifest[r]
  BY <1>5, AsideIsPrivate
<1> QED BY <1>1, <1>3, <1>4, <1>5, <1>6

(* Headings, where no run is cut short.                                      *)
LEMMA HeadedStep ==
  ASSUME Setting, Inv, Typed, Stand, NEW r \in Replica, Acts(r), Published, Headed(r), Moving(r)
  PROVE  Published' /\ Headed(r)'
<1> DEFINE Files1 == \A n \in Files(r)' : disk'[r][n].heading = n.num \/ Aside(r, n)'
           List1 == \A n \in DOMAIN manifest'[r] : manifest'[r][n].heading = n.num
           Server1 == \A n \in DOMAIN server' : server'[n].heading = n.num
<1> SUFFICES ASSUME NeverCut PROVE Server1 /\ List1 /\ Files1
  BY DEF Published, Headed, NeverCut
<1>d. /\ DOMAIN disk = Replica /\ DOMAIN manifest = Replica
      /\ DOMAIN pc = Replica /\ DOMAIN moving = Replica
  BY DEF Inv, NamesInv, FilesInv, RowsInv, Typed
<1>f. todo[r] \subseteq DOMAIN manifest[r]
  BY DEF Inv, NamesInv, RowsInv
<1>h. /\ \A n \in DOMAIN server : server[n].heading = n.num
      /\ \A n \in DOMAIN manifest[r] : manifest[r][n].heading = n.num
      /\ \A n \in Files(r) : disk[r][n].heading = n.num \/ Aside(r, n)
  BY DEF Published, Headed
<1>s. UNCHANGED server => Server1
  BY <1>h
<1>l. UNCHANGED manifest \/ (EndPull(r) /\ UNCHANGED server) => List1
  BY <1>h, <1>d DEF EndPull
<1>a. pc[r] # "renamed" => \A n \in Files(r) : disk[r][n].heading = n.num
  BY <1>h DEF Aside
<1>u. UNCHANGED disk /\ pc[r] # "renamed" => Files1
  BY <1>a DEF Files
<1>n. ~Mishap("crash") /\ ~Mishap("oserror")
  BY DEF NeverCut, Mishap
<1>1. ASSUME NEW s \in Slug, Mint(r, s) PROVE Server1 /\ List1 /\ Files1
  <2> DEFINE n == [num |-> NextNumber(Claimed(r)), slug |-> s]
  <2>1. PICK b : b.heading = n.num /\ disk' = [disk EXCEPT ![r] = Put(@, n, b)]
    <3>1. PICK cited : disk' = [disk EXCEPT ![r] = Put(@, n, [id |-> Len(titles) + 1, heading |-> n.num, cites |-> cited])]
      BY <1>1 DEF Mint
    <3> DEFINE b == [id |-> Len(titles) + 1, heading |-> n.num, cites |-> cited]
    <3>2. b.heading = n.num
      OBVIOUS
    <3> QED BY <3>1, <3>2
  <2>2. UNCHANGED <<server, manifest>> /\ pc[r] = "idle"
    BY <1>1 DEF Mint, StoreLockFree, pullVars
  <2> HIDE DEF n
  <2>3. disk'[r] = Put(disk[r], n, b)
    BY <1>d, <2>1
  <2>4. Files1
    BY <1>a, <2>1, <2>2, <2>3 DEF Put, Files
  <2> QED BY <1>s, <1>l, <2>2, <2>4
<1>2. ASSUME NEW n, Cite(r, n) PROVE Server1 /\ List1 /\ Files1
  BY <1>2, <1>s, <1>l, <1>u DEF Cite, StoreLockFree, pullVars
<1>3. ASSUME NEW n, NEW s, RenameByHand(r, n, s) PROVE FALSE
  BY <1>3 DEF RenameByHand, Mishap, Setting
<1>4. ASSUME NEW n \in Files(r), Push(r, n) PROVE Server1 /\ List1 /\ Files1
  <2>1. /\ server' = Put(server, n, disk[r][n]) /\ pc[r] = "idle" /\ UNCHANGED <<disk, manifest>>
    BY <1>4 DEF Push, storeVars, pullVars
  <2>2. Server1
    BY <1>h, <1>a, <2>1 DEF Put
  <2> QED BY <1>l, <1>u, <2>1, <2>2
<1>5. CASE PullPlan(r)
  <2>1. manifest'[r] = server /\ pc[r] = "idle" /\ UNCHANGED <<server, disk>>
    BY <1>5, <1>d DEF PullPlan, storeVars
  <2> QED BY <1>h, <1>s, <1>u, <2>1
<1>6. CASE PullLock(r) \/ RepairDanglingStems(r) \/ RetargetRenumbered(r) \/ FinishCanonicalize(r)
  <2>1. UNCHANGED <<server, manifest, disk>> /\ pc[r] # "renamed"
    BY <1>6 DEF PullLock, RepairDanglingStems, RetargetRenumbered, FinishCanonicalize, storeVars
  <2> QED BY <1>s, <1>l, <1>u, <2>1
<1>7. CASE CompletionFails(r) \/ Crash(r) \/ \E n : ApplyFails(r, n)
  BY <1>7, <1>n DEF CompletionFails, Crash, ApplyFails
<1>8. ASSUME NEW n \in Files(r), CompleteHeading(r, n) PROVE Server1 /\ List1 /\ Files1
  <2>1. /\ disk' = [disk EXCEPT ![r][n].heading = n.num] /\ pc[r] = "completing"
        /\ UNCHANGED <<server, manifest>>
    BY <1>8 DEF CompleteHeading, pullVars
  <2>2. /\ Files(r)' = Files(r) /\ disk'[r][n].heading = n.num
        /\ \A k \in Files(r) : disk'[r][k].id = disk[r][k].id
        /\ \A k \in Files(r) \ {n} : disk'[r][k] = disk[r][k]
    BY <2>1, Rewritten
  <2>3. \A k \in Files(r) : disk[r][k].heading = k.num
    BY <1>a, <2>1
  <2>4. Files1
    BY <2>2, <2>3
  <2> QED BY <1>s, <1>l, <2>1, <2>4
<1>9. CASE RewriteHeading(r)
  <2> DEFINE m == moving[r][3]
  <2>1. /\ disk' = [disk EXCEPT ![r][m].heading = m.num] /\ m \in Files(r)
        /\ UNCHANGED <<server, manifest>>
    BY <1>9 DEF RewriteHeading, Moving
  <2>2. \A n \in Files(r) : n = m \/ disk[r][n].heading = n.num
    BY <1>h DEF Aside
  <2> HIDE DEF m
  <2>3. /\ Files(r)' = Files(r) /\ disk'[r][m].heading = m.num
        /\ \A k \in Files(r) : disk'[r][k].id = disk[r][k].id
        /\ \A k \in Files(r) \ {m} : disk'[r][k] = disk[r][k]
    BY <2>1, Rewritten
  <2>4. Files1
    BY <2>2, <2>3
  <2> QED BY <1>s, <1>l, <2>1, <2>4
<1>10. ASSUME NEW n \in todo[r], Install(r, n) PROVE Server1 /\ List1 /\ Files1
  <2>1. /\ disk'[r] = Put(disk[r], n, manifest[r][n]) /\ pc[r] # "renamed"
        /\ UNCHANGED <<server, manifest>>
    BY <1>10, <1>d DEF Install, Classifies
  <2>2. Files1
    BY <1>a, <1>h, <1>f, <2>1 DEF Put, Files
  <2> QED BY <1>s, <1>l, <2>1, <2>2
<1>11. ASSUME NEW n, Adopt(r, n) \/ KeepLocal(r, n) \/ Quarantine(r, n)
       PROVE  Server1 /\ List1 /\ Files1
  <2>1. UNCHANGED <<server, manifest, disk>> /\ pc[r] # "renamed"
    BY <1>11 DEF Adopt, KeepLocal, Quarantine, Classifies, storeVars
  <2> QED BY <1>s, <1>l, <1>u, <2>1
<1>12. ASSUME NEW n \in todo[r], Canonicalize(r, n) PROVE FALSE
  BY <1>12, NoTwins
<1>13. ASSUME NEW n \in todo[r], Renumber(r, n) PROVE Server1 /\ List1 /\ Files1
  <2>1. PICK old, new :
          /\ old \in Files(r) \ DOMAIN manifest[r]
          /\ Move(r, old, new) /\ pc[r] = "applying" /\ pc'[r] = "renamed" /\ moving'[r][3] = new
    BY <1>13, Renumbered
  <2>2. UNCHANGED <<server, manifest>>
    BY <1>13 DEF Renumber
  <2>3. /\ \A n1 \in Files(r)' : n1 = new \/ (n1 \in Files(r) /\ disk'[r][n1] = disk[r][n1])
    BY <2>1, Moved
  <2>4. \A n1 \in Files(r) : disk[r][n1].heading = n1.num
    BY <1>a, <2>1
  <2>5. Aside(r, new)'
    BY <2>1 DEF Aside
  <2>6. Files1
    BY <2>3, <2>4, <2>5
  <2> QED BY <1>s, <1>l, <2>2, <2>6
<1>14. CASE PullFinish(r)
  <2> DEFINE f == [n \in Files(r) |-> IF n \in Stale(r) /\ Unchanged(r, n)
                                    THEN manifest[r][n] ELSE disk[r][n]]
  <2>1. disk' = [disk EXCEPT ![r] = f] /\ pc[r] = "applying" /\ EndPull(r) /\ UNCHANGED server
    BY <1>14 DEF PullFinish
  <2>2. DOMAIN f = Files(r) /\ \A n \in Files(r) : f[n].heading = n.num
    BY <1>a, <1>h, <2>1 DEF Stale
  <2> HIDE DEF f
  <2>3. disk'[r] = f
    BY <1>d, <2>1
  <2>4. Files1
    BY <2>2, <2>3 DEF Files
  <2> QED BY <1>s, <1>l, <2>1, <2>4
<1> QED
  BY <1>1, <1>2, <1>3, <1>4, <1>5, <1>6, <1>7, <1>8, <1>9, <1>10, <1>11, <1>12, <1>13, <1>14
     DEF Acts, LocalStep, PullStep

(* A title is the title of one file.                                         *)
LEMMA TitleTellsFile ==
  ASSUME Stand, NEW r \in Replica, NEW m \in Files(r), NEW n \in Files(r), m.slug = n.slug
  PROVE  m = n
<1> DEFINE i == disk[r][m].id
           j == disk[r][n].id
<1>1. i \in 1..Len(titles) /\ titles[i] = m.slug /\ j \in 1..Len(titles) /\ titles[j] = n.slug
  BY DEF Stand, Titled
<1> HIDE DEF i, j
<1>2. i = j
  BY <1>1 DEF Stand, Titled
<1>3. disk[r][m].id = disk[r][n].id
  BY <1>2 DEF i, j
<1> QED BY <1>3 DEF Stand, OneName

(* What the completion pass leaves.                                          *)
LEMMA Completed ==
  ASSUME Setting, Healing, Inv, Typed, Stand, Uncited, NEW r \in Replica,
         Headed(r), Stems(r), pc[r] = "completing", \A n \in Files(r) : ~Repairable(r, n),
         NEW n \in Files(r)
  PROVE  /\ disk[r][n].heading = n.num
         /\ disk[r][n].id \in DOMAIN index[r] => RepairedStem(r, index[r][disk[r][n].id]) \in Files(r)
<1>1. ASSUME disk[r][n].id \in DOMAIN index[r]
      PROVE  RepairedStem(r, index[r][disk[r][n].id]) \in Files(r)
  <2> DEFINE stem == index[r][disk[r][n].id]
             twins == {m \in Files(r) : m.slug = stem.slug}
  <2>1. stem.slug = n.slug
    BY <1>1 DEF Stems, Stand, Titled
  <2>2. \A m \in Files(r) : m.slug = n.slug => m = n
    BY TitleTellsFile
  <2>3. twins = {n}
    BY <2>1, <2>2
  <2>4. Cardinality(twins) = 1
    BY <2>3, FS_Singleton
  <2>5. CASE stem \in Files(r)
    BY <2>5 DEF RepairedStem
  <2>6. CASE stem \notin Files(r)
    <3>1. RepairedStem(r, stem) = CHOOSE m \in twins : TRUE
      BY <2>4, <2>6 DEF RepairedStem
    <3> QED BY <2>3, <3>1
  <2> QED BY <2>5, <2>6
<1>2. CASE NeverCut
  BY <1>1, <1>2 DEF Headed, Aside
<1>3. CASE "cite" \notin Faults
  <2>1. Holders(r, n.num) = {n}
    BY DEF Holders, Inv, UniqueNumbers
  <2>2. /\ questions[r] = {}
        /\ \A m \in Files(r) : disk[r][m].cites = {}
    BY <1>3 DEF Uncited, IsBody
  <2>3. Citations(r) = {}
    BY <2>2 DEF Citations
  <2>4. Isolated(r, n, {n.num, disk[r][n].heading})
    BY <2>2, <2>3 DEF Isolated, CitedNumbers
  <2>5. disk[r][n].heading = n.num
    BY <2>1, <2>4 DEF Repairable
  <2> QED BY <1>1, <2>5
<1>4. NeverCut \/ "cite" \notin Faults
  BY DEF Healing, NeverCut
<1> QED
  BY <1>1, <1>2, <1>3, <1>4

LEMMA HealedStep ==
  ASSUME Setting, Healing, Inv, Typed, Stand, Whole, Uncited, NEW r \in Replica, Acts(r), Sound(r)
  PROVE  Healed(r)'
<1> DEFINE Run == {"applying", "renamed", "rewritten", "again"}
           Stem1(d) == \/ index'[r][d] \in Files(r)'
                       \/ pc'[r] \in {"renamed", "rewritten"} /\ index'[r][d] = moving'[r][2]
           Fine(n) == /\ disk'[r][n].heading = n.num \/ Aside(r, n)'
                      /\ disk'[r][n].id \in DOMAIN index'[r] => Stem1(disk'[r][n].id)
<1> SUFFICES ASSUME clean'[r], pc'[r] \in Run, NEW n \in Files(r)' \ DOMAIN manifest'[r]
             PROVE  Fine(n)
  BY DEF Healed
<1>d. /\ DOMAIN disk = Replica /\ DOMAIN manifest = Replica /\ DOMAIN index = Replica
      /\ DOMAIN pc = Replica /\ DOMAIN moving = Replica /\ DOMAIN clean = Replica
  BY DEF Inv, NamesInv, FilesInv, RowsInv, Typed, Whole
<1>h. ASSUME clean[r], pc[r] \in Run, NEW m \in Files(r) \ DOMAIN manifest[r]
      PROVE  /\ disk[r][m].heading = m.num \/ Aside(r, m)
             /\ disk[r][m].id \in DOMAIN index[r] =>
                  \/ index[r][disk[r][m].id] \in Files(r)
                  \/ pc[r] \in {"renamed", "rewritten"} /\ index[r][disk[r][m].id] = moving[r][2]
  BY <1>h DEF Sound, Healed
<1>1. CASE \/ LocalStep(r) \/ (\E m : Push(r, m)) \/ PullPlan(r) \/ PullLock(r) \/ Crash(r)
           \/ PullFinish(r) \/ \E m : CompleteHeading(r, m)
  <2>1. pc'[r] \in {"idle", "planned", "completing"}
    BY <1>1, <1>d DEF LocalStep, Mint, Cite, RenameByHand, Push, PullPlan, PullLock, Crash,
       PullFinish, EndPull, CompleteHeading, StoreLockFree, pullVars, Mishap, Setting
  <2> QED BY <2>1
<1>2. CASE CompletionFails(r) \/ \E m : ApplyFails(r, m)
  BY <1>2, <1>d DEF CompletionFails, ApplyFails
<1>3. CASE RepairDanglingStems(r)
  <2>1. /\ pc[r] = "completing" /\ \A m \in Files(r) : ~Repairable(r, m)
        /\ index' = [index EXCEPT ![r] = [d \in DOMAIN @ |-> RepairedStem(r, @[d])]]
        /\ UNCHANGED <<disk, manifest>>
    BY <1>3 DEF RepairDanglingStems
  <2>2. n \in Files(r) /\ Files(r)' = Files(r)
    BY <2>1 DEF Files
  <2>3. /\ disk[r][n].heading = n.num
        /\ disk[r][n].id \in DOMAIN index[r] => RepairedStem(r, index[r][disk[r][n].id]) \in Files(r)
    BY <2>1, <2>2, Completed DEF Sound
  <2>4. /\ DOMAIN index'[r] = DOMAIN index[r]
        /\ \A d \in DOMAIN index[r] : index'[r][d] = RepairedStem(r, index[r][d])
    BY <1>d, <2>1
  <2> QED BY <2>1, <2>2, <2>3, <2>4
<1>4. ASSUME NEW m \in todo[r], Install(r, m) PROVE Fine(n)
  <2>1. /\ disk'[r] = Put(disk[r], m, manifest[r][m]) /\ UNCHANGED <<manifest, index, clean>>
        /\ pc[r] \in {"applying", "again"} /\ m \in DOMAIN manifest[r]
    BY <1>4, <1>d DEF Install, Classifies, Inv, NamesInv, RowsInv
  <2>2. n \in Files(r) \ DOMAIN manifest[r] /\ disk'[r][n] = disk[r][n] /\ Files(r) \subseteq Files(r)'
    BY <2>1 DEF Put, Files
  <2> QED BY <1>h, <2>1, <2>2 DEF Aside
<1>5. ASSUME NEW m, Adopt(r, m) \/ KeepLocal(r, m) \/ Quarantine(r, m) PROVE Fine(n)
  <2>1. /\ UNCHANGED <<disk, manifest, index, clean>> /\ pc[r] \in {"applying", "again"}
    BY <1>5 DEF Adopt, KeepLocal, Quarantine, Classifies, storeVars
  <2>2. n \in Files(r) \ DOMAIN manifest[r] /\ Files(r)' = Files(r)
    BY <2>1 DEF Files
  <2> QED BY <1>h, <2>1, <2>2 DEF Aside
<1>6. CASE FinishCanonicalize(r) \/ \E m \in todo[r] : Canonicalize(r, m)
  BY <1>6, NoTwins DEF FinishCanonicalize, Sound, Moving
(* The file on the move takes its dangling stem with it, and no other.       *)
<1>7. ASSUME NEW m \in todo[r], Renumber(r, m) PROVE Fine(n)
  <2>1. PICK old, new :
          /\ old \in Files(r) \ DOMAIN manifest[r]
          /\ Move(r, old, new) /\ new \notin Files(r) /\ pc[r] = "applying" /\ pc'[r] = "renamed"
          /\ moving'[r][2] = old /\ moving'[r][3] = new
    BY <1>7, Renumbered
  <2>2. UNCHANGED <<manifest, index, clean>>
    BY <1>7 DEF Renumber
  <2>3. /\ Files(r)' = (Files(r) \ {old}) \cup {new}
        /\ disk'[r][new] = disk[r][old]
        /\ \A k \in Files(r) \ {old, new} : disk'[r][k] = disk[r][k]
    BY <2>1, Moved
  <2> DEFINE from == IF n = new THEN old ELSE n
  <2>4. from \in Files(r) \ DOMAIN manifest[r] /\ disk'[r][n] = disk[r][from]
    BY <2>1, <2>2, <2>3
  <2>5. n = new \/ disk'[r][n].heading = n.num
    BY <1>h, <2>1, <2>2, <2>4 DEF Aside
  <2>6. Aside(r, new)'
    BY <2>1 DEF Aside
  <2>7. ASSUME disk'[r][n].id \in DOMAIN index'[r] PROVE Stem1(disk'[r][n].id)
    <3>1. index'[r][disk'[r][n].id] \in Files(r)
      BY <1>h, <2>1, <2>2, <2>4, <2>7
    <3> QED BY <2>1, <2>3, <3>1
  <2> QED BY <2>5, <2>6, <2>7
<1>8. CASE RewriteHeading(r)
  <2> DEFINE m == moving[r][3]
  <2>1. /\ disk' = [disk EXCEPT ![r][m].heading = m.num] /\ m \in Files(r)
        /\ UNCHANGED <<manifest, index, clean, moving>> /\ pc[r] = "renamed" /\ pc'[r] = "rewritten"
    BY <1>8, <1>d DEF RewriteHeading, Sound, Moving
  <2>2. Aside(r, n) => n = m
    BY DEF Aside
  <2> HIDE DEF m
  <2>3. /\ Files(r)' = Files(r) /\ disk'[r][m].heading = m.num
        /\ \A k \in Files(r) : disk'[r][k].id = disk[r][k].id
        /\ \A k \in Files(r) \ {m} : disk'[r][k] = disk[r][k]
    BY <2>1, Rewritten
  <2>4. n \in Files(r) \ DOMAIN manifest[r]
    BY <2>1, <2>3
  <2>5. disk'[r][n].heading = n.num
    BY <1>h, <2>1, <2>2, <2>3, <2>4
  <2>6. disk'[r][n].id \in DOMAIN index'[r] => Stem1(disk'[r][n].id)
    BY <1>h, <2>1, <2>3, <2>4
  <2> QED BY <2>5, <2>6
<1>9. CASE RetargetRenumbered(r)
  <2>1. /\ index' = [index EXCEPT ![r] = [d \in DOMAIN @ |-> IF @[d] = moving[r][2] THEN moving[r][3] ELSE @[d]]]
        /\ UNCHANGED <<disk, manifest, clean>> /\ pc[r] = "rewritten" /\ moving[r][3] \in Files(r)
    BY <1>9 DEF RetargetRenumbered, RetargetIndex, Sound, Moving
  <2>2. n \in Files(r) \ DOMAIN manifest[r] /\ Files(r)' = Files(r)
    BY <2>1 DEF Files
  <2>3. /\ DOMAIN index'[r] = DOMAIN index[r]
        /\ \A d \in DOMAIN index[r] :
             index'[r][d] = IF index[r][d] = moving[r][2] THEN moving[r][3] ELSE index[r][d]
    BY <1>d, <2>1
  <2>4. disk'[r][n].heading = n.num
    BY <1>h, <2>1, <2>2 DEF Aside
  <2>5. ASSUME disk'[r][n].id \in DOMAIN index'[r] PROVE Stem1(disk'[r][n].id)
    <3> DEFINE d == disk[r][n].id
    <3>1. d \in DOMAIN index[r] /\ disk'[r][n].id = d
      BY <2>1, <2>3, <2>5
    <3>2. index[r][d] \in Files(r) \/ index[r][d] = moving[r][2]
      BY <1>h, <2>1, <2>2, <3>1
    <3> HIDE DEF d
    <3>3. index'[r][d] \in Files(r)
      BY <2>1, <2>3, <3>1, <3>2
    <3> QED BY <2>2, <3>1, <3>3
  <2> QED BY <2>4, <2>5
<1> QED
  BY <1>1, <1>2, <1>3, <1>4, <1>5, <1>6, <1>7, <1>8, <1>9 DEF Acts, PullStep

LEMMA HealStep ==
  ASSUME Setting, Healing, Inv, Typed, Stand, HealInv, Next
  PROVE  HealInv'
<1>1. PICK r \in Replica : Acts(r)
  BY DEF Next, Acts
<1>2. Whole /\ Uncited /\ Published /\ \A q \in Replica : Sound(q)
  BY DEF HealInv
<1>3. Whole' /\ \A q \in Replica \ {r} : Rest(q)
  BY <1>1, <1>2, Apart
<1>4. Uncited'
  BY <1>2, UncitedStep
<1>5. Sound(r)' /\ Published'
  <2>1. Headed(r)' /\ Published' /\ Moving(r)' /\ Stems(r)'
    BY <1>1, <1>2, HeadedStep, MovingStep, StemsStep DEF Sound
  <2>2. Healed(r)'
    BY <1>1, <1>2, HealedStep
  <2> QED BY <2>1, <2>2 DEF Sound
<1>6. ASSUME NEW q \in Replica \ {r} PROVE Sound(q)'
  <2>1. Files(q)' = Files(q) /\ (\A n : Aside(q, n)' <=> Aside(q, n)) /\ Rest(q) /\ Sound(q)
    BY <1>2, <1>3 DEF Rest, Files, Aside
  <2>2. Headed(q)' /\ Moving(q)' /\ Healed(q)'
    BY <2>1 DEF Sound, Headed, Moving, Healed, Rest
  <2>3. \A d \in 1..Len(titles) : d \in 1..Len(titles') /\ titles'[d] = titles[d]
    BY Views, TitlesStep
  <2>4. Stems(q)'
    BY <2>1, <2>3 DEF Sound, Stems, Rest
  <2> QED BY <2>2, <2>4 DEF Sound
<1> QED
  BY <1>3, <1>4, <1>5, <1>6 DEF HealInv

LEMMA HealInit ==
  ASSUME Init
  PROVE  HealInv
<1>1. \A r \in Replica : Files(r) = {} /\ index[r] = <<>> /\ manifest[r] = <<>> /\ questions[r] = {} /\ pc[r] = "idle"
  BY DEF Init, Files
<1>2. \A b : ~IsBody(b)
  BY DEF Init, IsBody, Files
<1>3. Whole /\ Published
  BY DEF Init, Whole, Published
<1>4. Uncited
  BY <1>1, <1>2 DEF Uncited
<1>5. \A r \in Replica : Sound(r)
  BY <1>1 DEF Sound, Headed, Stems, Moving, Healed
<1> QED BY <1>3, <1>4, <1>5 DEF HealInv

LEMMA HealIdle ==
  ASSUME HealInv, UNCHANGED vars
  PROVE  HealInv'
<1>1. UNCHANGED <<server, titles, disk, index, questions, manifest, pc, moving, clean>>
  BY DEF vars, storeVars, pullVars
<1>2. \A r : Files(r)' = Files(r) /\ \A n : Aside(r, n)' <=> Aside(r, n)
  BY <1>1 DEF Files, Aside
<1>3. \A b : IsBody(b)' <=> IsBody(b)
  BY <1>1 DEF IsBody, Files
<1>4. Whole' /\ Uncited' /\ Published'
  BY <1>1, <1>3 DEF HealInv, Whole, Uncited, Published
<1>5. \A r \in Replica : Headed(r)' /\ Stems(r)'
  BY <1>1, <1>2 DEF HealInv, Sound, Headed, Stems
<1>6. \A r \in Replica : Moving(r)' /\ Healed(r)'
  BY <1>1, <1>2 DEF HealInv, Sound, Moving, Healed
<1> QED BY <1>4, <1>5, <1>6 DEF HealInv, Sound

(* "each crash window leaves a state the next pull heals": a pull that ran to *)
(* its end and refused nothing leaves every decision the server does not list *)
(* with its number in its heading and where the hash index says it is, as     *)
(* long as nothing that could be cut short is also cited.                     *)
THEOREM PullsHeal ==
  ASSUME Setting, Healing
  PROVE  Spec => PullHeals
<1>1. Init => HealInv
  BY HealInit
<1>2. Inv /\ Typed /\ Stand /\ HealInv /\ [Next]_vars => HealInv'
  BY HealStep, HealIdle
<1>3. Spec => [](Inv /\ Typed /\ Stand /\ HealInv)
  BY <1>1, <1>2, Standing, PTL DEF Spec
<1>4. ASSUME HealInv, NEW r \in Replica, PullFinish(r), clean[r],
             NEW n \in Files(r) \ DOMAIN manifest[r]
      PROVE  LET d == disk[r][n].id IN
             /\ disk[r][n].heading = n.num
             /\ d \in DOMAIN index[r] /\ n.slug = titles[d] => index[r][d] \in Files(r)
  <2>1. pc[r] = "applying" /\ Healed(r)
    BY <1>4 DEF PullFinish, HealInv, Sound
  <2> QED BY <1>4, <2>1 DEF Healed, Aside
<1>5. HealInv /\ [Next]_vars =>
        [\A r \in Replica :
           PullFinish(r) /\ clean[r] =>
             \A n \in Files(r) \ DOMAIN manifest[r] :
               LET d == disk[r][n].id IN
               /\ disk[r][n].heading = n.num
               /\ d \in DOMAIN index[r] /\ n.slug = titles[d] => index[r][d] \in Files(r)]_vars
  BY <1>4
<1> QED
  BY <1>3, <1>5, PTL DEF Spec, PullHeals

-----------------------------------------------------------------------------
(***************************************************************************)
(* Which project a repository belongs to (Connections), for any processes,  *)
(* repositories, names and bounds.                                         *)
(*                                                                         *)
(* One owner for each path is not inductive: Quiet says why it holds while  *)
(* nothing interferes, from the configs and the one command under way. A    *)
(* command owns its path between its check and its config (Owned), every    *)
(* other listed path is named by its config (Carried). What a guard is worth *)
(* is said for any interleaving (Guarded): who changes an entry holds its    *)
(* guard, and an un-adopt that will purge keeps an entry to itself.          *)
(***************************************************************************)

(* No process mints a project on the server while another may attach it.     *)
Alone == \A p, q \in Procs : p # q /\ "init" \in Commands[p] =>
           "attach" \notin Commands[q] /\ "reconnect" \notin Commands[q]

-----------------------------------------------------------------------------
Fresh(t) == t.cmd \in {"init", "adopt"} /\ t.at \in {"create", "register"}

(* A task carries what its stage needs, and no id that was not given out.       *)
Shaped(t, m) ==
  /\ t.cmd = "none" => t = NoTask
  /\ t.cmd \notin {"none", "rm"} => t.repo \in Repos
  /\ t.cmd # "none" /\ ~Fresh(t) => t.id # 0
  /\ t.cmd = "init" /\ t.at = "create" => t.id = 0
  /\ t.cmd = "adopt" /\ t.at = "register" => t.id = 0
  /\ t.at = "config" => t.cmd \notin {"none", "rm", "unadopt"}
  /\ t.at \in {"register", "bind", "config", "move", "push"} => t.id <= m
  /\ t.cmd = "reconnect" /\ t.at = "config" => t.old # 0
  /\ t.cmd = "link" /\ t.at \in {"create", "move"} => t.old # 0
  /\ t.seen.id <= m /\ (t.seen # NoEntry => t.seen.id = t.id /\ t.cmd \in {"unadopt", "rm"})
  /\ t.purge => t.cmd = "unadopt" /\ t.seen.repos \subseteq {t.repo}

Issued ==
  /\ \A e \in Entries : e.id <= minted
  /\ \A i \in Ids : cloud[i] # NoCloud => i <= minted
  /\ \A p \in Procs : Shaped(task[p], minted) /\ task[p].cmd \in Commands[p] \union {"none"}

(* The guard is held where the registry is about to change.                    *)
Keeps(p) ==
  LET t == task[p]
  IN /\ t.cmd = "add" /\ t.at = "add" => guard[t.id] = p
     /\ t.cmd \in {"attach", "reconnect"} /\ t.at \in {"restore", "bind"} => guard[t.id] = p
     /\ t.cmd = "link" /\ t.at \in {"create", "move"} => guard[t.old] = p
     /\ t.cmd = "link" /\ t.at = "move" => guard[t.id] = p
     /\ t.cmd = "unadopt" /\ t.at \in {"unlink", "drop"} /\ t.seen # NoEntry => guard[t.id] = p

(* A project about to be purged lists no other repository.                     *)
Spared(p) ==
  LET t == task[p]
  IN Alone /\ t.cmd = "unadopt" /\ t.at \in {"unlink", "drop"} /\ t.purge /\ t.seen # NoEntry =>
       EntryOf(t.id).repos \subseteq {t.repo}

(* An id init was given is nobody's yet.                                       *)
Coming(t) == Alone /\ t.cmd = "init" /\ t.at = "register" /\ t.id # 0
Linking(t) == t.cmd = "link" /\ t.at = "move"
Unborn(p) ==
  /\ Coming(task[p]) => /\ ~Registered(task[p].id)
                        /\ \A q \in Procs : task[q].seen.id # task[p].id
  /\ \A q \in Procs : p # q /\ Coming(task[p]) /\ (Coming(task[q]) \/ Linking(task[q])) =>
       task[p].id # task[q].id

Guarded == \A p \in Procs : Keeps(p) /\ Spared(p) /\ Unborn(p)

(* While nothing interferes.                                                   *)
Own(t) == IF t.cmd = "link" /\ t.at \in {"create", "move"} THEN t.old ELSE t.id
Between(t) == t.at = "config" \/ (t.cmd = "unadopt" /\ t.at = "drop")
Single == \A p, q \in Procs : task[p] # NoTask /\ task[q] # NoTask => p = q
Looked(t) == ~(t.cmd = "add" /\ t.at = "guard")
Owned == \A p \in Procs : \A e \in Entries :
           task[p].repo \in e.repos /\ Looked(task[p]) => e.id = Own(task[p])
Carried == \A e \in Entries : \A r \in e.repos :
             \/ Valid(r) /\ configs[r].id = e.id
             \/ \E p \in Procs : task[p].repo = r /\ Between(task[p])
Recalled == \A p \in Procs : task[p].cmd = "reconnect" =>
              IF task[p].at = "config" THEN task[p].old = task[p].id
              ELSE configs[task[p].repo].id = task[p].id
Settled == Single /\ Owned /\ Carried /\ Recalled
Quiet == disturbed = "no" => Settled

NInv == NTypeOK /\ Issued /\ Guarded /\ Quiet

-----------------------------------------------------------------------------
(* Registries as sequences: what appending, replacing and removing an entry     *)
(* leave.                                                                     *)
Kept(s) == s \in Seq(EntryType) /\ \A k, l \in DOMAIN s : s[k].id = s[l].id => k = l

(* Appending an entry under a new id adds it.                                 *)
LEMMA Appended ==
  ASSUME NEW s, Kept(s), NEW e \in EntryType, \A f \in ToSet(s) : f.id # e.id
  PROVE  Kept(Append(s, e)) /\ ToSet(Append(s, e)) = ToSet(s) \union {e}
<1>1. s \in Seq(EntryType) /\ Append(s, e) \in Seq(EntryType) /\ Len(Append(s, e)) = Len(s) + 1
  BY DEF Kept
<1>2. DOMAIN Append(s, e) = 1 .. Len(s) + 1 /\ DOMAIN s = 1 .. Len(s) /\ Len(s) \in Nat
  BY <1>1
<1>3. /\ \A k \in 1 .. Len(s) : Append(s, e)[k] = s[k]
      /\ Append(s, e)[Len(s) + 1] = e
  BY <1>1
<1>4. \A k \in 1 .. Len(s) : s[k].id # e.id
  BY <1>2 DEF ToSet
<1>5. \A k, l \in DOMAIN Append(s, e) : Append(s, e)[k].id = Append(s, e)[l].id => k = l
  <2>1. TAKE k, l \in DOMAIN Append(s, e)
  <2>2. k \in 1 .. Len(s) \/ k = Len(s) + 1
    BY <1>2
  <2>3. l \in 1 .. Len(s) \/ l = Len(s) + 1
    BY <1>2
  <2> QED BY <2>2, <2>3, <1>2, <1>3, <1>4 DEF Kept
<1>6. \A k \in DOMAIN Append(s, e) : k \in 1 .. Len(s) \/ k = Len(s) + 1
  BY <1>2
<1>7. ToSet(Append(s, e)) \subseteq ToSet(s) \union {e}
  BY <1>2, <1>3, <1>6 DEF ToSet
<1>8. 1 .. Len(s) \subseteq DOMAIN Append(s, e) /\ Len(s) + 1 \in DOMAIN Append(s, e)
  BY <1>2
<1>9. ToSet(s) \union {e} \subseteq ToSet(Append(s, e))
  <2>1. ToSet(s) \subseteq ToSet(Append(s, e))
    BY <1>2, <1>3, <1>8 DEF ToSet
  <2>2. e \in ToSet(Append(s, e))
    BY <1>3, <1>8 DEF ToSet
  <2> QED BY <2>1, <2>2
<1> QED BY <1>1, <1>5, <1>7, <1>9 DEF Kept

(* Removing the entry at a place removes that entry and no other.             *)
LEMMA Removed ==
  ASSUME NEW s, Kept(s), NEW i \in DOMAIN s
  PROVE  Kept(RemoveAt(s, i)) /\ ToSet(RemoveAt(s, i)) = {e \in ToSet(s) : e.id # s[i].id}
<1> DEFINE w == RemoveAt(s, i)
           Place(j) == IF j < i THEN j ELSE j + 1
<1>1. s \in Seq(EntryType) /\ Len(s) \in Nat /\ DOMAIN s = 1 .. Len(s) /\ i \in 1 .. Len(s)
  BY DEF Kept
<1>2. /\ SubSeq(s, 1, i - 1) \in Seq(EntryType) /\ SubSeq(s, i + 1, Len(s)) \in Seq(EntryType)
      /\ Len(SubSeq(s, 1, i - 1)) = i - 1 /\ Len(SubSeq(s, i + 1, Len(s))) = Len(s) - i
  BY <1>1
<1>3. w \in Seq(EntryType) /\ Len(w) = Len(s) - 1 /\ DOMAIN w = 1 .. Len(s) - 1
  BY <1>1, <1>2 DEF RemoveAt
<1>4. \A j \in 1 .. Len(s) - 1 : w[j] = s[Place(j)]
  <2>1. TAKE j \in 1 .. Len(s) - 1
  <2>2. CASE j < i
    <3>1. j \in 1 .. i - 1
      BY <2>2, <1>1
    <3>2. w[j] = SubSeq(s, 1, i - 1)[j]
      BY <3>1, <1>2 DEF RemoveAt
    <3> QED BY <3>1, <3>2, <2>2, <1>1
  <2>3. CASE ~(j < i)
    <3> DEFINE a == SubSeq(s, 1, i - 1)
               b == SubSeq(s, i + 1, Len(s))
    <3>0. a \in Seq(EntryType) /\ b \in Seq(EntryType) /\ Len(a) = i - 1 /\ Len(b) = Len(s) - i /\ w = a \o b
      BY <1>2 DEF RemoveAt
    <3>2. j - (i - 1) \in 1 .. Len(s) - i /\ j \in 1 .. Len(a) + Len(b) /\ ~(j <= Len(a))
      BY <2>3, <1>1, <3>0
    <3>1. w[j] = b[j - (i - 1)]
      <4> HIDE DEF a, b, w
      <4>1. (a \o b)[j] = b[j - Len(a)]
        BY <3>0, <3>2, ConcatProperties
      <4> QED BY <3>0, <4>1
    <3> QED BY <3>1, <3>2, <2>3, <1>1
  <2> QED BY <2>2, <2>3
<1>5. \A j \in 1 .. Len(s) - 1 : Place(j) \in DOMAIN s /\ Place(j) # i
  BY <1>1
<1>6. \A k \in DOMAIN s : k # i => \E j \in 1 .. Len(s) - 1 : Place(j) = k
  <2>1. TAKE k \in DOMAIN s
  <2>2. HAVE k # i
  <2>3. CASE k < i
    BY <2>3, <1>1
  <2>4. CASE k > i
    <3>1. k - 1 \in 1 .. Len(s) - 1 /\ Place(k - 1) = k
      BY <2>4, <1>1
    <3> QED BY <3>1
  <2> QED BY <2>2, <2>3, <2>4, <1>1
<1>7. \A j, k \in 1 .. Len(s) - 1 : Place(j) = Place(k) => j = k
  BY <1>1
<1> HIDE DEF w, Place
<1>8. \A k, l \in DOMAIN s : s[k].id = s[l].id => k = l
  BY DEF Kept
<1>9. \A j, k \in DOMAIN w : w[j].id = w[k].id => j = k
  <2>1. TAKE j \in DOMAIN w, k \in DOMAIN w
  <2>2. HAVE w[j].id = w[k].id
  <2>3. j \in 1 .. Len(s) - 1 /\ k \in 1 .. Len(s) - 1
    BY <1>3
  <2>4. w[j] = s[Place(j)] /\ w[k] = s[Place(k)] /\ Place(j) \in DOMAIN s /\ Place(k) \in DOMAIN s
    BY <1>4, <1>5, <2>3
  <2>5. Place(j) = Place(k)
    BY <1>8, <2>2, <2>4
  <2> QED BY <1>7, <2>3, <2>5
<1>10. \A e \in ToSet(w) : e \in ToSet(s) /\ e.id # s[i].id
  BY <1>3, <1>4, <1>5, <1>8 DEF ToSet
<1>11. \A e \in ToSet(s) : e.id # s[i].id => e \in ToSet(w)
  BY <1>3, <1>4, <1>6 DEF ToSet
<1>12. Kept(w) /\ ToSet(w) = {e \in ToSet(s) : e.id # s[i].id}
  BY <1>3, <1>9, <1>10, <1>11 DEF Kept
<1> QED BY <1>12 DEF w

(* Replacing the entry of an id by another of that id changes that entry alone. *)
LEMMA Replaced ==
  ASSUME NEW s, Kept(s), NEW i, NEW e \in EntryType, e.id = i, \E f \in ToSet(s) : f.id = i
  PROVE  LET w == [k \in DOMAIN s |-> IF s[k].id = i THEN e ELSE s[k]]
         IN Kept(w) /\ ToSet(w) = {f \in ToSet(s) : f.id # i} \union {e}
<1> DEFINE w == [k \in DOMAIN s |-> IF s[k].id = i THEN e ELSE s[k]]
<1>1. s \in Seq(EntryType) /\ Len(s) \in Nat /\ DOMAIN s = 1 .. Len(s)
  BY DEF Kept
<1>2. \A k \in DOMAIN s : s[k] \in EntryType
  BY <1>1
<1>3. w \in Seq(EntryType) /\ DOMAIN w = DOMAIN s
  <2>1. w \in [1 .. Len(s) -> EntryType]
    BY <1>1, <1>2
  <2> QED BY <2>1, <1>1
<1>4. \A k, l \in DOMAIN w : w[k].id = w[l].id => k = l
  BY <1>3 DEF Kept
<1>5. \A f \in ToSet(w) : (f \in ToSet(s) /\ f.id # i) \/ f = e
  BY <1>3 DEF ToSet
<1>6. \A f \in ToSet(s) : f.id # i => f \in ToSet(w)
  BY <1>3 DEF ToSet
<1>7. e \in ToSet(w)
  BY <1>3 DEF ToSet
<1> HIDE DEF w
<1>8. Kept(w) /\ ToSet(w) = {f \in ToSet(s) : f.id # i} \union {e}
  BY <1>3, <1>4, <1>5, <1>6, <1>7 DEF Kept
<1> QED BY <1>8 DEF w

-----------------------------------------------------------------------------
(* Reading the registry.                                                      *)

(* The registry is such a sequence.                                            *)
LEMMA Keeping == ASSUME NTypeOK PROVE Kept(registry)
BY DEF NTypeOK, Kept

(* The entry of a registered id is the one entry with that id.                *)
LEMMA EntryFound ==
  ASSUME Kept(registry), NEW i
  PROVE  /\ Registered(i) => EntryOf(i) \in Entries /\ EntryOf(i).id = i
         /\ ~Registered(i) => EntryOf(i) = NoEntry
         /\ \A e \in Entries : e.id = i => EntryOf(i) = e
         /\ Entries \subseteq EntryType
         /\ EntryOf(i) \in EntryType \union {NoEntry}
<1>1. Entries \subseteq EntryType
  BY DEF Kept, Entries, ToSet
<1>2. \A e, f \in Entries : e.id = f.id => e = f
  BY DEF Kept, Entries, ToSet
<1>3. Registered(i) => EntryOf(i) \in Entries /\ EntryOf(i).id = i
  BY DEF Registered, EntryOf
<1>4. \A e \in Entries : e.id = i => EntryOf(i) = e
  BY <1>2, <1>3 DEF Registered
<1>5. ~Registered(i) => EntryOf(i) = NoEntry
  BY DEF EntryOf
<1> QED BY <1>1, <1>3, <1>4, <1>5

(* A path that some entry claims has a first claim, and it is one of them.    *)
LEMMA FirstClaims ==
  ASSUME Kept(registry), NEW r, Claims(r) # {}
  PROVE  FirstClaim(r) \in Entries /\ FirstClaim(r).repos \intersect Above(r) # {}
<1> DEFINE T == Claims(r)
<1>1. IsWellFoundedOn(OpToRel(<, Nat), Nat)
  BY NatLessThanWellFounded
<1>2. T \subseteq DOMAIN registry /\ T \subseteq Nat /\ T # {}
  <2>1. DOMAIN registry = 1 .. Len(registry) /\ Len(registry) \in Nat
    BY DEF Kept
  <2> QED BY <2>1 DEF Claims
<1>3. PICK t \in T : \A u \in T : <<u, t>> \notin OpToRel(<, Nat)
  BY <1>1, <1>2, WFMin
<1>4. \A u \in T : ~(u < t)
  BY <1>2, <1>3 DEF OpToRel
<1>5. \E x \in T : \A y \in T : x =< y
  BY <1>2, <1>4
<1>6. Min(T) \in T
  BY <1>5, Zenon DEF Min
<1>7. Min(T) \in DOMAIN registry /\ registry[Min(T)].repos \intersect Above(r) # {}
  BY <1>6 DEF Claims
<1>8. registry[Min(T)] \in Entries
  BY <1>7 DEF Entries, ToSet
<1> QED BY <1>7, <1>8 DEF FirstClaim

(* Where every path has one owner the two orders of resolution agree.         *)
LEMMA ResolversAgree ==
  ASSUME NTypeOK
  PROVE  StrictAgrees
<1> SUFFICES ASSUME ~TwoOwners, NEW handle \in Handles, NEW cwd \in Repos,
                    ResolveBinding(handle, cwd).kind = "store"
             PROVE  ResolveStore(handle, cwd) = ResolveBinding(handle, cwd)
  BY DEF StrictAgrees
<1> DEFINE r == FoundAt(cwd)
           c == configs[r]
           e == EntryOf(c.id)
           owners == {f \in Entries : f.repos \intersect Above(cwd) # {}}
<1>0. Kept(registry)
  BY Keeping
<1>1. c.mode # "broken"
  BY DEF ResolveBinding, Answer
<1>2. CASE Valid(r)
  <2>1. ~ (/\ MeansOther(handle, c.id)
           /\ (Registered(handle.id) \/ e = NoEntry \/ e.name # handle.name))
    BY <1>1, <1>2 DEF ResolveBinding, Answer
  <2>2. e # NoEntry /\ ~Contradicts(e, c)
    BY <1>1, <1>2, <2>1 DEF ResolveBinding, Answer, Disconnected
  <2>3. ResolveBinding(handle, cwd) = Bound(e)
    BY <1>1, <1>2, <2>1, <2>2 DEF ResolveBinding
  <2>4. Registered(c.id) /\ e \in Entries /\ e.id = c.id
    BY <1>0, <2>2, EntryFound
  <2>5. MeansOther(handle, c.id) => \E f \in Named(handle.name) : f.id = c.id
    BY <2>1, <2>4 DEF Named
  <2>6. ResolveStore(handle, cwd) = ConnectionFor(c)
    BY <1>2, <2>5 DEF ResolveStore
  <2>7. ConnectionFor(c) = Bound(e)
    BY <2>2 DEF ConnectionFor
  <2> QED BY <2>3, <2>6, <2>7
<1>3. CASE ~Valid(r) /\ Given(handle)
  BY <1>1, <1>3 DEF ResolveBinding, ResolveStore
<1>4. CASE ~Valid(r) /\ ~Given(handle)
  <2>1. PICK f \in owners : owners = {f}
    BY <1>1, <1>4 DEF ResolveBinding, Answer
  <2>2. ResolveBinding(handle, cwd) = Bound(f)
    <3>1. (CHOOSE g \in owners : TRUE) = f /\ \E g \in owners : owners = {g}
      BY <2>1
    <3> QED BY <1>1, <1>4, <3>1 DEF ResolveBinding
  <2>3. Claims(cwd) # {}
    <3>1. PICK k \in DOMAIN registry : f = registry[k]
      BY <2>1 DEF Entries, ToSet
    <3>2. k \in Claims(cwd)
      BY <2>1, <3>1 DEF Claims
    <3> QED BY <3>2
  <2>4. FirstClaim(cwd) \in owners
    BY <1>0, <2>3, FirstClaims
  <2>5. FirstClaim(cwd) = f
    BY <2>1, <2>4
  <2>6. ResolveStore(handle, cwd) = Bound(FirstClaim(cwd))
    BY <1>4, <2>3 DEF ResolveStore
  <2> QED BY <2>2, <2>5, <2>6
<1> QED BY <1>2, <1>3, <1>4

-----------------------------------------------------------------------------
(* What the registry holds after a step.                                      *)

(* The same of the registry a step leaves.                                     *)
LEMMA EntryFoundNext ==
  ASSUME Kept(registry'), NEW i
  PROVE  /\ Registered(i)' => EntryOf(i)' \in Entries' /\ EntryOf(i)'.id = i
         /\ ~Registered(i)' => EntryOf(i)' = NoEntry
         /\ \A e \in Entries' : e.id = i => EntryOf(i)' = e
         /\ Entries' \subseteq EntryType
<1>1. Entries' \subseteq EntryType
  BY DEF Kept, Entries, ToSet
<1>2. \A e, f \in Entries' : e.id = f.id => e = f
  BY DEF Kept, Entries, ToSet
<1>3. Registered(i)' => EntryOf(i)' \in Entries' /\ EntryOf(i)'.id = i
  BY DEF Registered, EntryOf
<1>4. \A e \in Entries' : e.id = i => EntryOf(i)' = e
  BY <1>2, <1>3 DEF Registered
<1>5. ~Registered(i)' => EntryOf(i)' = NoEntry
  BY DEF EntryOf
<1> QED BY <1>1, <1>3, <1>4, <1>5

(* An id whose entries a step leaves alone keeps its entry.                   *)
LEMMA EntryStays ==
  ASSUME Kept(registry), Kept(registry'), NEW i,
         \A e : e.id = i => (e \in Entries <=> e \in Entries')
  PROVE  EntryOf(i)' = EntryOf(i) /\ (Registered(i)' <=> Registered(i))
<1>1. Registered(i)' <=> Registered(i)
  BY DEF Registered
<1>2. CASE Registered(i)
  BY <1>1, <1>2, EntryFound, EntryFoundNext
<1>3. CASE ~Registered(i)
  BY <1>1, <1>3, EntryFound, EntryFoundNext
<1> QED BY <1>1, <1>2, <1>3

(* Registering a project adds its entry.                                      *)
LEMMA Joins ==
  ASSUME Kept(registry), NEW e \in EntryType, ~Registered(e.id), registry' = Append(registry, e)
  PROVE  /\ Kept(registry') /\ Entries' = Entries \union {e}
         /\ \A i : i # e.id => EntryOf(i)' = EntryOf(i) /\ (Registered(i)' <=> Registered(i))
<1>1. Kept(registry') /\ Entries' = Entries \union {e}
  BY Appended DEF Registered, Entries
<1> QED BY <1>1, EntryStays

(* Changing an entry under its id changes no other.                           *)
LEMMA Changes ==
  ASSUME Kept(registry), NEW i, Registered(i), NEW e \in EntryType, e.id = i, Replace(i, e)
  PROVE  /\ Kept(registry') /\ Entries' = {f \in Entries : f.id # i} \union {e}
         /\ \A j : j # i => EntryOf(j)' = EntryOf(j)
         /\ \A j : Registered(j)' <=> Registered(j)
         /\ EntryOf(i)' = e
<1>1. Kept(registry') /\ Entries' = {f \in Entries : f.id # i} \union {e}
  BY Replaced DEF Registered, Entries, Replace
<1>2. \A j : j # i => EntryOf(j)' = EntryOf(j) /\ (Registered(j)' <=> Registered(j))
  BY <1>1, EntryStays
<1>3. Registered(i)'
  BY <1>1 DEF Registered
<1>4. EntryOf(i)' = e
  BY <1>1, EntryFoundNext
<1> QED BY <1>1, <1>2, <1>3, <1>4

(* Dropping an entry leaves the others.                                       *)
LEMMA WithoutOne ==
  ASSUME Kept(registry), NEW i
  PROVE  Kept(Without(i)) /\ ToSet(Without(i)) = {e \in Entries : e.id # i}
<1>1. CASE Registered(i)
  <2> DEFINE k == CHOOSE k \in DOMAIN registry : registry[k].id = i
  <2>1. \E k_1 \in DOMAIN registry : registry[k_1].id = i
    BY <1>1 DEF Registered, Entries, ToSet
  <2>2. k \in DOMAIN registry /\ registry[k].id = i
    BY <2>1
  <2>3. Without(i) = RemoveAt(registry, k)
    BY <1>1 DEF Without
  <2> HIDE DEF k
  <2> QED BY <2>2, <2>3, Removed DEF Entries
<1>2. CASE ~Registered(i)
  BY <1>2 DEF Without, Registered, Entries
<1> QED BY <1>1, <1>2

(* Unregistering a project takes its entry and leaves the others.              *)
LEMMA Drops ==
  ASSUME Kept(registry), NEW i, registry' = Without(i)
  PROVE  /\ Kept(registry') /\ Entries' = {e \in Entries : e.id # i}
         /\ \A j : j # i => EntryOf(j)' = EntryOf(j) /\ (Registered(j)' <=> Registered(j))
         /\ ~Registered(i)' /\ EntryOf(i)' = NoEntry
<1>1. Kept(registry') /\ Entries' = {e \in Entries : e.id # i}
  BY WithoutOne DEF Entries
<1>2. \A j : j # i => EntryOf(j)' = EntryOf(j) /\ (Registered(j)' <=> Registered(j))
  BY <1>1, EntryStays
<1>3. ~Registered(i)'
  BY <1>1 DEF Registered
<1> QED BY <1>1, <1>2, <1>3, EntryFoundNext

(* Re-keying an entry is dropping it and registering it again.                *)
LEMMA Rekeys ==
  ASSUME Kept(registry), NEW i, NEW e \in EntryType, ~Registered(e.id),
         registry' = Append(Without(i), e)
  PROVE  /\ Kept(registry') /\ Entries' = {f \in Entries : f.id # i} \union {e}
         /\ \A j : j \notin {i, e.id} => EntryOf(j)' = EntryOf(j) /\ (Registered(j)' <=> Registered(j))
<1>1. Kept(Without(i)) /\ ToSet(Without(i)) = {f \in Entries : f.id # i}
  BY WithoutOne
<1>2. \A f \in ToSet(Without(i)) : f.id # e.id
  BY <1>1 DEF Registered
<1>3. Kept(registry') /\ Entries' = {f \in Entries : f.id # i} \union {e}
  BY <1>1, <1>2, Appended DEF Entries
<1> QED BY <1>3, EntryStays

-----------------------------------------------------------------------------
(* Steps of one process.                                                      *)

(* Giving a process another task leaves the others theirs.                    *)
LEMMA Steps ==
  ASSUME task \in [Procs -> Tasks], NEW p \in Procs, NEW u \in Tasks, task' = [task EXCEPT ![p] = u]
  PROVE  task' \in [Procs -> Tasks] /\ task'[p] = u /\ \A q \in Procs \ {p} : task'[q] = task[q]
OBVIOUS

(* A process that runs nothing.                                                *)
LEMMA Idle ==
  /\ NoTask \in Tasks /\ NoTask.cmd = "none" /\ NoTask.at = "idle" /\ NoTask.repo = "none"
  /\ NoTask.id = 0 /\ NoTask.old = 0 /\ NoTask.seen = NoEntry /\ ~NoTask.purge
  /\ NoEntry.id = 0 /\ NoEntry.repos = {}
<1>1. 0 \in 0 .. MaxId
  BY Places
<1>2. /\ NoTask.at \in Stages /\ NoTask.repo \in Repos \union {"none"}
      /\ NoTask.id \in 0 .. MaxId /\ NoTask.old \in 0 .. MaxId /\ NoTask.name \in Known
  BY <1>1 DEF NoTask, Known, Stages
<1>5. NoTask.purge \in BOOLEAN
  BY DEF NoTask
<1>3. NoTask.seen \in EntryType \union {NoEntry}
  BY DEF NoTask
<1>4. NoTask \in Tasks
  <2> DEFINE E == EntryType \union {NoEntry}
  <2>1. NoTask.seen \in E
    BY <1>3
  <2> HIDE DEF E
  <2>2. NoTask \in [cmd : {"none", "init", "adopt", "add", "attach", "reconnect", "link",
                            "unadopt", "rm"},
                     at : Stages, repo : Repos \union {"none"}, id : 0 .. MaxId,
                     old : 0 .. MaxId, name : Known, seen : E, purge : BOOLEAN]
    BY <1>2, <1>5, <2>1 DEF NoTask
  <2> QED BY <2>2 DEF E, Tasks
<1> QED BY <1>4 DEF NoTask, NoEntry

(* A step that leaves registry and configs alone.                             *)
LEMMA Still ==
  ASSUME NInv, NEW p \in Procs, NEW u \in Tasks, task' = [task EXCEPT ![p] = u],
         UNCHANGED <<registry, configs>>,
         stores' \in [Ids -> {"none", "empty", "full"}],
         cloud' \in [Ids -> [name : Known, full : BOOLEAN]],
         guard' \in [Ids -> Procs \union {Nobody}],
         minted' \in 0 .. MaxId, minted <= minted', hands' \in 0 .. MaxHands,
         disturbed' \in {disturbed, "rebound", "yes"},
         \A i \in Ids : cloud'[i] # NoCloud => i <= minted',
         \A i \in Ids : \A q \in Procs \ {p} : guard[i] = q => guard'[i] = q,
         Shaped(u, minted'), u.cmd \in Commands[p] \union {"none"},
         Keeps(p)', Spared(p)',
         Coming(u) \/ Linking(u) => u.id > minted,
         u.seen = NoEntry \/ Registered(u.seen.id) \/ u.seen = task[p].seen,
         disturbed' = "no" =>
           /\ \A q \in Procs \ {p} : task[q] = NoTask
           /\ \A e \in Entries : u.repo \in e.repos /\ Looked(u) => e.id = Own(u)
           /\ Between(task[p]) => Between(u) /\ u.repo = task[p].repo
           /\ u.cmd = "reconnect" => IF u.at = "config" THEN u.old = u.id
                                     ELSE configs[u.repo].id = u.id
  PROVE  NInv'
<1>1. NTypeOK /\ Issued /\ Guarded /\ Quiet
  BY DEF NInv
<1>2. task' \in [Procs -> Tasks] /\ task'[p] = u /\ \A q \in Procs \ {p} : task'[q] = task[q]
  BY <1>1, Steps DEF NTypeOK
<1>3. NTypeOK'
  BY <1>1, <1>2 DEF NTypeOK, Valid
<1>4. Entries' = Entries /\ (\A i : EntryOf(i)' = EntryOf(i) /\ (Registered(i)' <=> Registered(i)))
  BY DEF Entries, EntryOf, Registered
<1>5. minted \in Nat /\ minted' \in Nat
  BY <1>1, Places DEF NTypeOK
<1>6. \A q \in Procs \ {p} : Shaped(task[q], minted')
  <2>1. TAKE q \in Procs \ {p}
  <2>2. Shaped(task[q], minted)
    BY <1>1 DEF Issued
  <2>3. task[q].id \in Nat /\ task[q].seen.id \in Nat
    BY <1>1, Idle, Places DEF NTypeOK, Tasks, EntryType, Ids
  <2> QED BY <2>2, <2>3, <1>5 DEF Shaped
<1>7. Issued'
  <2>1. \A e \in Entries : e.id \in Nat
    BY <1>1, Keeping, EntryFound DEF EntryType, Ids
  <2>2. \A e \in Entries' : e.id <= minted'
    BY <1>1, <1>4, <1>5, <2>1 DEF Issued
  <2>3. \A q \in Procs : Shaped(task[q]', minted') /\ task'[q].cmd \in Commands[q] \union {"none"}
    BY <1>1, <1>2, <1>6 DEF Issued
  <2> QED BY <2>2, <2>3 DEF Issued
<1>8. Guarded'
  <2>1. \A q \in Procs \ {p} : Keeps(q)'
    <3>1. TAKE q \in Procs \ {p}
    <3>2. Keeps(q) /\ Shaped(task[q], minted) /\ task[q] \in Tasks
      BY <1>1 DEF Guarded, Issued, NTypeOK
    <3>3. task[q].id # 0 => task[q].id \in Ids
      BY <3>2, Places DEF Tasks, Ids
    <3>4. task[q].old # 0 => task[q].old \in Ids
      BY <3>2, Places DEF Tasks, Ids
    <3> QED BY <3>2, <3>3, <3>4, <1>2 DEF Keeps, Shaped, Fresh
  <2>2. \A q \in Procs \ {p} : Spared(q)'
    BY <1>1, <1>2, <1>4 DEF Guarded, Spared
  <2>3. \A q \in Procs : Coming(task[q]) \/ Linking(task[q]) => task[q].id <= minted /\ task[q].id \in Nat
    BY <1>1, Places DEF Issued, Shaped, Coming, Linking, NTypeOK, Tasks
  <2>4. \A q \in Procs : task[q].seen.id <= minted /\ task[q].seen.id \in Nat
    BY <1>1, Idle, Places DEF Issued, Shaped, NTypeOK, Tasks, EntryType, Ids
  <2>5. u.id \in Nat /\ NoEntry.id = 0
    BY Idle DEF Tasks
  <2>6. \A q \in Procs \ {p} : Unborn(q)'
    <3>1. TAKE q \in Procs \ {p}
    <3>2. Unborn(q)
      BY <1>1 DEF Guarded
    <3>3. Coming(task[q]) => u.seen.id # task[q].id
      BY <3>2, <2>5 DEF Unborn, Coming
    <3>4. Coming(task[q]) /\ (Coming(u) \/ Linking(u)) => u.id # task[q].id
      BY <2>3, <2>5, <1>5
    <3> QED BY <3>2, <3>3, <3>4, <1>2, <1>4 DEF Unborn
  <2>7. Unborn(p)'
    <3>1. CASE ~Coming(u)
      BY <3>1, <1>2 DEF Unborn
    <3>2. CASE Coming(u)
      <4>1. u.id > minted
        BY <3>2
      <4>2. ~Registered(u.id)
        BY <1>1, <1>5, <2>5, <4>1, Keeping, EntryFound DEF Registered, Issued, EntryType, Ids
      <4>3. \A q \in Procs : task'[q].seen.id # u.id
        <5>1. \A q \in Procs : task[q].seen.id # u.id
          BY <2>4, <2>5, <4>1, <1>5
        <5>2. u.seen.id # u.id
          BY <5>1, <2>5, <3>2, <4>2 DEF Coming
        <5> QED BY <5>1, <5>2, <1>2
      <4>4. \A q \in Procs : p # q /\ (Coming(task'[q]) \/ Linking(task'[q])) => u.id # task'[q].id
        BY <1>2, <1>5, <2>3, <2>5, <4>1
      <4> QED BY <1>2, <1>4, <4>2, <4>3, <4>4 DEF Unborn
    <3> QED BY <3>1, <3>2
  <2> QED BY <1>2, <2>1, <2>2, <2>6, <2>7 DEF Guarded
<1>9. Quiet'
  <2> SUFFICES ASSUME disturbed' = "no" PROVE Settled'
    BY DEF Quiet
  <2>1. disturbed = "no" /\ Settled
    BY <1>1 DEF Quiet
  <2>2. \A q \in Procs \ {p} : task'[q] = NoTask
    BY <1>2
  <2>3. Single'
    BY <2>2 DEF Single
  <2>4. \A e \in Entries : "none" \notin e.repos
    BY <1>1, Keeping, EntryFound, Places DEF EntryType
  <2>5. Owned'
    BY <1>2, <1>4, <2>2, <2>4, Idle DEF Owned
  <2>6. \A e \in Entries : \A r \in e.repos :
          \/ Valid(r) /\ configs[r].id = e.id
          \/ \E q \in Procs : task'[q].repo = r /\ Between(task'[q])
    <3>1. TAKE e \in Entries
    <3>2. TAKE r \in e.repos
    <3>3. CASE Valid(r) /\ configs[r].id = e.id
      BY <3>3
    <3>4. CASE \E q \in Procs : task[q].repo = r /\ Between(task[q])
      <4>1. PICK q \in Procs : task[q].repo = r /\ Between(task[q])
        BY <3>4
      <4>2. CASE q = p
        BY <4>1, <4>2, <1>2
      <4>3. CASE q # p
        BY <4>1, <4>3, <1>2
      <4> QED BY <4>2, <4>3
    <3> QED BY <2>1, <3>3, <3>4 DEF Settled, Carried
  <2>7. Carried'
    BY <2>6, <1>4 DEF Carried, Valid
  <2>8. Recalled'
    BY <1>2, <2>2, Idle DEF Recalled
  <2> QED BY <2>3, <2>5, <2>7, <2>8 DEF Settled
<1> QED BY <1>3, <1>7, <1>8, <1>9 DEF NInv

(* Who leaves changes nothing else.                                           *)
LEMMA Leaves ==
  ASSUME NInv, NEW p \in Procs, Leave(p), task[p] # NoTask,
         UNCHANGED <<registry, configs>>,
         stores' \in [Ids -> {"none", "empty", "full"}],
         cloud' \in [Ids -> [name : Known, full : BOOLEAN]],
         minted' \in 0 .. MaxId, minted <= minted', hands' = hands,
         disturbed' \in {disturbed, "rebound", "yes"},
         \A i \in Ids : cloud'[i] # NoCloud => i <= minted',
         Between(task[p]) => disturbed' = "yes"
  PROVE  NInv'
<1>1. NTypeOK /\ Issued /\ Guarded /\ Quiet
  BY DEF NInv
<1>2. task' = [task EXCEPT ![p] = NoTask]
  BY DEF Leave
<1>3. /\ guard' \in [Ids -> Procs \union {Nobody}]
      /\ \A i \in Ids : \A q \in Procs \ {p} : guard[i] = q => guard'[i] = q
  BY <1>1 DEF Leave, FreeGuards, NTypeOK
<1>4. minted' \in 0 .. MaxId /\ minted <= minted' /\ hands' \in 0 .. MaxHands /\ 0 <= minted'
  BY <1>1, Places DEF NTypeOK
<1>5. task'[p] = NoTask
  BY <1>1, <1>2 DEF NTypeOK
<1>6. Shaped(NoTask, minted')
  BY <1>4, Idle, SMT DEF Shaped, Fresh
<1>7. Keeps(p)' /\ Spared(p)'
  BY <1>5, Idle, SMT DEF Keeps, Spared
<1>8. ~Coming(NoTask) /\ ~Linking(NoTask) /\ NoTask.seen = NoEntry
  BY Idle DEF Coming, Linking
<1>9. disturbed' = "no" =>
           /\ \A q \in Procs \ {p} : task[q] = NoTask
           /\ \A e \in Entries : NoTask.repo \in e.repos /\ Looked(NoTask) => e.id = Own(NoTask)
           /\ Between(task[p]) => Between(NoTask) /\ NoTask.repo = task[p].repo
           /\ NoTask.cmd = "reconnect" => IF NoTask.at = "config" THEN NoTask.old = NoTask.id
                                     ELSE configs[NoTask.repo].id = NoTask.id
  <2> SUFFICES ASSUME disturbed' = "no"
               PROVE  /\ \A q \in Procs \ {p} : task[q] = NoTask
                      /\ \A e \in Entries : NoTask.repo \notin e.repos
                      /\ ~Between(task[p])
    BY Idle
  <2>1. Single
    BY <1>1 DEF Quiet, Settled
  <2>2. \A e \in Entries : "none" \notin e.repos
    BY <1>1, Keeping, EntryFound, Places DEF EntryType
  <2> QED BY <2>1, <2>2, Idle DEF Single
<1> QED BY <1>1, <1>2, <1>3, <1>4, <1>6, <1>7, <1>8, <1>9, Idle, Still

(* A command that is under way and meets nothing is alone.                    *)
LEMMA AllAlone ==
  ASSUME NInv, disturbed = "no", NEW p \in Procs, task[p] # NoTask
  PROVE  /\ \A q \in Procs \ {p} : task[q] = NoTask
         /\ \A e \in Entries : task[p].repo \in e.repos /\ Looked(task[p]) => e.id = Own(task[p])
         /\ task[p].cmd = "reconnect" =>
              IF task[p].at = "config" THEN task[p].old = task[p].id
              ELSE configs[task[p].repo].id = task[p].id
         /\ \A e \in Entries : \A r \in e.repos :
              \/ Valid(r) /\ configs[r].id = e.id
              \/ task[p].repo = r /\ Between(task[p])
<1>1. Single /\ Owned /\ Carried /\ Recalled /\ (\A q \in Procs : task[q] # NoTask => q = p)
  BY DEF NInv, Quiet, Settled, Single
<1>2. ~Between(NoTask)
  BY Idle DEF Between
<1> QED BY <1>1, <1>2 DEF Owned, Carried, Recalled

(* The command at a stage, and what its task holds.                           *)
LEMMA Stage ==
  ASSUME NInv, NEW p \in Procs
  PROVE  /\ task[p] \in Tasks /\ Shaped(task[p], minted)
         /\ task[p].cmd \in Commands[p] \union {"none"}
         /\ task[p].cmd # "none" => task[p] # NoTask
         /\ task[p].at # "idle" => task[p].cmd # "none" /\ task[p] # NoTask
         /\ minted \in Nat /\ minted \in 0 .. MaxId /\ hands \in 0 .. MaxHands
         /\ task[p].id # 0 => task[p].id \in Ids
         /\ task[p].old # 0 => task[p].old \in Ids
         /\ guard \in [Ids -> Procs \union {Nobody}]
         /\ stores \in [Ids -> {"none", "empty", "full"}]
         /\ cloud \in [Ids -> [name : Known, full : BOOLEAN]]
         /\ \A i \in Ids : cloud[i] # NoCloud => i <= minted
         /\ task \in [Procs -> Tasks]
<1>1. NTypeOK /\ Issued
  BY DEF NInv
<1>2. task[p] \in Tasks /\ Shaped(task[p], minted) /\ task[p].cmd \in Commands[p] \union {"none"}
  BY <1>1 DEF NTypeOK, Issued
<1>3. /\ task[p].cmd # "none" => task[p] # NoTask
      /\ task[p].at # "idle" => task[p].cmd # "none" /\ task[p] # NoTask
  BY <1>2, Idle DEF Shaped
<1>4. minted \in Nat /\ minted \in 0 .. MaxId /\ hands \in 0 .. MaxHands
  BY <1>1, Places DEF NTypeOK
<1>5. /\ task[p].id # 0 => task[p].id \in Ids
      /\ task[p].old # 0 => task[p].old \in Ids
  BY <1>2, Places DEF Tasks, Ids
<1> QED BY <1>1, <1>2, <1>3, <1>4, <1>5 DEF NTypeOK, Issued

(* Linking on to another stage.                                                *)
LEMMA Goes ==
  ASSUME NInv, NEW p \in Procs, task[p] # NoTask, NEW a \in Stages, Goto(p, a),
         UNCHANGED <<registry, configs, cloud, minted, hands>>, disturbed' \in {disturbed, "rebound", "yes"},
         stores' \in [Ids -> {"none", "empty", "full"}],
         guard' \in [Ids -> Procs \union {Nobody}],
         \A i \in Ids : \A q \in Procs \ {p} : guard[i] = q => guard'[i] = q,
         Shaped([task[p] EXCEPT !.at = a], minted), Keeps(p)', Spared(p)',
         ~Fresh(task[p]), a \notin {"register", "config", "create", "move"}, ~Between(task[p]),
         task[p].at \notin {"move", "create"},
         ~Looked(task[p]) /\ disturbed' = "no" =>
           \A e \in Entries : task[p].repo \in e.repos => e.id = task[p].id
  PROVE  NInv'
<1> DEFINE u == [task[p] EXCEPT !.at = a]
<1>1. task[p] \in Tasks /\ minted \in 0 .. MaxId /\ hands \in 0 .. MaxHands /\ minted \in Nat
  BY Stage
<1>2. u \in Tasks /\ u.at = a /\ u.cmd = task[p].cmd /\ u.id = task[p].id /\ u.old = task[p].old
      /\ u.repo = task[p].repo /\ u.seen = task[p].seen
  BY <1>1 DEF Tasks
<1>3. task' = [task EXCEPT ![p] = u]
  BY Stage DEF Goto
<1>4. ~Coming(u) /\ ~Linking(u)
  BY <1>2 DEF Coming, Linking
<1>5. disturbed' = "no" =>
           /\ \A q \in Procs \ {p} : task[q] = NoTask
           /\ \A e \in Entries : u.repo \in e.repos /\ Looked(u) => e.id = Own(u)
           /\ Between(task[p]) => Between(u) /\ u.repo = task[p].repo
           /\ u.cmd = "reconnect" => IF u.at = "config" THEN u.old = u.id
                                     ELSE configs[u.repo].id = u.id
  <2> SUFFICES ASSUME disturbed' = "no", disturbed = "no"
               PROVE  /\ \A q \in Procs \ {p} : task[q] = NoTask
                      /\ \A e \in Entries : task[p].repo \in e.repos => e.id = Own(u)
                      /\ task[p].cmd = "reconnect" => configs[task[p].repo].id = task[p].id
    BY <1>2
  <2>1. task[p].cmd = "reconnect" => configs[task[p].repo].id = task[p].id
    BY AllAlone DEF Between
  <2>2. Own(u) = task[p].id
    BY <1>2 DEF Own
  <2>3. Looked(task[p]) => \A e \in Entries : task[p].repo \in e.repos => e.id = Own(task[p])
    BY AllAlone
  <2>4. \A q \in Procs \ {p} : task[q] = NoTask
    BY AllAlone
  <2>5. Own(task[p]) = task[p].id
    BY DEF Own
  <2> QED BY <2>1, <2>2, <2>3, <2>4, <2>5
<1>6. /\ minted' \in 0 .. MaxId /\ minted <= minted' /\ hands' \in 0 .. MaxHands
      /\ cloud' \in [Ids -> [name : Known, full : BOOLEAN]]
      /\ \A i \in Ids : cloud'[i] # NoCloud => i <= minted'
  BY <1>1, Stage
<1>7. u.cmd \in Commands[p] \union {"none"} /\ Shaped(u, minted')
  BY <1>2, Stage
<1> HIDE DEF u
<1> QED BY <1>2, <1>3, <1>4, <1>5, <1>6, <1>7, Still

(* Who asks for a guard leaves or moves on with it.                           *)
LEMMA Acquires ==
  ASSUME NInv, NEW p \in Procs, NEW i \in Ids, NEW a, Acquire(p, i, a)
  PROVE  \/ Leave(p)
         \/ /\ Goto(p, a) /\ guard' \in [Ids -> Procs \union {Nobody}] /\ guard'[i] = p
            /\ \A j \in Ids : \A q \in Procs \ {p} : guard[j] = q => guard'[j] = q
<1>1. guard \in [Ids -> Procs \union {Nobody}] /\ Nobody \notin Procs
  BY Stage, Places DEF Nobody
<1> QED BY <1>1 DEF Acquire

(* The task of a command that moves on.                                        *)
LEMMA GotoTask ==
  ASSUME NInv, NEW p \in Procs, NEW a, Goto(p, a)
  PROVE  task'[p] = [task[p] EXCEPT !.at = a]
BY Stage DEF Goto

(* The stages that leave registry and configs alone.                           *)
LEMMA ScaffoldStep ==
  ASSUME NInv, NEW p \in Procs, Scaffold(p)
  PROVE  NInv'
<1>1. task[p].at = "scaffold" /\ ~Between(task[p]) /\ task[p].cmd # "none"
  BY DEF Scaffold, At, Between
<1>2. stores' \in [Ids -> {"none", "empty", "full"}]
  BY Stage DEF Scaffold
<1>3. Leave(p) /\ UNCHANGED <<registry, configs, cloud, minted, hands, disturbed>>
  BY DEF Scaffold, Same
<1> QED BY <1>1, <1>2, <1>3, Stage, Leaves

LEMMA AddRepoGuardStep ==
  ASSUME NInv, NEW p \in Procs, NEW force \in BOOLEAN, AddRepoGuard(p, force)
  PROVE  NInv'
<1> DEFINE t == task[p]
<1>1. /\ t.at = "guard" /\ t.cmd = "add"
      /\ UNCHANGED <<registry, configs, stores, cloud, minted, hands>>
      /\ disturbed' \in {disturbed, "rebound"}
  BY DEF AddRepoGuard, At
<1>2. t \in Tasks /\ Shaped(t, minted) /\ t.id \in Ids /\ t # NoTask /\ t.repo \in Repos
  BY <1>1, Stage DEF Shaped, Fresh
<1>3. CASE Leave(p)
  BY <1>1, <1>2, <1>3, Stage, Leaves DEF Between
<1>4. CASE ~Leave(p)
  <2>1. /\ Acquire(p, t.id, "add")
        /\ disturbed' = "no" => disturbed = "no" /\ ConfigAllows(t.repo, t.id, FALSE)
    BY <1>4 DEF AddRepoGuard
  <2>2. /\ Goto(p, "add") /\ guard' \in [Ids -> Procs \union {Nobody}] /\ guard'[t.id] = p
        /\ \A j \in Ids : \A q \in Procs \ {p} : guard[j] = q => guard'[j] = q
    BY <1>2, <1>4, <2>1, Acquires
  <2>3. Shaped([t EXCEPT !.at = "add"], minted)
    BY <1>1, <1>2 DEF Shaped, Fresh, Tasks
  <2>4. task'[p] = [t EXCEPT !.at = "add"]
    BY <2>2, GotoTask
  <2>5. Keeps(p)' /\ Spared(p)'
    BY <1>1, <1>2, <2>2, <2>4 DEF Keeps, Spared, Tasks
  <2>6. disturbed' = "no" => \A e \in Entries : t.repo \in e.repos => e.id = t.id
    <3>1. ~Between(t)
      BY <1>1 DEF Between
    <3> QED BY <1>2, <2>1, <3>1, AllAlone DEF ConfigAllows
  <2>7. "add" \in Stages
    BY DEF Stages
  <2>8. ~Fresh(t) /\ ~Between(t)
    BY <1>1 DEF Fresh, Between
  <2> QED BY <1>1, <1>2, <2>2, <2>3, <2>5, <2>6, <2>7, <2>8, Stage, Goes
<1> QED BY <1>3, <1>4

LEMMA ConnectGuardStep ==
  ASSUME NInv, NEW p \in Procs, ConnectGuard(p)
  PROVE  NInv'
<1> DEFINE t == task[p]
<1>1. /\ t.at = "guard" /\ t.cmd \in {"attach", "reconnect"}
      /\ UNCHANGED <<registry, configs, stores, cloud, minted, hands, disturbed>>
  BY DEF ConnectGuard, At, Same
<1>2. t \in Tasks /\ Shaped(t, minted) /\ t.id \in Ids /\ t # NoTask
  BY <1>1, Stage DEF Shaped, Fresh
<1>3. CASE Leave(p)
  BY <1>1, <1>2, <1>3, Stage, Leaves DEF Between
<1>4. CASE ~Leave(p)
  <2>2. /\ Goto(p, "restore") /\ guard' \in [Ids -> Procs \union {Nobody}] /\ guard'[t.id] = p
        /\ \A j \in Ids : \A q \in Procs \ {p} : guard[j] = q => guard'[j] = q
    BY <1>2, <1>4, Acquires DEF ConnectGuard
  <2>3. Shaped([t EXCEPT !.at = "restore"], minted)
    BY <1>1, <1>2 DEF Shaped, Fresh, Tasks
  <2>4. task'[p] = [t EXCEPT !.at = "restore"]
    BY <2>2, GotoTask
  <2>5. Keeps(p)' /\ Spared(p)'
    BY <1>1, <1>2, <2>2, <2>4 DEF Keeps, Spared, Tasks
  <2>7. "restore" \in Stages
    BY DEF Stages
  <2>8. ~Fresh(t) /\ ~Between(t) /\ Looked(t)
    BY <1>1 DEF Fresh, Between, Looked
  <2> QED BY <1>1, <1>2, <2>2, <2>3, <2>5, <2>7, <2>8, Stage, Goes
<1> QED BY <1>3, <1>4

LEMMA ConnectRestoreStep ==
  ASSUME NInv, NEW p \in Procs, ConnectRestore(p)
  PROVE  NInv'
<1> DEFINE t == task[p]
           u == [t EXCEPT !.at = "bind", !.name = cloud[t.id].name]
<1>1. /\ t.at = "restore" /\ t.cmd \in {"attach", "reconnect"}
      /\ UNCHANGED <<registry, configs, cloud, minted, hands, disturbed>>
  BY DEF ConnectRestore, At, Same
<1>2. t \in Tasks /\ Shaped(t, minted) /\ t.id \in Ids /\ t # NoTask
  BY <1>1, Stage DEF Shaped, Fresh
<1>3. stores' \in [Ids -> {"none", "empty", "full"}]
  BY Stage DEF ConnectRestore
<1>4. CASE Leave(p)
  BY <1>1, <1>2, <1>3, <1>4, Stage, Leaves DEF Between
<1>5. CASE ~Leave(p)
  <2>1. cloud[t.id].name # "none" /\ task' = [task EXCEPT ![p] = u] /\ UNCHANGED guard
    BY <1>5, Stage DEF ConnectRestore
  <2>2. cloud[t.id] # NoCloud
    BY <2>1 DEF NoCloud
  <2>3. t.id <= minted
    BY <1>2, <2>2, Stage
  <2>4. cloud[t.id].name \in Known
    BY <1>2, Stage
  <2>5. /\ u \in Tasks /\ u.at = "bind" /\ u.cmd = t.cmd /\ u.id = t.id /\ u.repo = t.repo /\ u.old = t.old
        /\ u.seen = t.seen /\ u.purge = t.purge
    BY <1>2, <2>4 DEF Tasks, Stages
  <2>6. task'[p] = u
    BY <2>1, Stage
  <2> HIDE DEF u
  <2>7. Shaped(u, minted)
    BY <1>1, <1>2, <2>3, <2>5, Idle DEF Shaped, Fresh
  <2>8. Keeps(p)
    BY DEF NInv, Guarded
  <2>9. Keeps(p)' /\ Spared(p)'
    BY <1>1, <2>1, <2>5, <2>6, <2>8 DEF Keeps, Spared
  <2>10. ~Coming(u) /\ ~Linking(u) /\ Looked(t) /\ ~Between(t) /\ Own(t) = t.id /\ Own(u) = u.id
    BY <1>1, <2>5 DEF Coming, Linking, Looked, Between, Own
  <2>11. disturbed' = "no" =>
           /\ \A q \in Procs \ {p} : task[q] = NoTask
           /\ \A e \in Entries : u.repo \in e.repos /\ Looked(u) => e.id = Own(u)
           /\ Between(task[p]) => Between(u) /\ u.repo = task[p].repo
           /\ u.cmd = "reconnect" => IF u.at = "config" THEN u.old = u.id
                                     ELSE configs[u.repo].id = u.id
    BY <1>1, <1>2, <2>5, <2>10, AllAlone
  <2>12. /\ minted' \in 0 .. MaxId /\ minted <= minted' /\ hands' \in 0 .. MaxHands
         /\ cloud' \in [Ids -> [name : Known, full : BOOLEAN]] /\ minted' = minted
         /\ \A i \in Ids : cloud'[i] # NoCloud => i <= minted'
         /\ guard' \in [Ids -> Procs \union {Nobody}] /\ guard' = guard
         /\ u.cmd \in Commands[p] \union {"none"}
    BY <1>1, <2>1, <2>5, Stage
  <2> QED BY <1>1, <1>3, <2>1, <2>5, <2>7, <2>9, <2>10, <2>11, <2>12, Still
<1> QED BY <1>4, <1>5

LEMMA LinkPushStep ==
  ASSUME NInv, NEW p \in Procs, LinkPush(p)
  PROVE  NInv'
<1>1. /\ task[p].at = "push" /\ task[p].cmd = "link" /\ Leave(p)
      /\ UNCHANGED <<registry, configs, stores, minted, hands, disturbed>>
  BY DEF LinkPush, At, Same
<1>2. Shaped(task[p], minted) /\ task[p].id \in Ids /\ task[p].id <= minted /\ task[p] # NoTask
  BY <1>1, Stage DEF Shaped, Fresh
<1>3. /\ cloud' \in [Ids -> [name : Known, full : BOOLEAN]]
      /\ \A i \in Ids : i # task[p].id => cloud'[i] = cloud[i]
  <2> DEFINE C == [name : Known, full : BOOLEAN]
             c == [cloud[task[p].id] EXCEPT !.full = TRUE]
  <2>1. cloud \in [Ids -> C]
    BY Stage
  <2>2. cloud[task[p].id] \in C
    BY <1>2, <2>1
  <2>3. c \in C
    BY <2>2, TRUE \in BOOLEAN, Zenon
  <2>4. cloud' = [cloud EXCEPT ![task[p].id] = c] \/ cloud' = cloud
    BY DEF LinkPush
  <2> HIDE DEF C, c
  <2>5. cloud' \in [Ids -> C] /\ \A i \in Ids : i # task[p].id => cloud'[i] = cloud[i]
    BY <2>1, <2>3, <2>4
  <2> QED BY <2>5 DEF C
<1>4. \A i \in Ids : cloud'[i] # NoCloud => i <= minted
  BY <1>2, <1>3, Stage
<1> QED BY <1>1, <1>2, <1>3, <1>4, Stage, Leaves DEF Between

LEMMA PurgeStep ==
  ASSUME NInv, NEW p \in Procs, Purge(p)
  PROVE  NInv'
<1>1. /\ task[p].at = "purge" /\ Leave(p)
      /\ UNCHANGED <<registry, configs, cloud, minted, hands, disturbed>>
  BY DEF Purge, At, Same
<1>2. stores' \in [Ids -> {"none", "empty", "full"}]
  BY Stage DEF Purge
<1> QED BY <1>1, <1>2, Stage, Leaves DEF Between

LEMMA DieStep ==
  ASSUME NInv, NEW p \in Procs, Die(p)
  PROVE  NInv'
BY Stage, Leaves DEF Die

(* What was seen before the guard is read again under it: whoever goes on holds  *)
(* the guard of an entry that lists what it saw.                                *)
LEMMA RemoveGuardStep ==
  ASSUME NInv, NEW p \in Procs, RemoveGuard(p)
  PROVE  NInv'
<1> DEFINE t == task[p]
<1>1. /\ t.at = "guard" /\ t.cmd \in {"unadopt", "rm"}
      /\ UNCHANGED <<registry, configs, stores, cloud, minted, hands, disturbed>>
  BY DEF RemoveGuard, At, Same
<1>2. t \in Tasks /\ Shaped(t, minted) /\ t # NoTask /\ t.id # 0 /\ t.id \in Ids
  <2>1. t \in Tasks /\ Shaped(t, minted) /\ t # NoTask
    BY <1>1, Stage
  <2>2. t.id # 0
    BY <1>1, <2>1 DEF Shaped, Fresh
  <2> QED BY <2>1, <2>2, Stage
<1>3. CASE Leave(p)
  BY <1>1, <1>2, <1>3, Stage, Leaves DEF Between
<1>4. CASE ~Leave(p)
  <2>1. EntryOf(t.id) = t.seen
    BY <1>4 DEF RemoveGuard, StillAsRead
  <2>2. PICK a \in {"unlink", "drop"} :
          /\ Goto(p, a) /\ guard' \in [Ids -> Procs \union {Nobody}]
          /\ t.cmd = "unadopt" /\ t.seen # NoEntry => guard'[t.id] = p
          /\ \A j \in Ids : \A q \in Procs \ {p} : guard[j] = q => guard'[j] = q
          /\ t.cmd = "unadopt" => a = "unlink"
    <3>1. CASE t.seen = NoEntry
      BY <1>4, <3>1, Stage DEF RemoveGuard
    <3>2. CASE t.seen # NoEntry
      <4>1. PICK a \in {"unlink", "drop"} : Acquire(p, t.id, a) /\ (t.cmd = "unadopt" => a = "unlink")
        BY <1>1, <1>4, <3>2 DEF RemoveGuard
      <4> QED BY <1>2, <1>4, <4>1, Acquires
    <3> QED BY <3>1, <3>2
  <2>3. Shaped([t EXCEPT !.at = a], minted)
    BY <1>1, <1>2 DEF Shaped, Fresh, Tasks
  <2>4. task'[p] = [t EXCEPT !.at = a]
    BY <2>2, GotoTask
  <2>5. /\ task'[p].cmd = t.cmd /\ task'[p].at = a /\ task'[p].id = t.id /\ task'[p].seen = t.seen
        /\ task'[p].repo = t.repo /\ task'[p].purge = t.purge
    BY <1>2, <2>4 DEF Tasks
  <2>6. Keeps(p)'
    BY <1>1, <2>2, <2>5 DEF Keeps
  <2>7. Spared(p)'
    <3>1. \A i : EntryOf(i)' = EntryOf(i)
      BY <1>1 DEF EntryOf, Registered, Entries
    <3>2. t.purge => EntryOf(t.id).repos \subseteq {t.repo}
      BY <1>2, <2>1 DEF Shaped
    <3> QED BY <2>5, <3>1, <3>2 DEF Spared
  <2>8. a \in Stages
    BY DEF Stages
  <2>9. ~Fresh(t) /\ ~Between(t) /\ Looked(t)
    BY <1>1 DEF Fresh, Between, Looked
  <2> QED BY <1>1, <1>2, <2>2, <2>3, <2>6, <2>7, <2>8, <2>9, Stage, Goes
<1> QED BY <1>3, <1>4

LEMMA LinkGuardStep ==
  ASSUME NInv, NEW p \in Procs, LinkGuard(p)
  PROVE  NInv'
<1> DEFINE t == task[p]
           u == [t EXCEPT !.at = "create", !.old = t.id]
<1>1. /\ t.at = "guard" /\ t.cmd = "link"
      /\ UNCHANGED <<registry, configs, stores, cloud, minted, hands, disturbed>>
  BY DEF LinkGuard, At, Same
<1>2. t \in Tasks /\ Shaped(t, minted) /\ t.id \in Ids /\ t # NoTask
  BY <1>1, Stage DEF Shaped, Fresh
<1>3. CASE Leave(p)
  BY <1>1, <1>2, <1>3, Stage, Leaves DEF Between
<1>4. CASE ~Leave(p)
  <2>1. /\ guard[t.id] \in {Nobody, p} /\ guard' = [guard EXCEPT ![t.id] = p]
        /\ task' = [task EXCEPT ![p] = u]
    BY <1>4, Stage DEF LinkGuard
  <2>2. /\ guard' \in [Ids -> Procs \union {Nobody}] /\ guard'[t.id] = p
        /\ \A j \in Ids : \A q \in Procs \ {p} : guard[j] = q => guard'[j] = q
    <3>1. Nobody \notin Procs
      BY Places DEF Nobody
    <3> QED BY <1>2, <2>1, <3>1, Stage
  <2>3. /\ u \in Tasks /\ u.at = "create" /\ u.cmd = "link" /\ u.id = t.id /\ u.repo = t.repo
        /\ u.old = t.id /\ u.seen = t.seen /\ u.purge = t.purge
    BY <1>1, <1>2 DEF Tasks, Stages
  <2>4. task'[p] = u
    BY <2>1, Stage
  <2> HIDE DEF u
  <2>5. Shaped(u, minted)
    BY <1>1, <1>2, <2>3, Idle DEF Shaped, Fresh
  <2>6. Keeps(p)' /\ Spared(p)'
    BY <1>1, <2>2, <2>3, <2>4 DEF Keeps, Spared
  <2>7. ~Coming(u) /\ ~Linking(u) /\ Looked(t) /\ ~Between(t) /\ Own(t) = t.id /\ Own(u) = t.id
    BY <1>1, <2>3 DEF Coming, Linking, Looked, Between, Own
  <2>8. disturbed' = "no" =>
           /\ \A q \in Procs \ {p} : task[q] = NoTask
           /\ \A e \in Entries : u.repo \in e.repos /\ Looked(u) => e.id = Own(u)
           /\ Between(task[p]) => Between(u) /\ u.repo = task[p].repo
           /\ u.cmd = "reconnect" => IF u.at = "config" THEN u.old = u.id
                                     ELSE configs[u.repo].id = u.id
    BY <1>1, <1>2, <2>3, <2>7, AllAlone
  <2>9. /\ minted' \in 0 .. MaxId /\ minted <= minted' /\ hands' \in 0 .. MaxHands
        /\ cloud' \in [Ids -> [name : Known, full : BOOLEAN]] /\ minted' = minted
        /\ \A i \in Ids : cloud'[i] # NoCloud => i <= minted'
        /\ stores' \in [Ids -> {"none", "empty", "full"}]
        /\ u.cmd \in Commands[p] \union {"none"}
    BY <1>1, <2>1, <2>3, Stage
  <2>10. /\ task' = [task EXCEPT ![p] = u] /\ UNCHANGED <<registry, configs>>
         /\ disturbed' \in {disturbed, "yes"} /\ u.seen = task[p].seen /\ Shaped(u, minted')
         /\ \A j \in Ids : \A q \in Procs \ {p} : guard[j] = q => guard'[j] = q
    BY <1>1, <2>1, <2>2, <2>3, <2>5
  <2> QED BY <2>2, <2>3, <2>6, <2>7, <2>8, <2>9, <2>10, Still
<1> QED BY <1>3, <1>4

(* The id the server gives is above every id in use.                           *)
LEMMA CreateProjectStep ==
  ASSUME NInv, NEW p \in Procs, CreateProject(p)
  PROVE  NInv'
<1> DEFINE t == task[p]
           n == minted + 1
<1>1. /\ t.at = "create" /\ t.cmd \in {"init", "link"}
      /\ UNCHANGED <<registry, configs, stores, hands, disturbed>>
  BY DEF CreateProject, At, Same
<1>2. t \in Tasks /\ Shaped(t, minted) /\ t # NoTask /\ minted \in Nat /\ ~Between(t)
  BY <1>1, Stage DEF Between
<1>3. CASE ~(minted < MaxId)
  BY <1>1, <1>2, <1>3, Stage, Leaves DEF CreateProject
<1>4. CASE minted < MaxId
  <2> DEFINE c == [name |-> t.name, full |-> FALSE]
             C == [name : Known, full : BOOLEAN]
  <2>1. minted' = n /\ n \in Ids /\ n \in 0 .. MaxId /\ cloud' = [cloud EXCEPT ![n] = c]
    <3>1. minted' = n /\ cloud' = [cloud EXCEPT ![minted'] = c]
      BY <1>4 DEF CreateProject
    <3> QED BY <1>2, <1>4, <3>1, Places DEF Ids
  <2>2. c \in C
    BY <1>2 DEF Tasks
  <2>3. cloud \in [Ids -> C]
    BY Stage
  <2>4. cloud' \in [Ids -> C] /\ \A i \in Ids : i # n => cloud'[i] = cloud[i]
    <3> HIDE DEF c, C
    <3> QED BY <2>1, <2>2, <2>3
  <2>5. \A i \in Ids : cloud'[i] # NoCloud => i <= minted'
    <3>1. TAKE i \in Ids
    <3>2. cloud[i] # NoCloud => i <= minted
      BY Stage
    <3>3. i \in Nat
      BY DEF Ids
    <3> QED BY <2>1, <2>4, <3>2, <3>3, <1>2
  <2> HIDE DEF c
  <2>6. PICK a : /\ (t.cmd = "init" /\ a = "register") \/ (t.cmd = "link" /\ a = "move")
                 /\ TRUE
    BY <1>1
  <2> DEFINE u == [t EXCEPT !.id = n, !.at = a]
  <2>7. /\ u \in Tasks /\ u.at = a /\ u.cmd = t.cmd /\ u.id = n /\ u.repo = t.repo
        /\ u.old = t.old /\ u.seen = t.seen /\ u.purge = t.purge
    BY <1>2, <2>1, <2>6 DEF Tasks, Stages
  <2>8. CASE /\ task' = [task EXCEPT ![p] = u] /\ guard' \in [Ids -> Procs \union {Nobody}]
             /\ t.cmd = "link" => guard'[n] = p
             /\ \A j \in Ids : guard'[j] = guard[j] \/ (guard[j] \notin Procs \ {p} /\ guard'[j] = p)
    <3>1. task'[p] = u
      BY <2>8, Stage
    <3>2. Own(u) = Own(t) \/ (t.cmd = "init" /\ Own(t) = 0)
      BY <1>1, <1>2, <2>6, <2>7 DEF Own, Shaped
    <3>3. Looked(t) /\ t.cmd # "reconnect"
      BY <1>1 DEF Looked
    <3> HIDE DEF u
    <3>4. Shaped(u, minted')
      <4>1. t.seen.id <= minted /\ t.seen.id \in Nat
        BY <1>2, Idle, Places DEF Shaped, Tasks, EntryType, Ids
      <4>2. t.seen = NoEntry
        BY <1>1, <1>2 DEF Shaped
      <4>3. minted <= n /\ n # 0 /\ n <= n
        BY <1>2
      <4> QED BY <1>1, <1>2, <2>1, <2>6, <2>7, <4>1, <4>2, <4>3, Idle DEF Shaped, Fresh
    <3>5. Keeps(p)
      BY DEF NInv, Guarded
    <3>6. t.cmd = "link" => t.old \in Ids /\ guard[t.old] = p
      BY <1>1, <1>2, <3>5, Stage DEF Keeps, Shaped
    <3>7. Keeps(p)' /\ Spared(p)'
      BY <1>1, <2>6, <2>7, <2>8, <3>1, <3>6 DEF Keeps, Spared
    <3>8. disturbed' = "no" =>
             /\ \A q \in Procs \ {p} : task[q] = NoTask
             /\ \A e \in Entries : u.repo \in e.repos /\ Looked(u) => e.id = Own(u)
             /\ Between(task[p]) => Between(u) /\ u.repo = task[p].repo
             /\ u.cmd = "reconnect" => IF u.at = "config" THEN u.old = u.id
                                       ELSE configs[u.repo].id = u.id
      <4>1. \A e \in Entries : e.id # 0
        BY Keeping, EntryFound DEF NInv, EntryType, Ids
      <4> QED BY <1>1, <1>2, <2>7, <3>2, <3>3, <4>1, AllAlone
    <3>9. /\ hands' \in 0 .. MaxHands /\ stores' \in [Ids -> {"none", "empty", "full"}]
          /\ u.cmd \in Commands[p] \union {"none"} /\ minted <= minted' /\ u.id > minted
      BY <1>1, <1>2, <2>1, <2>7, Stage
    <3>10. \A i \in Ids : \A q \in Procs \ {p} : guard[i] = q => guard'[i] = q
      BY <2>8
    <3> QED BY <1>1, <2>1, <2>4, <2>5, <2>7, <2>8, <3>4, <3>7, <3>8, <3>9, <3>10, Still
  <2>9. CASE Leave(p)
    BY <1>1, <1>2, <2>1, <2>4, <2>5, <2>9, Stage, Leaves
  <2> QED
    <3>1. CASE t.cmd = "init"
      <4>1. task' = [task EXCEPT ![p].id = n, ![p].at = "register"] /\ UNCHANGED guard
        BY <1>4, <2>1, <3>1 DEF CreateProject
      <4>2. task' = [task EXCEPT ![p] = u]
        BY <2>6, <3>1, <4>1, Stage
      <4> QED BY <2>8, <3>1, <4>1, <4>2, Stage
    <3>2. CASE t.cmd = "link" /\ guard[n] \in {Nobody, p}
      <4>1. task' = [task EXCEPT ![p].id = n, ![p].at = "move"] /\ guard' = [guard EXCEPT ![n] = p]
        BY <1>4, <2>1, <3>2 DEF CreateProject
      <4>2. task' = [task EXCEPT ![p] = u]
        BY <2>6, <3>2, <4>1, Stage
      <4>3. Nobody \notin Procs
        BY Places DEF Nobody
      <4> QED BY <2>1, <2>8, <3>2, <4>1, <4>2, <4>3, Stage
    <3>3. CASE t.cmd = "link" /\ guard[n] \notin {Nobody, p}
      <4>1. Leave(p)
        BY <1>4, <2>1, <3>3 DEF CreateProject
      <4> QED BY <2>9, <4>1
    <3> QED BY <1>1, <3>1, <3>2, <3>3
<1> QED BY <1>3, <1>4

-----------------------------------------------------------------------------
(* The checks every command begins with.                                      *)

(* A command that begins.                                                      *)
LEMMA Starting ==
  ASSUME NInv, NEW p \in Procs, NEW t \in Tasks, Start(p, t),
         UNCHANGED <<registry, configs, stores, cloud, guard, minted, hands>>,
         Shaped(t, minted), t.at \in {"guard", "create", "register"},
         t.cmd # "none", t.cmd = "link" => t.at = "guard", ~Coming(t),
         t.seen = NoEntry \/ Registered(t.seen.id),
         disturbed = "no" /\ (\A e \in Entries : \A r \in e.repos : Valid(r) /\ configs[r].id = e.id) =>
           /\ \A e \in Entries : t.repo \in e.repos /\ Looked(t) => e.id = t.id
           /\ t.cmd = "reconnect" => configs[t.repo].id = t.id
  PROVE  NInv'
<1>1. task[p] = NoTask /\ task' = [task EXCEPT ![p] = t] /\ t.cmd \in Commands[p]
  BY DEF Start
<1>2. task'[p] = t
  BY <1>1, Stage
<1>3. Keeps(p)' /\ Spared(p)'
  BY <1>2 DEF Keeps, Spared
<1>4. ~Coming(t) /\ ~Linking(t) /\ ~Between(NoTask) /\ Own(t) = t.id
  BY Idle DEF Linking, Between, Own
<1>5. disturbed' \in {disturbed, "yes"}
  BY DEF Start
<1>6. disturbed' = "no" =>
           /\ \A q \in Procs \ {p} : task[q] = NoTask
           /\ \A e \in Entries : t.repo \in e.repos /\ Looked(t) => e.id = Own(t)
           /\ Between(task[p]) => Between(t) /\ t.repo = task[p].repo
           /\ t.cmd = "reconnect" => IF t.at = "config" THEN t.old = t.id
                                     ELSE configs[t.repo].id = t.id
  <2> SUFFICES ASSUME disturbed' = "no"
               PROVE  /\ \A q \in Procs \ {p} : task[q] = NoTask
                      /\ \A e \in Entries : t.repo \in e.repos /\ Looked(t) => e.id = t.id
                      /\ t.cmd = "reconnect" => configs[t.repo].id = t.id
    BY <1>1, <1>4
  <2>1. disturbed = "no" /\ \A q \in Procs : task[q] = NoTask
    BY DEF Start
  <2>2. \A e \in Entries : \A r \in e.repos : Valid(r) /\ configs[r].id = e.id
    BY <1>4, <2>1 DEF NInv, Quiet, Settled, Carried
  <2> QED BY <2>1, <2>2
<1>7. /\ minted' \in 0 .. MaxId /\ minted <= minted' /\ hands' \in 0 .. MaxHands /\ minted' = minted
      /\ cloud' \in [Ids -> [name : Known, full : BOOLEAN]]
      /\ \A i \in Ids : cloud'[i] # NoCloud => i <= minted'
      /\ stores' \in [Ids -> {"none", "empty", "full"}]
      /\ guard' \in [Ids -> Procs \union {Nobody}] /\ guard' = guard
  BY Stage
<1> QED BY <1>1, <1>3, <1>4, <1>5, <1>6, <1>7, Still

(* The task a command begins with.                                            *)
NewTask(cmd, at, r, i, n) ==
  [NoTask EXCEPT !.cmd = cmd, !.at = at, !.repo = r, !.id = i, !.name = n]

(* What the first task of a command holds.                                     *)
LEMMA Begun ==
  ASSUME NEW cmd \in {"init", "adopt", "add", "attach", "reconnect", "link"},
         NEW at \in {"guard", "create", "register"}, NEW r \in Repos, NEW i \in 0 .. MaxId,
         NEW n \in Known
  PROVE  LET t == NewTask(cmd, at, r, i, n)
         IN /\ t \in Tasks /\ t.cmd = cmd /\ t.at = at /\ t.repo = r /\ t.id = i
            /\ t.seen = NoEntry /\ ~t.purge
<1> DEFINE t == NewTask(cmd, at, r, i, n)
<1>1. NoTask \in Tasks /\ NoTask.seen = NoEntry /\ ~NoTask.purge
  BY Idle
<1>2. t \in Tasks /\ t.cmd = cmd /\ t.at = at /\ t.repo = r /\ t.id = i /\ t.seen = NoTask.seen
  BY <1>1 DEF Tasks, Stages, NewTask
<1>3. ~t.purge
  BY <1>1 DEF NoTask, NewTask
<1> QED BY <1>1, <1>2, <1>3

LEMMA Beginning ==
  ASSUME NInv, NEW p \in Procs,
         NEW cmd \in {"init", "adopt", "add", "attach", "reconnect", "link"},
         NEW at \in {"guard", "create", "register"}, NEW r \in Repos, NEW i \in 0 .. MaxId,
         NEW n \in Known, Begin(p, cmd, at, r, i, n),
         UNCHANGED <<registry, configs, stores, cloud, guard, minted, hands>>,
         IF cmd \in {"init", "adopt"} THEN i = 0 /\ at # "guard" ELSE i # 0 /\ at = "guard",
         disturbed = "no" /\ (\A e \in Entries : \A s \in e.repos : Valid(s) /\ configs[s].id = e.id) =>
           /\ \A e \in Entries : r \in e.repos /\ cmd # "add" => e.id = i
           /\ cmd = "reconnect" => configs[r].id = i
  PROVE  NInv'
<1> DEFINE t == NewTask(cmd, at, r, i, n)
<1>1. /\ t \in Tasks /\ t.cmd = cmd /\ t.at = at /\ t.repo = r /\ t.id = i
      /\ t.seen = NoEntry /\ ~t.purge
  BY Begun
<1>2. Start(p, t)
  BY DEF Begin, NewTask
<1> HIDE DEF t
<1>3. minted \in Nat
  BY Stage
<1>4. Shaped(t, minted)
  BY <1>1, <1>3, Idle DEF Shaped, Fresh
<1>5. ~Coming(t) /\ (~Looked(t) <=> cmd = "add")
  BY <1>1 DEF Coming, Looked
<1> QED BY <1>1, <1>2, <1>4, <1>5, Starting

(* Each command begins with what its check read.                               *)
LEMMA InitCheckStep ==
  ASSUME NInv, NEW p \in Procs, NEW r \in Repos, NEW n \in Names, NEW m \in Modes, NEW force \in BOOLEAN,
         InitCheck(p, r, n, m, force)
  PROVE  NInv'
<1>1. Unclaimed(r, 0)
  BY DEF InitCheck
<1>2. Kept(registry)
  BY Keeping DEF NInv
<1>3. Claims(r) = {}
  <2> SUFFICES ASSUME Claims(r) # {} PROVE FALSE
    OBVIOUS
  <2>1. FirstClaim(r) \in EntryType
    BY <1>2, FirstClaims, EntryFound
  <2> QED BY <1>1, <2>1 DEF Unclaimed, ClaimedBy, EntryType, Ids
<1>4. \A e \in Entries : r \notin e.repos
  <2> SUFFICES ASSUME NEW k \in DOMAIN registry, r \in registry[k].repos PROVE FALSE
    BY DEF Entries, ToSet
  <2> QED BY <1>3 DEF Claims, Above
<1>5. PICK at \in {"create", "register"} : Begin(p, "init", at, r, 0, n)
  BY DEF InitCheck
<1>6. n \in Known /\ 0 \in 0 .. MaxId
  BY Places DEF Known
<1>7. UNCHANGED <<registry, configs, stores, cloud, guard, minted, hands>>
  BY DEF InitCheck
<1> QED BY <1>4, <1>5, <1>6, <1>7, Beginning

LEMMA AdoptCheckStep ==
  ASSUME NInv, NEW p \in Procs, NEW r \in Repos, NEW n \in Names, AdoptCheck(p, r, n)
  PROVE  NInv'
<1>1. ~Present(r) /\ Begin(p, "adopt", "register", r, 0, n)
      /\ UNCHANGED <<registry, configs, stores, cloud, guard, minted, hands>>
  BY DEF AdoptCheck
<1>2. ~Valid(r)
  BY <1>1 DEF Present, Valid, Modes
<1>3. n \in Known /\ 0 \in 0 .. MaxId
  BY Places DEF Known
<1> QED BY <1>1, <1>2, <1>3, Beginning

LEMMA AddRepoStartStep ==
  ASSUME NInv, NEW p \in Procs, NEW r \in Repos, NEW n \in Names, AddRepoStart(p, r, n)
  PROVE  NInv'
<1>1. PICK e \in Entries : /\ Begin(p, "add", "guard", r, e.id, n)
                           /\ UNCHANGED <<registry, configs, stores, cloud, guard, minted, hands>>
  BY DEF AddRepoStart, Named
<1>2. e \in EntryType
  BY Keeping, EntryFound DEF NInv
<1>3. n \in Known /\ e.id \in 0 .. MaxId /\ e.id # 0
  BY <1>2, Places DEF Known, EntryType, Ids
<1> QED BY <1>1, <1>3, Beginning

LEMMA AttachCheckStep ==
  ASSUME NInv, NEW p \in Procs, NEW r \in Repos, NEW i \in Ids, AttachCheck(p, r, i)
  PROVE  NInv'
<1>1. /\ ConfigAllows(r, i, FALSE) /\ Begin(p, "attach", "guard", r, i, "none")
      /\ UNCHANGED <<registry, configs, stores, cloud, guard, minted, hands>>
  BY DEF AttachCheck
<1>2. "none" \in Known /\ i \in 0 .. MaxId /\ i # 0
  BY Places DEF Known, Ids
<1> QED BY <1>1, <1>2, Beginning DEF ConfigAllows

(* A config that can be read names a project.                                 *)
LEMMA Readable ==
  ASSUME NInv, NEW r \in Repos, Valid(r)
  PROVE  configs[r].id \in 0 .. MaxId /\ configs[r].id # 0 /\ configs[r].name \in Known
         /\ configs[r].id \in Ids
<1>1. NTypeOK
  BY DEF NInv
<1>2. configs[r].id \in 0 .. MaxId /\ configs[r].id # 0 /\ configs[r].name \in Known
  BY <1>1 DEF NTypeOK
<1> QED BY <1>2, Places DEF Ids

LEMMA ReconnectCheckStep ==
  ASSUME NInv, NEW p \in Procs, NEW r \in Repos, ReconnectCheck(p, r)
  PROVE  NInv'
<1>1. /\ Valid(r) /\ Begin(p, "reconnect", "guard", r, configs[r].id, configs[r].name)
      /\ UNCHANGED <<registry, configs, stores, cloud, guard, minted, hands>>
  BY DEF ReconnectCheck
<1> QED BY <1>1, Readable, Beginning

LEMMA LinkCheckStep ==
  ASSUME NInv, NEW p \in Procs, NEW r \in Repos, LinkCheck(p, r)
  PROVE  NInv'
<1>1. /\ Valid(r) /\ Begin(p, "link", "guard", r, configs[r].id, configs[r].name)
      /\ UNCHANGED <<registry, configs, stores, cloud, guard, minted, hands>>
  BY DEF LinkCheck
<1> QED BY <1>1, Readable, Beginning

LEMMA UnadoptCheckStep ==
  ASSUME NInv, NEW p \in Procs, NEW r \in Repos, NEW purge \in BOOLEAN, UnadoptCheck(p, r, purge)
  PROVE  NInv'
<1> DEFINE e == EntryOf(configs[r].id)
           t == [NoTask EXCEPT !.cmd = "unadopt", !.at = "guard", !.repo = r,
                                !.id = configs[r].id, !.seen = e, !.purge = purge,
                                !.name = configs[r].name]
<1>1. /\ Valid(r) /\ (purge => e.repos \subseteq {r}) /\ Start(p, t)
      /\ UNCHANGED <<registry, configs, stores, cloud, guard, minted, hands>>
  BY DEF UnadoptCheck
<1>2. configs[r].id \in 0 .. MaxId /\ configs[r].id # 0 /\ configs[r].name \in Known
  BY <1>1, Readable
<1>3. e \in EntryType \union {NoEntry} /\ (e # NoEntry => Registered(configs[r].id) /\ e.id = configs[r].id)
      /\ (e # NoEntry => e \in Entries)
  BY Keeping, EntryFound DEF NInv
<1>4. e.id <= minted
  BY <1>3, Stage, Idle DEF NInv, Issued
<1> HIDE DEF e
<1>5. /\ t \in Tasks /\ t.cmd = "unadopt" /\ t.at = "guard" /\ t.repo = r /\ t.id = configs[r].id
      /\ t.seen = e
  <2> DEFINE E == EntryType \union {NoEntry}
             s == [NoTask EXCEPT !.purge = purge]
  <2>1. NoTask \in Tasks
    BY Idle
  <2>2. s \in Tasks
    BY <2>1, Zenon DEF Tasks
  <2> HIDE DEF s
  <2>3. t = [s EXCEPT !.cmd = "unadopt", !.at = "guard", !.repo = r,
                      !.id = configs[r].id, !.seen = e, !.name = configs[r].name]
    BY DEF s, NoTask
  <2> QED BY <1>2, <1>3, <2>2, <2>3 DEF Tasks, Stages
<1>6. t.purge => purge
  BY DEF NoTask
<1> HIDE DEF t
<1>7. Shaped(t, minted)
  BY <1>1, <1>2, <1>3, <1>4, <1>5, <1>6 DEF Shaped, Fresh
<1>8. ~Coming(t) /\ (t.seen = NoEntry \/ Registered(t.seen.id))
  BY <1>3, <1>5 DEF Coming
<1> QED BY <1>1, <1>5, <1>7, <1>8, Starting

LEMMA RemoveCheckStep ==
  ASSUME NInv, NEW p \in Procs, NEW i \in Ids, RemoveCheck(p, i)
  PROVE  NInv'
<1> DEFINE e == EntryOf(i)
           t == [NoTask EXCEPT !.cmd = "rm", !.at = "guard", !.id = i, !.seen = e]
<1>1. /\ Registered(i) /\ Start(p, t)
      /\ UNCHANGED <<registry, configs, stores, cloud, guard, minted, hands>>
  BY DEF RemoveCheck
<1>2. e \in Entries /\ e.id = i /\ e \in EntryType /\ i \in 0 .. MaxId /\ i # 0
  BY <1>1, Keeping, EntryFound, Places DEF NInv, Ids
<1>3. e.id <= minted
  BY <1>2 DEF NInv, Issued
<1> HIDE DEF e
<1>4. /\ t \in Tasks /\ t.cmd = "rm" /\ t.at = "guard" /\ t.repo = "none" /\ t.id = i /\ t.seen = e
      /\ ~t.purge
  <2>1. NoTask \in Tasks /\ NoTask.repo = "none" /\ ~NoTask.purge
    BY Idle
  <2>2. ~t.purge
    BY DEF NoTask
  <2> QED BY <1>2, <2>1, <2>2 DEF Tasks, Stages
<1> HIDE DEF t
<1>5. Shaped(t, minted)
  BY <1>2, <1>3, <1>4 DEF Shaped, Fresh
<1>6. \A f \in Entries : "none" \notin f.repos
  BY Keeping, EntryFound, Places DEF NInv, EntryType
<1>7. ~Coming(t) /\ Registered(t.seen.id)
  BY <1>1, <1>2, <1>4 DEF Coming
<1> QED BY <1>1, <1>4, <1>5, <1>6, <1>7, Starting

-----------------------------------------------------------------------------
(* The steps that write a config or the registry.                             *)

Purging(t) == Alone /\ t.cmd = "unadopt" /\ t.at \in {"unlink", "drop"} /\ t.purge /\ t.seen # NoEntry

(* A step of one process that may change the registry or a config keeps the      *)
(* invariant if what it leaves owes the others nothing.                          *)
LEMMA Turn ==
  ASSUME NInv, NEW p \in Procs, NEW u \in Tasks, task' = [task EXCEPT ![p] = u],
         Kept(registry'),
         configs' \in [Repos -> [id : 0 .. MaxId, name : Known, mode : Modes \union {"absent", "broken"}]],
         \A r \in Repos : Valid(r)' => configs'[r].id # 0,
         stores' \in [Ids -> {"none", "empty", "full"}],
         guard' \in [Ids -> Procs \union {Nobody}],
         cloud' = cloud, minted' \in 0 .. MaxId, minted <= minted', hands' = hands,
         disturbed' \in {"no", "rebound", "yes"}, disturbed' = "no" => disturbed = "no",
         \A e \in Entries' : e.id <= minted',
         \A i \in Ids : \A q \in Procs \ {p} : guard[i] = q => guard'[i] = q,
         Shaped(u, minted'), u.cmd \in Commands[p] \union {"none"}, ~Coming(u), ~Linking(u),
         u.seen = NoEntry \/ u.seen = task[p].seen,
         Keeps(p)', Spared(p)',
         \A q \in Procs \ {p} : Purging(task[q]) => \A i : i = task[q].id =>
           EntryOf(i)'.repos \subseteq EntryOf(i).repos,
         \A q \in Procs \ {p} : Coming(task[q]) => \A i : i = task[q].id => ~Registered(i)',
         disturbed' = "no" =>
           /\ \A q \in Procs \ {p} : task[q] = NoTask
           /\ \A e \in Entries' : u.repo \in e.repos /\ Looked(u) => e.id = Own(u)
           /\ \A e \in Entries' : \A r \in e.repos :
                (Valid(r)' /\ configs'[r].id = e.id) \/ (u.repo = r /\ Between(u))
           /\ u.cmd = "reconnect" => IF u.at = "config" THEN u.old = u.id
                                     ELSE configs'[u.repo].id = u.id
  PROVE  NInv'
<1>1. NTypeOK /\ Issued /\ Guarded /\ Quiet
  BY DEF NInv
<1>2. task' \in [Procs -> Tasks] /\ task'[p] = u /\ \A q \in Procs \ {p} : task'[q] = task[q]
  BY <1>1, Steps DEF NTypeOK
<1>3. NTypeOK'
  BY <1>1, <1>2 DEF NTypeOK, Kept
<1>5. minted \in Nat /\ minted' \in Nat
  BY <1>1, Places DEF NTypeOK
<1>6. \A q \in Procs \ {p} : Shaped(task[q], minted')
  <2>1. TAKE q \in Procs \ {p}
  <2>2. Shaped(task[q], minted)
    BY <1>1 DEF Issued
  <2>3. task[q].id \in Nat /\ task[q].seen.id \in Nat
    BY <1>1, Idle, Places DEF NTypeOK, Tasks, EntryType, Ids
  <2> QED BY <2>2, <2>3, <1>5 DEF Shaped
<1>7. Issued'
  <2>1. \A i \in Ids : cloud'[i] # NoCloud => i <= minted'
    <3>1. TAKE i \in Ids
    <3>2. i \in Nat /\ (cloud[i] # NoCloud => i <= minted)
      BY <1>1 DEF Issued, Ids
    <3> QED BY <3>2, <1>5
  <2>3. \A q \in Procs : Shaped(task[q]', minted') /\ task'[q].cmd \in Commands[q] \union {"none"}
    BY <1>1, <1>2, <1>6 DEF Issued
  <2> QED BY <2>1, <2>3 DEF Issued
<1>8. Guarded'
  <2>1. \A q \in Procs \ {p} : Keeps(q)'
    <3>1. TAKE q \in Procs \ {p}
    <3>2. Keeps(q) /\ Shaped(task[q], minted) /\ task[q] \in Tasks
      BY <1>1 DEF Guarded, Issued, NTypeOK
    <3>3. task[q].id # 0 => task[q].id \in Ids
      BY <3>2, Places DEF Tasks, Ids
    <3>4. task[q].old # 0 => task[q].old \in Ids
      BY <3>2, Places DEF Tasks, Ids
    <3> QED BY <3>2, <3>3, <3>4, <1>2 DEF Keeps, Shaped, Fresh
  <2>2. \A q \in Procs \ {p} : Spared(q)'
    <3>1. TAKE q \in Procs \ {p}
    <3>2. Spared(q) /\ task'[q] = task[q]
      BY <1>1, <1>2 DEF Guarded
    <3>3. PICK i : i = task[q].id
      OBVIOUS
    <3>4. Purging(task[q]) => EntryOf(i)'.repos \subseteq {task[q].repo}
      BY <3>2, <3>3 DEF Spared, Purging
    <3> QED BY <3>2, <3>3, <3>4 DEF Spared, Purging
  <2>5. u.id \in Nat /\ NoEntry.id = 0
    BY Idle DEF Tasks
  <2>6. \A q \in Procs \ {p} : Unborn(q)'
    <3>1. TAKE q \in Procs \ {p}
    <3>2. Unborn(q) /\ task'[q] = task[q]
      BY <1>1, <1>2 DEF Guarded
    <3>3. Coming(task[q]) => u.seen.id # task[q].id
      BY <3>2, <2>5 DEF Unborn, Coming
    <3>4. PICK i : i = task[q].id
      OBVIOUS
    <3>5. Coming(task[q]) => ~Registered(i)'
      BY <3>4
    <3> QED BY <3>2, <3>3, <3>4, <3>5, <1>2 DEF Unborn
  <2>7. Unborn(p)'
    BY <1>2 DEF Unborn
  <2> QED BY <1>2, <2>1, <2>2, <2>6, <2>7 DEF Guarded
<1>9. Quiet'
  <2> SUFFICES ASSUME disturbed' = "no" PROVE Settled'
    BY DEF Quiet
  <2>2. \A q \in Procs \ {p} : task'[q] = NoTask
    BY <1>2
  <2>3. Single'
    BY <2>2 DEF Single
  <2>4. \A e \in Entries' : "none" \notin e.repos
    BY EntryFoundNext, Places DEF EntryType
  <2>5. Owned'
    BY <1>2, <2>2, <2>4, Idle DEF Owned
  <2>7. Carried'
    BY <1>2 DEF Carried
  <2>8. Recalled'
    BY <1>2, <2>2, Idle DEF Recalled
  <2> QED BY <2>3, <2>5, <2>7, <2>8 DEF Settled
<1> QED BY <1>3, <1>7, <1>8, <1>9 DEF NInv

(* What leaving leaves.                                                       *)
LEMMA Left ==
  ASSUME NInv, NEW p \in Procs, Leave(p)
  PROVE  /\ task' = [task EXCEPT ![p] = NoTask] /\ NoTask \in Tasks
         /\ guard' \in [Ids -> Procs \union {Nobody}]
         /\ \A i \in Ids : \A q \in Procs \ {p} : guard[i] = q => guard'[i] = q
         /\ \A m \in Nat : Shaped(NoTask, m)
         /\ Keeps(p)' /\ Spared(p)' /\ ~Coming(NoTask) /\ ~Linking(NoTask) /\ ~Between(NoTask)
         /\ NoTask.seen = NoEntry /\ NoTask.cmd = "none" /\ NoTask.repo = "none"
<1>1. task' = [task EXCEPT ![p] = NoTask]
  BY DEF Leave
<1>2. task'[p] = NoTask
  BY <1>1, Stage
<1>3. /\ guard' \in [Ids -> Procs \union {Nobody}]
      /\ \A i \in Ids : \A q \in Procs \ {p} : guard[i] = q => guard'[i] = q
  BY Stage DEF Leave, FreeGuards
<1>4. \A m \in Nat : Shaped(NoTask, m)
  BY Idle, SMT DEF Shaped, Fresh
<1>5. Keeps(p)' /\ Spared(p)'
  BY <1>2, Idle, SMT DEF Keeps, Spared
<1>6. ~Coming(NoTask) /\ ~Linking(NoTask) /\ ~Between(NoTask)
  BY Idle DEF Coming, Linking, Between
<1> QED BY <1>1, <1>3, <1>4, <1>5, <1>6, Idle

(* What a step that leaves the registry alone leaves.                         *)
LEMMA SameRegistry ==
  ASSUME NInv, UNCHANGED registry
  PROVE  /\ Kept(registry') /\ Entries' = Entries
         /\ \A i : EntryOf(i)' = EntryOf(i) /\ (Registered(i)' <=> Registered(i))
         /\ \A e \in Entries : e.id <= minted /\ e.id # 0 /\ e.id \in Ids /\ e \in EntryType
         /\ \A e \in Entries : "none" \notin e.repos /\ e.repos \subseteq Repos
         /\ \A q \in Procs : Coming(task[q]) => \A i : i = task[q].id => ~Registered(i)
<1>1. Kept(registry)
  BY Keeping DEF NInv
<1>2. \A e \in Entries : e \in EntryType
  BY <1>1, EntryFound
<1>3. \A e \in Entries : e.id <= minted /\ e.id # 0 /\ e.id \in Ids
  BY <1>2 DEF NInv, Issued, EntryType, Ids
<1>4. \A e \in Entries : "none" \notin e.repos /\ e.repos \subseteq Repos
  BY <1>2, Places DEF EntryType
<1>5. \A q \in Procs : Coming(task[q]) => \A i : i = task[q].id => ~Registered(i)
  BY DEF NInv, Guarded, Unborn
<1>6. /\ Kept(registry') /\ Entries' = Entries
      /\ \A i : EntryOf(i)' = EntryOf(i) /\ (Registered(i)' <=> Registered(i))
  BY <1>1 DEF Entries, EntryOf, Registered
<1> QED BY <1>2, <1>3, <1>4, <1>5, <1>6

ConfigType == [id : 0 .. MaxId, name : Known, mode : Modes \union {"absent", "broken"}]

(* The config names the project whose entry lists the repository by then.        *)
LEMMA WriteConfigStep ==
  ASSUME NInv, NEW p \in Procs, WriteConfig(p)
  PROVE  NInv'
<1> DEFINE t == task[p]
<1>0. PICK r : r = task[p].repo
  OBVIOUS
<1>1. /\ t.at = "config"
      /\ UNCHANGED <<registry, stores, cloud, minted, hands, disturbed>>
  BY DEF WriteConfig, Same
<1>2. t \in Tasks /\ Shaped(t, minted) /\ t # NoTask /\ minted \in Nat
  BY <1>1, Stage
<1>3. t.cmd \notin {"none", "rm", "unadopt"} /\ t.id # 0 /\ t.id <= minted /\ r \in Repos
      /\ (t.cmd = "reconnect" => t.old # 0)
  BY <1>0, <1>1, <1>2 DEF Shaped, Fresh
<1>4. PICK m \in Modes, i \in 0 .. MaxId :
        /\ configs' = [configs EXCEPT ![r] = Config(i, t.name, m)] /\ i # 0
        /\ i = IF t.cmd = "reconnect" THEN t.old ELSE t.id
  <2> DEFINE i == IF t.cmd = "reconnect" THEN t.old ELSE t.id
             m == IF t.cmd \in {"attach", "link"} \/ cloud[t.id] # NoCloud THEN "cloud" ELSE "local"
  <2>1. configs' = [configs EXCEPT ![r] = Config(i, t.name, m)]
    BY <1>0 DEF WriteConfig
  <2>2. i \in 0 .. MaxId /\ i # 0
    BY <1>2, <1>3 DEF Tasks
  <2>3. m \in Modes
    BY DEF Modes
  <2> HIDE DEF m
  <2> QED BY <2>1, <2>2, <2>3
<1>5. configs \in [Repos -> ConfigType] /\ \A s \in Repos : Valid(s) => configs[s].id # 0
  BY DEF NInv, NTypeOK, ConfigType
<1> DEFINE c == Config(i, t.name, m)
<1>6. c \in ConfigType /\ c.id = i /\ c.mode = m
  BY <1>2, <1>4 DEF Config, ConfigType, Tasks
<1> HIDE DEF c
<1>7. /\ configs' \in [Repos -> ConfigType] /\ configs'[r] = c
      /\ \A s \in Repos : s # r => configs'[s] = configs[s]
  BY <1>3, <1>4, <1>5, <1>6 DEF c
<1>8. /\ \A s \in Repos : Valid(s)' => configs'[s].id # 0
      /\ Valid(r)'
  BY <1>4, <1>5, <1>6, <1>7 DEF Valid
<1>9. disturbed' = "no" =>
        /\ \A q \in Procs \ {p} : task[q] = NoTask
        /\ \A e \in Entries' : r \in e.repos => e.id = t.id
        /\ \A e \in Entries' : \A s \in e.repos : Valid(s)' /\ configs'[s].id = e.id
  <2> SUFFICES ASSUME disturbed = "no"
               PROVE  /\ \A q \in Procs \ {p} : task[q] = NoTask
                      /\ \A e \in Entries : r \in e.repos => e.id = t.id
                      /\ \A e \in Entries : \A s \in e.repos : Valid(s)' /\ configs'[s].id = e.id
    BY <1>1, SameRegistry
  <2>1. Looked(t) /\ Own(t) = t.id
    BY <1>1 DEF Looked, Own
  <2>2. \A e \in Entries : r \in e.repos => e.id = t.id
    BY <1>0, <1>2, <2>1, AllAlone
  <2>3. i = t.id
    BY <1>1, <1>2, <1>4, AllAlone
  <2>4. \A e \in Entries : \A s \in e.repos : Valid(s)' /\ configs'[s].id = e.id
    <3>1. TAKE e \in Entries
    <3>2. TAKE s \in e.repos
    <3>3. s \in Repos
      BY <1>1, SameRegistry
    <3>4. CASE s = r
      BY <1>6, <1>7, <1>8, <2>2, <2>3, <3>4
    <3>5. CASE s # r
      <4>1. Valid(s) /\ configs[s].id = e.id
        BY <1>0, <1>2, <3>5, AllAlone
      <4> QED BY <1>7, <3>3, <3>5, <4>1 DEF Valid
    <3> QED BY <3>4, <3>5
  <2> QED BY <1>2, <2>2, <2>4, AllAlone
<1>10. /\ Kept(registry') /\ \A e \in Entries' : e.id <= minted'
       /\ stores' \in [Ids -> {"none", "empty", "full"}]
       /\ cloud' = cloud /\ minted' \in 0 .. MaxId /\ minted <= minted' /\ hands' = hands
       /\ disturbed' \in {"no", "rebound", "yes"} /\ (disturbed' = "no" => disturbed = "no")
       /\ \A q \in Procs \ {p} : Purging(task[q]) => \A j : j = task[q].id =>
           EntryOf(j)'.repos \subseteq EntryOf(j).repos
       /\ \A q \in Procs \ {p} : Coming(task[q]) => \A j : j = task[q].id => ~Registered(j)'
       /\ configs' \in [Repos -> [id : 0 .. MaxId, name : Known, mode : Modes \union {"absent", "broken"}]]
  <2>1. disturbed \in {"no", "rebound", "yes"}
    BY DEF NInv, NTypeOK
  <2> QED BY <1>1, <1>7, <2>1, SameRegistry, Stage DEF ConfigType
<1>11. CASE Leave(p)
  <2>1. disturbed' = "no" =>
           /\ \A q \in Procs \ {p} : task[q] = NoTask
           /\ \A e \in Entries' : NoTask.repo \in e.repos /\ Looked(NoTask) => e.id = Own(NoTask)
           /\ \A e \in Entries' : \A s \in e.repos :
                (Valid(s)' /\ configs'[s].id = e.id) \/ (NoTask.repo = s /\ Between(NoTask))
           /\ NoTask.cmd = "reconnect" => IF NoTask.at = "config" THEN NoTask.old = NoTask.id
                                     ELSE configs'[NoTask.repo].id = NoTask.id
    BY <1>1, <1>9, <1>11, Left, SameRegistry
  <2> QED BY <1>1, <1>2, <1>8, <1>10, <1>11, <2>1, Left, Turn
<1>12. CASE ~Leave(p)
  <2>1. PICK a \in {"scaffold", "push"} : Goto(p, a) /\ UNCHANGED guard /\ t.cmd \in {"init", "adopt", "link"}
    BY <1>12 DEF WriteConfig
  <2> DEFINE u == [t EXCEPT !.at = a]
  <2>2. /\ u \in Tasks /\ u.at = a /\ u.cmd = t.cmd /\ u.id = t.id /\ u.repo = r
        /\ u.seen = t.seen /\ u.old = t.old /\ u.purge = t.purge
    BY <1>0, <1>2 DEF Tasks, Stages
  <2>3. task' = [task EXCEPT ![p] = u] /\ task'[p] = u
    BY <2>1, Stage DEF Goto
  <2> HIDE DEF u
  <2>4. Shaped(u, minted') /\ u.cmd \in Commands[p] \union {"none"}
    BY <1>0, <1>1, <1>2, <1>3, <2>1, <2>2, Stage DEF Shaped, Fresh
  <2>5. Keeps(p)' /\ Spared(p)'
    BY <2>1, <2>2, <2>3 DEF Keeps, Spared
  <2>6. ~Coming(u) /\ ~Linking(u) /\ Own(u) = u.id
    BY <2>2 DEF Coming, Linking, Own
  <2>7. guard' \in [Ids -> Procs \union {Nobody}] /\ guard' = guard
    BY <2>1, Stage
  <2>8. disturbed' = "no" =>
           /\ \A q \in Procs \ {p} : task[q] = NoTask
           /\ \A e \in Entries' : u.repo \in e.repos /\ Looked(u) => e.id = Own(u)
           /\ \A e \in Entries' : \A s \in e.repos :
                (Valid(s)' /\ configs'[s].id = e.id) \/ (u.repo = s /\ Between(u))
           /\ u.cmd = "reconnect" => IF u.at = "config" THEN u.old = u.id
                                     ELSE configs'[u.repo].id = u.id
    BY <1>9, <2>1, <2>2, <2>6
  <2> QED BY <1>8, <1>10, <2>2, <2>3, <2>4, <2>5, <2>6, <2>7, <2>8, Turn
<1> QED BY <1>11, <1>12

(* An un-adopted repository is listed without its config until the entry drops it. *)
LEMMA UnlinkStep ==
  ASSUME NInv, NEW p \in Procs, Unlink(p)
  PROVE  NInv'
<1> DEFINE t == task[p]
<1>0. PICK r : r = task[p].repo
  OBVIOUS
<1>1. /\ t.at = "unlink" /\ t.cmd = "unadopt"
      /\ UNCHANGED <<registry, stores, cloud, minted, hands, disturbed>>
  BY DEF Unlink, At, Same
<1>2. t \in Tasks /\ Shaped(t, minted) /\ t # NoTask /\ minted \in Nat
  BY <1>1, Stage
<1>3. CASE Leave(p) /\ UNCHANGED configs
  BY <1>1, <1>2, <1>3, Stage, Leaves DEF Between
<1>4. CASE Goto(p, "drop") /\ UNCHANGED guard /\ configs' \in {configs, [configs EXCEPT ![r] = NoConfig]}
  <2> DEFINE u == [t EXCEPT !.at = "drop"]
  <2>1. /\ u \in Tasks /\ u.at = "drop" /\ u.cmd = "unadopt" /\ u.id = t.id /\ u.repo = r
        /\ u.seen = t.seen /\ u.old = t.old /\ u.purge = t.purge
    BY <1>0, <1>1, <1>2 DEF Tasks, Stages
  <2>2. task' = [task EXCEPT ![p] = u] /\ task'[p] = u
    BY <1>4, Stage DEF Goto
  <2> HIDE DEF u
  <2>3. Shaped(u, minted') /\ u.cmd \in Commands[p] \union {"none"}
    BY <1>0, <1>1, <1>2, <2>1, Stage DEF Shaped, Fresh
  <2>4. Keeps(p)' /\ Spared(p)'
    <3>1. Keeps(p) /\ Spared(p)
      BY DEF NInv, Guarded
    <3>2. \A i : EntryOf(i)' = EntryOf(i)
      BY <1>1, SameRegistry
    <3>3. Keeps(p)'
      BY <1>1, <1>4, <2>1, <2>2, <3>1 DEF Keeps
    <3>4. PICK i : i = t.id
      OBVIOUS
    <3>5. Alone /\ t.purge /\ t.seen # NoEntry => EntryOf(i)'.repos \subseteq {r}
      BY <1>0, <1>1, <3>1, <3>2, <3>4 DEF Spared
    <3> QED BY <2>1, <2>2, <3>3, <3>4, <3>5 DEF Spared
  <2>5. ~Coming(u) /\ ~Linking(u) /\ Own(u) = t.id /\ Between(u) /\ Own(t) = t.id /\ Looked(t) /\ ~Between(t)
    BY <1>1, <2>1 DEF Coming, Linking, Own, Between, Looked
  <2>6. configs \in [Repos -> ConfigType] /\ \A s \in Repos : Valid(s) => configs[s].id # 0
    BY DEF NInv, NTypeOK, ConfigType
  <2>7. NoConfig \in ConfigType /\ NoConfig.mode \notin Modes
    <3>1. 0 \in 0 .. MaxId
      BY Places
    <3> QED BY <3>1 DEF NoConfig, ConfigType, Known, Modes
  <2>8. /\ configs' \in [Repos -> ConfigType]
        /\ \A s \in Repos : s # r => configs'[s] = configs[s]
        /\ \A s \in Repos : configs'[s] = configs[s] \/ configs'[s] = NoConfig
    BY <1>4, <2>6, <2>7
  <2>9. \A s \in Repos : Valid(s)' => configs'[s].id # 0
    BY <2>6, <2>7, <2>8 DEF Valid
  <2>10. disturbed' = "no" =>
           /\ \A q \in Procs \ {p} : task[q] = NoTask
           /\ \A e \in Entries' : u.repo \in e.repos /\ Looked(u) => e.id = Own(u)
           /\ \A e \in Entries' : \A s \in e.repos :
                (Valid(s)' /\ configs'[s].id = e.id) \/ (u.repo = s /\ Between(u))
           /\ u.cmd = "reconnect" => IF u.at = "config" THEN u.old = u.id
                                     ELSE configs'[u.repo].id = u.id
    <3> SUFFICES ASSUME disturbed = "no"
                 PROVE  /\ \A q \in Procs \ {p} : task[q] = NoTask
                        /\ \A e \in Entries : r \in e.repos => e.id = t.id
                        /\ \A e \in Entries : \A s \in e.repos :
                             (Valid(s)' /\ configs'[s].id = e.id) \/ r = s
      BY <1>1, <2>1, <2>5, SameRegistry
    <3>1. \A e \in Entries : \A s \in e.repos : Valid(s) /\ configs[s].id = e.id
      BY <1>2, <2>5, AllAlone
    <3>2. \A e \in Entries : \A s \in e.repos : (Valid(s)' /\ configs'[s].id = e.id) \/ r = s
      BY <1>1, <2>8, <3>1, SameRegistry DEF Valid
    <3> QED BY <1>0, <1>2, <2>5, <3>2, AllAlone
  <2>11. /\ Kept(registry') /\ \A e \in Entries' : e.id <= minted'
         /\ stores' \in [Ids -> {"none", "empty", "full"}] /\ guard' \in [Ids -> Procs \union {Nobody}]
         /\ cloud' = cloud /\ minted' \in 0 .. MaxId /\ minted <= minted' /\ hands' = hands
         /\ disturbed' \in {"no", "rebound", "yes"} /\ (disturbed' = "no" => disturbed = "no")
         /\ guard' = guard
         /\ \A q \in Procs \ {p} : Purging(task[q]) => \A j : j = task[q].id =>
             EntryOf(j)'.repos \subseteq EntryOf(j).repos
         /\ \A q \in Procs \ {p} : Coming(task[q]) => \A j : j = task[q].id => ~Registered(j)'
         /\ configs' \in [Repos -> [id : 0 .. MaxId, name : Known, mode : Modes \union {"absent", "broken"}]]
    <3>1. disturbed \in {"no", "rebound", "yes"}
      BY DEF NInv, NTypeOK
    <3> QED BY <1>1, <1>4, <2>8, <3>1, SameRegistry, Stage DEF ConfigType
  <2> QED BY <2>1, <2>2, <2>3, <2>4, <2>5, <2>9, <2>10, <2>11, Turn
<1> QED BY <1>0, <1>3, <1>4 DEF Unlink

(* What hands and the server do to configs and names.                          *)
LEMMA EditConfigStep ==
  ASSUME NInv, NEW r \in Repos, EditConfig(r)
  PROVE  NInv'
<1>1. /\ UNCHANGED <<registry, stores, cloud, guard, task, minted>> /\ disturbed' = "yes"
      /\ hands < MaxHands /\ hands' = hands + 1
  BY DEF EditConfig
<1>2. PICK c : /\ c \in {NoConfig, Broken} \union {configs[s] : s \in Repos}
               /\ configs' = [configs EXCEPT ![r] = c]
  BY DEF EditConfig
<1>3. configs \in [Repos -> ConfigType] /\ \A s \in Repos : Valid(s) => configs[s].id # 0
  BY DEF NInv, NTypeOK, ConfigType
<1>4. c \in ConfigType /\ (c.mode \in Modes => c.id # 0)
  <2>1. CASE c \in {NoConfig, Broken}
    <3>1. 0 \in 0 .. MaxId
      BY Places
    <3> QED BY <2>1, <3>1 DEF NoConfig, Broken, ConfigType, Known, Modes
  <2>2. CASE c \in {configs[s] : s \in Repos}
    BY <1>3, <2>2 DEF Valid
  <2> QED BY <1>2, <2>1, <2>2
<1>5. configs' \in [Repos -> ConfigType] /\ \A s \in Repos : Valid(s)' => configs'[s].id # 0
  BY <1>2, <1>3, <1>4 DEF Valid
<1>6. hands' \in 0 .. MaxHands
  BY <1>1, Places DEF NInv, NTypeOK
<1>7. NTypeOK'
  BY <1>1, <1>5, <1>6 DEF NInv, NTypeOK, ConfigType
<1>8. Entries' = Entries /\ \A i : EntryOf(i)' = EntryOf(i) /\ (Registered(i)' <=> Registered(i))
  BY <1>1, SameRegistry
<1>9. Issued'
  BY <1>1, <1>8 DEF NInv, Issued
<1>10. Guarded'
  BY <1>1, <1>8 DEF NInv, Guarded, Keeps, Spared, Unborn
<1>11. Quiet'
  BY <1>1 DEF Quiet
<1> QED BY <1>7, <1>9, <1>10, <1>11 DEF NInv

(* A rename on the server touches no file here.                                 *)
LEMMA CloudRenameStep ==
  ASSUME NInv, NEW i \in Ids, CloudRename(i)
  PROVE  NInv'
<1>1. /\ UNCHANGED <<registry, configs, stores, guard, task, minted, disturbed>>
      /\ hands < MaxHands /\ hands' = hands + 1 /\ cloud[i] # NoCloud
      /\ cloud' = [cloud EXCEPT ![i].name = Renamed]
  BY DEF CloudRename
<1> DEFINE C == [name : Known, full : BOOLEAN]
           c == [cloud[i] EXCEPT !.name = Renamed]
<1>2. cloud \in [Ids -> C]
  BY DEF NInv, NTypeOK
<1>3. c \in C
  <2>1. Renamed \in Known
    BY DEF Known
  <2>2. cloud[i] \in C
    BY <1>2
  <2> QED BY <2>1, <2>2, Zenon
<1>4. cloud' = [cloud EXCEPT ![i] = c]
  BY <1>1
<1> HIDE DEF c, C
<1>5. cloud' \in [Ids -> C] /\ \A j \in Ids : j # i => cloud'[j] = cloud[j]
  BY <1>2, <1>3, <1>4
<1>6. hands' \in 0 .. MaxHands
  BY <1>1, Places DEF NInv, NTypeOK
<1>7. NTypeOK'
  BY <1>1, <1>5, <1>6 DEF NInv, NTypeOK, C, Valid
<1>8. Entries' = Entries /\ \A j : EntryOf(j)' = EntryOf(j) /\ (Registered(j)' <=> Registered(j))
  BY <1>1, SameRegistry
<1>9. Issued'
  <2>1. \A j \in Ids : cloud'[j] # NoCloud => j <= minted
    BY <1>1, <1>5 DEF NInv, Issued
  <2> QED BY <1>1, <1>8, <2>1 DEF NInv, Issued
<1>10. Guarded'
  BY <1>1, <1>8 DEF NInv, Guarded, Keeps, Spared, Unborn
<1>11. Quiet'
  BY <1>1, <1>8 DEF NInv, Quiet, Settled, Single, Owned, Carried, Recalled, Valid
<1> QED BY <1>7, <1>9, <1>10, <1>11 DEF NInv

-----------------------------------------------------------------------------
(* The steps that change the registry.                                        *)

(* A new entry under an id nobody holds yet, its config to come.              *)
LEMMA Registering ==
  ASSUME NInv, NEW p \in Procs, task[p].cmd \in {"init", "adopt"}, task[p].at = "register",
         NEW n \in Ids, NEW m \in Modes, NEW r, r = task[p].repo,
         minted' \in 0 .. MaxId, minted <= minted', n <= minted',
         IF task[p].id = 0 THEN n > minted ELSE n = task[p].id /\ ~Registered(n),
         RegisterProject(n, task[p].name, m, r),
         task' = [task EXCEPT ![p] = [task[p] EXCEPT !.id = n, !.at = "config"]],
         UNCHANGED <<configs, cloud, guard, hands, disturbed>>
  PROVE  NInv'
<1> DEFINE t == task[p]
           u == [t EXCEPT !.id = n, !.at = "config"]
<1>1. t \in Tasks /\ Shaped(t, minted) /\ t # NoTask /\ minted \in Nat /\ minted' \in Nat
      /\ n \in Nat /\ n # 0 /\ n \in 0 .. MaxId /\ t.cmd \in Commands[p] \union {"none"}
  <2>1. n \in Nat /\ n # 0 /\ n \in 0 .. MaxId /\ minted' \in Nat
    BY Places DEF Ids
  <2> QED BY <2>1, Stage
<1>2. /\ u \in Tasks /\ u.at = "config" /\ u.cmd = t.cmd /\ u.id = n /\ u.repo = r
      /\ u.seen = t.seen /\ u.old = t.old /\ u.purge = t.purge
  BY <1>1 DEF Tasks, Stages
<1>3. task' = [task EXCEPT ![p] = u] /\ task'[p] = u
  BY Stage
<1> HIDE DEF u
<1>4. r \in Repos
  BY <1>1 DEF Shaped
<1> DEFINE e == [id |-> n, name |-> t.name, mode |-> m, repos |-> {r}]
<1>5. e \in EntryType /\ e.id = n /\ e.repos = {r}
  BY <1>1, <1>4 DEF EntryType, Tasks
<1>6. registry' = Append(registry, e)
  BY DEF RegisterProject
<1>7. stores' \in [Ids -> {"none", "empty", "full"}]
  BY Stage DEF RegisterProject
<1> HIDE DEF e
<1>8. \A f \in Entries : f.id <= minted /\ f.id # 0 /\ f.id \in Nat
  BY Keeping, EntryFound DEF NInv, Issued, EntryType, Ids
<1>9. ~Registered(n)
  BY <1>1, <1>8 DEF Registered
<1>10. /\ Kept(registry') /\ Entries' = Entries \union {e}
       /\ \A i : i # n => EntryOf(i)' = EntryOf(i) /\ (Registered(i)' <=> Registered(i))
  BY <1>5, <1>6, <1>9, Joins, Keeping DEF NInv
<1>11. \A f \in Entries' : f.id <= minted'
  BY <1>1, <1>5, <1>8, <1>10
<1>12. Alone /\ t.id # 0 => Coming(t)
  BY <1>1 DEF Coming, Shaped
<1>13. \A q \in Procs \ {p} : Purging(task[q]) => task[q].id # n
  <2>1. TAKE q \in Procs \ {p}
  <2>2. HAVE Purging(task[q])
  <2>3. Alone /\ task[q].seen.id = task[q].id /\ task[q].seen.id <= minted /\ task[q].id \in Nat
    BY <2>2, Stage, Places DEF Purging, Shaped, Tasks
  <2>4. CASE t.id = 0
    BY <1>1, <2>3, <2>4
  <2>5. CASE t.id # 0
    <3>1. Unborn(p)
      BY DEF NInv, Guarded
    <3> QED BY <1>12, <2>3, <2>5, <3>1 DEF Unborn
  <2> QED BY <2>4, <2>5
<1>14. \A q \in Procs \ {p} : Coming(task[q]) => task[q].id # n /\ ~Registered(task[q].id)
  <2>1. TAKE q \in Procs \ {p}
  <2>2. HAVE Coming(task[q])
  <2>3. Alone /\ task[q].id <= minted /\ task[q].id \in Nat
    BY <2>2, Stage, Places DEF Coming, Shaped, Tasks
  <2>4. Unborn(q)
    BY DEF NInv, Guarded
  <2>5. CASE t.id = 0
    BY <1>1, <2>2, <2>3, <2>4, <2>5 DEF Unborn
  <2>6. CASE t.id # 0
    BY <1>12, <2>2, <2>3, <2>4, <2>6 DEF Unborn
  <2> QED BY <2>5, <2>6
<1>15. disturbed' = "no" =>
           /\ \A q \in Procs \ {p} : task[q] = NoTask
           /\ \A f \in Entries' : u.repo \in f.repos /\ Looked(u) => f.id = Own(u)
           /\ \A f \in Entries' : \A s \in f.repos :
                (Valid(s)' /\ configs'[s].id = f.id) \/ (u.repo = s /\ Between(u))
           /\ u.cmd = "reconnect" => IF u.at = "config" THEN u.old = u.id
                                     ELSE configs'[u.repo].id = u.id
  <2> SUFFICES ASSUME disturbed = "no"
               PROVE  /\ \A q \in Procs \ {p} : task[q] = NoTask
                      /\ \A f \in Entries' : r \in f.repos => f.id = n
                      /\ \A f \in Entries' : \A s \in f.repos : (Valid(s)' /\ configs'[s].id = f.id) \/ r = s
    BY <1>2 DEF Own, Between, Looked
  <2>1. Looked(t) /\ Own(t) = t.id /\ ~Between(t)
    BY DEF Looked, Own, Between
  <2>2. \A f \in Entries : r \notin f.repos
    BY <1>1, <1>8, <1>9, <2>1, AllAlone DEF Registered
  <2>3. \A f \in Entries : \A s \in f.repos : Valid(s) /\ configs[s].id = f.id
    BY <1>1, <2>1, AllAlone
  <2>4. \A f \in Entries' : r \in f.repos => f.id = n
    BY <1>5, <1>10, <2>2
  <2>5. \A f \in Entries' : \A s \in f.repos : (Valid(s)' /\ configs'[s].id = f.id) \/ r = s
    BY <1>5, <1>10, <2>3 DEF Valid
  <2> QED BY <1>1, <2>4, <2>5, AllAlone
<1>16. Keeps(p)' /\ Spared(p)' /\ ~Coming(u) /\ ~Linking(u)
  BY <1>2, <1>3 DEF Keeps, Spared, Coming, Linking
<1>17. Shaped(u, minted') /\ u.cmd \in Commands[p] \union {"none"}
  <2>1. t.seen = NoEntry /\ NoEntry.id = 0
    BY <1>1, Idle DEF Shaped
  <2> QED BY <1>1, <1>2, <1>4, <2>1, Idle DEF Shaped, Fresh
<1>18. /\ \A q \in Procs \ {p} : Purging(task[q]) => \A i : i = task[q].id =>
            EntryOf(i)'.repos \subseteq EntryOf(i).repos
       /\ \A q \in Procs \ {p} : Coming(task[q]) => \A i : i = task[q].id => ~Registered(i)'
  BY <1>10, <1>13, <1>14
<1>19. /\ cloud' = cloud /\ hands' = hands
       /\ disturbed' \in {"no", "rebound", "yes"} /\ (disturbed' = "no" => disturbed = "no")
       /\ guard' \in [Ids -> Procs \union {Nobody}] /\ guard' = guard
       /\ configs' \in [Repos -> [id : 0 .. MaxId, name : Known, mode : Modes \union {"absent", "broken"}]]
       /\ \A s \in Repos : Valid(s)' => configs'[s].id # 0
  BY DEF NInv, NTypeOK, Valid
<1> QED BY <1>2, <1>3, <1>7, <1>10, <1>11, <1>15, <1>16, <1>17, <1>18, <1>19, Turn

(* Init and adopt register under an id nobody holds, or leave.                   *)
LEMMA RegisterStep ==
  ASSUME NInv, NEW p \in Procs, Register(p)
  PROVE  NInv'
<1> DEFINE t == task[p]
<1>0. PICK r : r = task[p].repo
  OBVIOUS
<1>1. /\ t.cmd \in {"init", "adopt"} /\ t.at = "register"
      /\ UNCHANGED <<configs, cloud, hands, disturbed>>
  BY DEF Register, At, Same
<1>2. t \in Tasks /\ Shaped(t, minted) /\ t # NoTask /\ minted \in Nat /\ minted \in 0 .. MaxId
      /\ t.id <= minted
  BY <1>1, Stage DEF Shaped
<1>3. CASE t.id # 0 /\ ~Registered(t.id)
  <2>0. PICK n : n = t.id
    OBVIOUS
  <2>1. /\ RegisterProject(n, t.name, "cloud", r) /\ Goto(p, "config")
        /\ UNCHANGED <<guard, minted>>
    BY <1>0, <1>3, <2>0 DEF Register
  <2>2. [t EXCEPT !.id = n, !.at = "config"] = [t EXCEPT !.at = "config"]
    BY <1>2, <2>0 DEF Tasks
  <2>3. task' = [task EXCEPT ![p] = [t EXCEPT !.id = n, !.at = "config"]]
    BY <2>1, <2>2, Stage DEF Goto
  <2>4. n \in Ids /\ "cloud" \in Modes
    BY <1>3, <2>0, Stage DEF Modes
  <2>5. /\ IF t.id = 0 THEN n > minted ELSE n = t.id /\ ~Registered(n)
        /\ minted' \in 0 .. MaxId /\ minted <= minted' /\ n <= minted'
    BY <1>2, <1>3, <2>0, <2>1
  <2> QED BY <1>0, <1>1, <2>1, <2>3, <2>4, <2>5, Registering
<1>4. CASE t.id = 0 /\ minted < MaxId
  <2> DEFINE n == minted + 1
  <2>1. minted' = n /\ UNCHANGED guard
    BY <1>4 DEF Register
  <2>2. RegisterProject(minted', t.name, "local", r)
        /\ task' = [task EXCEPT ![p].id = minted', ![p].at = "config"]
    BY <1>0, <1>4 DEF Register
  <2>3. RegisterProject(n, t.name, "local", r)
    BY <2>1, <2>2
  <2>4. task' = [task EXCEPT ![p] = [t EXCEPT !.id = n, !.at = "config"]]
    BY <2>1, <2>2, Stage
  <2>5. n \in Ids /\ "local" \in Modes /\ n > minted /\ n \in 0 .. MaxId /\ minted <= n /\ n <= n
    BY <1>2, <1>4, Places DEF Ids, Modes
  <2> HIDE DEF n
  <2> QED BY <1>0, <1>1, <1>4, <2>1, <2>3, <2>4, <2>5, Registering
<1>5. CASE ~(t.id # 0 /\ ~Registered(t.id)) /\ ~(t.id = 0 /\ minted < MaxId)
  <2>1. Leave(p) /\ UNCHANGED <<registry, stores, minted>>
    BY <1>5 DEF Register
  <2> QED BY <1>1, <1>2, <2>1, Stage, Leaves DEF Between
<1> QED BY <1>3, <1>4, <1>5

(* A repository joins an entry whose guard the command holds, or the entry is    *)
(* made for it.                                                                *)
Joining(p, i, r, e) ==
  /\ guard[i] = p /\ i = task[p].id /\ i <= minted /\ r = task[p].repo /\ e.id = i
  /\ \/ Registered(i) /\ Replace(i, e) /\ e.repos = EntryOf(i).repos \union {r}
     \/ /\ ~Registered(i) /\ registry' = Append(registry, e) /\ e.repos = {r}
        /\ Alone => \A q \in Procs \ {p} : "init" \notin Commands[q]
  /\ minted' = minted /\ configs' = configs
  /\ task[p].at \in {"add", "bind"}

(* What a changed registry owes the others: ids given out, no repository added to *)
(* a project about to be purged, no entry for an id init waits to register.      *)
Owes(p) ==
  /\ Kept(registry') /\ \A f \in Entries' : f.id <= minted'
  /\ \A q \in Procs \ {p} : Purging(task[q]) => \A j : j = task[q].id =>
       EntryOf(j)'.repos \subseteq EntryOf(j).repos
  /\ \A q \in Procs \ {p} : Coming(task[q]) => \A j : j = task[q].id => ~Registered(j)'

(* While nothing interferes the repository has this owner, the others are named   *)
(* by their configs.                                                             *)
OwnedNow(p, i, r) ==
  disturbed = "no" =>
    /\ \A q \in Procs \ {p} : task[q] = NoTask
    /\ \A f \in Entries' : r \in f.repos => f.id = i
    /\ \A f \in Entries' : \A s \in f.repos : (Valid(s)' /\ configs'[s].id = f.id) \/ s = r

(* Whatever joins keeps those two.                                              *)
LEMMA Claiming ==
  ASSUME NInv, NEW p \in Procs, NEW i \in Ids, NEW r \in Repos, NEW e \in EntryType, Joining(p, i, r, e)
  PROVE  Owes(p) /\ OwnedNow(p, i, r)
<1> DEFINE t == task[p]
<1>0. /\ guard[i] = p /\ i = task[p].id /\ i <= minted /\ r = task[p].repo /\ e.id = i
      /\ \/ Registered(i) /\ Replace(i, e) /\ e.repos = EntryOf(i).repos \union {r}
         \/ /\ ~Registered(i) /\ registry' = Append(registry, e) /\ e.repos = {r}
            /\ Alone => \A q \in Procs \ {p} : "init" \notin Commands[q]
      /\ minted' = minted /\ configs' = configs
      /\ task[p].at \in {"add", "bind"}
  BY DEF Joining
<1> USE <1>0
<1>1. Kept(registry)
  BY Keeping DEF NInv
<1>2. \A f \in Entries : f.id <= minted
  BY DEF NInv, Issued
<1>3. t # NoTask /\ Looked(t) /\ Own(t) = t.id /\ ~Between(t)
  <2>1. t # NoTask
    BY Stage
  <2> QED BY <2>1 DEF Looked, Own, Between
<1>4. \A q \in Procs \ {p} : Purging(task[q]) => task[q].id # i
  <2>1. TAKE q \in Procs \ {p}
  <2>2. HAVE Purging(task[q])
  <2>3. Keeps(q)
    BY DEF NInv, Guarded
  <2> QED BY <2>2, <2>3 DEF Purging, Keeps
<1>5. /\ Kept(registry') /\ \A j : j # i => EntryOf(j)' = EntryOf(j) /\ (Registered(j)' <=> Registered(j))
      /\ \A f \in Entries' : f \in Entries \/ f = e
  <2>1. CASE Registered(i) /\ Replace(i, e)
    BY <1>1, <2>1, Changes
  <2>2. CASE ~Registered(i) /\ registry' = Append(registry, e)
    BY <1>1, <2>2, Joins
  <2> QED BY <2>1, <2>2
<1>7. \A q \in Procs \ {p} : Coming(task[q]) => \A j : j = task[q].id => ~Registered(j)'
  <2>1. TAKE q \in Procs \ {p}
  <2>2. HAVE Coming(task[q])
  <2>3. Alone /\ Unborn(q) /\ "init" \in Commands[q]
    BY <2>2, Stage DEF NInv, Guarded, Coming
  <2>4. Registered(i) /\ ~Registered(task[q].id)
    BY <2>2, <2>3 DEF Unborn
  <2> QED BY <1>5, <2>4
<1>8. ASSUME disturbed = "no"
      PROVE  /\ \A q \in Procs \ {p} : task[q] = NoTask
             /\ \A f \in Entries' : r \in f.repos => f.id = i
             /\ \A f \in Entries' : \A s \in f.repos :
                  (Valid(s)' /\ configs'[s].id = f.id) \/ s = r
  <2>1. \A f \in Entries : r \in f.repos => f.id = i
    BY <1>3, <1>8, AllAlone
  <2>2. \A f \in Entries : \A s \in f.repos : Valid(s) /\ configs[s].id = f.id
    BY <1>3, <1>8, AllAlone
  <2>3. \A s \in e.repos : s = r \/ (Valid(s) /\ configs[s].id = i)
    <3>1. Registered(i) => EntryOf(i) \in Entries /\ EntryOf(i).id = i
      BY <1>1, EntryFound
    <3> QED BY <2>2, <3>1
  <2>4. \A q \in Procs \ {p} : task[q] = NoTask
    BY <1>3, <1>8, AllAlone
  <2>5. \A f \in Entries' : r \in f.repos => f.id = i
    BY <1>5, <2>1
  <2>6. \A f \in Entries' : \A s \in f.repos : (Valid(s)' /\ configs'[s].id = f.id) \/ s = r
    BY <1>5, <2>2, <2>3 DEF Valid
  <2> QED BY <2>4, <2>5, <2>6
<1>9. \A q \in Procs \ {p} : Purging(task[q]) => \A j : j = task[q].id =>
              EntryOf(j)'.repos \subseteq EntryOf(j).repos
  BY <1>4, <1>5
<1>10. \A f \in Entries' : f.id <= minted'
  BY <1>2, <1>5
<1> QED BY <1>5, <1>7, <1>8, <1>9, <1>10 DEF Owes, OwnedNow

(* A repository that joins goes on to have its config written.                *)
LEMMA Joined ==
  ASSUME NInv, NEW p \in Procs, NEW i \in Ids, NEW r \in Repos, NEW e \in EntryType, Joining(p, i, r, e),
         UNCHANGED <<configs, stores, cloud, guard, minted, hands, disturbed>>,
         task[p].cmd \in {"add", "attach", "reconnect"},
         NEW u \in Tasks, task' = [task EXCEPT ![p] = u],
         u.at = "config", u.cmd = task[p].cmd, u.id = i, u.repo = r,
         u.seen = task[p].seen, u.purge = task[p].purge,
         u.cmd = "reconnect" => u.old # 0 /\ (disturbed = "no" => u.old = i)
  PROVE  NInv'
<1> DEFINE t == task[p]
<1>1. t \in Tasks /\ Shaped(t, minted) /\ t # NoTask /\ minted \in Nat /\ minted \in 0 .. MaxId
      /\ t.cmd \in Commands[p] \union {"none"} /\ i # 0
  BY Stage, Places DEF Ids
<1>2. task'[p] = u /\ t.at \in {"add", "bind"} /\ i = t.id /\ r = t.repo /\ i <= minted
  BY Stage DEF Joining
<1>3. Owes(p) /\ OwnedNow(p, i, r)
  BY Claiming
<1>4. Shaped(u, minted') /\ u.cmd \in Commands[p] \union {"none"}
  <2>1. u.seen = t.seen /\ u.purge = t.purge /\ minted' = minted
    OBVIOUS
  <2>2. t.seen = NoEntry /\ NoEntry.id = 0
    BY <1>1, Idle DEF Shaped
  <2> QED BY <1>1, <1>2, <2>1, <2>2, Idle DEF Shaped, Fresh
<1>5. Keeps(p)' /\ Spared(p)' /\ ~Coming(u) /\ ~Linking(u) /\ Own(u) = i /\ Between(u)
  BY <1>2 DEF Keeps, Spared, Coming, Linking, Own, Between
<1>6. disturbed' = "no" =>
           /\ \A q \in Procs \ {p} : task[q] = NoTask
           /\ \A f \in Entries' : u.repo \in f.repos /\ Looked(u) => f.id = Own(u)
           /\ \A f \in Entries' : \A s \in f.repos :
                (Valid(s)' /\ configs'[s].id = f.id) \/ (u.repo = s /\ Between(u))
           /\ u.cmd = "reconnect" => IF u.at = "config" THEN u.old = u.id
                                     ELSE configs'[u.repo].id = u.id
  BY <1>3, <1>5 DEF OwnedNow
<1>7. /\ stores' \in [Ids -> {"none", "empty", "full"}]
      /\ cloud' = cloud /\ minted' \in 0 .. MaxId /\ minted <= minted' /\ hands' = hands
      /\ disturbed' \in {"no", "rebound", "yes"} /\ (disturbed' = "no" => disturbed = "no")
      /\ guard' \in [Ids -> Procs \union {Nobody}] /\ guard' = guard
      /\ configs' \in [Repos -> [id : 0 .. MaxId, name : Known, mode : Modes \union {"absent", "broken"}]]
      /\ \A s \in Repos : Valid(s)' => configs'[s].id # 0
  BY <1>1 DEF NInv, NTypeOK, Valid
<1> QED BY <1>2, <1>3, <1>4, <1>5, <1>6, <1>7, Turn DEF Owes

(* Init --add-repo adds its path under the guard.                               *)
LEMMA AddRepoAddStep ==
  ASSUME NInv, NEW p \in Procs, AddRepoAdd(p)
  PROVE  NInv'
<1> DEFINE t == task[p]
<1>1. /\ t.at = "add" /\ t.cmd = "add"
      /\ UNCHANGED <<configs, stores, cloud, minted, hands, disturbed>>
  BY DEF AddRepoAdd, At, Same
<1>2. t \in Tasks /\ Shaped(t, minted) /\ t.id \in Ids /\ t # NoTask /\ t.repo \in Repos
  BY <1>1, Stage DEF Shaped, Fresh
<1>3. CASE ~Registered(t.id)
  <2>1. Leave(p) /\ UNCHANGED registry
    BY <1>3 DEF AddRepoAdd
  <2> QED BY <1>1, <1>2, <2>1, Stage, Leaves DEF Between
<1>4. CASE Registered(t.id)
  <2>1. PICK i \in Ids, r \in Repos : i = t.id /\ r = t.repo
    BY <1>2
  <2>2. AddRepo(i, r) /\ Goto(p, "config") /\ UNCHANGED guard
    BY <1>4, <2>1 DEF AddRepoAdd
  <2> DEFINE e == [EntryOf(i) EXCEPT !.repos = @ \union {r}]
             u == [t EXCEPT !.at = "config"]
  <2>3. EntryOf(i) \in EntryType /\ EntryOf(i) \in Entries /\ EntryOf(i).id = i
    BY <1>4, <2>1, Keeping, EntryFound DEF NInv
  <2>4. e \in EntryType /\ e.id = i /\ e.repos = EntryOf(i).repos \union {r} /\ Replace(i, e)
    BY <2>2, <2>3 DEF EntryType, AddRepo
  <2>5. i <= minted
    BY <2>3 DEF NInv, Issued
  <2>6. guard[i] = p
    BY <1>1, <2>1 DEF NInv, Guarded, Keeps
  <2>7. /\ u \in Tasks /\ u.at = "config" /\ u.cmd = t.cmd /\ u.id = i /\ u.repo = r
        /\ u.seen = t.seen /\ u.purge = t.purge
    BY <1>2, <2>1 DEF Tasks, Stages
  <2>8. task' = [task EXCEPT ![p] = u]
    BY <2>2, Stage DEF Goto
  <2> HIDE DEF e, u
  <2>9. Registered(i) /\ Replace(i, e) /\ e.repos = EntryOf(i).repos \union {r}
    BY <1>4, <2>1, <2>4
  <2>10. /\ UNCHANGED <<configs, stores, cloud, guard, minted, hands, disturbed>>
         /\ Joining(p, i, r, e) /\ task[p].cmd \in {"add", "attach", "reconnect"}
         /\ u.cmd = "reconnect" => u.old # 0 /\ (disturbed = "no" => u.old = i)
    BY <1>1, <2>1, <2>2, <2>4, <2>5, <2>6, <2>7, <2>9 DEF Joining
  <2> QED BY <2>4, <2>7, <2>8, <2>10, Joined
<1> QED BY <1>3, <1>4

(* Who claims a repository for a project: attach and reconnect, which no process *)
(* runs while another may hold an id the server has just minted for init.        *)
LEMMA BindStep ==
  ASSUME NInv, NEW p \in Procs, Bind(p)
  PROVE  NInv'
<1> DEFINE t == task[p]
<1>1. /\ t.at = "bind" /\ t.cmd \in {"attach", "reconnect"}
      /\ UNCHANGED <<configs, stores, cloud, minted, hands, disturbed>>
  BY DEF Bind, At, Same
<1>2. t \in Tasks /\ Shaped(t, minted) /\ t.id \in Ids /\ t # NoTask /\ t.repo \in Repos
      /\ t.id <= minted /\ t.cmd \in Commands[p]
  BY <1>1, Stage DEF Shaped, Fresh
<1>3. PICK i \in Ids, r \in Repos : i = t.id /\ r = t.repo
  BY <1>2
<1>4. CASE ~ (HasStore(i) /\ CanBind(i) /\ (t.cmd = "reconnect" => configs[r].mode = "cloud"))
  <2>1. Leave(p) /\ UNCHANGED registry
    BY <1>3, <1>4 DEF Bind
  <2> QED BY <1>1, <1>2, <2>1, Stage, Leaves DEF Between
<1>5. CASE HasStore(i) /\ CanBind(i) /\ (t.cmd = "reconnect" => configs[r].mode = "cloud")
  <2>1. BindStore(i, t.name, r)
    BY <1>3, <1>5 DEF Bind
  <2>2. PICK n \in Known : n = t.name
    BY <1>2 DEF Tasks
  <2> DEFINE e == IF Registered(i) THEN [EntryOf(i) EXCEPT !.name = n, !.repos = @ \union {r}]
                  ELSE [id |-> i, name |-> n, mode |-> "cloud", repos |-> {r}]
  <2>3. Registered(i) => EntryOf(i) \in EntryType /\ EntryOf(i).id = i
    BY Keeping, EntryFound DEF NInv
  <2>4. e \in EntryType /\ e.id = i
    BY <2>3 DEF EntryType, Modes
  <2>5. Alone => \A q \in Procs \ {p} : "init" \notin Commands[q]
    BY <1>1, <1>2 DEF Alone
  <2>6. \/ Registered(i) /\ Replace(i, e) /\ e.repos = EntryOf(i).repos \union {r}
        \/ /\ ~Registered(i) /\ registry' = Append(registry, e) /\ e.repos = {r}
           /\ Alone => \A q \in Procs \ {p} : "init" \notin Commands[q]
    <3>1. CASE Registered(i)
      BY <2>1, <2>2, <2>3, <3>1 DEF BindStore, EntryType
    <3>2. CASE ~Registered(i)
      BY <2>1, <2>2, <2>5, <3>2 DEF BindStore
    <3> QED BY <3>1, <3>2
  <2> HIDE DEF e
  <2>7. guard[i] = p
    BY <1>1, <1>3 DEF NInv, Guarded, Keeps
  <2>8. t.cmd = "reconnect" =>
          /\ Valid(r) /\ configs[r].id # 0 /\ configs[r].id \in 0 .. MaxId
          /\ disturbed = "no" => configs[r].id = i
    <3>1. t.cmd = "reconnect" /\ disturbed = "no" => configs[r].id = i
      BY <1>1, <1>2, <1>3, AllAlone
    <3> QED BY <1>5, <3>1 DEF NInv, NTypeOK, Valid, Modes
  <2>9. Joining(p, i, r, e)
    BY <1>1, <1>2, <1>3, <2>4, <2>6, <2>7 DEF Joining
  <2>10. CASE t.cmd = "reconnect" /\ configs[r].name = t.name
    <3>1. Leave(p)
      BY <1>3, <1>5, <2>10 DEF Bind
    <3>2. Owes(p) /\ OwnedNow(p, i, r)
      BY <2>4, <2>9, Claiming
    <3>3. \A f \in Entries' : "none" \notin f.repos
      BY <3>2, EntryFoundNext, Places DEF EntryType, Owes
    <3>4. disturbed' = "no" =>
           /\ \A q \in Procs \ {p} : task[q] = NoTask
           /\ \A f \in Entries' : NoTask.repo \in f.repos /\ Looked(NoTask) => f.id = Own(NoTask)
           /\ \A f \in Entries' : \A s \in f.repos :
                (Valid(s)' /\ configs'[s].id = f.id) \/ (NoTask.repo = s /\ Between(NoTask))
           /\ NoTask.cmd = "reconnect" => IF NoTask.at = "config" THEN NoTask.old = NoTask.id
                                     ELSE configs'[NoTask.repo].id = NoTask.id
      <4>1. disturbed = "no" => Valid(r)' /\ configs'[r].id = i
        BY <1>1, <2>8, <2>10 DEF Valid
      <4> QED BY <1>1, <3>1, <3>2, <3>3, <4>1, Left DEF OwnedNow
    <3>5. /\ stores' \in [Ids -> {"none", "empty", "full"}]
          /\ cloud' = cloud /\ minted' \in 0 .. MaxId /\ minted <= minted' /\ hands' = hands
          /\ disturbed' \in {"no", "rebound", "yes"} /\ (disturbed' = "no" => disturbed = "no")
          /\ configs' \in [Repos -> [id : 0 .. MaxId, name : Known, mode : Modes \union {"absent", "broken"}]]
          /\ \A s \in Repos : Valid(s)' => configs'[s].id # 0
          /\ minted' \in Nat
      BY <1>1, Stage DEF NInv, NTypeOK, Valid
    <3>6. Shaped(NoTask, minted') /\ NoTask.cmd \in Commands[p] \union {"none"}
      BY <3>1, <3>5, Left
    <3> QED BY <3>1, <3>2, <3>4, <3>5, <3>6, Left, Turn DEF Owes
  <2>11. CASE ~(t.cmd = "reconnect" /\ configs[r].name = t.name)
    <3> DEFINE o == IF t.cmd = "reconnect" THEN configs[r].id ELSE 0
               u == [t EXCEPT !.at = "config", !.old = o]
    <3>1. task' = [task EXCEPT ![p].at = "config", ![p].old = o] /\ UNCHANGED guard
      BY <1>3, <1>5, <2>11 DEF Bind
    <3>2. o \in 0 .. MaxId
      BY <2>8, Places
    <3>3. /\ u \in Tasks /\ u.at = "config" /\ u.cmd = t.cmd /\ u.id = i /\ u.repo = r
          /\ u.seen = t.seen /\ u.purge = t.purge /\ u.old = o
      BY <1>2, <1>3, <3>2 DEF Tasks, Stages
    <3>4. task' = [task EXCEPT ![p] = u]
      BY <3>1, Stage
    <3>5. u.cmd = "reconnect" => u.old # 0 /\ (disturbed = "no" => u.old = i)
      BY <2>8, <3>3
    <3> HIDE DEF u, o
    <3>6. /\ UNCHANGED <<configs, stores, cloud, guard, minted, hands, disturbed>>
          /\ task[p].cmd \in {"add", "attach", "reconnect"}
      BY <1>1, <3>1
    <3> QED BY <2>4, <2>9, <3>3, <3>4, <3>5, <3>6, Joined
  <2> QED BY <2>10, <2>11
<1> QED BY <1>4, <1>5

(* Link's entry moves to an id nobody else holds, under both guards; what else    *)
(* its repositories' configs name, only the entry's own is rewritten.             *)
LEMMA LinkMoveStep ==
  ASSUME NInv, NEW p \in Procs, LinkMove(p)
  PROVE  NInv'
<1> DEFINE t == task[p]
<1>1. /\ t.at = "move" /\ t.cmd = "link"
      /\ UNCHANGED <<configs, cloud, minted, hands>>
  BY DEF LinkMove, At
<1>2. /\ t \in Tasks /\ Shaped(t, minted) /\ t.id \in Ids /\ t.old \in Ids /\ t # NoTask
      /\ t.repo \in Repos /\ t.id <= minted
  BY <1>1, Stage DEF Shaped, Fresh
<1>3. PICK i \in Ids, o \in Ids, r \in Repos : i = t.id /\ o = t.old /\ r = t.repo
  BY <1>2
<1>4. disturbed \in {"no", "rebound", "yes"}
  BY DEF NInv, NTypeOK
<1> DEFINE A == Registered(o) /\ stores[o] = "full" /\ ~HasStore(i) /\ ~Registered(i)
<1>5. CASE ~A
  <2>1. Leave(p) /\ UNCHANGED <<registry, stores, disturbed>>
    BY <1>3, <1>5 DEF LinkMove
  <2> QED BY <1>1, <1>2, <2>1, Stage, Leaves DEF Between
<1>6. CASE A /\ Leave(p) /\ UNCHANGED registry /\ disturbed' = "yes"
  <2>1. stores' = [stores EXCEPT ![o] = "none", ![i] = stores[o]]
    BY <1>3, <1>6 DEF LinkMove
  <2>2. stores' \in [Ids -> {"none", "empty", "full"}]
    BY <2>1, Stage
  <2> QED BY <1>1, <1>2, <1>6, <2>2, Stage, Leaves
<1>7. CASE A /\ ~(Leave(p) /\ UNCHANGED registry /\ disturbed' = "yes")
  <2> DEFINE e == [EntryOf(o) EXCEPT !.id = i, !.mode = "cloud"]
             u == [t EXCEPT !.at = "config"]
  <2>1. /\ stores' = [stores EXCEPT ![o] = "none", ![i] = stores[o]]
        /\ registry' = Append(Without(o), e) /\ Goto(p, "config") /\ UNCHANGED guard
        /\ disturbed' = IF disturbed = "no" /\ ~ (EntryOf(o).repos \subseteq {r})
                        THEN "rebound" ELSE disturbed
    BY <1>3, <1>7 DEF LinkMove
  <2>2. EntryOf(o) \in EntryType /\ EntryOf(o) \in Entries /\ EntryOf(o).id = o
    BY <1>7, Keeping, EntryFound DEF NInv
  <2>3. e \in EntryType /\ e.id = i /\ e.repos = EntryOf(o).repos
    BY <2>2 DEF EntryType, Modes
  <2>4. stores' \in [Ids -> {"none", "empty", "full"}]
    BY <2>1, Stage
  <2>5. /\ u \in Tasks /\ u.at = "config" /\ u.cmd = "link" /\ u.id = i /\ u.repo = r
        /\ u.seen = t.seen /\ u.purge = t.purge
    BY <1>1, <1>2, <1>3 DEF Tasks, Stages
  <2>6. task' = [task EXCEPT ![p] = u] /\ task'[p] = u
    BY <2>1, Stage DEF Goto
  <2> HIDE DEF e, u
  <2>7. /\ Kept(registry') /\ Entries' = {f \in Entries : f.id # o} \union {e}
        /\ \A j : j \notin {o, i} => EntryOf(j)' = EntryOf(j) /\ (Registered(j)' <=> Registered(j))
    <3>1. ~Registered(e.id) /\ Kept(registry)
      BY <1>7, <2>3, Keeping DEF NInv
    <3> QED BY <2>1, <2>3, <3>1, Rekeys
  <2>8. Owes(p)
    <3>1. \A f \in Entries' : f.id <= minted'
      BY <1>1, <1>2, <1>3, <2>3, <2>7 DEF NInv, Issued
    <3>2. \A q \in Procs \ {p} : Purging(task[q]) => task[q].id \notin {o, i}
      <4>1. guard[o] = p /\ guard[i] = p
        BY <1>1, <1>3 DEF NInv, Guarded, Keeps
      <4>2. \A q \in Procs \ {p} : Purging(task[q]) => guard[task[q].id] = q
        BY DEF NInv, Guarded, Keeps, Purging
      <4> QED BY <4>1, <4>2
    <3>3. \A q \in Procs \ {p} : Coming(task[q]) => task[q].id \notin {o, i} /\ ~Registered(task[q].id)
      <4>1. TAKE q \in Procs \ {p}
      <4>2. HAVE Coming(task[q])
      <4>3. Unborn(q) /\ Linking(t)
        BY <1>1 DEF NInv, Guarded, Linking
      <4> QED BY <1>3, <1>7, <4>2, <4>3 DEF Unborn
    <3> QED BY <2>7, <3>1, <3>2, <3>3 DEF Owes
  <2>9. Shaped(u, minted') /\ u.cmd \in Commands[p] \union {"none"}
    <3>1. t.seen = NoEntry /\ NoEntry.id = 0
      BY <1>1, <1>2, Idle DEF Shaped
    <3>2. t.cmd \in Commands[p] \union {"none"} /\ minted \in Nat /\ i \in Nat /\ i # 0
      BY Stage DEF Ids
    <3>3. t.purge => t.seen.repos \subseteq {t.repo}
      BY <1>2 DEF Shaped
    <3> QED BY <1>1, <1>2, <1>3, <2>5, <3>1, <3>2, <3>3, Idle DEF Shaped, Fresh
  <2>10. Keeps(p)' /\ Spared(p)' /\ ~Coming(u) /\ ~Linking(u) /\ Own(u) = i /\ Between(u)
    BY <2>5, <2>6 DEF Keeps, Spared, Coming, Linking, Own, Between
  <2>11. disturbed' = "no" =>
           /\ \A q \in Procs \ {p} : task[q] = NoTask
           /\ \A f \in Entries' : u.repo \in f.repos /\ Looked(u) => f.id = Own(u)
           /\ \A f \in Entries' : \A s \in f.repos :
                (Valid(s)' /\ configs'[s].id = f.id) \/ (u.repo = s /\ Between(u))
           /\ u.cmd = "reconnect" => IF u.at = "config" THEN u.old = u.id
                                     ELSE configs'[u.repo].id = u.id
    <3> SUFFICES ASSUME disturbed' = "no"
                 PROVE  /\ \A q \in Procs \ {p} : task[q] = NoTask
                        /\ \A f \in Entries' : r \in f.repos => f.id = i
                        /\ \A f \in Entries' : \A s \in f.repos : (Valid(s) /\ configs[s].id = f.id) \/ r = s
      BY <1>1, <2>5, <2>10 DEF Valid
    <3>1. disturbed = "no" /\ e.repos \subseteq {r}
      BY <2>1, <2>3
    <3>2. Looked(t) /\ Own(t) = o /\ ~Between(t)
      BY <1>1, <1>3 DEF Looked, Own, Between
    <3>3. \A f \in Entries : r \in f.repos => f.id = o
      BY <1>2, <1>3, <3>1, <3>2, AllAlone
    <3>4. \A f \in Entries : \A s \in f.repos : Valid(s) /\ configs[s].id = f.id
      BY <1>2, <3>1, <3>2, AllAlone
    <3>5. \A f \in Entries' : r \in f.repos => f.id = i
      BY <2>3, <2>7, <3>3
    <3>6. \A f \in Entries' : \A s \in f.repos : (Valid(s) /\ configs[s].id = f.id) \/ r = s
      BY <2>7, <3>1, <3>4
    <3> QED BY <1>2, <3>1, <3>5, <3>6, AllAlone
  <2>12. /\ cloud' = cloud /\ minted' \in 0 .. MaxId /\ minted <= minted' /\ hands' = hands
         /\ disturbed' \in {"no", "rebound", "yes"} /\ (disturbed' = "no" => disturbed = "no")
         /\ guard' \in [Ids -> Procs \union {Nobody}] /\ guard' = guard
         /\ configs' \in [Repos -> [id : 0 .. MaxId, name : Known, mode : Modes \union {"absent", "broken"}]]
         /\ \A s \in Repos : Valid(s)' => configs'[s].id # 0
    BY <1>1, <1>4, <2>1, Stage DEF NInv, NTypeOK, Valid
  <2>13. u.seen = NoEntry \/ u.seen = task[p].seen
    BY <2>5
  <2> QED BY <2>4, <2>5, <2>6, <2>8, <2>9, <2>10, <2>11, <2>12, <2>13, Turn DEF Owes
<1> QED BY <1>5, <1>6, <1>7

(* Dropping an entry or a path from it: no entry gains a repository, and the      *)
(* command's own is listed under its project no longer.                          *)
LEMMA DropEntryStep ==
  ASSUME NInv, NEW p \in Procs, DropEntry(p)
  PROVE  NInv'
<1> DEFINE t == task[p]
<1>1. /\ t.at = "drop" /\ t.cmd \in {"unadopt", "rm"}
      /\ UNCHANGED <<configs, stores, cloud, minted, hands, disturbed>>
  BY DEF DropEntry, At, Same
<1>2. t \in Tasks /\ Shaped(t, minted) /\ t.id \in Ids /\ t # NoTask
      /\ t.cmd \in Commands[p] \union {"none"} /\ minted \in Nat
  BY <1>1, Stage DEF Shaped, Fresh
<1>3. PICK i \in Ids, r \in Repos \union {"none"} : i = t.id /\ r = t.repo
  BY <1>2 DEF Tasks
<1>4. Kept(registry) /\ EntryOf(i) \in EntryType \union {NoEntry}
  BY Keeping, EntryFound DEF NInv
<1>5. /\ Kept(registry')
      /\ \A f \in Entries' : \E g \in Entries : g.id = f.id /\ f.repos \subseteq g.repos
      /\ \A f \in Entries' : f.id = i => t.cmd = "unadopt" /\ r \notin f.repos
      /\ \A j : EntryOf(j)'.repos \subseteq EntryOf(j).repos /\ (Registered(j)' => Registered(j))
  <2>1. CASE registry' = Without(i)
    <3>1. /\ Kept(registry') /\ Entries' = {e \in Entries : e.id # i}
          /\ \A j : j # i => EntryOf(j)' = EntryOf(j) /\ (Registered(j)' <=> Registered(j))
          /\ ~Registered(i)' /\ EntryOf(i)' = NoEntry
      BY <1>4, <2>1, Drops
    <3> QED BY <3>1, Idle
  <2>2. CASE t.cmd = "unadopt" /\ Registered(i) /\ RemoveRepo(i, r)
    <3> DEFINE e == [EntryOf(i) EXCEPT !.repos = @ \ {r}]
    <3>1. EntryOf(i) \in EntryType /\ EntryOf(i) \in Entries /\ EntryOf(i).id = i
      BY <1>4, <2>2, EntryFound
    <3>2. e \in EntryType /\ e.id = i /\ e.repos = EntryOf(i).repos \ {r} /\ Replace(i, e)
      BY <2>2, <3>1 DEF EntryType, RemoveRepo
    <3> HIDE DEF e
    <3>3. /\ Kept(registry') /\ Entries' = {f \in Entries : f.id # i} \union {e}
          /\ \A j : j # i => EntryOf(j)' = EntryOf(j)
          /\ \A j : Registered(j)' <=> Registered(j)
          /\ EntryOf(i)' = e
      BY <1>4, <2>2, <3>2, Changes
    <3> QED BY <2>2, <3>1, <3>2, <3>3
  <2>3. CASE t.cmd = "unadopt" /\ ~Registered(i) /\ UNCHANGED registry
    BY <2>3, SameRegistry DEF Registered
  <2> QED BY <1>1, <1>3, <2>1, <2>2, <2>3 DEF DropEntry
<1>6. Owes(p)
  <2>1. \A f \in Entries' : f.id <= minted'
    BY <1>1, <1>5 DEF NInv, Issued
  <2>2. \A q \in Procs \ {p} : Coming(task[q]) => ~Registered(task[q].id)
    BY DEF NInv, Guarded, Unborn
  <2> QED BY <1>5, <2>1, <2>2 DEF Owes
<1>7. ASSUME disturbed = "no"
      PROVE  /\ \A q \in Procs \ {p} : task[q] = NoTask
             /\ \A f \in Entries' : r \notin f.repos /\ "none" \notin f.repos
             /\ \A f \in Entries' : \A s \in f.repos : Valid(s)' /\ configs'[s].id = f.id
  <2>1. Looked(t) /\ Own(t) = i
    BY <1>1, <1>3 DEF Looked, Own
  <2>2. \A f \in Entries : r \in f.repos => f.id = i
    BY <1>2, <1>3, <1>7, <2>1, AllAlone
  <2>3. \A f \in Entries : \A s \in f.repos : (Valid(s) /\ configs[s].id = f.id) \/ r = s
    BY <1>2, <1>3, <1>7, AllAlone
  <2>4. \A f \in Entries' : r \notin f.repos
    BY <1>5, <2>2
  <2>5. \A f \in Entries' : \A s \in f.repos : Valid(s) /\ configs[s].id = f.id
    BY <1>5, <2>3, <2>4
  <2>6. \A f \in Entries' : "none" \notin f.repos
    BY <1>5, EntryFoundNext, Places DEF EntryType
  <2>7. \A q \in Procs \ {p} : task[q] = NoTask
    BY <1>2, <1>7, AllAlone
  <2> QED BY <1>1, <2>4, <2>5, <2>6, <2>7 DEF Valid
<1>8. /\ stores' \in [Ids -> {"none", "empty", "full"}]
      /\ cloud' = cloud /\ minted' \in 0 .. MaxId /\ minted <= minted' /\ hands' = hands
      /\ disturbed' \in {"no", "rebound", "yes"} /\ (disturbed' = "no" => disturbed = "no")
      /\ configs' \in [Repos -> [id : 0 .. MaxId, name : Known, mode : Modes \union {"absent", "broken"}]]
      /\ \A s \in Repos : Valid(s)' => configs'[s].id # 0
      /\ minted' \in Nat
  BY <1>1, Stage DEF NInv, NTypeOK, Valid
<1>9. CASE Leave(p)
  <2>1. disturbed' = "no" =>
           /\ \A q \in Procs \ {p} : task[q] = NoTask
           /\ \A f \in Entries' : NoTask.repo \in f.repos /\ Looked(NoTask) => f.id = Own(NoTask)
           /\ \A f \in Entries' : \A s \in f.repos :
                (Valid(s)' /\ configs'[s].id = f.id) \/ (NoTask.repo = s /\ Between(NoTask))
           /\ NoTask.cmd = "reconnect" => IF NoTask.at = "config" THEN NoTask.old = NoTask.id
                                     ELSE configs'[NoTask.repo].id = NoTask.id
    BY <1>1, <1>7, <1>9, Left
  <2>2. Shaped(NoTask, minted') /\ NoTask.cmd \in Commands[p] \union {"none"}
    BY <1>8, <1>9, Left
  <2> QED BY <1>6, <1>8, <1>9, <2>1, <2>2, Left, Turn DEF Owes
<1>10. CASE ~Leave(p)
  <2> DEFINE u == [t EXCEPT !.at = "purge"]
  <2>1. Goto(p, "purge") /\ UNCHANGED guard
    BY <1>10 DEF DropEntry
  <2>2. /\ u \in Tasks /\ u.at = "purge" /\ u.cmd = t.cmd /\ u.id = i /\ u.repo = r
        /\ u.seen = t.seen /\ u.purge = t.purge /\ u.old = t.old
    BY <1>2, <1>3 DEF Tasks, Stages
  <2>3. task' = [task EXCEPT ![p] = u] /\ task'[p] = u
    BY <2>1, Stage DEF Goto
  <2> HIDE DEF u
  <2>4. Shaped(u, minted') /\ u.cmd \in Commands[p] \union {"none"}
    BY <1>1, <1>2, <1>3, <2>2 DEF Shaped, Fresh
  <2>5. Keeps(p)' /\ Spared(p)' /\ ~Coming(u) /\ ~Linking(u)
    BY <1>1, <2>2, <2>3 DEF Keeps, Spared, Coming, Linking
  <2>6. disturbed' = "no" =>
           /\ \A q \in Procs \ {p} : task[q] = NoTask
           /\ \A f \in Entries' : u.repo \in f.repos /\ Looked(u) => f.id = Own(u)
           /\ \A f \in Entries' : \A s \in f.repos :
                (Valid(s)' /\ configs'[s].id = f.id) \/ (u.repo = s /\ Between(u))
           /\ u.cmd = "reconnect" => IF u.at = "config" THEN u.old = u.id
                                     ELSE configs'[u.repo].id = u.id
    BY <1>1, <1>7, <2>2
  <2>7. guard' \in [Ids -> Procs \union {Nobody}] /\ guard' = guard
    BY <2>1, Stage
  <2> QED BY <1>6, <1>8, <2>2, <2>3, <2>4, <2>5, <2>6, <2>7, Turn DEF Owes
<1> QED BY <1>9, <1>10

-----------------------------------------------------------------------------
(* The invariant of the specification.                                        *)
LEMMA Initially == NInit => NInv
<1> SUFFICES ASSUME NInit PROVE NInv
  OBVIOUS
<1>1. /\ registry = <<>> /\ configs = [r \in Repos |-> NoConfig]
      /\ stores = [i \in Ids |-> "none"] /\ cloud = [i \in Ids |-> NoCloud]
      /\ guard = [i \in Ids |-> Nobody] /\ task = [p \in Procs |-> NoTask]
      /\ minted = 0 /\ hands = 0 /\ disturbed = "no"
  BY DEF NInit
<1>2. 0 \in 0 .. MaxId /\ 0 \in 0 .. MaxHands
  BY Places
<1>3. Entries = {} /\ (\A i : ~Registered(i))
  BY <1>1 DEF Entries, ToSet, Registered
<1>4. \A p \in Procs : task[p] = NoTask
  BY <1>1
<1>5. NTypeOK
  <2>1. registry \in Seq(EntryType) /\ \A k, l \in DOMAIN registry : registry[k].id = registry[l].id => k = l
    BY <1>1
  <2>2. NoConfig \in ConfigType /\ NoConfig.mode \notin Modes
    BY <1>2 DEF NoConfig, ConfigType, Known, Modes
  <2>3. configs \in [Repos -> ConfigType] /\ \A r \in Repos : ~Valid(r)
    BY <1>1, <2>2 DEF Valid
  <2>4. NoCloud \in [name : Known, full : BOOLEAN]
    BY DEF NoCloud, Known
  <2>5. cloud \in [Ids -> [name : Known, full : BOOLEAN]]
    <3> DEFINE C == [name : Known, full : BOOLEAN]
    <3>1. NoCloud \in C
      BY <2>4
    <3> HIDE DEF C
    <3>2. cloud \in [Ids -> C]
      BY <1>1, <3>1
    <3> QED BY <3>2 DEF C
  <2>6. task \in [Procs -> Tasks]
    BY <1>1, Idle
  <2>7. stores \in [Ids -> {"none", "empty", "full"}] /\ guard \in [Ids -> Procs \union {Nobody}]
    BY <1>1
  <2>8. disturbed \in {"no", "rebound", "yes"} /\ minted \in 0 .. MaxId /\ hands \in 0 .. MaxHands
    BY <1>1, <1>2
  <2> QED BY <2>1, <2>3, <2>5, <2>6, <2>7, <2>8 DEF NTypeOK, ConfigType
<1>6. Issued
  <2>1. Shaped(NoTask, 0)
    BY Idle, SMT DEF Shaped, Fresh
  <2>2. \A i \in Ids : cloud[i] = NoCloud
    BY <1>1
  <2> QED BY <1>1, <1>3, <1>4, <2>1, <2>2, Idle DEF Issued
<1>7. Guarded
  <2>1. \A p \in Procs : ~Coming(task[p]) /\ ~Linking(task[p])
    BY <1>4, Idle DEF Coming, Linking
  <2>2. \A p \in Procs : Keeps(p) /\ Spared(p)
    BY <1>4, Idle, SMT DEF Keeps, Spared
  <2> QED BY <2>1, <2>2 DEF Guarded, Unborn
<1>8. Quiet
  BY <1>3, <1>4, Idle DEF Quiet, Settled, Single, Owned, Carried, Recalled
<1> QED BY <1>5, <1>6, <1>7, <1>8 DEF NInv

(* Every command, at every stage, keeps it, and so do hands and the server.     *)
LEMMA Stepping == NInv /\ [NNext]_nvars => NInv'
<1> SUFFICES ASSUME NInv, [NNext]_nvars PROVE NInv'
  OBVIOUS
<1>1. CASE UNCHANGED nvars
  <2>1. UNCHANGED <<registry, configs, stores, cloud, guard, task, minted, hands, disturbed>>
    BY <1>1 DEF nvars
  <2>2. Entries' = Entries /\ \A i : EntryOf(i)' = EntryOf(i) /\ (Registered(i)' <=> Registered(i))
    BY <2>1, SameRegistry
  <2>3. NTypeOK'
    BY <2>1 DEF NInv, NTypeOK, Valid
  <2>4. Issued'
    BY <2>1, <2>2 DEF NInv, Issued
  <2>5. Guarded'
    BY <2>1, <2>2 DEF NInv, Guarded, Keeps, Spared, Unborn
  <2>6. Quiet'
    BY <2>1, <2>2 DEF NInv, Quiet, Settled, Single, Owned, Carried, Recalled, Valid
  <2> QED BY <2>3, <2>4, <2>5, <2>6 DEF NInv
<1>2. CASE \E r \in Repos : EditConfig(r)
  BY <1>2, EditConfigStep
<1>3. CASE \E i \in Ids : CloudRename(i)
  BY <1>3, CloudRenameStep
<1>4. ASSUME NEW p \in Procs, Moves(p)
      PROVE  NInv'
  BY <1>4, CreateProjectStep, RegisterStep, WriteConfigStep, ScaffoldStep, AddRepoGuardStep,
     AddRepoAddStep, ConnectGuardStep, ConnectRestoreStep, BindStep, LinkGuardStep, LinkMoveStep,
     LinkPushStep, RemoveGuardStep, UnlinkStep, DropEntryStep, PurgeStep, DieStep DEF Moves
<1>5. ASSUME NEW p \in Procs, Starts(p)
      PROVE  NInv'
  BY <1>5, InitCheckStep, AdoptCheckStep, AddRepoStartStep, AttachCheckStep, ReconnectCheckStep,
     LinkCheckStep, UnadoptCheckStep DEF Starts
<1>6. ASSUME NEW p \in Procs, NEW i \in Ids, RemoveCheck(p, i)
      PROVE  NInv'
  BY <1>6, RemoveCheckStep
<1> QED BY <1>1, <1>2, <1>3, <1>4, <1>5, <1>6 DEF NNext

(* A repository listed by two entries would have its one config, or its one      *)
(* command, name both.                                                         *)
LEMMA OwnedOnce == NInv => OneOwnerUndisturbed
<1> SUFFICES ASSUME NInv, disturbed = "no", NEW e \in Entries, NEW f \in Entries,
                    NEW r, r \in e.repos, r \in f.repos
             PROVE  e.id = f.id
  BY DEF OneOwnerUndisturbed, OneOwner, TwoOwners
<1>1. Owned /\ Carried
  BY DEF NInv, Quiet, Settled
<1>2. CASE Valid(r) /\ configs[r].id = e.id /\ configs[r].id = f.id
  BY <1>2
<1>3. CASE \E p \in Procs : task[p].repo = r /\ Between(task[p])
  <2>1. PICK p \in Procs : task[p].repo = r /\ Between(task[p])
    BY <1>3
  <2>2. Looked(task[p])
    BY <2>1 DEF Looked, Between
  <2>3. e.id = Own(task[p]) /\ f.id = Own(task[p])
    BY <1>1, <2>1, <2>2 DEF Owned
  <2> QED BY <2>3
<1> QED BY <1>1, <1>2, <1>3 DEF Carried

(* A process's step leaves the other processes' commands where they were.       *)
LEMMA OneMoves ==
  ASSUME NInv, NEW p \in Procs, Starts(p) \/ Moves(p) \/ \E i \in Ids : RemoveCheck(p, i)
  PROVE  \A q \in Procs \ {p} : task'[q] = task[q]
<1> DEFINE Untouched == \A q \in Procs \ {p} : task'[q] = task[q]
<1>1. task \in [Procs -> Tasks]
  BY Stage
<1>2. \A t : Start(p, t) => Untouched
  BY <1>1 DEF Start
<1>3. \A a : Goto(p, a) => Untouched
  BY <1>1 DEF Goto
<1>4. Leave(p) => Untouched
  BY <1>1 DEF Leave
<1>5. \A i, a : Acquire(p, i, a) => Untouched
  BY <1>3, <1>4 DEF Acquire
<1>6. \A u : task' = [task EXCEPT ![p] = u] => Untouched
  BY <1>1
<1>7. ASSUME Starts(p) \/ \E i \in Ids : RemoveCheck(p, i)
      PROVE  Untouched
  <2> HIDE DEF Untouched
  <2> QED BY <1>2, <1>7 DEF Starts, RemoveCheck, InitCheck, AdoptCheck, AddRepoStart, AttachCheck,
        ReconnectCheck, LinkCheck, UnadoptCheck, Begin
<1>8. CreateProject(p) \/ Register(p) \/ LinkGuard(p) => Untouched
  BY <1>1, <1>3, <1>4 DEF CreateProject, Register, LinkGuard
<1>9. ConnectRestore(p) \/ Bind(p) => Untouched
  BY <1>1, <1>4 DEF ConnectRestore, Bind
<1> HIDE DEF Untouched
<1>10. \/ WriteConfig(p) \/ Scaffold(p) \/ ConnectGuard(p) \/ AddRepoAdd(p)
       \/ \E force \in BOOLEAN : AddRepoGuard(p, force)
       => Untouched
  BY <1>3, <1>4, <1>5 DEF WriteConfig, Scaffold, AddRepoGuard, AddRepoAdd, ConnectGuard
<1>11. LinkMove(p) \/ LinkPush(p) \/ RemoveGuard(p) \/ Unlink(p) \/ DropEntry(p) \/ Purge(p) \/ Die(p)
         => Untouched
  BY <1>3, <1>4, <1>5 DEF LinkMove, LinkPush, RemoveGuard, Unlink, DropEntry, Purge, Die
<1>12. Moves(p) => Untouched
  BY <1>8, <1>9, <1>10, <1>11 DEF Moves
<1> QED BY <1>7, <1>12 DEF Untouched

(* A command reaches its purge from the drop of an entry that, under its guard,   *)
(* still lists no repository but its own.                                        *)
LEMMA Sparing ==
  Alone /\ NInv /\ [NNext]_nvars =>
    [\A p \in DOMAIN task : task[p].at = "drop" /\ task'[p].at = "purge" =>
       EntryOf(task[p].id).repos \subseteq {task[p].repo}]_nvars
<1> SUFFICES ASSUME Alone, NInv, NNext, NEW p \in DOMAIN task, task[p].at = "drop", task'[p].at = "purge"
             PROVE  EntryOf(task[p].id).repos \subseteq {task[p].repo}
  OBVIOUS
<1>1. p \in Procs /\ task \in [Procs -> Tasks] /\ task[p] # NoTask
  <2>1. p \in Procs
    BY DEF NInv, NTypeOK
  <2> QED BY <2>1, Stage
<1>2. DropEntry(p)
  <2>1. task' # task /\ task'[p] # task[p]
    OBVIOUS
  <2>2. ~(\E r \in Repos : EditConfig(r)) /\ ~(\E i \in Ids : CloudRename(i))
    BY <2>1 DEF EditConfig, CloudRename
  <2>3. PICK q \in Procs : Starts(q) \/ Moves(q) \/ \E i \in Ids : RemoveCheck(q, i)
    BY <2>2 DEF NNext
  <2>4. q = p
    BY <1>1, <2>1, <2>3, OneMoves
  <2>5. ~Starts(p) /\ ~(\E i \in Ids : RemoveCheck(p, i))
    BY <1>1 DEF Starts, RemoveCheck, InitCheck, AdoptCheck, AddRepoStart, AttachCheck,
        ReconnectCheck, LinkCheck, UnadoptCheck, Begin, Start
  <2>6. ~Die(p)
    BY <1>1, Idle DEF Die, Leave
  <2> QED BY <2>3, <2>4, <2>5, <2>6 DEF Moves, At, CreateProject, Register, WriteConfig, Scaffold,
        AddRepoGuard, AddRepoAdd, ConnectGuard, ConnectRestore, Bind, LinkGuard, LinkMove, LinkPush,
        RemoveGuard, Unlink, Purge
<1>3. task[p].purge /\ task[p].seen # NoEntry
  <2>1. ~Leave(p)
    BY <1>1, Idle DEF Leave
  <2> QED BY <1>2, <2>1 DEF DropEntry
<1>4. task[p].cmd = "unadopt"
  BY <1>1, <1>3, Stage DEF Shaped
<1>5. Spared(p)
  BY <1>1 DEF NInv, Guarded
<1> QED BY <1>3, <1>4, <1>5 DEF Spared

(* The registry, the configs, the stores and the commands under way keep their      *)
(* shapes, and no two entries share an id.                                        *)
THEOREM RegistriesAreTyped == NSpec => []NTypeOK
<1>1. NInit => NInv
  BY Initially
<1>2. NInv /\ [NNext]_nvars => NInv'
  BY Stepping
<1>3. NInv => NTypeOK
  BY DEF NInv
<1> QED BY <1>1, <1>2, <1>3, PTL DEF NSpec

(* Every interleaving of the commands, with crashes, edits by hand and renames on  *)
(* the server: a path has one owner while nothing interferes and neither a link nor  *)
(* a forced add has left it listed under another project's config, and the strict   *)
(* resolver never binds another store than the lenient one.                        *)
THEOREM RepositoriesHaveOneOwner == NSpec => [](OneOwnerUndisturbed /\ StrictAgrees)
<1>1. NInit => NInv
  BY Initially
<1>2. NInv /\ [NNext]_nvars => NInv'
  BY Stepping
<1>3. NInv => OneOwnerUndisturbed /\ StrictAgrees
  BY OwnedOnce, ResolversAgree DEF NInv
<1> QED BY <1>1, <1>2, <1>3, PTL DEF NSpec

(* And, where no process mints a project by init while another may attach it, an     *)
(* un-adopt purges no store that another repository's entry names.                 *)
THEOREM RepositoriesStaySafe == ASSUME Alone PROVE NSpec => RepositoriesAreSafe
<1>1. NSpec => [](OneOwnerUndisturbed /\ StrictAgrees)
  BY RepositoriesHaveOneOwner
<1>2. NInit => NInv
  BY Initially
<1>3. NInv /\ [NNext]_nvars => NInv'
  BY Stepping
<1>4. Alone
  OBVIOUS
<1>5. NInv /\ [NNext]_nvars =>
        [\A p \in DOMAIN task : task[p].at = "drop" /\ task'[p].at = "purge" =>
           EntryOf(task[p].id).repos \subseteq {task[p].repo}]_nvars
  BY <1>4, Sparing
<1> QED BY <1>1, <1>2, <1>3, <1>5, PTL DEF NSpec, RepositoriesAreSafe, PurgeSparesOthers

=============================================================================
