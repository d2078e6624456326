---------------------------- MODULE Refresh_proofs ----------------------------
(***************************************************************************)
(* Proofs about Refresh.tla and Acquisition.tla.                             *)
(*                                                                         *)
(* For any number of processes, generations, install identities and power   *)
(* losses: an intent on disk can always be acted on, selected roots are      *)
(* whole, and a generation that was handed out stays installed.             *)
(*                                                                         *)
(* The argument is about what a power loss may leave, not about what is      *)
(* visible: whichever of the contents a file may come back with, the         *)
(* controls stand between the two pairs of whichever intent comes back.     *)
(*                                                                         *)
(* For any artifacts, generations, window sizes and budgets: the threads of   *)
(* an acquisition end with it, its GETs are bounded, its links are there and   *)
(* minted again only when refused, and it fails only for cause. There the      *)
(* argument is an account of each path: what its GETs are charged to, and      *)
(* what a thread about to ask for links has seen of them.                     *)
(***************************************************************************)
EXTENDS Refresh, Acquisition, TLAPS

Real(pair) == pair \notin {Absent, Torn}
Whole(g) == g \in Gen /\ rootMaybe[g] = {"whole"}
NotBefore(pair, old) == pair.id >= old.id /\ pair.gen >= old.gen
Inside(p, places) == job[p].at \in places

(* What is visible may survive a power loss.                               *)
Visible ==
  /\ \A f \in ControlFile : disk[f] \in maybe[f]
  /\ intent \in intentMaybe
  /\ \A g \in Gen : root[g] \in rootMaybe[g]

(* The contents in doubt stand at the base of i, at its target or between.   *)
Straddles(i) ==
  /\ maybe["marker"] = {Marker}
  /\ \/ maybe["pointer"] = {i.base} /\ maybe["carrier"] \subseteq {i.view, i.target}
     \/ maybe["pointer"] \subseteq {i.base, i.target} /\ maybe["carrier"] = {i.target}

WellMade(i) ==
  /\ Real(i.base) /\ Real(i.view)
  /\ Whole(i.target.gen) /\ i.target.gen <= head /\ i.target.id <= ids
  /\ NotBefore(i.target, served)

(* Every intent a power loss may leave can be acted on.                     *)
IntentsStand ==
  \A i \in intentMaybe \ {NoIntent} :
    Straddles(i) /\ WellMade(i) /\ i.before \in archiveSafe \cup {0}

(* Before the first intent nothing was handed out.                          *)
FirstIntent ==
  /\ intent = NoIntent => intentMaybe = {NoIntent}
  /\ NoIntent \in intentMaybe => served = Absent
  /\ intentMaybe # {NoIntent} => \A x \in maybe["pointer"] : Whole(x.gen)

(* What is served is not ahead of any pointer that may come back, and         *)
(* nothing is ahead of the server.                                          *)
Ordered ==
  /\ served.id <= ids
  /\ \A x \in maybe["pointer"] : NotBefore(x, served)
  /\ \A x \in maybe["pointer"] \cup maybe["carrier"] : x.gen <= head
  /\ \A p \in Process : Inside(p, {"idle"}) \/ job[p].gen <= head

(* Whoever writes the controls or the intent holds the lock.                 *)
Locked == \A p \in Process : Inside(p, {"pointer", "marker", "announce", "resume"}) => lock = {p}

(* Until the project is attached, one attachment is all that goes on.         *)
AttachAlone ==
  /\ \A p \in Process : ~Inside(p, {"idle"}) => (job[p].mode = "attach" <=> ~attached)
  /\ ~attached => \A p, q \in Process : ~Inside(p, {"idle"}) /\ ~Inside(q, {"idle"}) => p = q

(* What an attachment has published, before its intent.                      *)
Attachment ==
  \A p \in Process :
    /\ Inside(p, {"root", "carrier", "pointer", "marker", "initial"}) =>
         job[p].mode = "attach" /\ job[p].gen \in Gen
    /\ Inside(p, {"pointer", "marker"}) => intent = NoIntent /\ disk["carrier"].gen = job[p].gen
    /\ Inside(p, {"marker"}) => disk["pointer"] = disk["carrier"]
    /\ Inside(p, {"initial"}) /\ intent = NoIntent => disk["pointer"].gen = job[p].gen

(* What a refresh has read, and what it goes on from.                        *)
Prepared(p) ==
  /\ job[p].base["marker"] = Marker /\ Real(job[p].base["pointer"]) /\ Real(job[p].base["carrier"])
  /\ job[p].base["pointer"].gen <= head
Refreshing ==
  \A p \in Process :
    /\ Inside(p, {"acquire"}) => Prepared(p) /\ job[p].raw # NoIntent
    /\ Inside(p, {"check", "install", "commit"}) =>
         /\ Prepared(p) /\ job[p].gen \in Gen
         /\ job[p].base["pointer"].gen <= job[p].gen
         /\ job[p].raw = NoIntent => job[p].base["pointer"].gen = job[p].gen

(* An intent about to be announced starts from flushed controls.             *)
Ready(new) ==
  /\ \A f \in ControlFile : maybe[f] = {disk[f]}
  /\ intentMaybe = {intent}
  /\ disk["marker"] = Marker /\ new.base = disk["pointer"] /\ new.view = disk["carrier"]
  /\ Whole(new.base.gen)
  /\ WellMade(new) /\ new.before \in archive \cup {0}
Announcing == \A p \in Process : Inside(p, {"announce"}) => Ready(job[p].new)

IInv ==
  /\ TypeOK /\ Visible /\ IntentsStand /\ FirstIntent /\ Ordered
  /\ Locked /\ AttachAlone /\ Attachment /\ Refreshing /\ Announcing

-----------------------------------------------------------------------------
(* The places and the kinds of a call.                                      *)
LEMMA Places ==
  /\ "idle" \in Place /\ "root" \in Place /\ "carrier" \in Place /\ "pointer" \in Place
  /\ "marker" \in Place /\ "initial" \in Place /\ "prepare" \in Place /\ "acquire" \in Place
  /\ "check" \in Place /\ "install" \in Place /\ "commit" \in Place /\ "announce" \in Place
  /\ "resume" \in Place /\ "admitted" \in Place /\ "report" \in Place
  /\ "refresh" \in Mode /\ "attach" \in Mode /\ "read" \in Mode
  BY DEF Place, Mode

(* What a record is made of.                                                *)
LEMMA PairFields ==
  /\ Absent \in Pair /\ Torn \in Pair /\ Marker \in Pair
  /\ \A x \in Pair : x.gen \in 0..MaxGen /\ x.id \in 0..MaxIds
  /\ \A g \in 0..MaxGen, id \in 0..MaxIds : [gen |-> g, id |-> id] \in Pair
  BY BoundsAssumption DEF Absent, Torn, Marker, Pair

LEMMA IntentFields ==
  /\ NoIntent \in Intent
  /\ \A i \in Intent : i.base \in Pair /\ i.view \in Pair /\ i.target \in Pair /\ i.before \in 0..MaxIds
  /\ \A b, v, t \in Pair, n \in 0..MaxIds :
       [base |-> b, view |-> v, target |-> t, before |-> n] \in Intent
  BY PairFields, BoundsAssumption DEF NoIntent, Intent

LEMMA JobFields ==
  ASSUME NEW j \in Job
  PROVE  /\ j.at \in Place /\ j.mode \in Mode /\ j.base \in [ControlFile -> Pair]
         /\ j.raw \in Intent /\ j.new \in Intent /\ j.gen \in 0..MaxGen /\ j.mine \in Attempt
  BY DEF Job

LEMMA IdleIsJob == Idle \in Job
<1>1. NoControls \in [ControlFile -> Pair]
  BY PairFields DEF NoControls
<1>2. NoAttempt \in Attempt /\ 0 \in 0..MaxGen
  BY BoundsAssumption DEF NoAttempt, Attempt
<1> QED
  BY <1>1, <1>2, IntentFields, Places DEF Idle, Job

(* The changes a step makes of a job keep it a job.                         *)
LEMMA JobMoves ==
  ASSUME NEW f \in [Process -> Job], NEW p \in Process, NEW place \in Place
  PROVE  [f EXCEPT ![p].at = place] \in [Process -> Job]
  BY DEF Job

LEMMA JobTakesIntent ==
  ASSUME NEW f \in [Process -> Job], NEW p \in Process, NEW place \in Place, NEW i \in Intent
  PROVE  [f EXCEPT ![p].new = i, ![p].at = place] \in [Process -> Job]
  BY DEF Job

LEMMA JobTakesGeneration ==
  ASSUME NEW f \in [Process -> Job], NEW p \in Process, NEW place \in Place, NEW g \in 0..MaxGen
  PROVE  [f EXCEPT ![p].gen = g, ![p].at = place] \in [Process -> Job]
  BY DEF Job

LEMMA JobPrepares ==
  ASSUME NEW f \in [Process -> Job], NEW p \in Process, NEW place \in Place, NEW i \in Intent,
         NEW c \in [ControlFile -> Pair]
  PROVE  [f EXCEPT ![p].base = c, ![p].raw = i, ![p].at = place] \in [Process -> Job]
  BY DEF Job

LEMMA JobAttaches ==
  ASSUME NEW place \in Place, NEW g \in 0..MaxGen
  PROVE  [Idle EXCEPT !.mode = "attach", !.gen = g, !.at = place] \in Job
  BY IdleIsJob, Places DEF Job

LEMMA JobRefreshes ==
  ASSUME NEW place \in Place, NEW a \in Attempt
  PROVE  [Idle EXCEPT !.mode = "refresh", !.at = place, !.mine = a] \in Job
  BY IdleIsJob, Places DEF Job

LEMMA JobReads ==
  ASSUME NEW place \in Place, NEW i \in Intent
  PROVE  [Idle EXCEPT !.at = place, !.new = i] \in Job
  BY IdleIsJob DEF Job

LEMMA JobLeaves ==
  ASSUME NEW place \in Place, NEW j \in Job
  PROVE  [j EXCEPT !.at = place] \in Job
  BY DEF Job

LEMMA AttemptFields ==
  ASSUME NEW a \in Attempt, NEW n \in 0..MaxTicks
  PROVE  /\ a.at \in 0..MaxTicks /\ a.ok \in 0..MaxTicks
         /\ [a EXCEPT !.at = n, !.code = "incomplete"] \in Attempt
         /\ [a EXCEPT !.at = n, !.code = "incomplete"].ok = a.ok
         /\ [a EXCEPT !.ok = n, !.code = "succeeded"] \in Attempt
         /\ [a EXCEPT !.ok = n, !.code = "succeeded"].ok = n
  BY DEF Attempt

LEMMA AttemptFails ==
  ASSUME NEW a \in Attempt
  PROVE  [a EXCEPT !.code = "failed"] \in Attempt /\ [a EXCEPT !.code = "failed"].ok = a.ok
  BY DEF Attempt

LEMMA TypeStep == IInv /\ [Next]_vars => TypeOK'
<1> SUFFICES ASSUME IInv, [Next]_vars
             PROVE  TypeOK'
  OBVIOUS
<1>ty. TypeOK
  BY DEF IInv
<1>jb. job \in [Process -> Job] /\ \A p \in Process : job[p] \in Job
  BY <1>ty DEF TypeOK
<1>0. MaxGen \in Nat /\ MaxIds \in Nat /\ MaxTicks \in Nat /\ MaxLosses \in Nat
      /\ Gen \subseteq 0..MaxGen /\ \A n \in Gen : n \in Nat /\ n + 1 > n
  BY BoundsAssumption DEF Gen
<1>1. ASSUME NEW p \in Process, StartAttach(p)
      PROVE  TypeOK'
  <2>1. job' \in [Process -> Job]
    <3>1. \A at \in {"root", "prepare"} :
            [Idle EXCEPT !.mode = "attach", !.gen = head, !.at = at] \in Job
      BY <1>ty, <1>0, JobAttaches, Places DEF TypeOK
    <3> QED
      BY <1>jb, <1>1, <3>1 DEF StartAttach
  <2> QED
    BY <1>ty, <1>1, <1>0, <2>1 DEF StartAttach, files, status, TypeOK
<1>2. ASSUME NEW p \in Process, AttachRoot(p) \/ CommitRoot(p)
      PROVE  TypeOK'
  <2>1. job' \in [Process -> Job]
    BY <1>jb, <1>2, JobMoves, Places DEF AttachRoot, CommitRoot, Goto
  <2>2. root' \in [Gen -> RootState] /\ rootMaybe' \in [Gen -> SUBSET RootState]
    BY <1>ty, <1>2 DEF AttachRoot, CommitRoot, InstallRoot, RootState, TypeOK
  <2> QED
    BY <1>ty, <1>2, <2>1, <2>2 DEF AttachRoot, CommitRoot, status, TypeOK
<1>3. ASSUME NEW p \in Process, PublishNothing(p) \/ PrepareInitial(p) \/ Prepare(p) \/ Acquire(p)
      PROVE  TypeOK'
  <2>1. job' \in [Process -> Job]
    <3>1. CASE PublishNothing(p)
      BY <1>jb, <3>1, JobMoves, Places DEF PublishNothing, Goto
    <3>2. CASE PrepareInitial(p)
      <4>1. [job EXCEPT ![p].base = disk, ![p].raw = NoIntent, ![p].at = "check"] \in [Process -> Job]
        BY <1>jb, JobPrepares, Places, IntentFields, <1>ty DEF TypeOK
      <4> QED
        BY <1>ty, <3>2, <4>1 DEF PrepareInitial, TypeOK
    <3>3. CASE Prepare(p)
      <4>1. [job EXCEPT ![p].base = disk, ![p].raw = intent, ![p].at = "acquire"] \in [Process -> Job]
        BY <1>jb, JobPrepares, Places, <1>ty DEF TypeOK
      <4> QED
        BY <1>ty, <3>3, <4>1 DEF Prepare, TypeOK
    <3>4. CASE Acquire(p)
      <4>1. [job EXCEPT ![p].gen = head, ![p].at = "check"] \in [Process -> Job]
        BY <1>ty, <1>jb, <1>0, JobTakesGeneration, Places DEF TypeOK
      <4> QED
        BY <3>4, <4>1 DEF Acquire
    <3> QED
      BY <1>3, <3>1, <3>2, <3>3, <3>4
  <2> QED
    BY <1>ty, <1>3, <2>1 DEF PublishNothing, PrepareInitial, Prepare, Acquire, files, status, TypeOK
<1>4. ASSUME NEW p \in Process, PublishCarrier(p) \/ PublishPointer(p) \/ PublishMarker(p)
      PROVE  TypeOK'
  <2>1. job' \in [Process -> Job]
    BY <1>jb, <1>4, JobMoves, Places DEF PublishCarrier, PublishPointer, PublishMarker, Goto
  <2>2. \A f \in ControlFile, pair \in Pair : WriteUnflushed(f, pair) =>
          disk' \in [ControlFile -> Pair] /\ maybe' \in [ControlFile -> SUBSET Pair]
    BY <1>ty, PairFields DEF WriteUnflushed, TypeOK
  <2>3. ids' \in 0..MaxIds /\ disk' \in [ControlFile -> Pair] /\ maybe' \in [ControlFile -> SUBSET Pair]
    <3>1. CASE PublishCarrier(p)
      <4>1. ids < MaxIds => [gen |-> job[p].gen, id |-> ids + 1] \in Pair /\ ids + 1 \in 0..MaxIds
        BY <1>ty, <1>0, PairFields, JobFields DEF TypeOK
      <4> QED
        BY <1>ty, <3>1, <4>1, <2>2 DEF PublishCarrier, ControlFile, TypeOK
    <3>2. CASE PublishPointer(p)
      BY <1>ty, <3>2, <2>2 DEF PublishPointer, ControlFile, TypeOK
    <3>3. CASE PublishMarker(p)
      BY <1>ty, <3>3, <2>2, PairFields DEF PublishMarker, ControlFile, TypeOK
    <3> QED
      BY <1>4, <3>1, <3>2, <3>3
  <2>4. lock' \subseteq Process
    BY <1>ty, <1>4 DEF PublishCarrier, PublishPointer, PublishMarker, TypeOK
  <2> QED
    BY <1>ty, <1>4, <2>1, <2>3, <2>4 DEF PublishCarrier, PublishPointer, PublishMarker, status, TypeOK
<1>5. ASSUME NEW p \in Process, StartRefresh(p)
      PROVE  TypeOK'
  <2>1. attempt' \in Attempt /\ tick' \in 0..MaxTicks
    <3>1. tick + 1 \in 0..MaxTicks
      BY <1>ty, <1>5, <1>0 DEF StartRefresh, TypeOK
    <3> QED
      BY <1>ty, <1>5, <3>1, AttemptFields DEF StartRefresh, TypeOK
  <2>2. job' \in [Process -> Job]
    BY <1>jb, <1>5, <2>1, JobRefreshes, Places DEF StartRefresh
  <2> QED
    BY <1>ty, <1>5, <2>1, <2>2 DEF StartRefresh, files, TypeOK
<1>6. ASSUME NEW p \in Process, Check(p)
      PROVE  TypeOK'
  <2>1. job[p].raw \in Intent
    BY <1>ty, JobFields DEF TypeOK
  <2>2. job' \in [Process -> Job]
    <3>1. [job EXCEPT ![p].new = job[p].raw, ![p].at = "resume"] \in [Process -> Job]
      BY <1>jb, <2>1, JobTakesIntent, Places, <1>ty DEF TypeOK
    <3>2. [job EXCEPT ![p].at = "install"] \in [Process -> Job]
      BY <1>jb, JobMoves, Places
    <3> QED
      BY <1>ty, <1>6, <3>1, <3>2 DEF Check, Goto, TypeOK
  <2>3. lock' \subseteq Process /\ home' \subseteq Process
    BY <1>ty, <1>6 DEF Check, TypeOK
  <2> QED
    BY <1>ty, <1>6, <2>2, <2>3 DEF Check, files, TypeOK
<1>7. SyncedControls \in [ControlFile -> SUBSET Pair] /\ SyncedEntries \in [ControlFile -> SUBSET Pair]
      /\ SyncedIntent \subseteq Intent
  BY <1>ty DEF SyncedControls, SyncedEntries, SyncedIntent, TypeOK
<1>8. ASSUME NEW g, SyncTarget(g)
      PROVE  rootMaybe' \in [Gen -> SUBSET RootState]
  BY <1>ty, <1>8 DEF SyncTarget, RootState, TypeOK
<1>9. ASSUME NEW p \in Process, CommitResumes(p)
      PROVE  TypeOK'
  <2>1. job' \in [Process -> Job]
    BY <1>jb, <1>9, JobTakesIntent, Places, <1>ty DEF CommitResumes, TypeOK
  <2> QED
    BY <1>ty, <1>9, <2>1, <1>7, <1>8 DEF CommitResumes, status, TypeOK
<1>10. ASSUME NEW p \in Process, CommitAnew(p)
       PROVE  TypeOK'
  <2>1. ids + 1 \in 0..MaxIds /\ ids' = ids + 1
    BY <1>ty, <1>10, <1>0 DEF CommitAnew, TypeOK
  <2>2. NewIntent(p, ids + 1) \in Intent
    <3>1. job[p].base \in [ControlFile -> Pair] /\ job[p].gen \in 0..MaxGen
          /\ job[p].raw.target.id \in 0..MaxIds
      BY <1>ty, JobFields, IntentFields, PairFields DEF TypeOK
    <3>2. [gen |-> job[p].gen, id |-> ids + 1] \in Pair
      BY <1>ty, <2>1, <3>1, PairFields DEF TypeOK
    <3> QED
      BY <1>ty, <3>1, <3>2, IntentFields DEF NewIntent, ControlFile, TypeOK
  <2>3. job' \in [Process -> Job]
    BY <1>jb, <1>10, <2>2, JobTakesIntent, Places, <1>ty DEF CommitAnew, TypeOK
  <2>4. archive' \subseteq 1..MaxIds /\ archive \subseteq archive'
    <3>1. intent.target.id \in 0..MaxIds
      BY <1>ty, IntentFields, PairFields DEF TypeOK
    <3> QED
      BY <1>ty, <1>10, <1>0, <3>1 DEF CommitAnew, TypeOK
  <2> QED
    BY <1>ty, <1>10, <2>1, <2>3, <2>4, <1>7, <1>8 DEF CommitAnew, status, TypeOK
<1>11. ASSUME NEW p \in Process, Announce(p)
       PROVE  TypeOK'
  <2>1. job' \in [Process -> Job] /\ job[p].new \in Intent
    BY <1>jb, <1>11, JobMoves, JobFields, Places DEF Announce, Goto
  <2> QED
    BY <1>ty, <1>11, <2>1 DEF Announce, status, TypeOK
<1>12. ASSUME NEW p \in Process, Publish(p)
       PROVE  TypeOK'
  <2>1. intent.target \in Pair
    BY <1>ty, IntentFields DEF TypeOK
  <2>2. \A f \in ControlFile : Replace(f, intent.target, SyncedEntries) =>
          disk' \in [ControlFile -> Pair] /\ maybe' \in [ControlFile -> SUBSET Pair]
    BY <1>ty, <2>1, <1>7 DEF Replace, TypeOK
  <2> QED
    BY <1>ty, <1>12, <2>2, <1>7, <1>8 DEF Publish, status, ControlFile, TypeOK
<1>13. ASSUME NEW p \in Process, Complete(p)
       PROVE  TypeOK'
  <2>1. job' \in [Process -> Job]
    <3>1. [job[p] EXCEPT !.at = "admitted"] \in Job
      BY <1>jb, JobLeaves, Places
    <3> QED
      BY <1>ty, <1>13, <3>1, IdleIsJob DEF Complete, TypeOK
  <2>2. served' \in Pair /\ lock' \subseteq Process /\ attached' \in BOOLEAN
    BY <1>ty, <1>13, IntentFields DEF Complete, TypeOK
  <2> QED
    BY <1>ty, <1>13, <2>1, <2>2, <1>7, <1>8 DEF Complete, status, TypeOK
<1>14. ASSUME NEW p \in Process, RecordSuccess(p) \/ Report(p)
       PROVE  TypeOK'
  <2>1. job[p].mine \in Attempt
    BY <1>ty, JobFields DEF TypeOK
  <2>2. attempt' \in Attempt /\ tick' \in 0..MaxTicks
    <3>1. RecordSuccess(p) => tick + 1 \in 0..MaxTicks
      BY <1>ty, <1>0 DEF RecordSuccess, TypeOK
    <3>2. CASE RecordSuccess(p)
      BY <1>ty, <2>1, <3>1, <3>2, AttemptFields DEF RecordSuccess, TypeOK
    <3>3. CASE Report(p)
      <4>1. [job[p].mine EXCEPT !.code = "failed"] \in Attempt
        BY <2>1, AttemptFails
      <4> QED
        BY <1>ty, <3>3, <4>1 DEF Report, TypeOK
    <3> QED
      BY <1>14, <3>2, <3>3
  <2> QED
    BY <1>ty, <1>14, <2>2, IdleIsJob DEF RecordSuccess, Report, files, TypeOK
<1>15. ASSUME NEW p \in Process, Read(p)
       PROVE  TypeOK'
  <2>1. job' \in [Process -> Job]
    BY <1>ty, <1>jb, <1>15, JobReads, Places DEF Read, TypeOK
  <2> QED
    BY <1>ty, <1>15, <2>1 DEF Read, files, status, TypeOK
<1>16. ASSUME NEW p \in Process, Fail(p) \/ Die(p)
       PROVE  TypeOK'
  <2>1. [job[p] EXCEPT !.at = "report"] \in Job
    BY <1>jb, JobLeaves, Places
  <2> QED
    BY <1>ty, <1>16, <2>1, IdleIsJob DEF Fail, Die, files, TypeOK
<1>17. CASE PowerLoss
  <2>1. disk' \in [ControlFile -> Pair] /\ maybe' \in [ControlFile -> SUBSET Pair]
    BY <1>ty, <1>17 DEF PowerLoss, TypeOK
  <2>2. root' \in [Gen -> RootState] /\ rootMaybe' \in [Gen -> SUBSET RootState]
    BY <1>ty, <1>17 DEF PowerLoss, TypeOK
  <2>3. intent' \in Intent /\ intentMaybe' \subseteq Intent
    BY <1>ty, <1>17 DEF PowerLoss, TypeOK
  <2>4. archiveSafe' \subseteq archive' /\ archive' \subseteq 1..MaxIds
    BY <1>ty, <1>17 DEF PowerLoss, TypeOK
  <2>5. job' \in [Process -> Job] /\ losses' \in 0..MaxLosses
    BY <1>ty, <1>17, <1>0, IdleIsJob DEF PowerLoss, TypeOK
  <2> QED
    BY <1>ty, <1>17, <2>1, <2>2, <2>3, <2>4, <2>5 DEF PowerLoss, TypeOK
<1>18. CASE Advance
  BY <1>ty, <1>18, <1>0 DEF Advance, Gen, files, status, TypeOK
<1>19. CASE UNCHANGED vars
  BY <1>ty, <1>19 DEF vars, files, status, TypeOK
<1> QED
  BY <1>1, <1>2, <1>3, <1>4, <1>5, <1>6, <1>9, <1>10, <1>11, <1>12, <1>13, <1>14, <1>15, <1>16,
     <1>17, <1>18, <1>19 DEF Next, Step

-----------------------------------------------------------------------------
(* A root that is flushed stays whole.                                      *)
LEMMA RootSteps ==
  ASSUME [Next]_vars
  PROVE  \/ UNCHANGED <<root, rootMaybe>>
         \/ \E g : InstallRoot(g)
         \/ \E g : SyncTarget(g) /\ root' = root
         \/ PowerLoss
<1>1. ASSUME NEW p \in Process, Step(p)
      PROVE  \/ UNCHANGED <<root, rootMaybe>>
             \/ \E g : InstallRoot(g)
             \/ \E g : SyncTarget(g) /\ root' = root
  BY <1>1 DEF Step, StartAttach, AttachRoot, PublishNothing, PublishCarrier, PublishPointer,
     PublishMarker, PrepareInitial, StartRefresh, Prepare, Acquire, Check, CommitRoot, CommitResumes,
     CommitAnew, Announce, Publish, Complete, RecordSuccess, Read, Fail, Report, Die, files
<1>2. ASSUME Advance \/ UNCHANGED vars
      PROVE  UNCHANGED <<root, rootMaybe>>
  BY <1>2 DEF Advance, vars, files
<1> QED
  BY <1>1, <1>2 DEF Next

LEMMA WholeStays ==
  ASSUME IInv, [Next]_vars
  PROVE  \A g : Whole(g) => Whole(g)'
<1> SUFFICES ASSUME NEW g, Whole(g)
             PROVE  Whole(g)'
  OBVIOUS
<1>1. g \in Gen /\ rootMaybe[g] = {"whole"} /\ root[g] \in rootMaybe[g]
      /\ root \in [Gen -> RootState] /\ rootMaybe \in [Gen -> SUBSET RootState]
  BY DEF Whole, IInv, Visible, TypeOK
<1>2. ASSUME NEW h, InstallRoot(h)
      PROVE  Whole(g)'
  BY <1>1, <1>2 DEF InstallRoot, Whole
<1>3. ASSUME NEW h, SyncTarget(h)
      PROVE  Whole(g)'
  BY <1>1, <1>3 DEF SyncTarget, Whole
<1>4. CASE PowerLoss
  BY <1>1, <1>4 DEF PowerLoss, Whole
<1> QED
  BY <1>1, <1>2, <1>3, <1>4, RootSteps DEF Whole

(* The controls, the intent and the archive change in few ways.              *)
LEMMA ControlSteps ==
  ASSUME [Next]_vars
  PROVE  \/ UNCHANGED <<disk, maybe>>
         \/ \E p \in Process : PublishCarrier(p) \/ PublishPointer(p) \/ PublishMarker(p)
         \/ maybe' = SyncedControls /\ disk' = disk
         \/ \E p \in Process : Publish(p)
         \/ PowerLoss
<1>1. ASSUME NEW p \in Process, Step(p)
      PROVE  \/ UNCHANGED <<disk, maybe>>
             \/ PublishCarrier(p) \/ PublishPointer(p) \/ PublishMarker(p)
             \/ maybe' = SyncedControls /\ disk' = disk
             \/ Publish(p)
  BY <1>1 DEF Step, StartAttach, AttachRoot, PublishNothing, PrepareInitial, StartRefresh, Prepare,
     Acquire, Check, CommitRoot, CommitResumes, CommitAnew, Announce, Complete, RecordSuccess, Read,
     Fail, Report, Die, files
<1>2. ASSUME Advance \/ UNCHANGED vars
      PROVE  UNCHANGED <<disk, maybe>>
  BY <1>2 DEF Advance, vars, files
<1> QED
  BY <1>1, <1>2 DEF Next

LEMMA IntentSteps ==
  ASSUME [Next]_vars
  PROVE  \/ UNCHANGED <<intent, intentMaybe>>
         \/ intentMaybe' = SyncedIntent /\ intent' = intent
         \/ \E p \in Process : Announce(p)
         \/ PowerLoss
<1>1. ASSUME NEW p \in Process, Step(p)
      PROVE  \/ UNCHANGED <<intent, intentMaybe>>
             \/ intentMaybe' = SyncedIntent /\ intent' = intent
             \/ Announce(p)
  BY <1>1 DEF Step, StartAttach, AttachRoot, PublishNothing, PublishCarrier, PublishPointer,
     PublishMarker, PrepareInitial, StartRefresh, Prepare, Acquire, Check, CommitRoot, CommitResumes,
     CommitAnew, Publish, Complete, RecordSuccess, Read, Fail, Report, Die, files
<1>2. ASSUME Advance \/ UNCHANGED vars
      PROVE  UNCHANGED <<intent, intentMaybe>>
  BY <1>2 DEF Advance, vars, files
<1> QED
  BY <1>1, <1>2 DEF Next

LEMMA ServedSteps ==
  ASSUME [Next]_vars
  PROVE  UNCHANGED <<served, attached>> \/ \E p \in Process : Complete(p)
<1>1. ASSUME NEW p \in Process, Step(p)
      PROVE  UNCHANGED <<served, attached>> \/ Complete(p)
  BY <1>1 DEF Step, StartAttach, AttachRoot, PublishNothing, PublishCarrier, PublishPointer,
     PublishMarker, PrepareInitial, StartRefresh, Prepare, Acquire, Check, CommitRoot, CommitResumes,
     CommitAnew, Announce, Publish, RecordSuccess, Read, Fail, Report, Die
<1>2. ASSUME Advance \/ PowerLoss \/ UNCHANGED vars
      PROVE  UNCHANGED <<served, attached>>
  BY <1>2 DEF Advance, PowerLoss, vars
<1> QED
  BY <1>1, <1>2 DEF Next

(* What only grows: the server's generations, the identities, the archive.     *)
LEMMA Growth ==
  ASSUME IInv, [Next]_vars
  PROVE  head <= head' /\ ids <= ids' /\ archiveSafe \subseteq archiveSafe'
<1>ty. TypeOK
  BY DEF IInv
<1>0. MaxGen \in Nat /\ MaxIds \in Nat /\ head \in Nat /\ ids \in Nat /\ archiveSafe \subseteq archive
  BY <1>ty, BoundsAssumption DEF TypeOK, Gen
<1>1. ASSUME NEW p \in Process, Step(p)
      PROVE  head <= head' /\ ids <= ids' /\ archiveSafe \subseteq archiveSafe'
  BY <1>0, <1>1 DEF Step, StartAttach, AttachRoot, PublishNothing, PublishCarrier, PublishPointer,
     PublishMarker, PrepareInitial, StartRefresh, Prepare, Acquire, Check, CommitRoot, CommitResumes,
     CommitAnew, Announce, Publish, Complete, RecordSuccess, Read, Fail, Report, Die, files, status
<1>2. ASSUME Advance \/ PowerLoss \/ UNCHANGED vars
      PROVE  head <= head' /\ ids <= ids' /\ archiveSafe \subseteq archiveSafe'
  BY <1>0, <1>2 DEF Advance, PowerLoss, vars, files
<1> QED
  BY <1>1, <1>2 DEF Next

(* Before its first intent the machine has handed nothing out.                *)
LEMMA NoIntentYet ==
  ASSUME IInv, NEW p \in Process, PublishCarrier(p) \/ PublishPointer(p) \/ PublishMarker(p)
  PROVE  intent = NoIntent /\ intentMaybe = {NoIntent} /\ served = Absent
<1>1. intent = NoIntent
  BY DEF IInv, Attachment, Inside, PublishCarrier, PublishPointer, PublishMarker
<1> QED
  BY <1>1 DEF IInv, FirstIntent

-----------------------------------------------------------------------------
(* The parts of IInv, one after the other. What is visible may survive.       *)
LEMMA VisibleStep == IInv /\ [Next]_vars => Visible'
<1> SUFFICES ASSUME IInv, [Next]_vars
             PROVE  Visible'
  OBVIOUS
<1>ty. TypeOK /\ Visible
  BY DEF IInv
<1>1. \A f \in ControlFile : disk'[f] \in maybe'[f]
  <2>0. disk \in [ControlFile -> Pair] /\ maybe \in [ControlFile -> SUBSET Pair]
        /\ \A f \in ControlFile : disk[f] \in maybe[f]
    BY <1>ty DEF TypeOK, Visible
  <2>1. \A f \in ControlFile : \A pair : WriteUnflushed(f, pair) =>
          \A g \in ControlFile : disk'[g] \in maybe'[g]
    BY <2>0 DEF WriteUnflushed
  <2>2. ASSUME NEW p \in Process, PublishCarrier(p) \/ PublishPointer(p) \/ PublishMarker(p)
        PROVE  \A f \in ControlFile : disk'[f] \in maybe'[f]
    BY <2>0, <2>1, <2>2 DEF PublishCarrier, PublishPointer, PublishMarker, ControlFile
  <2>3. ASSUME maybe' = SyncedControls, disk' = disk
        PROVE  \A f \in ControlFile : disk'[f] \in maybe'[f]
    BY <2>3 DEF SyncedControls
  <2>4. ASSUME NEW p \in Process, Publish(p)
        PROVE  \A f \in ControlFile : disk'[f] \in maybe'[f]
    <3>1. SyncedEntries \in [ControlFile -> SUBSET Pair] /\ \A f \in ControlFile : disk[f] \in SyncedEntries[f]
      BY <2>0 DEF SyncedEntries
    <3>2. \A f \in ControlFile : \A pair : Replace(f, pair, SyncedEntries) =>
            \A g \in ControlFile : disk'[g] \in maybe'[g]
      BY <2>0, <3>1 DEF Replace
    <3> QED
      BY <2>4, <3>2 DEF Publish, ControlFile
  <2>5. CASE PowerLoss
    BY <2>5 DEF PowerLoss
  <2> QED
    BY <2>0, <2>2, <2>3, <2>4, <2>5, ControlSteps
<1>2. intent' \in intentMaybe'
  <2>1. CASE PowerLoss
    BY <2>1 DEF PowerLoss
  <2>2. ASSUME NEW p \in Process, Announce(p)
        PROVE  intent' \in intentMaybe'
    BY <2>2 DEF Announce
  <2> QED
    BY <1>ty, <2>1, <2>2, IntentSteps DEF Visible, SyncedIntent
<1>3. \A g \in Gen : root'[g] \in rootMaybe'[g]
  <2>0. root \in [Gen -> RootState] /\ rootMaybe \in [Gen -> SUBSET RootState]
        /\ \A g \in Gen : root[g] \in rootMaybe[g]
    BY <1>ty DEF TypeOK, Visible
  <2>1. ASSUME NEW h, InstallRoot(h)
        PROVE  \A g \in Gen : root'[g] \in rootMaybe'[g]
    BY <2>0, <2>1 DEF InstallRoot, RootState
  <2>2. ASSUME NEW h, SyncTarget(h), root' = root
        PROVE  \A g \in Gen : root'[g] \in rootMaybe'[g]
    BY <2>0, <2>2 DEF SyncTarget
  <2>3. CASE PowerLoss
    BY <2>3 DEF PowerLoss
  <2> QED
    BY <2>0, <2>1, <2>2, <2>3, RootSteps
<1> QED
  BY <1>1, <1>2, <1>3 DEF Visible

(* A write of one control leaves the contents in doubt where the intent is.     *)
LEMMA PublishStraddles ==
  ASSUME IInv, NEW p \in Process, Publish(p)
  PROVE  intentMaybe' = {intent} /\ intent' = intent /\ intent # NoIntent /\ Straddles(intent)'
<1>0. /\ disk \in [ControlFile -> Pair] /\ maybe \in [ControlFile -> SUBSET Pair]
      /\ \A f \in ControlFile : disk[f] \in maybe[f]
      /\ intent \in intentMaybe
  BY DEF IInv, TypeOK, Visible
<1>1. intent # NoIntent /\ intentMaybe' = {intent} /\ intent' = intent
  BY DEF Publish, IntentStands, SyncedIntent
<1>2. Straddles(intent) /\ Real(intent.base) /\ Real(intent.view) /\ intent.target # Torn
  BY <1>0, <1>1, BoundsAssumption DEF IInv, IntentsStand, WellMade, Whole, Gen, Torn
<1>3. SyncedEntries["marker"] = {Marker}
  BY <1>0, <1>2 DEF SyncedEntries, Straddles, ControlFile
<1>4. CASE Classify(intent, disk) = "base_present" /\ Replace("carrier", intent.target, SyncedEntries)
  <2>1. disk["pointer"] = intent.base /\ disk["carrier"] = intent.view
    BY <1>4 DEF Classify
  <2>2. /\ maybe'["marker"] = SyncedEntries["marker"]
        /\ maybe'["pointer"] = maybe["pointer"] \cap {disk["pointer"], Torn}
        /\ maybe'["carrier"] = (maybe["carrier"] \cap {disk["carrier"], Torn}) \cup {intent.target}
    BY <1>0, <1>4 DEF Replace, SyncedEntries, ControlFile
  <2>3. maybe'["pointer"] = {intent.base}
    BY <1>0, <1>2, <2>1, <2>2 DEF Straddles, Real, ControlFile
  <2>4. maybe'["carrier"] \subseteq {intent.view, intent.target}
    BY <1>2, <2>1, <2>2 DEF Straddles, Real
  <2> QED
    BY <1>1, <1>3, <2>2, <2>3, <2>4 DEF Straddles
<1>5. CASE Classify(intent, disk) = "carrier_published" /\ Replace("pointer", intent.target, SyncedEntries)
  <2>1. disk["pointer"] = intent.base /\ disk["carrier"] = intent.target
    BY <1>5 DEF Classify
  <2>2. /\ maybe'["marker"] = SyncedEntries["marker"]
        /\ maybe'["pointer"] = (maybe["pointer"] \cap {disk["pointer"], Torn}) \cup {intent.target}
        /\ maybe'["carrier"] = maybe["carrier"] \cap {disk["carrier"], Torn}
    BY <1>0, <1>5 DEF Replace, SyncedEntries, ControlFile
  <2>3. maybe'["pointer"] \subseteq {intent.base, intent.target}
    BY <1>2, <2>1, <2>2 DEF Straddles, Real
  <2>4. maybe'["carrier"] = {intent.target}
    BY <1>0, <1>2, <2>1, <2>2 DEF Straddles, Real, ControlFile
  <2> QED
    BY <1>1, <1>3, <2>2, <2>3, <2>4 DEF Straddles
<1> QED
  BY <1>1, <1>4, <1>5 DEF Publish

(* The controls go on standing where every intent that may come back is.       *)
LEMMA StraddlesStep ==
  ASSUME IInv, [Next]_vars, NEW i \in intentMaybe \ {NoIntent}, i \in intentMaybe'
  PROVE  Straddles(i)'
<1>0. /\ Straddles(i)
      /\ \A f \in ControlFile : disk[f] \in maybe[f]
  BY DEF IInv, IntentsStand, Visible
<1>1. ASSUME UNCHANGED <<disk, maybe>>
      PROVE  Straddles(i)'
  BY <1>0, <1>1 DEF Straddles
<1>2. ASSUME NEW p \in Process, PublishCarrier(p) \/ PublishPointer(p) \/ PublishMarker(p)
      PROVE  FALSE
  BY <1>2, NoIntentYet
<1>3. ASSUME \A f \in ControlFile : \E x \in maybe[f] : maybe'[f] = {x}
      PROVE  Straddles(i)'
  BY <1>0, <1>3 DEF Straddles, ControlFile
<1>4. ASSUME maybe' = SyncedControls
      PROVE  Straddles(i)'
  BY <1>0, <1>3, <1>4 DEF SyncedControls
<1>5. ASSUME NEW p \in Process, Publish(p)
      PROVE  Straddles(i)'
  BY <1>5, PublishStraddles DEF Straddles
<1>6. CASE PowerLoss
  BY <1>3, <1>6 DEF PowerLoss
<1> QED
  BY <1>1, <1>2, <1>4, <1>5, <1>6, ControlSteps

LEMMA WellMadeStays ==
  ASSUME IInv, [Next]_vars, NEW i \in Intent, WellMade(i),
         \A p \in Process : Complete(p) => NotBefore(i.target, intent.target)
  PROVE  WellMade(i)'
<1>0. /\ Real(i.base) /\ Real(i.view) /\ Whole(i.target.gen)
      /\ i.target.gen <= head /\ i.target.id <= ids /\ NotBefore(i.target, served)
  BY DEF WellMade
<1>1. head \in Nat /\ head' \in Nat /\ ids \in Nat /\ ids' \in Nat /\ i.target.gen \in Nat /\ i.target.id \in Nat
  <2>1. TypeOK /\ TypeOK'
    BY TypeStep DEF IInv
  <2> QED
    BY <2>1, IntentFields, PairFields, BoundsAssumption DEF TypeOK, Gen
<1>2. NotBefore(i.target, served')
  BY <1>0, ServedSteps DEF Complete, NotBefore
<1> QED
  BY <1>0, <1>1, <1>2, Growth, WholeStays DEF WellMade, NotBefore

LEMMA IntentsStandStep == IInv /\ [Next]_vars => IntentsStand'
<1> SUFFICES ASSUME IInv, [Next]_vars, NEW i \in intentMaybe' \ {NoIntent}
             PROVE  Straddles(i)' /\ WellMade(i)' /\ i.before \in archiveSafe' \cup {0}
  BY DEF IntentsStand
<1>0. TypeOK /\ intent \in intentMaybe /\ intentMaybe \subseteq Intent
  BY DEF IInv, TypeOK, Visible
<1>1. CASE i \in intentMaybe
  <2>1. WellMade(i) /\ i \in Intent /\ i.before \in archiveSafe \cup {0}
    BY <1>0, <1>1 DEF IInv, IntentsStand
  <2>2. ASSUME NEW p \in Process, Complete(p)
        PROVE  NotBefore(i.target, intent.target)
    <3>1. i = intent
      BY <2>2 DEF Complete, SyncedIntent
    <3> QED
      BY <3>1, <1>0, IntentFields, PairFields, BoundsAssumption DEF NotBefore
  <2> QED
    BY <1>1, <2>1, <2>2, StraddlesStep, WellMadeStays, Growth
<1>2. CASE i \notin intentMaybe
  <2>1. PICK p \in Process : Announce(p)
    <3>1. PowerLoss => i \in intentMaybe
      BY DEF PowerLoss
    <3> QED
      BY <1>0, <1>2, <3>1, IntentSteps DEF SyncedIntent
  <2>2. /\ i = job[p].new /\ Inside(p, {"announce"})
        /\ UNCHANGED <<maybe, disk>> /\ archiveSafe' = archive
    BY <1>2, <2>1 DEF Announce, Inside
  <2>3. /\ \A f \in ControlFile : maybe[f] = {disk[f]}
        /\ disk["marker"] = Marker /\ i.base = disk["pointer"] /\ i.view = disk["carrier"]
        /\ WellMade(i) /\ i.before \in archive \cup {0}
    BY <2>2 DEF IInv, Announcing, Ready
  <2>4. i \in Intent
    BY <1>0, <2>2, JobFields DEF TypeOK
  <2>5. WellMade(i)'
    <3>1. \A q \in Process : ~Complete(q)
      BY <1>0, <1>2, <2>1, <2>2 DEF Announce, Complete
    <3> QED
      BY <2>3, <2>4, <3>1, WellMadeStays
  <2> QED
    BY <2>2, <2>3, <2>5 DEF Straddles, ControlFile
<1> QED
  BY <1>1, <1>2

LEMMA FirstIntentStep == IInv /\ [Next]_vars => FirstIntent'
<1> SUFFICES ASSUME IInv, [Next]_vars
             PROVE  FirstIntent'
  OBVIOUS
<1>0. intent \in intentMaybe /\ FirstIntent /\ maybe \in [ControlFile -> SUBSET Pair]
  BY DEF IInv, Visible, TypeOK
<1>1. intent' = NoIntent => intentMaybe' = {NoIntent}
  <2>1. ASSUME NEW p \in Process, Announce(p)
        PROVE  intent' # NoIntent
    <3>1. job[p].new = intent' /\ WellMade(job[p].new)
      BY <2>1 DEF Announce, IInv, Announcing, Ready, Inside
    <3> QED
      BY <3>1 DEF WellMade, Real, NoIntent
  <2>2. PowerLoss => intentMaybe' = {intent'}
    BY DEF PowerLoss
  <2> QED
    BY <1>0, <2>1, <2>2, IntentSteps DEF FirstIntent, SyncedIntent
<1>2. NoIntent \in intentMaybe' => NoIntent \in intentMaybe
  <2>1. ASSUME NEW p \in Process, Announce(p)
        PROVE  job[p].new # NoIntent /\ intentMaybe' = intentMaybe \cup {job[p].new}
    <3>1. WellMade(job[p].new) /\ intentMaybe' = intentMaybe \cup {job[p].new}
      BY <2>1 DEF Announce, IInv, Announcing, Ready, Inside
    <3> QED
      BY <3>1 DEF WellMade, Real, NoIntent
  <2>2. PowerLoss => intentMaybe' = {intent'} /\ intent' \in intentMaybe
    BY DEF PowerLoss
  <2> QED
    BY <1>0, <2>1, <2>2, IntentSteps DEF SyncedIntent
<1>3. ASSUME NoIntent \in intentMaybe'
      PROVE  served' = Absent
  <2>1. ASSUME NEW p \in Process, Complete(p)
        PROVE  FALSE
    BY <1>3, <2>1 DEF Complete, IntentStands, SyncedIntent
  <2> QED
    BY <1>0, <1>2, <1>3, <2>1, ServedSteps DEF FirstIntent
<1>4. ASSUME intentMaybe' # {NoIntent}, NEW x \in maybe'["pointer"]
      PROVE  Whole(x.gen)'
  <2>1. CASE intentMaybe = {NoIntent}
    <3>1. PICK p \in Process : Announce(p)
      <4>1. PowerLoss => intentMaybe' \subseteq intentMaybe
        BY DEF PowerLoss
      <4>2. intentMaybe' # {}
        BY VisibleStep DEF Visible
      <4> QED
        BY <1>0, <1>4, <2>1, <4>1, <4>2, IntentSteps DEF SyncedIntent
    <3>2. maybe["pointer"] = {disk["pointer"]} /\ Whole(disk["pointer"].gen) /\ maybe' = maybe
      BY <3>1 DEF Announce, IInv, Announcing, Ready, Inside, ControlFile
    <3> QED
      BY <1>4, <3>2, WholeStays
  <2>2. CASE intentMaybe # {NoIntent}
    <3>0. \A y \in maybe["pointer"] : Whole(y.gen)
      BY <1>0, <2>2 DEF FirstIntent
    <3>1. CASE x \in maybe["pointer"]
      BY <3>0, <3>1, WholeStays
    <3>2. CASE x \notin maybe["pointer"]
      <4>0. \A f \in ControlFile : disk[f] \in maybe[f]
        BY DEF IInv, Visible
      <4>1. ASSUME maybe' = SyncedControls \/ PowerLoss \/ UNCHANGED <<disk, maybe>>
            PROVE  maybe'["pointer"] \subseteq maybe["pointer"]
        BY <1>0, <4>0, <4>1 DEF PowerLoss, SyncedControls, ControlFile
      <4>2. ASSUME NEW p \in Process, PublishCarrier(p) \/ PublishPointer(p) \/ PublishMarker(p)
            PROVE  FALSE
        BY <2>2, <4>2, NoIntentYet
      <4>3. ASSUME NEW p \in Process, Publish(p)
            PROVE  x = intent.target
        <5>1. SyncedEntries["pointer"] \subseteq maybe["pointer"] /\ SyncedEntries \in [ControlFile -> SUBSET Pair]
          BY <1>0 DEF SyncedEntries, ControlFile
        <5> QED
          BY <1>4, <3>2, <4>3, <5>1 DEF Publish, Replace, ControlFile
      <4>4. PICK p \in Process : Publish(p)
        BY <1>4, <3>2, <4>1, <4>2, ControlSteps
      <4>5. x = intent.target /\ intent # NoIntent
        BY <4>3, <4>4 DEF Publish, IntentStands
      <4> QED
        BY <1>0, <4>5, WholeStays DEF IInv, IntentsStand, WellMade
    <3> QED
      BY <3>1, <3>2
  <2> QED
    BY <2>1, <2>2
<1> QED
  BY <1>1, <1>2, <1>3, <1>4 DEF FirstIntent

(* A step of one call leaves the others', and a lock another call holds.         *)
LEMMA OthersStay ==
  ASSUME IInv, NEW p \in Process, Step(p), NEW q \in Process, q # p
  PROVE  job'[q] = job[q] /\ (lock = {q} => lock' = {q})
<1>1. job \in [Process -> Job] /\ (Inside(p, {"pointer", "marker", "announce", "resume"}) => lock = {p})
  BY DEF IInv, TypeOK, Locked
<1>2. job'[q] = job[q]
  BY <1>1 DEF Step, StartAttach, AttachRoot, PublishNothing, PublishCarrier, PublishPointer,
     PublishMarker, PrepareInitial, StartRefresh, Prepare, Acquire, Check, CommitRoot, CommitResumes,
     CommitAnew, Announce, Publish, Complete, RecordSuccess, Read, Fail, Report, Die, Goto
<1>3. ASSUME lock = {q}
      PROVE  lock' = {q}
  BY <1>1, <1>3 DEF Step, StartAttach, AttachRoot, PublishNothing, PublishCarrier, PublishPointer,
     PublishMarker, PrepareInitial, StartRefresh, Prepare, Acquire, Check, CommitRoot, CommitResumes,
     CommitAnew, Announce, Publish, Complete, RecordSuccess, Read, Fail, Report, Die, Inside, LockFree
<1> QED
  BY <1>2, <1>3

(* What else a step may be.                                                 *)
LEMMA OtherSteps ==
  ASSUME [Next]_vars, \A p \in Process : ~Step(p)
  PROVE  \/ PowerLoss
         \/ UNCHANGED <<files, attached, lock, ids, job, served>> /\ (head' = head \/ head' = head + 1)
  BY DEF Next, Advance, vars

(* Where a step leaves its call.                                            *)
LEMMA Landing ==
  ASSUME IInv, NEW p \in Process
  PROVE  /\ StartAttach(p) => job'[p].at \in {"root", "prepare"}
         /\ AttachRoot(p) => job'[p].at = "carrier"
         /\ PublishNothing(p) \/ PublishMarker(p) => job'[p].at = "initial"
         /\ PublishCarrier(p) => job'[p].at = "pointer"
         /\ PublishPointer(p) => job'[p].at = "marker"
         /\ PrepareInitial(p) \/ Acquire(p) => job'[p].at = "check"
         /\ StartRefresh(p) => job'[p].at = "prepare"
         /\ Prepare(p) => job'[p].at = "acquire"
         /\ Check(p) => job'[p].at \in {"install", "resume"}
         /\ CommitRoot(p) => job'[p].at = "commit"
         /\ CommitAnew(p) => job'[p].at = "announce"
         /\ CommitResumes(p) \/ Announce(p) \/ Publish(p) \/ Read(p) => job'[p].at = "resume"
         /\ Complete(p) => job'[p].at \in {"admitted", "idle"}
         /\ RecordSuccess(p) \/ Report(p) \/ Die(p) => job'[p].at = "idle"
         /\ Fail(p) => job'[p].at \in {"report", "idle"}
<1>0. job \in [Process -> Job]
  BY DEF IInv, TypeOK
<1>1. \A at : job' = [job EXCEPT ![p].at = at] => job'[p].at = at
  BY <1>0 DEF Job
<1>2. /\ AttachRoot(p) => job'[p].at = "carrier"
      /\ PublishNothing(p) \/ PublishMarker(p) => job'[p].at = "initial"
      /\ PublishCarrier(p) => job'[p].at = "pointer"
      /\ PublishPointer(p) => job'[p].at = "marker"
      /\ CommitRoot(p) => job'[p].at = "commit"
      /\ Announce(p) => job'[p].at = "resume"
  BY <1>1 DEF AttachRoot, PublishNothing, PublishMarker, PublishCarrier, PublishPointer, CommitRoot,
     Announce, Goto
<1>3. StartAttach(p) => job'[p].at \in {"root", "prepare"}
  BY <1>0 DEF StartAttach, Idle
<1>4. PrepareInitial(p) \/ Acquire(p) => job'[p].at = "check"
  BY <1>0 DEF PrepareInitial, Acquire, Job
<1>5. StartRefresh(p) => job'[p].at = "prepare"
  BY <1>0 DEF StartRefresh, Idle
<1>6. Prepare(p) => job'[p].at = "acquire"
  BY <1>0 DEF Prepare, Job
<1>7. Check(p) => job'[p].at \in {"install", "resume"}
  <2>1. job' = [job EXCEPT ![p].new = job[p].raw, ![p].at = "resume"] => job'[p].at = "resume"
    BY <1>0 DEF Job
  <2> QED
    BY <1>1, <2>1 DEF Check, Goto
<1>8. CommitAnew(p) => job'[p].at = "announce"
  BY <1>0 DEF CommitAnew, Job
<1>9. CommitResumes(p) \/ Publish(p) => job'[p].at = "resume"
  BY <1>0 DEF CommitResumes, Publish, Job
<1>10. Read(p) => job'[p].at = "resume"
  BY <1>0 DEF Read, Idle
<1>11. /\ Complete(p) => job'[p].at \in {"admitted", "idle"}
       /\ Fail(p) => job'[p].at \in {"report", "idle"}
  <2>1. /\ \A at : [job[p] EXCEPT !.at = at].at = at
        /\ Idle.at = "idle"
    BY <1>0 DEF Job, Idle
  <2> QED
    BY <1>0, <2>1 DEF Complete, Fail
<1>12. RecordSuccess(p) \/ Report(p) \/ Die(p) => job'[p].at = "idle"
  BY <1>0 DEF RecordSuccess, Report, Die, Idle
<1> QED
  BY <1>2, <1>3, <1>4, <1>5, <1>6, <1>7, <1>8, <1>9, <1>10, <1>11, <1>12

LEMMA LockedStep == IInv /\ [Next]_vars => Locked'
<1> SUFFICES ASSUME IInv, [Next]_vars, NEW q \in Process,
                    job'[q].at \in {"pointer", "marker", "announce", "resume"}
             PROVE  lock' = {q}
  BY DEF Locked, Inside
<1>0. job \in [Process -> Job]
      /\ (job[q].at \in {"pointer", "marker", "announce", "resume"} => lock = {q})
  BY DEF IInv, TypeOK, Locked, Inside
<1>1. CASE Step(q)
  <2>1. \/ PublishCarrier(q) \/ CommitResumes(q) \/ CommitAnew(q) \/ Read(q) \/ PublishPointer(q)
        \/ Announce(q) \/ Publish(q) \/ Check(q)
    BY <1>1, Landing DEF Step
  <2>2. Check(q) => lock' = {q}
    <3>1. job' = [job EXCEPT ![q].at = "install"] => job'[q].at = "install"
      BY <1>0 DEF Job
    <3> QED
      BY <3>1 DEF Check, Goto
  <2> QED
    BY <1>0, <2>1, <2>2 DEF PublishCarrier, CommitResumes, CommitAnew, Read, PublishPointer, Announce,
       Publish
<1>2. ASSUME NEW p \in Process, Step(p), p # q
      PROVE  lock' = {q}
  BY <1>0, <1>2, OthersStay
<1>3. CASE PowerLoss
  BY <1>3 DEF PowerLoss, Idle
<1> QED
  BY <1>0, <1>1, <1>2, <1>3, OtherSteps

(* What a call keeps while it goes on, and what it takes up.                  *)
LEMMA Keeping ==
  ASSUME IInv, NEW p \in Process, Step(p), ~StartAttach(p), ~StartRefresh(p), ~Read(p),
         job'[p].at # "idle"
  PROVE  /\ job[p].at # "idle" /\ job'[p].mode = job[p].mode
         /\ Acquire(p) \/ job'[p].gen = job[p].gen
         /\ PrepareInitial(p) \/ Prepare(p) \/ (job'[p].base = job[p].base /\ job'[p].raw = job[p].raw)
<1>0. job \in [Process -> Job]
  BY DEF IInv, TypeOK
<1> DEFINE Same == job'[p].mode = job[p].mode /\ job'[p].gen = job[p].gen
                   /\ job'[p].base = job[p].base /\ job'[p].raw = job[p].raw
<1>1. \A at : job' = [job EXCEPT ![p].at = at] => Same
  BY <1>0 DEF Job
<1>2. \A at, i : job' = [job EXCEPT ![p].new = i, ![p].at = at] => Same
  BY <1>0 DEF Job
<1>3. ASSUME \/ AttachRoot(p) \/ PublishNothing(p) \/ PublishMarker(p) \/ PublishCarrier(p)
             \/ PublishPointer(p) \/ CommitRoot(p) \/ Announce(p)
      PROVE  Same
  BY <1>1, <1>3 DEF AttachRoot, PublishNothing, PublishMarker, PublishCarrier, PublishPointer,
     CommitRoot, Announce, Goto
<1>4. ASSUME Check(p) \/ CommitResumes(p) \/ CommitAnew(p)
      PROVE  Same
  <2>1. CASE Check(p)
    BY <1>1, <1>2, <2>1 DEF Check, Goto
  <2>2. CASE CommitResumes(p)
    BY <1>2, <2>2 DEF CommitResumes
  <2>3. CASE CommitAnew(p)
    BY <1>2, <2>3 DEF CommitAnew
  <2> QED
    BY <1>4, <2>1, <2>2, <2>3
<1>5. ASSUME Complete(p) \/ Fail(p)
      PROVE  Same
  <2>0. Idle.at = "idle" /\ job'[p].at # "idle"
    BY DEF Idle
  <2>1. \A at : job' = [job EXCEPT ![p] = [job[p] EXCEPT !.at = at]] => Same
    BY <1>0 DEF Job
  <2>2. job' = [job EXCEPT ![p] = Idle] => FALSE
    BY <1>0, <2>0
  <2> QED
    BY <1>5, <2>1, <2>2 DEF Complete, Fail
<1>6. ASSUME PrepareInitial(p) \/ Prepare(p)
      PROVE  job'[p].mode = job[p].mode /\ job'[p].gen = job[p].gen
  BY <1>0, <1>6 DEF PrepareInitial, Prepare, Job
<1>7. ASSUME Acquire(p)
      PROVE  /\ job'[p].mode = job[p].mode
             /\ job'[p].base = job[p].base /\ job'[p].raw = job[p].raw
  BY <1>0, <1>7 DEF Acquire, Job
<1>8. Publish(p) => Same
  BY DEF Publish
<1>9. ~RecordSuccess(p) /\ ~Report(p) /\ ~Die(p)
  BY Landing
<1>10. job[p].at # "idle"
  BY <1>9 DEF Step, AttachRoot, PublishNothing, PublishCarrier, PublishPointer, PublishMarker,
     PrepareInitial, Prepare, Acquire, Check, CommitRoot, CommitResumes, CommitAnew, Announce, Publish,
     Complete, Fail
<1> QED
  BY <1>3, <1>4, <1>5, <1>6, <1>7, <1>8, <1>9, <1>10 DEF Step

LEMMA Taking ==
  ASSUME IInv, NEW p \in Process
  PROVE  /\ StartAttach(p) => job'[p].mode = "attach" /\ job'[p].gen = head
         /\ StartRefresh(p) => job'[p].mode = "refresh" /\ job'[p].gen = 0
         /\ Read(p) => job'[p].mode = "read" /\ job'[p].gen = 0
         /\ PrepareInitial(p) => job'[p].base = disk /\ job'[p].raw = NoIntent
         /\ Prepare(p) => job'[p].base = disk /\ job'[p].raw = intent
         /\ Acquire(p) => job'[p].gen = head
         /\ CommitAnew(p) => job'[p].new = NewIntent(p, ids + 1)
<1>0. job \in [Process -> Job]
  BY DEF IInv, TypeOK
<1>1. StartAttach(p) => job'[p].mode = "attach" /\ job'[p].gen = head
  BY <1>0 DEF StartAttach, Idle
<1>2. StartRefresh(p) => job'[p].mode = "refresh" /\ job'[p].gen = 0
  BY <1>0 DEF StartRefresh, Idle
<1>3. Read(p) => job'[p].mode = "read" /\ job'[p].gen = 0
  BY <1>0 DEF Read, Idle
<1>4. PrepareInitial(p) => job'[p].base = disk /\ job'[p].raw = NoIntent
  BY <1>0 DEF PrepareInitial, Job
<1>5. Prepare(p) => job'[p].base = disk /\ job'[p].raw = intent
  BY <1>0 DEF Prepare, Job
<1>6. Acquire(p) => job'[p].gen = head
  BY <1>0 DEF Acquire, Job
<1>7. CommitAnew(p) => job'[p].new = NewIntent(p, ids + 1)
  <2>1. \A i : job' = [job EXCEPT ![p].new = i, ![p].at = "announce"] => job'[p].new = i
    BY <1>0 DEF Job
  <2> QED
    BY <2>1 DEF CommitAnew
<1> QED
  BY <1>1, <1>2, <1>3, <1>4, <1>5, <1>6, <1>7

LEMMA AttachAloneStep == IInv /\ [Next]_vars => AttachAlone'
<1> SUFFICES ASSUME IInv, [Next]_vars
             PROVE  AttachAlone'
  OBVIOUS
<1>0. /\ attached \in BOOLEAN /\ job \in [Process -> Job]
      /\ \A q \in Process : job[q].at # "idle" => (job[q].mode = "attach" <=> ~attached)
      /\ ~attached => \A q, r \in Process : job[q].at # "idle" /\ job[r].at # "idle" => q = r
  BY DEF IInv, TypeOK, AttachAlone, Inside
<1>1. ASSUME NEW p \in Process, Step(p)
      PROVE  AttachAlone'
  <2>1. \A q \in Process \ {p} : job'[q] = job[q]
    BY <1>1, OthersStay
  <2>2. CASE StartAttach(p)
    <3>1. ~attached /\ ~attached' /\ \A q \in Process : job[q].at = "idle"
      BY <1>0, <2>2 DEF StartAttach, Attaching
    <3> QED
      BY <2>1, <2>2, <3>1, Taking DEF AttachAlone, Inside
  <2>3. CASE StartRefresh(p) \/ Read(p)
    <3>1. attached /\ attached'
      BY <2>3 DEF StartRefresh, Read
    <3>2. job'[p].mode # "attach"
      BY <2>3, Taking
    <3> QED
      BY <1>0, <2>1, <3>1, <3>2 DEF AttachAlone, Inside
  <2>4. CASE ~StartAttach(p) /\ ~StartRefresh(p) /\ ~Read(p)
    <3>1. job'[p].at # "idle" => job[p].at # "idle" /\ job'[p].mode = job[p].mode
      BY <1>1, <2>4, Keeping
    <3>2. CASE attached' = attached
      BY <1>0, <2>1, <3>1, <3>2 DEF AttachAlone, Inside
    <3>3. CASE attached' # attached
      <4>1. Complete(p)
        <5>1. PICK q \in Process : Complete(q)
          BY <3>3, ServedSteps
        <5>2. job[q].at = "resume" /\ ~attached /\ attached'
          BY <1>0, <3>3, <5>1 DEF Complete
        <5>3. job[p].at # "idle"
          BY <1>1, <2>4 DEF Step, AttachRoot, PublishNothing, PublishCarrier, PublishPointer,
             PublishMarker, PrepareInitial, Prepare, Acquire, Check, CommitRoot, CommitResumes,
             CommitAnew, Announce, Publish, Complete, RecordSuccess, Fail, Report, Die
        <5> QED
          BY <1>0, <5>1, <5>2, <5>3
      <4>2. attached' /\ job[p].mode = "attach" /\ \A q \in Process \ {p} : job[q].at = "idle"
        BY <1>0, <3>3, <4>1 DEF Complete
      <4>3. job'[p].at = "idle"
        BY <1>0, <4>1, <4>2 DEF Complete, Idle
      <4> QED
        BY <2>1, <4>2, <4>3 DEF AttachAlone, Inside
    <3> QED
      BY <3>2, <3>3
  <2> QED
    BY <2>2, <2>3, <2>4
<1>2. CASE PowerLoss
  BY <1>2 DEF PowerLoss, Idle, AttachAlone, Inside
<1>3. CASE UNCHANGED <<attached, job>>
  BY <1>0, <1>3 DEF AttachAlone, Inside
<1> QED
  BY <1>1, <1>2, <1>3, OtherSteps

(* Nobody else does a thing while a project is being attached.                *)
LEMMA Alone ==
  ASSUME IInv, NEW p \in Process, Step(p), NEW q \in Process, job[q].at # "idle",
         job[q].mode = "attach"
  PROVE  p = q
<1>1. ~attached /\ \A r \in Process : job[r].at # "idle" => r = q
  BY DEF IInv, AttachAlone, Inside
<1>2. CASE job[p].at = "idle"
  BY <1>1, <1>2 DEF Step, StartAttach, AttachRoot, PublishNothing, PublishCarrier, PublishPointer,
     PublishMarker, PrepareInitial, StartRefresh, Prepare, Acquire, Check, CommitRoot, CommitResumes,
     CommitAnew, Announce, Publish, Complete, RecordSuccess, Read, Fail, Report, Die, Attaching
<1> QED
  BY <1>1, <1>2

LEMMA AttachmentStep == IInv /\ [Next]_vars => Attachment'
<1> SUFFICES ASSUME IInv, [Next]_vars, NEW q \in Process,
                    job'[q].at \in {"root", "carrier", "pointer", "marker", "initial"}
             PROVE  /\ job'[q].mode = "attach" /\ job'[q].gen \in Gen
                    /\ job'[q].at \in {"pointer", "marker"} =>
                         intent' = NoIntent /\ disk'["carrier"].gen = job'[q].gen
                    /\ job'[q].at = "marker" => disk'["pointer"] = disk'["carrier"]
                    /\ job'[q].at = "initial" /\ intent' = NoIntent =>
                         disk'["pointer"].gen = job'[q].gen
  BY DEF Attachment, Inside
<1>0. /\ head \in Gen /\ disk \in [ControlFile -> Pair]
      /\ job[q].at \in {"root", "carrier", "pointer", "marker", "initial"} =>
           job[q].mode = "attach" /\ job[q].gen \in Gen
      /\ job[q].at \in {"pointer", "marker"} => intent = NoIntent /\ disk["carrier"].gen = job[q].gen
      /\ job[q].at = "marker" => disk["pointer"] = disk["carrier"]
      /\ job[q].at = "initial" /\ intent = NoIntent => disk["pointer"].gen = job[q].gen
  BY DEF IInv, TypeOK, Attachment, Inside
<1>1. CASE Step(q)
  <2>1. \/ StartAttach(q) \/ AttachRoot(q) \/ PublishNothing(q) \/ PublishCarrier(q)
        \/ PublishPointer(q) \/ PublishMarker(q)
    BY <1>1, Landing DEF Step
  <2>2. CASE StartAttach(q)
    BY <1>0, <2>2, Taking, Landing
  <2>3. CASE ~StartAttach(q)
    <3>1. ~StartRefresh(q) /\ ~Read(q)
      BY Landing
    <3>2. job'[q].mode = job[q].mode /\ job'[q].gen = job[q].gen
      BY <1>1, <2>1, <2>3, <3>1, Keeping, Landing
    <3>3. CASE AttachRoot(q)
      BY <1>0, <3>2, <3>3, Landing DEF AttachRoot
    <3>4. CASE PublishNothing(q)
      BY <1>0, <3>2, <3>4, Landing DEF PublishNothing, files
    <3>5. CASE PublishCarrier(q)
      BY <1>0, <3>2, <3>5, Landing DEF PublishCarrier, WriteUnflushed, ControlFile
    <3>6. CASE PublishPointer(q)
      BY <1>0, <3>2, <3>6, Landing DEF PublishPointer, WriteUnflushed, ControlFile
    <3>7. CASE PublishMarker(q)
      BY <1>0, <3>2, <3>7, Landing DEF PublishMarker, WriteUnflushed, ControlFile
    <3> QED
      BY <2>1, <2>3, <3>3, <3>4, <3>5, <3>6, <3>7
  <2> QED
    BY <2>2, <2>3
<1>2. ASSUME NEW p \in Process, Step(p), p # q
      PROVE  FALSE
  BY <1>0, <1>2, OthersStay, Alone
<1>3. CASE PowerLoss
  BY <1>3 DEF PowerLoss, Idle
<1> QED
  BY <1>0, <1>1, <1>2, <1>3, OtherSteps DEF files

(* The installed generation is not ahead of the server.                      *)
LEMMA PointerKnown ==
  ASSUME IInv
  PROVE  /\ disk["pointer"].gen \in Nat /\ disk["pointer"].gen <= head /\ head \in Nat
         /\ NotBefore(disk["pointer"], served)
<1>1. disk["pointer"] \in maybe["pointer"] /\ disk["pointer"] \in Pair /\ head \in Nat
  BY BoundsAssumption DEF IInv, TypeOK, Visible, ControlFile, Gen
<1> QED
  BY <1>1, PairFields, BoundsAssumption DEF IInv, Ordered

LEMMA RefreshingStep == IInv /\ [Next]_vars => Refreshing'
<1> SUFFICES ASSUME IInv, [Next]_vars, NEW q \in Process,
                    job'[q].at \in {"acquire", "check", "install", "commit"}
             PROVE  /\ Prepared(q)'
                    /\ job'[q].at = "acquire" => job'[q].raw # NoIntent
                    /\ job'[q].at # "acquire" =>
                         /\ job'[q].gen \in Gen
                         /\ job'[q].base["pointer"].gen <= job'[q].gen
                         /\ job'[q].raw = NoIntent => job'[q].base["pointer"].gen = job'[q].gen
  BY DEF Refreshing, Inside
<1>0. /\ head \in Gen /\ head \in Nat /\ head' \in Nat
      /\ job[q].at \in {"acquire", "check", "install", "commit"} => Prepared(q)
      /\ job[q].at = "acquire" => job[q].raw # NoIntent
      /\ job[q].at \in {"check", "install", "commit"} =>
           /\ job[q].gen \in Gen
           /\ job[q].base["pointer"].gen <= job[q].gen
           /\ job[q].raw = NoIntent => job[q].base["pointer"].gen = job[q].gen
  BY TypeStep, BoundsAssumption DEF IInv, TypeOK, Refreshing, Inside, Gen
<1>h. head <= head'
  BY Growth
<1>1. job[q].base["pointer"].gen \in Nat
  BY JobFields, PairFields, BoundsAssumption DEF IInv, TypeOK, ControlFile
<1>2. ASSUME Prepared(q), job'[q].base = job[q].base
      PROVE  Prepared(q)'
  BY <1>0, <1>1, <1>2, <1>h DEF Prepared
<1>3. ASSUME HasControls, job'[q].base = disk
      PROVE  Prepared(q)'
  BY <1>0, <1>3, <1>h, PointerKnown DEF Prepared, HasControls, Real
<1>4. CASE Step(q)
  <2>1. \/ Prepare(q) \/ PrepareInitial(q) \/ Acquire(q) \/ Check(q) \/ CommitRoot(q)
    BY <1>4, Landing DEF Step
  <2>2. ~StartAttach(q) /\ ~StartRefresh(q) /\ ~Read(q)
    BY Landing
  <2>3. CASE Prepare(q)
    BY <1>3, <2>3, Taking, Landing DEF Prepare, IntentStands
  <2>4. CASE PrepareInitial(q)
    <3>1. job'[q].base = disk /\ job'[q].gen = job[q].gen /\ job'[q].at = "check"
      BY <1>4, <2>2, <2>4, Taking, Landing, Keeping DEF PrepareInitial, Acquire
    <3>2. HasControls /\ intent = NoIntent /\ job[q].at = "initial"
      BY <2>4 DEF PrepareInitial
    <3>3. disk["pointer"].gen = job[q].gen /\ job[q].gen \in Gen
      BY <3>2 DEF IInv, Attachment, Inside
    <3> QED
      BY <1>3, <3>1, <3>2, <3>3, PointerKnown
  <2>5. CASE Acquire(q)
    <3>1. job[q].at = "acquire"
      BY <2>5 DEF Acquire
    <3>2. job'[q].gen = head /\ job'[q].at = "check"
          /\ job'[q].base = job[q].base /\ job'[q].raw = job[q].raw
      BY <1>4, <2>2, <2>5, <3>1, Taking, Landing, Keeping DEF PrepareInitial, Prepare
    <3> QED
      BY <1>0, <1>2, <3>1, <3>2 DEF Prepared
  <2>6. CASE Check(q) \/ CommitRoot(q)
    <3>1. job[q].at \in {"check", "install"} /\ job'[q].at \in {"install", "commit"}
      BY <2>6, Landing DEF Check, CommitRoot
    <3>2. /\ job'[q].base = job[q].base /\ job'[q].raw = job[q].raw /\ job'[q].gen = job[q].gen
      BY <1>4, <2>2, <3>1, Keeping DEF Acquire, PrepareInitial, Prepare
    <3> QED
      BY <1>0, <1>2, <3>1, <3>2
  <2> QED
    BY <2>1, <2>3, <2>4, <2>5, <2>6
<1>5. CASE job'[q] = job[q]
  BY <1>0, <1>2, <1>5
<1>6. CASE PowerLoss
  BY <1>6 DEF PowerLoss, Idle
<1> QED
  BY <1>4, <1>5, <1>6, OthersStay, OtherSteps

(* A control a step adds to those in doubt is one it may be ordered by.          *)
LEMMA ControlsGained ==
  ASSUME IInv, [Next]_vars, NEW f \in {"pointer", "carrier"}, NEW x \in maybe'[f]
  PROVE  \/ x \in maybe[f]
         \/ served = Absent /\ x \in Pair
            /\ (x = Torn \/ x = disk["carrier"] \/ \E p \in Process : x.gen = job[p].gen /\ job[p].at # "idle")
         \/ x = intent.target /\ WellMade(intent) /\ intent \in Intent
<1>0. /\ disk \in [ControlFile -> Pair] /\ maybe \in [ControlFile -> SUBSET Pair]
      /\ \A g \in ControlFile : disk[g] \in maybe[g]
      /\ intent \in Intent /\ intent \in intentMaybe
      /\ f \in ControlFile /\ maybe' \in [ControlFile -> SUBSET Pair]
  BY TypeStep DEF IInv, TypeOK, Visible, ControlFile
<1>1. ASSUME NEW p \in Process, PublishCarrier(p) \/ PublishPointer(p) \/ PublishMarker(p)
      PROVE  x \in maybe[f] \/ (served = Absent /\ x \in Pair
              /\ (x = Torn \/ x = disk["carrier"] \/ (x.gen = job[p].gen /\ job[p].at # "idle")))
  <2>1. served = Absent /\ x \in Pair
    BY <1>0, <1>1, NoIntentYet
  <2>2. CASE PublishCarrier(p)
    BY <1>0, <2>1, <2>2 DEF PublishCarrier, WriteUnflushed, ControlFile
  <2>3. CASE PublishPointer(p)
    BY <1>0, <2>1, <2>3 DEF PublishPointer, WriteUnflushed, ControlFile
  <2>4. CASE PublishMarker(p)
    BY <1>0, <2>1, <2>4 DEF PublishMarker, WriteUnflushed, ControlFile
  <2> QED
    BY <1>1, <2>2, <2>3, <2>4
<1>2. ASSUME NEW p \in Process, Publish(p)
      PROVE  x \in maybe[f] \/ (x = intent.target /\ WellMade(intent))
  <2>1. WellMade(intent)
    BY <1>0, <1>2 DEF Publish, IntentStands, IInv, IntentsStand
  <2>2. SyncedEntries \in [ControlFile -> SUBSET Pair] /\ SyncedEntries[f] \subseteq maybe[f]
    BY <1>0 DEF SyncedEntries
  <2> QED
    BY <1>0, <1>2, <2>1, <2>2 DEF Publish, Replace, ControlFile
<1>3. ASSUME maybe' = SyncedControls \/ PowerLoss \/ UNCHANGED <<disk, maybe>>
      PROVE  x \in maybe[f]
  BY <1>0, <1>3 DEF SyncedControls, PowerLoss
<1> QED
  BY <1>0, <1>1, <1>2, <1>3, ControlSteps

LEMMA OrderedStep == IInv /\ [Next]_vars => Ordered'
<1> SUFFICES ASSUME IInv, [Next]_vars
             PROVE  Ordered'
  OBVIOUS
<1>0. TypeOK /\ TypeOK' /\ Ordered /\ served.id <= ids
      /\ \A f \in ControlFile : disk[f] \in maybe[f]
  BY TypeStep DEF IInv, Ordered, Visible
<1>1. /\ head \in Nat /\ head' \in Nat /\ ids \in Nat /\ ids' \in Nat /\ head <= head' /\ ids <= ids'
      /\ served.id \in Nat /\ served.gen \in Nat
      /\ intent \in Intent /\ intent.target.id \in Nat /\ intent.target.gen \in Nat
      /\ \A y \in Pair : y.gen \in Nat /\ y.id \in Nat
      /\ Absent.gen = 0 /\ Absent.id = 0 /\ Torn.gen = 0
  BY <1>0, Growth, IntentFields, PairFields, BoundsAssumption DEF TypeOK, Gen, Absent, Torn
<1>2. ASSUME NEW p \in Process, Complete(p)
      PROVE  /\ served' = intent.target /\ maybe'["pointer"] = {intent.target}
             /\ intent.target.id <= ids
  <2>1. intent # NoIntent /\ disk["pointer"] = intent.target
    BY <1>2 DEF Complete, IntentStands, Classify
  <2>2. WellMade(intent)
    BY <2>1 DEF IInv, Visible, IntentsStand
  <2> QED
    BY <1>2, <2>1, <2>2 DEF Complete, WellMade, SyncedControls, ControlFile
<1>3. served'.id <= ids'
  BY <1>0, <1>1, <1>2, ServedSteps
<1>4. ASSUME NEW x \in maybe'["pointer"]
      PROVE  NotBefore(x, served')
  <2>0. x \in Pair
    BY <1>0 DEF TypeOK, ControlFile
  <2>1. CASE served' = served
    <3>1. x \in maybe["pointer"] => NotBefore(x, served)
      BY <1>0 DEF Ordered
    <3>2. served = Absent => NotBefore(x, served)
      BY <1>1, <2>0 DEF NotBefore
    <3>3. WellMade(intent) => NotBefore(intent.target, served)
      BY DEF WellMade
    <3> QED
      BY <2>1, <3>1, <3>2, <3>3, ControlsGained
  <2>2. CASE served' # served
    <3>1. PICK p \in Process : Complete(p)
      BY <2>2, ServedSteps
    <3>2. x = intent.target /\ served' = intent.target
      BY <1>2, <3>1
    <3> QED
      BY <1>1, <3>2 DEF NotBefore
  <2> QED
    BY <2>1, <2>2
<1>5. ASSUME NEW f \in {"pointer", "carrier"}, NEW x \in maybe'[f]
      PROVE  x.gen <= head'
  <2>0. x \in Pair /\ x.gen \in Nat /\ disk["carrier"] \in maybe["carrier"]
    BY <1>0, <1>1 DEF TypeOK, ControlFile
  <2>1. x \in maybe[f] => x.gen <= head
    BY <1>0 DEF Ordered
  <2>2. disk["carrier"].gen <= head
    BY <1>0, <2>0 DEF Ordered
  <2>3. \A p \in Process : job[p].at # "idle" => job[p].gen <= head
    BY <1>0 DEF Ordered, Inside
  <2>4. WellMade(intent) => intent.target.gen <= head
    BY DEF WellMade
  <2>5. x.gen <= head
    BY <1>1, <2>1, <2>2, <2>3, <2>4, ControlsGained
  <2> QED
    BY <1>1, <2>0, <2>5
<1>6. ASSUME NEW q \in Process, job'[q].at # "idle"
      PROVE  job'[q].gen <= head'
  <2>0. (job[q].at # "idle" => job[q].gen <= head) /\ job[q].gen \in Nat
    BY <1>0, JobFields, BoundsAssumption DEF Ordered, Inside, TypeOK
  <2>1. CASE job'[q] = job[q]
    BY <1>1, <1>6, <2>0, <2>1
  <2>2. CASE Step(q)
    BY <1>1, <1>6, <2>0, <2>2, Taking, Keeping
  <2>3. CASE PowerLoss
    BY <1>6, <2>3 DEF PowerLoss, Idle
  <2> QED
    BY <2>1, <2>2, <2>3, OthersStay, OtherSteps
<1> QED
  BY <1>3, <1>4, <1>5, <1>6 DEF Ordered, Inside

(* While one call holds the lock the others change nothing on disk.            *)
LEMMA LockedOut ==
  ASSUME IInv, NEW p \in Process, Step(p), NEW q \in Process, q # p, lock = {q}
  PROVE  UNCHANGED <<disk, maybe, intent, intentMaybe, archive, archiveSafe, served>>
<1>1. job[p].at \notin {"pointer", "marker", "announce", "resume"}
  BY DEF IInv, Locked, Inside
<1> QED
  BY <1>1 DEF Step, StartAttach, AttachRoot, PublishNothing, PublishCarrier, PublishPointer,
     PublishMarker, PrepareInitial, StartRefresh, Prepare, Acquire, Check, CommitRoot, CommitResumes,
     CommitAnew, Announce, Publish, Complete, RecordSuccess, Read, Fail, Report, Die, LockFree, files

LEMMA AnnouncingStep == IInv /\ [Next]_vars => Announcing'
<1> SUFFICES ASSUME IInv, [Next]_vars, NEW q \in Process, job'[q].at = "announce",
                    NEW new \in Intent, job'[q].new = new
             PROVE  Ready(new)'
  BY TypeStep, JobFields DEF Announcing, Inside, Ready, TypeOK
<1>0. TypeOK /\ (job[q].at = "announce" => Ready(job[q].new) /\ lock = {q})
  BY DEF IInv, Announcing, Inside, Locked
<1>1. CASE job'[q] = job[q] /\ UNCHANGED <<disk, maybe, intent, intentMaybe, archive, served>>
  <2>1. Ready(new) /\ lock = {q} /\ job[q].at = "announce"
    BY <1>0, <1>1
  <2>2. \A p \in Process : ~Complete(p)
    BY <2>1 DEF Complete, IInv, Locked, Inside
  <2>3. WellMade(new)'
    BY <2>1, <2>2, WellMadeStays DEF Ready
  <2>4. Whole(new.base.gen)'
    BY <2>1, WholeStays DEF Ready
  <2> QED
    BY <1>1, <2>1, <2>3, <2>4 DEF Ready
<1>2. CASE Step(q)
  <2>1. CommitAnew(q)
    BY <1>2, Landing DEF Step
  <2>2. /\ new = NewIntent(q, ids + 1) /\ job[q].at = "commit"
        /\ disk = job[q].base /\ intent = job[q].raw
        /\ SyncTarget(job[q].gen)
        /\ maybe' = SyncedControls /\ intentMaybe' = {intent}
        /\ ids' = ids + 1 /\ archive' = archive \cup ({intent.target.id} \ {0})
        /\ UNCHANGED <<head, disk, intent, root, served>>
    BY <2>1, Taking DEF CommitAnew, NotStale, SyncedIntent
  <2>3. /\ disk["marker"] = Marker /\ Real(disk["pointer"]) /\ Real(disk["carrier"])
        /\ job[q].gen \in Gen /\ disk["pointer"].gen <= job[q].gen
        /\ intent = NoIntent => disk["pointer"].gen = job[q].gen
    BY <2>2 DEF IInv, Refreshing, Prepared, Inside
  <2>4. /\ new.base = disk["pointer"] /\ new.view = disk["carrier"]
        /\ new.target = [gen |-> job[q].gen, id |-> ids + 1] /\ new.before = intent.target.id
    BY <2>2 DEF NewIntent
  <2>5. new.target.gen \in Gen /\ rootMaybe'[new.target.gen] = {"whole"}
    BY <1>0, <2>2, <2>3, <2>4 DEF SyncTarget, TypeOK
  <2>6. Whole(new.base.gen)'
    <3>1. CASE intent = NoIntent
      BY <2>3, <2>4, <2>5, <3>1 DEF Whole
    <3>2. CASE intent # NoIntent
      <4>1. Whole(new.base.gen)
        BY <2>4, <3>2 DEF IInv, Visible, FirstIntent, ControlFile
      <4> QED
        BY <4>1, WholeStays
    <3> QED
      BY <3>1, <3>2
  <2>7. NotBefore(new.target, served)
    <3>1. /\ served.id <= ids /\ served.id \in Nat /\ ids \in Nat
          /\ served.gen <= disk["pointer"].gen /\ served.gen \in Nat
          /\ disk["pointer"].gen \in Nat /\ job[q].gen \in Nat
      BY <1>0, <2>3, PointerKnown, PairFields, BoundsAssumption
         DEF IInv, Ordered, TypeOK, NotBefore, Gen
    <3> QED
      BY <2>3, <2>4, <3>1 DEF NotBefore
  <2>8. new.target.gen <= head /\ new.target.id <= ids'
    <3>1. job[q].gen <= head /\ ids + 1 <= ids'
      BY <1>0, <2>2, BoundsAssumption DEF IInv, Ordered, Inside, TypeOK
    <3> QED
      BY <2>4, <3>1
  <2>9. WellMade(new)'
    BY <2>2, <2>3, <2>4, <2>5, <2>7, <2>8 DEF WellMade, Whole, Real, NotBefore
  <2> QED
    BY <2>2, <2>3, <2>4, <2>6, <2>9 DEF SyncedControls, Ready
<1>3. ASSUME NEW p \in Process, Step(p), p # q
      PROVE  Ready(new)'
  BY <1>0, <1>1, <1>3, OthersStay, LockedOut
<1>4. CASE PowerLoss
  BY <1>4 DEF PowerLoss, Idle
<1> QED
  BY <1>1, <1>2, <1>3, <1>4, OtherSteps DEF files

-----------------------------------------------------------------------------
LEMMA InitInv == Init => IInv
<1> SUFFICES ASSUME Init
             PROVE  IInv
  OBVIOUS
<1>1. TypeOK
  <2>1. /\ 1 \in Gen /\ 0 \in 0..MaxGen /\ 0 \in 0..MaxTicks /\ 0 \in 0..MaxIds /\ 0 \in 0..MaxLosses
    BY BoundsAssumption DEF Gen
  <2>2. NoControls \in [ControlFile -> Pair] /\ NoAttempt \in Attempt
    BY <2>1, PairFields DEF NoControls, NoAttempt, Attempt
  <2> QED
    BY <2>1, <2>2, PairFields, IntentFields, IdleIsJob DEF Init, TypeOK, RootState
<1>2. \A p \in Process : job[p].at = "idle"
  BY DEF Init, Idle
<1>3. /\ intent = NoIntent /\ intentMaybe = {NoIntent} /\ served = Absent /\ ids = 0 /\ head = 1
      /\ \A f \in ControlFile : maybe[f] = {Absent} /\ disk[f] = Absent
      /\ \A g \in Gen : root[g] = "none" /\ rootMaybe[g] = {"none"}
  BY DEF Init, NoControls
<1>4. Visible /\ FirstIntent /\ IntentsStand
  BY <1>3 DEF Visible, FirstIntent, IntentsStand
<1>5. Ordered
  BY <1>2, <1>3 DEF Ordered, NotBefore, Absent, Inside, ControlFile
<1>6. Locked /\ AttachAlone /\ Attachment /\ Refreshing /\ Announcing
  BY <1>2 DEF Locked, AttachAlone, Attachment, Refreshing, Announcing, Inside
<1> QED
  BY <1>1, <1>4, <1>5, <1>6 DEF IInv

LEMMA StepInv == IInv /\ [Next]_vars => IInv'
  BY TypeStep, VisibleStep, IntentsStandStep, FirstIntentStep, OrderedStep, LockedStep,
     AttachAloneStep, AttachmentStep, RefreshingStep, AnnouncingStep DEF IInv

THEOREM Invariance == Spec => []IInv
<1>1. Init => IInv
  BY InitInv
<1>2. IInv /\ [Next]_vars => IInv'
  BY StepInv
<1> QED
  BY <1>1, <1>2, PTL DEF Spec

(* What holds of every content in doubt holds of the visible one.             *)
LEMMA InvIsSound == IInv => ReplicaSound
<1> SUFFICES ASSUME IInv
             PROVE  ReplicaSound
  OBVIOUS
<1>0. /\ \A f \in ControlFile : disk[f] \in maybe[f]
      /\ intent \in intentMaybe
      /\ root \in [Gen -> RootState] /\ \A g \in Gen : root[g] \in rootMaybe[g]
      /\ archiveSafe \subseteq archive
  BY DEF IInv, Visible, TypeOK
<1>1. ASSUME intent # NoIntent
      PROVE  IntentStands /\ root[disk["pointer"].gen] = "whole" /\ root[intent.target.gen] = "whole"
  <2>1. /\ Straddles(intent) /\ Real(intent.base) /\ Real(intent.view) /\ Whole(intent.target.gen)
        /\ intent.before \in archiveSafe \cup {0}
    BY <1>0, <1>1 DEF IInv, IntentsStand, WellMade
  <2>2. intent.target # Absent /\ intent.target # Torn
    BY <2>1, BoundsAssumption DEF Whole, Gen, Absent, Torn
  <2>3. /\ disk["marker"] = Marker
        /\ \/ disk["pointer"] = intent.base /\ disk["carrier"] \in {intent.view, intent.target}
           \/ disk["pointer"] \in {intent.base, intent.target} /\ disk["carrier"] = intent.target
    BY <1>0, <2>1 DEF Straddles, ControlFile
  <2>4. HasControls
    BY <2>1, <2>2, <2>3 DEF HasControls, Real
  <2>5. Classify(intent, disk) # "conflict"
    BY <2>3 DEF Classify
  <2>6. Whole(disk["pointer"].gen)
    BY <1>0, <1>1 DEF IInv, FirstIntent, ControlFile
  <2> QED
    BY <1>0, <1>1, <2>1, <2>4, <2>5, <2>6 DEF IntentStands, Whole
<1>2. ServedStaysInstalled
  BY PointerKnown DEF ServedStaysInstalled, NotBefore
<1> QED
  BY <1>1, <1>2 DEF ReplicaSound, IntentAlwaysStands, SelectedRootsAreWhole

(* Whatever dies and wherever the power fails: an intent on disk can be acted    *)
(* on (generation_installation.py, _intent never refuses it), the roots it and   *)
(* the pointer select are whole, and a generation handed to a caller stays      *)
(* installed.                                                               *)
THEOREM ReplicaIsSound == Spec => []ReplicaSound
  BY Invariance, InvIsSound, PTL

-----------------------------------------------------------------------------
(* The clock of the status is not behind a success it records.               *)
Clocked == TypeOK /\ attempt.ok <= tick

LEMMA ClockedStep == IInv /\ Clocked /\ [Next]_vars => Clocked' /\ attempt'.ok >= attempt.ok
<1> SUFFICES ASSUME IInv, Clocked, [Next]_vars
             PROVE  Clocked' /\ attempt'.ok >= attempt.ok
  OBVIOUS
<1>0. TypeOK' /\ attempt.ok \in Nat /\ tick \in Nat /\ attempt.ok <= tick
      /\ attempt \in Attempt /\ job \in [Process -> Job]
  <2>1. TypeOK /\ TypeOK' /\ attempt.ok <= tick
    BY TypeStep DEF Clocked
  <2> QED
    BY <2>1, BoundsAssumption DEF TypeOK, Attempt
<1>1. ASSUME NEW p \in Process, StartRefresh(p)
      PROVE  attempt'.ok = attempt.ok /\ tick' = tick + 1
  BY <1>0, <1>1 DEF StartRefresh, Attempt
<1>2. ASSUME NEW p \in Process, RecordSuccess(p)
      PROVE  attempt'.ok = tick + 1 /\ tick' = tick + 1
  BY <1>0, <1>2, JobFields DEF RecordSuccess, Attempt
<1>3. ASSUME NEW p \in Process, Report(p)
      PROVE  attempt'.ok = attempt.ok /\ tick' = tick
  BY <1>0, <1>3, AttemptFails DEF Report
<1>4. ASSUME UNCHANGED <<attempt, tick>>
      PROVE  Clocked' /\ attempt'.ok >= attempt.ok
  BY <1>0, <1>4 DEF Clocked
<1>5. ASSUME NEW p \in Process, Step(p), ~StartRefresh(p), ~RecordSuccess(p), ~Report(p)
      PROVE  UNCHANGED <<attempt, tick>>
  BY <1>5 DEF Step, StartAttach, AttachRoot, PublishNothing, PublishCarrier, PublishPointer,
     PublishMarker, PrepareInitial, Prepare, Acquire, Check, CommitRoot, CommitResumes, CommitAnew,
     Announce, Publish, Complete, Read, Fail, Die, status
<1>6. ASSUME PowerLoss \/ Advance \/ UNCHANGED vars
      PROVE  UNCHANGED <<attempt, tick>>
  BY <1>6 DEF PowerLoss, Advance, vars, status
<1>7. ASSUME NEW p \in Process, Step(p)
      PROVE  Clocked' /\ attempt'.ok >= attempt.ok
  BY <1>0, <1>1, <1>2, <1>3, <1>4, <1>5, <1>7 DEF Clocked
<1> QED
  BY <1>4, <1>6, <1>7 DEF Next

(* The status never forgets a success: a refresh that fails late, with an older   *)
(* record in hand, does not write over the success of another (the handler of    *)
(* refresh_replica, generation_refresh_status.py).                            *)
THEOREM SuccessIsKept == Spec => LastSuccessKept
<1>1. Init => Clocked
  BY InitInv, BoundsAssumption DEF Clocked, IInv, Init, NoAttempt
<1>2. IInv /\ Clocked /\ [Next]_vars => Clocked' /\ [attempt'.ok >= attempt.ok]_attempt
  BY ClockedStep
<1> QED
  BY <1>1, <1>2, Invariance, PTL DEF Spec, LastSuccessKept

-----------------------------------------------------------------------------
(* Acquisition.tla: fetching a generation.                                   *)

(* There is an attempt and a GET in it; every generation has all artifacts.  *)
QSetting ==
  /\ MaxTries \in Nat \ {0} /\ MaxAttempts \in Nat \ {0}
  /\ \A g \in Generations : Digest[g] = [p \in Paths |-> Digest[g][p]]

Loads == {"lookup", "check", "get", "remint", "keep", "settle"}
Stages == {"start", "chunk", "fetch", "interrupted", "done", "failed"}
Downloads == [at : {"out"} \union Loads, fails : Nat, reminted : BOOLEAN, seen : Nat]

QTypes ==
  /\ committed \in Generations /\ tries \in 0 .. MaxTries /\ stage \in Stages
  /\ stage \in {"chunk", "fetch", "interrupted"} => target \in Generations
  /\ page.mint \in Nat /\ todo \cup chunk \cup waiting \subseteq Paths
  /\ work \in [Paths -> Downloads]
  /\ bodies = [p \in Paths |-> bodies[p]] /\ gets \in [Paths -> Nat]
  /\ failure \in {"none", "fault", "superseded"}

(* A path handed to a thread, or to be, has a link now and after any re-mint. *)
Linked == Running \union waiting \subseteq outstanding \intersect page.paths

(* GETs answered for by w: the failed ones of this budget, the budget before   *)
(* the re-mint, and the one that brought the body.                           *)
Spent(w) == w.fails + (IF w.reminted THEN MaxAttempts ELSE 0)
                    + (IF w.at \in {"keep", "settle"} THEN 1 ELSE 0)

WithinBudget(p) ==
  /\ work[p].fails < MaxAttempts
  /\ p \in waiting => work[p].at = "out" /\ gets[p] = 0
  /\ work[p].at # "out" => gets[p] <= Spent(work[p])
  /\ gets[p] <= 2 * MaxAttempts
  /\ work[p].at = "remint" => work[p].reminted /\ work[p].fails = 0

(* Who is about to ask for links with the latest ones had them refused.       *)
Refused(p) ==
  /\ work[p].at # "out" => work[p].seen <= page.mint
  /\ work[p].at = "remint" /\ work[p].seen = page.mint => denied

(* Why an attempt is over, a window stopped or a download given up.           *)
Reasons ==
  /\ stage = "start" => tries < MaxTries
  /\ FailsForCause
  /\ stage = "interrupted" => trouble
  /\ failure = "fault" => trouble
  /\ stop => failure # "none" \/ trouble

Right(p) == bodies[p] = Digest[target][p]

(* Without trouble what is not to be fetched any more is what it should be.    *)
Fetched ==
  ~trouble =>
    /\ stage \in {"chunk", "fetch"} => \A p \in Paths \ todo : Right(p)
    /\ stage = "fetch" => \A p \in Paths : work[p].at = "settle" => Right(p)
    /\ stage = "fetch" /\ failure = "none" =>
         \A p \in chunk \ waiting : work[p].at = "out" => Right(p)

Budgets == \A p \in Paths : WithinBudget(p)
Refusals == \A p \in Paths : Refused(p)

QInv == QTypes /\ NoStrayFetch /\ Linked /\ Reasons /\ Fetched /\ Budgets /\ Refusals

(* The work of one path changes.                                            *)
LEMMA Reworked ==
  ASSUME QTypes, NEW p \in Paths, NEW w \in Downloads, work' = [work EXCEPT ![p] = w]
  PROVE  /\ work' \in [Paths -> Downloads] /\ work'[p] = w
         /\ \A q \in Paths \ {p} : work'[q] = work[q]
BY DEF QTypes

LEMMA Rests ==
  ASSUME QTypes, NEW p \in Paths, work' = [work EXCEPT ![p] = Resting]
  PROVE  /\ work' \in [Paths -> Downloads] /\ work'[p].at = "out"
         /\ \A q \in Paths \ {p} : work'[q] = work[q]
<1>1. Resting \in Downloads /\ Resting.at = "out"
  BY DEF Resting, Downloads
<1> QED BY <1>1, Reworked

LEMMA Moves ==
  ASSUME QTypes, NEW p \in Paths, NEW place \in Loads, MovesTo(p, place)
  PROVE  /\ work' \in [Paths -> Downloads] /\ work'[p].at = place
         /\ work'[p].fails = work[p].fails /\ work'[p].reminted = work[p].reminted
         /\ work'[p].seen = work[p].seen
         /\ \A q \in Paths \ {p} : work'[q] = work[q]
<1>1. work[p] \in Downloads
  BY DEF QTypes
<1> DEFINE w == [work[p] EXCEPT !.at = place]
<1>2. /\ w \in Downloads /\ w.at = place /\ w.fails = work[p].fails
      /\ w.reminted = work[p].reminted /\ w.seen = work[p].seen
  BY <1>1 DEF Downloads
<1>3. work' = [work EXCEPT ![p] = w]
  BY DEF MovesTo
<1> HIDE DEF w
<1> QED BY <1>2, <1>3, Reworked

-----------------------------------------------------------------------------
(* Every action keeps the invariant.                                        *)

LEMMA SupersedeKeeps ==
  ASSUME QSetting, QInv, Supersede
  PROVE  QInv'
<1> USE DEF QSetting, QInv
<1>1. QTypes'
  BY DEF QTypes, Stages, Downloads, Loads, Supersede, window, outer, Resting
<1>2. NoStrayFetch'
  BY DEF QTypes, NoStrayFetch, Running, Supersede, window, outer, Resting
<1>3. Linked'
  BY DEF QTypes, NoStrayFetch, Linked, Running, Supersede, window, outer, Resting
<1>4. Reasons'
  BY DEF QTypes, Reasons, FailsForCause, Fetched, Right, Running, Supersede, window, outer, Resting
<1>5. Fetched'
  BY DEF QTypes, Fetched, Reasons, Right, Running, Supersede, window, outer, Resting
<1>6. Budgets'
  BY DEF QTypes, Budgets, WithinBudget, Spent, Downloads, Loads, Supersede, window, outer, Resting
<1>7. Refusals'
  BY DEF QTypes, Refusals, Refused, Downloads, NoStrayFetch, Running, Supersede, window, outer, Resting
<1> QED BY <1>1, <1>2, <1>3, <1>4, <1>5, <1>6, <1>7

LEMMA BeginKeeps ==
  ASSUME QSetting, QInv, Begin
  PROVE  QInv'
<1> USE DEF QSetting, QInv
<1>1. QTypes'
  BY DEF QTypes, Reasons, Stages, Downloads, Loads, Begin, window, Reused
<1>2. NoStrayFetch'
  BY DEF QTypes, NoStrayFetch, Running, Begin, window, outer, Resting, Reused
<1>3. Linked'
  BY DEF QTypes, NoStrayFetch, Linked, Running, Begin, window, outer, Resting, Reused
<1>4. Reasons'
  BY DEF QTypes, Reasons, FailsForCause, Fetched, Right, Running, Begin, window, outer, Resting, Reused
<1>5. Fetched'
  BY DEF QTypes, Fetched, Reasons, Right, Running, Begin, window, outer, Resting, Reused
<1>6. Budgets'
  BY DEF QTypes, Budgets, WithinBudget, Spent, Downloads, Loads, Begin, window, outer, Resting, Reused
<1>7. Refusals'
  BY DEF QTypes, Refusals, Refused, Downloads, NoStrayFetch, Running, Begin, window, outer, Resting, Reused
<1> QED BY <1>1, <1>2, <1>3, <1>4, <1>5, <1>6, <1>7

LEMMA PresignChunkKeeps ==
  ASSUME QSetting, QInv, PresignChunk
  PROVE  QInv'
<1> USE DEF QSetting, QInv
<1>0. \A q \in Paths : work[q].at = "out"
  BY DEF PresignChunk, NoStrayFetch, Running
<1>1. QTypes'
<2>1. UNCHANGED <<bodies, tries, committed, target, todo, work>> /\ stage' \in Stages
  BY DEF PresignChunk, TryAgain, window, Stages
<2>2. page'.mint \in Nat /\ gets' \in [Paths -> Nat] /\ chunk' \cup waiting' \subseteq Paths
  BY DEF PresignChunk, QTypes, window
<2>3. target \in Generations /\ failure' \in {"none", "fault", "superseded"}
  BY DEF PresignChunk, QTypes, window
<2> QED BY <2>1, <2>2, <2>3 DEF QTypes
<1>2. NoStrayFetch'
  BY DEF QTypes, NoStrayFetch, Running, PresignChunk, window, outer, Resting, TryAgain
<1>3. Linked'
  BY DEF QTypes, NoStrayFetch, Linked, Running, PresignChunk, window, outer, Resting, TryAgain
<1>4. Reasons'
  BY DEF QTypes, Reasons, FailsForCause, Fetched, Right, Running, PresignChunk, window, outer, Resting, TryAgain
<1>5. Fetched'
<2>1. CASE stage' = "fetch"
  BY <1>0, <2>1 DEF Fetched, Right, QTypes, PresignChunk, window, TryAgain
<2>2. CASE stage' # "fetch"
  BY <1>0, <2>2 DEF Fetched, Right, QTypes, PresignChunk, window, TryAgain
<2> QED BY <2>1, <2>2
<1>6. Budgets'
  BY <1>0 DEF QTypes, Budgets, WithinBudget, PresignChunk, window
<1>7. Refusals'
  BY <1>0 DEF Refusals, Refused, PresignChunk, window
<1> QED BY <1>1, <1>2, <1>3, <1>4, <1>5, <1>6, <1>7

LEMMA SubmitKeeps ==
  ASSUME QSetting, QInv, NEW p \in Paths, Submit(p)
  PROVE  QInv'
<1> USE DEF QSetting, QInv
<1>1. QTypes'
  BY DEF QTypes, Stages, Downloads, Loads, Submit, window, outer, Resting
<1>2. NoStrayFetch'
  BY DEF QTypes, NoStrayFetch, Running, Submit, window, outer, Resting
<1>3. Linked'
  BY DEF QTypes, NoStrayFetch, Linked, Running, Submit, window, outer, Resting
<1>4. Reasons'
  BY DEF QTypes, Reasons, FailsForCause, Fetched, Right, Running, Submit, window, outer, Resting
<1>5. Fetched'
  BY DEF QTypes, Fetched, Reasons, Right, Running, Submit, window, outer, Resting
<1>6. Budgets'
  BY DEF QTypes, Budgets, WithinBudget, Spent, Downloads, Loads, Submit, window, outer, Resting
<1>7. Refusals'
  BY DEF QTypes, Refusals, Refused, Downloads, NoStrayFetch, Running, Submit, window, outer, Resting
<1> QED BY <1>1, <1>2, <1>3, <1>4, <1>5, <1>6, <1>7

(* A download is given up for trouble, or because the window was stopped.     *)
LEMMA QuitKeeps ==
  ASSUME QSetting, QInv, NEW p \in Paths, work[p].at # "out",
         NEW why \in {"fault", "superseded"}, Quit(p, why),
         UNCHANGED <<outer, waiting, page, outstanding, bodies>>,
         trouble => trouble', why = "superseded" \/ stop \/ trouble',
         gets' \in [Paths -> Nat], gets'[p] <= 2 * MaxAttempts,
         \A q \in Paths \ {p} : gets'[q] = gets[q],
         denied => denied'
  PROVE  QInv'
<1> USE DEF QSetting, QInv
<1>0. /\ work' \in [Paths -> Downloads] /\ work'[p].at = "out" /\ work'[p].fails = 0
      /\ \A q \in Paths \ {p} : work'[q] = work[q]
<2>1. work' = [work EXCEPT ![p] = Resting] /\ Resting.fails = 0
  BY DEF Quit, Resting
<2> QED BY <2>1, Rests DEF QTypes
<1>1. QTypes'
  BY <1>0 DEF QTypes, Quit, outer
<1>2. NoStrayFetch' /\ Linked'
  BY <1>0 DEF NoStrayFetch, Linked, Running, outer
<1>3. /\ stop' /\ failure' # "none"
      /\ failure' = IF failure = "none" THEN why ELSE failure
  BY DEF Quit, QTypes
<1>4. Reasons'
<2>1. failure' = "fault" => trouble'
  BY <1>3 DEF Reasons
<2> QED BY <1>3, <2>1 DEF Reasons, FailsForCause, outer
<1>5. Fetched'
<2>1. \A q \in Paths : Right(q)' = Right(q)
  BY DEF Right, outer
<2> QED BY <1>0, <1>3, <2>1 DEF Fetched, QTypes, outer
<1>6. Budgets'
  BY <1>0 DEF Budgets, WithinBudget, Spent, QTypes
<1>7. Refusals'
  BY <1>0 DEF Refusals, Refused
<1> QED BY <1>1, <1>2, <1>4, <1>5, <1>6, <1>7

(* A download goes on to a point that is neither out nor settled.             *)
LEMMA GoesOn ==
  ASSUME QSetting, QInv, NEW p \in Paths, work[p].at # "out",
         UNCHANGED <<outer, waiting, outstanding, bodies, stop, failure>>,
         trouble => trouble',
         work' \in [Paths -> Downloads], work'[p].at \notin {"out", "settle"},
         \A q \in Paths \ {p} : work'[q] = work[q],
         page'.mint \in Nat, gets' \in [Paths -> Nat]
  PROVE  QTypes' /\ NoStrayFetch' /\ Reasons' /\ Fetched'
<1> USE DEF QSetting, QInv
<1>1. QTypes'
  BY DEF QTypes, outer
<1>2. NoStrayFetch'
  BY DEF NoStrayFetch, Running, outer
<1>3. Reasons'
  BY DEF Reasons, FailsForCause, outer
<1>4. \A q \in Paths : Right(q)' = Right(q)
  BY DEF Right, outer
<1>5. Fetched'
  BY <1>4 DEF Fetched, QTypes, outer
<1> QED BY <1>1, <1>2, <1>3, <1>5

LEMMA LookUpKeeps ==
  ASSUME QSetting, QInv, NEW p \in Paths, LookUp(p)
  PROVE  QInv'
<1> USE DEF QSetting, QInv
<1>0. /\ work' \in [Paths -> Downloads] /\ \A q \in Paths \ {p} : work'[q] = work[q]
      /\ work'[p] = [work[p] EXCEPT !.at = "check", !.seen = page.mint]
<2>1. work[p] \in Downloads /\ page.mint \in Nat
  BY DEF QTypes
<2>2. [work[p] EXCEPT !.at = "check", !.seen = page.mint] \in Downloads
  BY <2>1 DEF Downloads, Loads
<2>3. work' = [work EXCEPT ![p] = [work[p] EXCEPT !.at = "check", !.seen = page.mint]]
  BY DEF LookUp
<2> QED BY <2>2, <2>3, Reworked
<1>1. /\ work'[p].at = "check" /\ work'[p].fails = work[p].fails
      /\ work'[p].reminted = work[p].reminted /\ work'[p].seen = page.mint
  BY <1>0 DEF QTypes, Downloads
<1>2. QTypes' /\ NoStrayFetch' /\ Reasons' /\ Fetched'
  BY <1>0, <1>1, GoesOn DEF QTypes, LookUp, StandsAt
<1>3. Linked'
  BY <1>0 DEF Linked, Running, LookUp, StandsAt
<1>4. Budgets'
  BY <1>0, <1>1 DEF Budgets, WithinBudget, Spent, LookUp, StandsAt
<1>5. Refusals'
  BY <1>0, <1>1 DEF Refusals, Refused, LookUp, QTypes
<1> QED BY <1>2, <1>3, <1>4, <1>5

LEMMA CheckStopKeeps ==
  ASSUME QSetting, QInv, NEW p \in Paths, CheckStop(p)
  PROVE  QInv'
<1> USE DEF QSetting, QInv
<1>1. CASE stop
  BY <1>1, QuitKeeps DEF CheckStop, StandsAt, QTypes, Budgets, WithinBudget
<1>2. CASE ~stop
<2>1. MovesTo(p, "get") /\ UNCHANGED <<stop, failure>>
  BY <1>2 DEF CheckStop
<2>2. /\ work' \in [Paths -> Downloads] /\ work'[p].at = "get"
      /\ work'[p].fails = work[p].fails /\ work'[p].reminted = work[p].reminted
      /\ work'[p].seen = work[p].seen /\ \A q \in Paths \ {p} : work'[q] = work[q]
  BY <2>1, Moves DEF Loads
<2>3. QTypes' /\ NoStrayFetch' /\ Reasons' /\ Fetched'
  BY <2>1, <2>2, GoesOn DEF QTypes, CheckStop, StandsAt
<2>4. Linked'
  BY <2>2 DEF Linked, Running, CheckStop, StandsAt
<2>5. Budgets'
  BY <2>2 DEF Budgets, WithinBudget, Spent, CheckStop, StandsAt
<2>6. Refusals'
  BY <2>2 DEF Refusals, Refused, CheckStop, StandsAt
<2> QED BY <2>3, <2>4, <2>5, <2>6
<1> QED BY <1>1, <1>2

(* What a failed GET leads to.                                              *)
LEMMA FailedGet ==
  ASSUME QSetting, QTypes, NEW p \in Paths, NEW fault, AfterGet(p, fault), ~Quit(p, "fault")
  PROVE  /\ UNCHANGED <<stop, failure>>
         /\ work' \in [Paths -> Downloads] /\ \A q \in Paths \ {p} : work'[q] = work[q]
         /\ work'[p].seen = work[p].seen
         /\ \/ /\ ~work[p].reminted /\ fault = "expired"
               /\ work'[p].at = "remint" /\ work'[p].fails = 0 /\ work'[p].reminted
            \/ /\ work[p].fails + 1 < MaxAttempts /\ work'[p].at = "lookup"
               /\ work'[p].fails = work[p].fails + 1
               /\ work'[p].reminted = work[p].reminted
<1>0. work[p] \in Downloads /\ work[p].fails \in Nat
  BY DEF QTypes, Downloads
<1>1. CASE fault = "expired" /\ ~work[p].reminted /\ ~stop
<2> DEFINE w == [work[p] EXCEPT !.at = "remint", !.fails = 0, !.reminted = TRUE]
<2>1. /\ w \in Downloads /\ w.at = "remint" /\ w.fails = 0 /\ w.reminted
      /\ w.seen = work[p].seen
  BY <1>0 DEF Downloads, Loads
<2>2. work' = [work EXCEPT ![p] = w] /\ UNCHANGED <<stop, failure>>
  BY <1>1 DEF AfterGet
<2> HIDE DEF w
<2> QED BY <1>1, <2>1, <2>2, Reworked
<1>2. CASE ~(fault = "expired" /\ ~work[p].reminted /\ ~stop)
<2>0. PICK n \in Nat : n = work[p].fails + 1
  BY <1>0
<2> DEFINE w == [work[p] EXCEPT !.at = "lookup", !.fails = n]
<2>1. /\ w \in Downloads /\ w.at = "lookup" /\ w.fails = n
      /\ w.reminted = work[p].reminted /\ w.seen = work[p].seen
  BY <1>0 DEF Downloads, Loads
<2>2. ~(work[p].fails + 1 >= MaxAttempts) /\ UNCHANGED <<stop, failure>>
      /\ work' = [work EXCEPT ![p] = w]
  BY <1>2, <2>0 DEF AfterGet
<2>3. work[p].fails + 1 < MaxAttempts /\ w.fails = work[p].fails + 1
  BY <1>0, <2>0, <2>1, <2>2 DEF QSetting
<2> HIDE DEF w
<2> QED BY <2>1, <2>2, <2>3, Reworked
<1> QED BY <1>1, <1>2

LEMMA GetKeeps ==
  ASSUME QSetting, QInv, NEW p \in Paths, Get(p)
  PROVE  QInv'
<1> USE DEF QSetting, QInv
<1>1. /\ work[p].at = "get" /\ gets[p] <= work[p].fails + (IF work[p].reminted THEN MaxAttempts ELSE 0)
      /\ work[p].fails + 1 <= MaxAttempts /\ work[p].fails \in Nat /\ gets[p] \in Nat
  BY DEF Get, StandsAt, Budgets, WithinBudget, Spent, QTypes, Downloads
<1>2. /\ gets' \in [Paths -> Nat] /\ gets'[p] \in {gets[p], gets[p] + 1}
      /\ \A q \in Paths \ {p} : gets'[q] = gets[q]
  BY DEF Get, CountGet, QTypes
<1>3. gets'[p] <= 2 * MaxAttempts
  BY <1>1, <1>2
<1>4. UNCHANGED <<outer, waiting, page, outstanding, bodies>>
  BY DEF Get
<1>5. CASE MovesTo(p, "keep") /\ UNCHANGED <<stop, failure, denied, trouble>>
<2>2. /\ work' \in [Paths -> Downloads] /\ work'[p].at = "keep"
      /\ work'[p].fails = work[p].fails /\ work'[p].reminted = work[p].reminted
      /\ work'[p].seen = work[p].seen /\ \A q \in Paths \ {p} : work'[q] = work[q]
  BY <1>5, Moves DEF Loads
<2>3. QTypes' /\ NoStrayFetch' /\ Reasons' /\ Fetched'
  BY <1>1, <1>2, <1>4, <1>5, <2>2, GoesOn DEF QTypes
<2>4. Linked'
  BY <1>1, <1>4, <2>2 DEF Linked, Running
<2>5. Budgets'
  BY <1>1, <1>2, <1>3, <1>4, <2>2 DEF Budgets, WithinBudget, Spent
<2>6. Refusals'
  BY <1>1, <1>4, <1>5, <2>2 DEF Refusals, Refused
<2> QED BY <2>3, <2>4, <2>5, <2>6
<1>6. CASE \E fault \in {"transient", "permanent", "expired"} :
             /\ AfterGet(p, fault)
             /\ denied' = (denied \/ (fault = "expired" /\ work[p].seen = page.mint))
             /\ trouble' = TRUE
<2> PICK fault \in {"transient", "permanent", "expired"} :
      /\ AfterGet(p, fault)
      /\ denied' = (denied \/ (fault = "expired" /\ work[p].seen = page.mint))
      /\ trouble' = TRUE
  BY <1>6
<2>1. CASE Quit(p, "fault")
<3>1. denied => denied'
  BY DEF QTypes
<3> QED BY <1>1, <1>2, <1>3, <1>4, <2>1, <3>1, QuitKeeps
<2>2. CASE ~Quit(p, "fault")
<3>1. /\ UNCHANGED <<stop, failure>>
      /\ work' \in [Paths -> Downloads] /\ \A q \in Paths \ {p} : work'[q] = work[q]
      /\ work'[p].seen = work[p].seen
      /\ \/ /\ ~work[p].reminted /\ fault = "expired"
            /\ work'[p].at = "remint" /\ work'[p].fails = 0 /\ work'[p].reminted
         \/ /\ work[p].fails + 1 < MaxAttempts /\ work'[p].at = "lookup"
            /\ work'[p].fails = work[p].fails + 1
            /\ work'[p].reminted = work[p].reminted
  BY <2>2, FailedGet
<3>2. QTypes' /\ NoStrayFetch' /\ Reasons' /\ Fetched'
  BY <1>1, <1>2, <1>4, <3>1, GoesOn DEF QTypes
<3>3. Linked'
  BY <1>1, <1>4, <3>1 DEF Linked, Running
<3>4. Budgets'
  BY <1>1, <1>2, <1>3, <1>4, <3>1 DEF Budgets, WithinBudget, Spent
<3>5. Refusals'
  BY <1>1, <1>4, <3>1 DEF Refusals, Refused
<3> QED BY <3>2, <3>3, <3>4, <3>5
<2> QED BY <2>1, <2>2
<1> QED BY <1>5, <1>6 DEF Get

LEMMA RemintKeeps ==
  ASSUME QSetting, QInv, NEW p \in Paths, Remint(p)
  PROVE  QInv'
<1> USE DEF QSetting, QInv
<1>1. /\ work[p].at = "remint" /\ UNCHANGED <<outer, waiting, outstanding, bodies, gets>>
      /\ gets[p] <= 2 * MaxAttempts /\ gets \in [Paths -> Nat] /\ page.mint \in Nat
  BY DEF Remint, StandsAt, Budgets, WithinBudget, QTypes
<1>2. ASSUME NEW why \in {"fault", "superseded"}, Quit(p, why), UNCHANGED <<page, denied>>,
             trouble => trouble', why = "superseded" \/ trouble'
      PROVE  QInv'
  BY <1>1, <1>2, QuitKeeps
<1>3. ASSUME MovesTo(p, "lookup"), UNCHANGED <<stop, failure, trouble>>,
             \/ UNCHANGED <<page, denied>>
             \/ page' = [paths |-> outstanding, mint |-> page.mint + 1]
      PROVE  QInv'
<2>2. /\ work' \in [Paths -> Downloads] /\ work'[p].at = "lookup"
      /\ work'[p].fails = work[p].fails /\ work'[p].reminted = work[p].reminted
      /\ work'[p].seen = work[p].seen /\ \A q \in Paths \ {p} : work'[q] = work[q]
  BY <1>3, Moves DEF Loads
<2>0. page'.mint \in {page.mint, page.mint + 1}
  BY <1>3
<2>1. page'.mint \in Nat /\ gets' \in [Paths -> Nat] /\ work[p].at # "out"
  BY <1>1, <2>0
<2>3. QTypes' /\ NoStrayFetch' /\ Reasons' /\ Fetched'
  BY <1>1, <1>3, <2>1, <2>2, GoesOn
<2>4. Linked'
  BY <1>1, <1>3, <2>2 DEF Linked, Running
<2>5. Budgets'
  BY <1>1, <2>2 DEF Budgets, WithinBudget, Spent
<2>6. Refusals'
<3>1. CASE UNCHANGED <<page, denied>>
  BY <1>1, <3>1, <2>2 DEF Refusals, Refused
<3>2. CASE page' = [paths |-> outstanding, mint |-> page.mint + 1]
<4>1. page'.mint = page.mint + 1
  BY <3>2
<4>2. \A q \in Paths : work[q].seen \in Nat
  BY DEF QTypes, Downloads
<4> QED BY <1>1, <4>1, <4>2, <2>2 DEF Refusals, Refused
<3> QED BY <1>3, <3>1, <3>2
<2> QED BY <2>3, <2>4, <2>5, <2>6
<1>4. CASE ~MineIsLatest(p)
  BY <1>3, <1>4 DEF Remint
<1>5. CASE MineIsLatest(p)
  BY <1>2, <1>3, <1>5 DEF Remint
<1> QED BY <1>4, <1>5

LEMMA KeepKeeps ==
  ASSUME QSetting, QInv, NEW p \in Paths, Keep(p)
  PROVE  QInv'
<1> USE DEF QSetting, QInv
<1>1. /\ work[p].at = "keep"
      /\ UNCHANGED <<outer, waiting, page, outstanding, gets, denied>>
      /\ gets[p] <= 2 * MaxAttempts /\ gets \in [Paths -> Nat] /\ page.mint \in Nat
  BY DEF Keep, StandsAt, Budgets, WithinBudget, QTypes
<1>2. CASE Quit(p, "fault") /\ trouble' = TRUE /\ UNCHANGED bodies
  BY <1>1, <1>2, QuitKeeps
<1>3. CASE /\ MovesTo(p, "settle") /\ UNCHANGED <<stop, failure>>
           /\ \E b \in {Digest[target][p], Nothing} :
                /\ bodies' = [bodies EXCEPT ![p] = b]
                /\ (b = Digest[target][p] /\ UNCHANGED trouble) \/ trouble' = TRUE
<2>2. /\ work' \in [Paths -> Downloads] /\ work'[p].at = "settle"
      /\ work'[p].fails = work[p].fails /\ work'[p].reminted = work[p].reminted
      /\ work'[p].seen = work[p].seen /\ \A q \in Paths \ {p} : work'[q] = work[q]
  BY <1>3, Moves DEF Loads
<2>3. QTypes'
  BY <1>1, <1>3, <2>2 DEF QTypes, outer
<2>4. NoStrayFetch' /\ Linked'
  BY <1>1, <2>2 DEF NoStrayFetch, Linked, Running, outer
<2>5. Reasons'
  BY <1>1, <1>3 DEF Reasons, FailsForCause, outer
<2>6. Fetched'
<3>1. SUFFICES ASSUME ~trouble'
               PROVE  Fetched'
  BY DEF Fetched
<3>2. bodies' = [bodies EXCEPT ![p] = Digest[target][p]] /\ UNCHANGED trouble
  BY <1>3, <3>1
<3>3. Right(p)' /\ \A q \in Paths \ {p} : Right(q)' = Right(q)
  BY <1>1, <3>2 DEF Right, QTypes, outer
<3>4. UNCHANGED <<stage, todo, chunk, waiting, failure>> /\ chunk \subseteq Paths
  BY <1>1, <1>3 DEF outer, QTypes
<3> QED BY <2>2, <3>2, <3>3, <3>4 DEF Fetched
<2>7. Budgets'
  BY <1>1, <2>2 DEF Budgets, WithinBudget, Spent
<2>8. Refusals'
  BY <1>1, <2>2 DEF Refusals, Refused
<2> QED BY <2>3, <2>4, <2>5, <2>6, <2>7, <2>8
<1> QED BY <1>2, <1>3 DEF Keep

LEMMA ConcludeKeeps ==
  ASSUME QSetting, QInv, NEW p \in Paths, Conclude(p)
  PROVE  QInv'
<1> USE DEF QSetting, QInv
<1>1. QTypes'
  BY DEF QTypes, Stages, Downloads, Loads, Conclude, window, outer, Resting, StandsAt
<1>2. NoStrayFetch'
  BY DEF QTypes, NoStrayFetch, Running, Conclude, window, outer, Resting, StandsAt
<1>3. Linked'
  BY DEF QTypes, NoStrayFetch, Linked, Running, Conclude, window, outer, Resting, StandsAt
<1>4. Reasons'
  BY DEF QTypes, Reasons, FailsForCause, Fetched, Right, Running, Conclude, window, outer, Resting, StandsAt
<1>5. Fetched'
  BY DEF QTypes, Fetched, Reasons, Right, Running, Conclude, window, outer, Resting, StandsAt
<1>6. Budgets'
  BY DEF QTypes, Budgets, WithinBudget, Spent, Downloads, Loads, Conclude, window, outer, Resting, StandsAt
<1>7. Refusals'
  BY DEF QTypes, Refusals, Refused, Downloads, NoStrayFetch, Running, Conclude, window, outer, Resting, StandsAt
<1> QED BY <1>1, <1>2, <1>3, <1>4, <1>5, <1>6, <1>7

LEMMA InterruptKeeps ==
  ASSUME QSetting, QInv, Interrupt
  PROVE  QInv'
<1> USE DEF QSetting, QInv
<1>1. QTypes'
  BY DEF QTypes, Stages, Downloads, Loads, Interrupt, window, outer, Resting
<1>2. NoStrayFetch'
  BY DEF QTypes, NoStrayFetch, Running, Interrupt, window, outer, Resting
<1>3. Linked'
  BY DEF QTypes, NoStrayFetch, Linked, Running, Interrupt, window, outer, Resting
<1>4. Reasons'
  BY DEF QTypes, Reasons, FailsForCause, Fetched, Right, Running, Interrupt, window, outer, Resting
<1>5. Fetched'
  BY DEF QTypes, Fetched, Reasons, Right, Running, Interrupt, window, outer, Resting
<1>6. Budgets'
  BY DEF QTypes, Budgets, WithinBudget, Spent, Downloads, Loads, Interrupt, window, outer, Resting
<1>7. Refusals'
  BY DEF QTypes, Refusals, Refused, Downloads, NoStrayFetch, Running, Interrupt, window, outer, Resting
<1> QED BY <1>1, <1>2, <1>3, <1>4, <1>5, <1>6, <1>7

LEMMA EndChunkKeeps ==
  ASSUME QSetting, QInv, EndChunk
  PROVE  QInv'
<1> USE DEF QSetting, QInv
<1>1. QTypes'
  BY DEF QTypes, Stages, Downloads, Loads, EndChunk, window, outer, Resting, TryAgain, Drained
<1>2. NoStrayFetch'
  BY DEF QTypes, NoStrayFetch, Running, EndChunk, window, outer, Resting, TryAgain, Drained
<1>3. Linked'
  BY DEF QTypes, NoStrayFetch, Linked, Running, EndChunk, window, outer, Resting, TryAgain, Drained
<1>4. Reasons'
  BY DEF QTypes, Reasons, FailsForCause, Fetched, Right, Running, EndChunk, window, outer, Resting, TryAgain, Drained
<1>5. Fetched'
  BY DEF QTypes, Fetched, Reasons, Right, Running, EndChunk, window, outer, Resting, TryAgain, Drained
<1>6. Budgets'
  BY DEF QTypes, Budgets, WithinBudget, Spent, Downloads, Loads, EndChunk, window, outer, Resting, TryAgain, Drained
<1>7. Refusals'
  BY DEF QTypes, Refusals, Refused, Downloads, NoStrayFetch, Running, EndChunk, window, outer, Resting, TryAgain, Drained
<1> QED BY <1>1, <1>2, <1>3, <1>4, <1>5, <1>6, <1>7

LEMMA VerifyKeeps ==
  ASSUME QSetting, QInv, Verify
  PROVE  QInv'
<1> USE DEF QSetting, QInv
<1>1. QTypes'
  BY DEF QTypes, Stages, Downloads, Loads, Verify, window, outer, Resting
<1>2. NoStrayFetch'
  BY DEF QTypes, NoStrayFetch, Running, Verify, window, outer, Resting
<1>3. Linked'
  BY DEF QTypes, NoStrayFetch, Linked, Running, Verify, window, outer, Resting
<1>4. Reasons'
  BY DEF QTypes, Reasons, FailsForCause, Fetched, Right, Running, Verify, window, outer, Resting
<1>5. Fetched'
  BY DEF QTypes, Fetched, Reasons, Right, Running, Verify, window, outer, Resting
<1>6. Budgets'
  BY DEF QTypes, Budgets, WithinBudget, Spent, Downloads, Loads, Verify, window, outer, Resting
<1>7. Refusals'
  BY DEF QTypes, Refusals, Refused, Downloads, NoStrayFetch, Running, Verify, window, outer, Resting
<1> QED BY <1>1, <1>2, <1>3, <1>4, <1>5, <1>6, <1>7

LEMMA StutterKeeps ==
  ASSUME QInv, UNCHANGED qvars
  PROVE  QInv'
BY DEF QInv, QTypes, NoStrayFetch, Linked, Reasons, FailsForCause, Fetched, Right, Budgets,
       WithinBudget, Refusals, Refused, Running, Spent, qvars, window

LEMMA QInitIsSound ==
  ASSUME QSetting, QInit
  PROVE  QInv
<1>1. QTypes /\ \A p \in Paths : work[p].at = "out"
  BY DEF QInit, QSetting, QTypes, Stages, Downloads, Resting
<1>2. NoStrayFetch /\ Linked /\ Reasons /\ Fetched
  BY <1>1 DEF QInit, QSetting, NoStrayFetch, Linked, Running, Reasons, FailsForCause, Fetched
<1>3. Budgets /\ Refusals
  BY <1>1 DEF QInit, QSetting, Budgets, WithinBudget, Refusals, Refused, Resting
<1> QED BY <1>1, <1>2, <1>3 DEF QInv

LEMMA QStepKeeps ==
  ASSUME QSetting, QInv, [QNext]_qvars
  PROVE  QInv'
<1>1. CASE Acquiring
<2>1. ASSUME NEW p \in Paths, FetchOne(p) PROVE QInv'
  BY <2>1, SubmitKeeps, LookUpKeeps, CheckStopKeeps, GetKeeps, RemintKeeps, KeepKeeps,
     ConcludeKeeps DEF FetchOne
<2> QED BY <1>1, <2>1, BeginKeeps, PresignChunkKeeps, EndChunkKeeps, VerifyKeeps DEF Acquiring
<1>2. CASE Supersede \/ Interrupt
  BY <1>2, SupersedeKeeps, InterruptKeeps
<1> QED BY <1>1, <1>2, StutterKeeps DEF QNext

(* A re-mint that brings new links follows a refusal of the latest ones.      *)
LEMMA MintFollowsRefusal ==
  ASSUME QInv, [QNext]_qvars, page'.mint > page.mint
  PROVE  denied
<1>1. page.mint \in Nat
  BY DEF QInv, QTypes
<1>2. ASSUME NEW p \in Paths, Remint(p) PROVE denied
  BY <1>1, <1>2 DEF QInv, Refusals, Refused, Remint, MineIsLatest, StandsAt
<1>3. CASE PresignChunk
  BY <1>1, <1>3 DEF PresignChunk, window
<1>4. ASSUME UNCHANGED page PROVE FALSE
  BY <1>1, <1>4
<1> QED BY <1>2, <1>3, <1>4 DEF QNext, Acquiring, FetchOne, qvars, window, outer, Supersede,
          Begin, Submit, LookUp, CheckStop, Get, Keep, Conclude, Interrupt, EndChunk, Verify

(* AcquisitionSound, for any artifacts, generations, window sizes and budgets: *)
(* no download outlives its attempt, GETs are bounded, links are there and    *)
(* minted again only when refused, and an acquisition fails only for cause.   *)
THEOREM AcquisitionsAreSound ==
  ASSUME QSetting
  PROVE  QSpec => AcquisitionSound
<1>1. QInit => QInv
  BY QInitIsSound
<1>2. QInv /\ [QNext]_qvars => QInv'
  BY QStepKeeps
<1>3. QInv => NoStrayFetch /\ GetsBounded /\ LinksAreThere /\ FailsForCause
  BY DEF QInv, GetsBounded, LinksAreThere, Budgets, WithinBudget, Linked, Running, StandsAt, Reasons
<1>4. QInv /\ [QNext]_qvars => [page.mint' > page.mint => denied]_qvars
  BY MintFollowsRefusal
<1> QED
  BY <1>1, <1>2, <1>3, <1>4, PTL DEF QSpec, AcquisitionSound, MintsOnlyWhenDenied

=============================================================================
