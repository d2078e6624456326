-------------------------- MODULE Conversion_proofs --------------------------
(***************************************************************************)
(* Proofs about Conversion.tla, for any sessions, plans, edits, hosted      *)
(* generations and dead processes: the files are in one place and backed up  *)
(* once they have left the store, nothing is moved or installed without      *)
(* consent, no admitted writer meets a store in between, and what is         *)
(* completed is what was agreed to.                                         *)
(*                                                                         *)
(* The record is the only thing sessions share that says how far things are;  *)
(* each carries its own copy of it. The invariant says what a copy may still   *)
(* be relied on for: at which phases each step is taken (PhaseFits), what the   *)
(* holder of the lock knows of the store and the backup, and where the files   *)
(* are while the record is of a plan that has moved nothing (AtHome).          *)
(***************************************************************************)
EXTENDS Conversion, TLAPS

(* Bounds are counted, there is a hosted generation, and nobody is no process. *)
Setting == /\ MaxIds \in Nat /\ MaxEdits \in Nat /\ MaxGen \in Nat \ {0}
           /\ NoSession \notin Sessions

-----------------------------------------------------------------------------
(* The inductive invariant.                                                 *)

Undecided == {"none", "assessed", "declined"}
Moving == {"replacing", "installing"}
Admitted == Moving \union {"blocked"}
Undone == Fresh \union Admitted

Unlocked == {"idle", "prepare", "save", "ask", "decline", "check", "acquire", "decide",
             "preserve", "continue", "changed", "aside", "observe", "reconcile"}
Copying == {"copy", "copied"}
Laying == {"stage", "root", "control", "finish"}
Installing == {"admit", "replace", "rename", "moved", "lay"} \union Laying
Locked == Copying \union Installing
Points == Unlocked \union Locked

Shapes == {"none", "dirs", "staged", "strewn", "root", "whole"}
Stores == [kind : {"vacant", "legacy", "replica"}, body : Nat, gen : Nat, shape : Shapes]
Recs == [id : Nat, phase : Phases, source : Nat]
Jobs == [at : Points, rec : Recs, gen : Nat, body : Nat, again : BOOLEAN, shape : Shapes]

Shared ==
  /\ hosted \in Nat \ {0} /\ store \in Stores
  /\ retained \in [PlanIds -> Nat] /\ backup \in [PlanIds -> {"none", "begun", "whole"}]
  /\ plans \in [PlanIds -> [body : Nat, gen : Nat]]
  /\ admission \in Recs /\ guard \in Sessions \union {NoSession}
  /\ minted \in 0 .. MaxIds /\ edits \in Nat /\ confirmed \subseteq PlanIds
Types == Shared /\ session \in [Sessions -> Jobs]

(* A store is vacant, has the files, or has some of a replica of a generation. *)
StoreFits ==
  /\ store.kind = "legacy" => store = Legacy(edits + 1)
  /\ store.kind = "vacant" => store = Vacant
  /\ store.kind = "replica" => store.gen # Nothing /\ store = Replica(store.gen, store.shape)

(* A record is of a plan that was made, of files and a generation; it names    *)
(* the plan under which the files left only after a reassessment.             *)
Named(r) ==
  /\ r.id <= minted
  /\ r.phase # "none" => /\ r.id \in PlanIds
                         /\ plans[r.id].body # Nothing /\ plans[r.id].gen # Nothing
  /\ r.source # Nothing => r.phase \in {"reassessed", "completed"} \union Admitted
  /\ r.source \in PlanIds \union {Nothing}

(* A record of a plan that has moved nothing: the files are at the store.      *)
AtHome == admission.source = Nothing /\ admission.phase \in Undecided \union {"blocked", "reassessed"}
            => store.kind = "legacy"

(* The phases of a session's record at each of its steps.                     *)
PhaseFits(phase, point) ==
  /\ point = "idle" => phase = "none"
  /\ point \in {"prepare", "save"} => phase \in Undecided
  /\ point \in {"decline", "decide"} => phase \in Fresh
  /\ point \in {"ask", "check", "acquire", "changed"} => phase \in Undone
  /\ point \in {"preserve", "copy", "copied", "admit"} => phase = "blocked"
  /\ point = "continue" => phase \in Admitted
  /\ point \in {"observe", "reconcile"} => phase \in Admitted \union {"reassessed"}
  /\ point \in {"replace", "rename"} => phase = "replacing"
  /\ point = "moved" => phase \in Moving
  /\ point \in {"lay", "aside"} \union Laying => phase = "installing"

Asked == Points \ {"idle", "prepare", "save", "ask", "decline"}

(* What a session relies on: s is its state.                                  *)
Carried(j) ==
  /\ Named(j.rec) /\ PhaseFits(j.rec.phase, j.at)
  /\ j.at = "decline" => j.rec.source = Nothing
  /\ j.at = "save" => j.body # Nothing /\ j.gen # Nothing
  /\ j.at = "reconcile" => j.gen # Nothing
  /\ j.at \in Asked => j.rec.id \in confirmed

(* What the holder of the lock knows.                                         *)
Knows(j) ==
  /\ admission = j.rec
  /\ j.at \in Installing => BackupComplete(j.rec.id)
  /\ j.at = "rename" => store.kind = "legacy"
  /\ j.at \in Laying => store.kind = "replica" /\ store.gen = plans[j.rec.id].gen
  /\ j.at = "finish" => store.shape = "whole"

Runs(s) == /\ Carried(session[s])
           /\ session[s].at \in Locked <=> Holds(s)
           /\ Holds(s) => Knows(session[s])

Files == FilesInOnePlace /\ MovedIsBackedUp
Records == Named(admission) /\ AtHome /\ ConsentFirst /\ CompletedAsAgreed

IInv == Types /\ StoreFits /\ Files /\ Records /\ \A s \in Sessions : Runs(s)

-----------------------------------------------------------------------------
(* What the steps share.                                                    *)

(* What is at the store, in its three kinds.                                 *)
LEMMA StoreIs ==
  ASSUME IInv
  PROVE  /\ store.kind \in {"vacant", "legacy", "replica"}
         /\ store.kind = "legacy" =>
              store.body = edits + 1 /\ store.gen = Nothing /\ store.shape = "none" /\ Places = {}
         /\ store.kind = "vacant" => store.gen = Nothing /\ store.shape = "none"
         /\ store.kind = "replica" => store.gen # Nothing
<1>1. Vacant.gen = Nothing /\ Vacant.shape = "none"
  BY DEF Vacant
<1>2. \A b : Legacy(b).body = b /\ Legacy(b).gen = Nothing /\ Legacy(b).shape = "none"
  BY DEF Legacy, Vacant
<1> QED
  BY <1>1, <1>2 DEF IInv, Types, Shared, Stores, StoreFits, Files, FilesInOnePlace

(* A step that leaves the other sessions what they rely on.                   *)
Spares(s) ==
  /\ minted <= minted' /\ \A i \in PlanIds : i <= minted => plans'[i] = plans[i]
  /\ confirmed \subseteq confirmed'
  /\ \A i \in PlanIds : BackupComplete(i) => BackupComplete(i)'
  /\ \A t \in Sessions \ {s} :
       /\ Holds(t)' <=> Holds(t)
       /\ Holds(t) => /\ admission' = admission /\ store'.kind = store.kind
                      /\ store'.gen = store.gen /\ store'.shape = store.shape

LEMMA BystanderKeeps ==
  ASSUME Types, NEW s, Spares(s), minted' \in Nat, NEW t \in Sessions \ {s}, Runs(t),
         session'[t] = session[t]
  PROVE  Runs(t)'
<1> DEFINE j == session[t]
<1>1. j \in Jobs /\ Carried(j)
  BY DEF Types, Runs
<1>2. Named(j.rec)'
  BY <1>1 DEF Spares, Types, Shared, Carried, Named, Jobs, Recs, PlanIds, Nothing
<1>3. Carried(j)'
  BY <1>1, <1>2 DEF Spares, Carried
<1>4. ASSUME Holds(t) PROVE Knows(j)'
  <2>1. Knows(j) /\ j.at \in Locked
    BY <1>4 DEF Runs
  <2>2. j.rec.id \in PlanIds /\ j.rec.id <= minted
    BY <1>1, <2>1 DEF Carried, Named, PhaseFits, Locked, Copying, Installing, Laying, Moving
  <2> QED
    BY <1>4, <2>1, <2>2 DEF Spares, Knows, BackupComplete, Found
<1> QED
  BY <1>3, <1>4 DEF Runs, Spares

(* One session's step, and what remains to be shown of it.                    *)
LEMMA StepKeeps ==
  ASSUME IInv, NEW s \in Sessions, NEW j \in Jobs, session' = [session EXCEPT ![s] = j],
         Spares(s), Shared', StoreFits', Files', Records', Carried(j)',
         j.at \in Locked <=> Holds(s)', Holds(s)' => Knows(j)'
  PROVE  IInv'
<1>1. Types /\ Types'
  BY DEF IInv, Types
<1>2. session'[s] = j /\ \A t \in Sessions \ {s} : session'[t] = session[t]
  BY <1>1 DEF Types
<1>3. Runs(s)'
  BY <1>2 DEF Runs
<1>4. ASSUME NEW t \in Sessions \ {s} PROVE Runs(t)'
  BY <1>1, <1>2, BystanderKeeps DEF IInv, Types, Shared
<1> QED
  BY <1>1, <1>3, <1>4 DEF IInv

(* A step that changes nothing but its session and perhaps the lock.          *)
LEMMA SameWorld ==
  ASSUME IInv, NEW s \in Sessions, UNCHANGED <<hosted, folders, saved, edits>>,
         \/ guard' = guard
         \/ guard = NoSession /\ guard' = s
         \/ Holds(s) /\ guard' = NoSession,
         NoSession \notin Sessions
  PROVE  /\ Spares(s) /\ Shared' /\ StoreFits' /\ Files' /\ Records'
         /\ \A j : Carried(j)' = Carried(j) /\ Knows(j)' = Knows(j)
<1> USE DEF folders, saved
<1>1. Spares(s)
  BY DEF IInv, Types, Shared, Spares, Holds, BackupComplete, Found
<1>2. Shared'
  BY DEF IInv, Types, Shared
<1>3. StoreFits' /\ Files' /\ Records'
  BY DEF IInv, StoreFits, Files, Records, FilesInOnePlace, Places, MovedIsBackedUp, Named, AtHome,
         ConsentFirst, CompletedAsAgreed, BackupComplete, Found
<1>4. ASSUME NEW j PROVE Carried(j)' = Carried(j) /\ Knows(j)' = Knows(j)
  BY DEF Carried, Knows, Named, BackupComplete, Found
<1> QED
  BY <1>1, <1>2, <1>3, <1>4

(* A session that ends has nothing it relies on.                              *)
LEMMA RestRelies ==
  ASSUME Types
  PROVE  Rest \in Jobs /\ Carried(Rest) /\ Rest.at \notin Locked
BY DEF Types, Shared, Rest, Jobs, Points, Unlocked, Locked, Copying, Installing, Laying, Recs,
       NoRecord, Phases, Shapes, Carried, Named, PhaseFits, Nothing, Asked

(* Most steps only take their session elsewhere.                              *)
LEMMA GotoKeeps ==
  ASSUME Setting, IInv, NEW s \in Sessions, NEW j \in Jobs, session' = [session EXCEPT ![s] = j],
         UNCHANGED <<hosted, folders, saved, edits>>,
         \/ guard' = guard
         \/ guard = NoSession /\ guard' = s
         \/ Holds(s) /\ guard' = NoSession,
         Carried(j), j.at \in Locked <=> Holds(s)', Holds(s)' => Knows(j)
  PROVE  IInv'
BY SameWorld, StepKeeps DEF Setting

-----------------------------------------------------------------------------
(* The steps that only take a session elsewhere.                            *)

LEMMA OpenKeeps ==
  ASSUME Setting, IInv, NEW s \in Sessions, Open(s)
  PROVE  IInv'
<1> DEFINE j == [Rest EXCEPT !.rec = admission,
                   !.at = IF admission.phase \in {"none", "declined"} THEN "prepare" ELSE "ask"]
<1>1. Types /\ Named(admission) /\ admission \in Recs /\ admission.phase # "completed"
  BY DEF IInv, Records, Types, Shared, Open
<1>2. Rest \in Jobs
  BY <1>1, RestRelies
<1>3. j \in Jobs /\ j.at \in {"prepare", "ask"} /\ j.rec = admission
  BY <1>1, <1>2 DEF Jobs, Points, Unlocked
<1>4. PhaseFits(j.rec.phase, j.at)
  BY <1>1, <1>3 DEF PhaseFits, Recs, Phases, Undecided, Undone, Fresh, Admitted, Moving, Laying
<1>5. Carried(j)
  BY <1>1, <1>3, <1>4 DEF Carried, Asked
<1>6. ~Holds(s)
  BY DEF IInv, Runs, Open, At, Locked, Copying, Installing, Laying
<1> QED
  BY <1>3, <1>5, <1>6, GotoKeeps DEF Open, saved, folders, Locked, Copying, Installing, Laying, Holds

LEMMA EndKeeps ==
  ASSUME Setting, IInv, NEW s \in Sessions, EndSession(s), UNCHANGED <<hosted, folders, saved, edits>>,
         guard' = IF Holds(s) THEN NoSession ELSE guard
  PROVE  IInv'
<1>1. Rest \in Jobs /\ Carried(Rest) /\ Rest.at \notin Locked
  BY RestRelies DEF IInv
<1>2. ~Holds(s)'
  BY DEF Holds, Setting
<1> QED
  BY <1>1, <1>2, GotoKeeps DEF EndSession

(* A session without the lock that stays without it.                          *)
LEMMA WalkKeeps ==
  ASSUME Setting, IInv, NEW s \in Sessions, NEW j \in Jobs, session' = [session EXCEPT ![s] = j],
         UNCHANGED <<hosted, folders, saved, edits, guard>>,
         session[s].at \notin Locked, j.at \notin Locked, Carried(j)
  PROVE  IInv'
<1>1. ~Holds(s) /\ ~Holds(s)'
  BY DEF IInv, Runs, Holds
<1> QED
  BY <1>1, GotoKeeps

LEMMA PrepareKeeps ==
  ASSUME Setting, IInv, NEW s \in Sessions, PreparePlan(s)
  PROVE  IInv'
<1>1. ~Holds(s) /\ session[s] \in Jobs /\ Carried(session[s]) /\ session[s].at = "prepare"
  BY DEF IInv, Runs, PreparePlan, At, Locked, Copying, Installing, Laying, Types
<1>2. CASE store.kind = "legacy"
  <2> DEFINE j == [session[s] EXCEPT !.at = "save", !.gen = hosted, !.body = store.body]
  <2>1. store.body \in Nat \ {0} /\ hosted \in Nat \ {0}
    BY <1>2, StoreIs DEF IInv, Types, Shared
  <2>2. j \in Jobs /\ j.at = "save" /\ j.rec = session[s].rec /\ j.gen # Nothing /\ j.body # Nothing
    BY <1>1, <2>1 DEF Jobs, Points, Unlocked, Nothing
  <2>3. Carried(j)
    BY <1>1, <2>2 DEF Carried, PhaseFits, Asked, Laying, Undone, Fresh, Admitted, Moving, Undecided
  <2>4. session' = [session EXCEPT ![s] = j]
    BY <1>2 DEF PreparePlan
  <2> QED
    BY <1>1, <2>2, <2>3, <2>4, WalkKeeps DEF PreparePlan, Locked, Copying, Installing, Laying
<1>3. CASE store.kind # "legacy"
  BY <1>1, <1>3, EndKeeps DEF PreparePlan
<1> QED
  BY <1>2, <1>3

LEMMA RefuseKeeps ==
  ASSUME Setting, IInv, NEW s \in Sessions, Refuse(s)
  PROVE  IInv'
<1>1. ~Holds(s) /\ session[s] \in Jobs /\ Carried(session[s]) /\ session[s].at = "ask"
  BY DEF IInv, Runs, Refuse, At, Locked, Copying, Installing, Laying, Types
<1>2. CASE session[s].rec.phase \in Fresh /\ session[s].rec.source = Nothing
  <2> DEFINE j == [session[s] EXCEPT !.at = "decline"]
  <2>1. j \in Jobs /\ j.at = "decline" /\ j.rec = session[s].rec
    BY <1>1 DEF Jobs, Points, Unlocked
  <2>2. Carried(j)
    BY <1>1, <1>2, <2>1 DEF Carried, PhaseFits, Asked, Laying, Undone, Fresh, Admitted, Moving, Undecided
  <2>3. session' = [session EXCEPT ![s] = j]
    BY <1>2 DEF Refuse, MovesOn
  <2> QED
    BY <1>1, <2>1, <2>2, <2>3, WalkKeeps DEF Refuse, Locked, Copying, Installing, Laying
<1>3. CASE ~(session[s].rec.phase \in Fresh /\ session[s].rec.source = Nothing)
  BY <1>1, <1>3, EndKeeps DEF Refuse
<1> QED
  BY <1>2, <1>3

LEMMA CheckKeeps ==
  ASSUME Setting, IInv, NEW s \in Sessions, Check(s)
  PROVE  IInv'
<1>1. session[s] \in Jobs /\ Carried(session[s]) /\ session[s].at = "check"
  BY DEF IInv, Runs, Check, At, Types
<1>2. PICK point \in {"changed", "acquire"} : MovesOn(s, point)
  BY DEF Check
<1> DEFINE j == [session[s] EXCEPT !.at = point]
<1>3. j \in Jobs /\ j.at = point /\ j.rec = session[s].rec
  BY <1>1 DEF Jobs, Points, Unlocked
<1>4. Carried(j)
  BY <1>1, <1>3 DEF Carried, PhaseFits, Asked, Points, Unlocked, Laying, Undone, Fresh, Admitted, Moving, Undecided
<1> QED
  BY <1>1, <1>2, <1>3, <1>4, WalkKeeps DEF Check, MovesOn, Locked, Copying, Installing, Laying

LEMMA AcquireKeeps ==
  ASSUME Setting, IInv, NEW s \in Sessions, AcquireProjection(s)
  PROVE  IInv'
<1>1. ~Holds(s) /\ session[s] \in Jobs /\ Carried(session[s]) /\ session[s].at = "acquire"
  BY DEF IInv, Runs, AcquireProjection, At, Locked, Copying, Installing, Laying, Types
<1>2. CASE ~Current(s)
  BY <1>1, <1>2, EndKeeps DEF AcquireProjection
<1>3. CASE Current(s)
  <2> DEFINE phase == session[s].rec.phase
  <2>1. phase \in Undone /\ session[s].rec.id \in confirmed
    BY <1>1 DEF Carried, PhaseFits, Asked, Points, Unlocked
  <2>2. PICK point \in {"changed", "decide", "preserve", "continue"} :
          /\ MovesOn(s, point)
          /\ point = "decide" => phase \in Fresh
          /\ point = "preserve" => phase = "blocked"
          /\ point = "continue" => phase \in Admitted
    BY <1>3, <2>1 DEF AcquireProjection, Undone, Fresh, Admitted
  <2> DEFINE j == [session[s] EXCEPT !.at = point]
  <2>3. j \in Jobs /\ j.at = point /\ j.rec = session[s].rec
    BY <1>1 DEF Jobs, Points, Unlocked
  <2>4. Carried(j)
    BY <1>1, <2>1, <2>2, <2>3 DEF Carried, PhaseFits, Asked, Copying, Laying, Undone, Fresh, Admitted, Moving, Undecided
  <2> QED
    BY <1>1, <2>2, <2>3, <2>4, WalkKeeps DEF AcquireProjection, MovesOn, Locked, Copying, Installing, Laying
<1> QED
  BY <1>2, <1>3

LEMMA ChangedKeeps ==
  ASSUME Setting, IInv, NEW s \in Sessions, Changed(s)
  PROVE  IInv'
<1>1. ~Holds(s) /\ session[s] \in Jobs /\ Carried(session[s]) /\ session[s].at = "changed"
  BY DEF IInv, Runs, Changed, At, Locked, Copying, Installing, Laying, Types
<1>2. CASE ~Current(s) \/ session[s].again
  BY <1>1, <1>2, EndKeeps DEF Changed
<1>3. CASE ~(~Current(s) \/ session[s].again)
  <2> DEFINE phase == session[s].rec.phase
             point == IF phase = "assessed" THEN "prepare"
                      ELSE IF phase = "installing" /\ store.kind # "vacant" THEN "aside"
                      ELSE "observe"
             j == [session[s] EXCEPT !.again = TRUE, !.at = point, !.shape = StaleShape]
  <2>1. phase \in Undone /\ session[s].rec.id \in confirmed
    BY <1>1 DEF Carried, PhaseFits, Asked, Points, Unlocked
  <2>2. StaleShape \in Shapes
    BY DEF StaleShape, Shapes
  <2>3. j \in Jobs /\ j.at = point /\ j.rec = session[s].rec
    BY <1>1, <2>2 DEF Jobs, Points, Unlocked
  <2>4. PhaseFits(phase, point)
    BY <2>1 DEF PhaseFits, Undone, Fresh, Admitted, Moving, Undecided, Copying, Laying
  <2>5. Carried(j)
    BY <1>1, <2>1, <2>3, <2>4 DEF Carried
  <2>6. session' = [session EXCEPT ![s] = j]
    BY <1>3 DEF Changed
  <2>7. j.at \notin Locked
    BY <2>3 DEF Locked, Copying, Installing, Laying
  <2> QED
    BY <1>1, <2>3, <2>5, <2>6, <2>7, WalkKeeps DEF Changed, Locked, Copying, Installing, Laying
<1> QED
  BY <1>2, <1>3

LEMMA ObserveKeeps ==
  ASSUME Setting, IInv, NEW s \in Sessions, Observe(s)
  PROVE  IInv'
<1> DEFINE j == [session[s] EXCEPT !.at = "reconcile", !.gen = hosted]
<1>1. session[s] \in Jobs /\ Carried(session[s]) /\ session[s].at = "observe" /\ hosted \in Nat \ {0}
  BY DEF IInv, Runs, Observe, At, Types, Shared
<1>2. j \in Jobs /\ j.at = "reconcile" /\ j.rec = session[s].rec /\ j.gen # Nothing
  BY <1>1 DEF Jobs, Points, Unlocked, Nothing
<1>3. Carried(j)
  BY <1>1, <1>2 DEF Carried, PhaseFits, Asked, Points, Unlocked, Laying, Undone, Fresh, Admitted, Moving, Undecided
<1>4. session' = [session EXCEPT ![s] = j]
  BY DEF Observe
<1> QED
  BY <1>1, <1>2, <1>3, <1>4, WalkKeeps DEF Observe, Locked, Copying, Installing, Laying

(* The lock is taken for the files, or given back.                            *)
LEMMA ContinueKeeps ==
  ASSUME Setting, IInv, NEW s \in Sessions, Continue(s)
  PROVE  IInv'
<1>1. ~Holds(s) /\ session[s] \in Jobs /\ Carried(session[s]) /\ session[s].at = "continue"
  BY DEF IInv, Runs, Continue, At, Locked, Copying, Installing, Laying, Types
<1>2. CASE ~(guard = NoSession /\ Current(s) /\ Authorized(s) /\ BackupComplete(admission.id))
  BY <1>1, <1>2, EndKeeps DEF Continue
<1>3. CASE guard = NoSession /\ Current(s) /\ Authorized(s) /\ BackupComplete(admission.id)
  <2> DEFINE phase == session[s].rec.phase
             point == CASE phase = "blocked" -> "admit"
                        [] phase = "replacing" -> "replace"
                        [] phase = "installing" -> "moved"
             j == [session[s] EXCEPT !.at = point]
  <2>1. phase \in Admitted /\ session[s].rec.id \in confirmed
    BY <1>1 DEF Carried, PhaseFits, Asked, Points, Unlocked, Copying
  <2>2. point \in {"admit", "replace", "moved"} /\ PhaseFits(phase, point)
    BY <2>1 DEF Admitted, Moving, PhaseFits, Copying, Laying, Undone, Fresh, Undecided
  <2>3. j \in Jobs /\ j.at = point /\ j.rec = session[s].rec
    BY <1>1, <2>2 DEF Jobs, Points, Unlocked, Locked, Installing
  <2>4. Carried(j)
    BY <1>1, <2>1, <2>2, <2>3 DEF Carried
  <2>5. Knows(j)
    BY <1>3, <2>2, <2>3 DEF Knows, Current, Laying
  <2>6. session' = [session EXCEPT ![s] = j] /\ guard' = s
    BY <1>3 DEF Continue, MovesOn
  <2> QED
    BY <1>3, <2>2, <2>3, <2>4, <2>5, <2>6, GotoKeeps DEF Continue, Holds, Locked, Installing
<1> QED
  BY <1>2, <1>3

LEMMA LeaveKeeps ==
  ASSUME Setting, IInv, NEW s \in Sessions, session[s].at \in Locked, LeaveLocked(s),
         UNCHANGED <<hosted, folders, saved, edits>>
  PROVE  IInv'
<1>1. Holds(s)
  BY DEF IInv, Runs
<1> QED
  BY <1>1, EndKeeps DEF LeaveLocked

(* What a session that holds the lock knows, to go on to another step.        *)
LEMMA HolderKnows ==
  ASSUME IInv, NEW s \in Sessions, session[s].at \in Locked
  PROVE  /\ session[s] \in Jobs /\ Carried(session[s]) /\ Knows(session[s]) /\ Holds(s)
         /\ session[s].rec = admission /\ admission.id \in PlanIds /\ admission.id \in confirmed
         /\ plans[admission.id].body # Nothing /\ plans[admission.id].gen # Nothing
<1>1. session[s] \in Jobs /\ Carried(session[s]) /\ Knows(session[s]) /\ Holds(s)
  BY DEF IInv, Runs, Types
<1>2. session[s].rec.phase # "none"
  BY <1>1 DEF Carried, PhaseFits, Locked, Copying, Installing, Laying, Moving
<1> QED
  BY <1>1, <1>2 DEF Carried, Knows, Named, Asked, Points, Locked, Copying, Installing, Laying

LEMMA CopiedKeeps ==
  ASSUME Setting, IInv, NEW s \in Sessions, Copied(s)
  PROVE  IInv'
<1>1. session[s].at = "copied" /\ session[s].at \in Locked
  BY DEF Copied, At, Locked, Copying
<1>2. CASE ~(Unchanged(s) /\ Authorized(s))
  BY <1>1, <1>2, LeaveKeeps DEF Copied, LeaveLocked
<1>3. CASE Unchanged(s) /\ Authorized(s)
  <2> DEFINE j == [session[s] EXCEPT !.at = "continue"]
  <2>1. session[s] \in Jobs /\ Carried(session[s]) /\ Holds(s) /\ admission.id \in confirmed
        /\ session[s].rec = admission
    BY <1>1, HolderKnows
  <2>2. j \in Jobs /\ j.at = "continue" /\ j.rec = session[s].rec
    BY <2>1 DEF Jobs, Points, Unlocked
  <2>3. Carried(j)
    BY <1>1, <2>1, <2>2 DEF Carried, PhaseFits, Copying, Admitted, Laying, Undone, Fresh, Moving, Undecided
  <2>4. session' = [session EXCEPT ![s] = j] /\ guard' = NoSession
    BY <1>3 DEF Copied, MovesOn
  <2> QED
    BY <2>1, <2>2, <2>3, <2>4, GotoKeeps
    DEF Copied, Holds, Setting, Locked, Copying, Installing, Laying
<1> QED
  BY <1>2, <1>3

LEMMA ReplaceKeeps ==
  ASSUME Setting, IInv, NEW s \in Sessions, Replace(s)
  PROVE  IInv'
<1>1. session[s].at = "replace" /\ session[s].at \in Locked
  BY DEF Replace, At, Locked, Installing
<1>2. CASE LeaveLocked(s)
  BY <1>1, <1>2, LeaveKeeps DEF Replace
<1>3. CASE ~LeaveLocked(s)
  <2>1. /\ session[s] \in Jobs /\ Carried(session[s]) /\ Knows(session[s]) /\ Holds(s)
        /\ session[s].rec = admission /\ plans[admission.id].body # Nothing
        /\ admission.id \in confirmed
    BY <1>1, HolderKnows
  <2>2. /\ guard' = guard
        /\ \/ MovesOn(s, "moved")
           \/ MovesOn(s, "rename") /\ BodyAtStore = plans[admission.id].body
    BY <1>3, <2>1 DEF Replace, Plan
  <2>3. PICK point \in {"moved", "rename"} :
          /\ MovesOn(s, point)
          /\ point = "rename" => store.kind = "legacy"
    BY <2>1, <2>2 DEF BodyAtStore
  <2> DEFINE j == [session[s] EXCEPT !.at = point]
  <2>4. j \in Jobs /\ j.at = point /\ j.rec = session[s].rec
    BY <2>1 DEF Jobs, Points, Locked, Installing
  <2>5. Carried(j)
    BY <1>1, <2>1, <2>4 DEF Carried, PhaseFits, Copying, Moving, Laying, Undone, Fresh, Admitted, Undecided
  <2>6. Knows(j)
    BY <1>1, <2>1, <2>3, <2>4 DEF Knows, Installing, Laying
  <2>7. session' = [session EXCEPT ![s] = j]
    BY <2>3 DEF MovesOn
  <2> QED
    BY <2>1, <2>2, <2>4, <2>5, <2>6, <2>7, GotoKeeps DEF Replace, Holds, Locked, Installing
<1> QED
  BY <1>2, <1>3

-----------------------------------------------------------------------------
(* The person's answers, and the record.                                    *)

(* A step that writes the record over the one its session has, or anew.       *)
LEMMA RecordKeeps ==
  ASSUME Setting, IInv, NEW s \in Sessions, NEW j \in Jobs, session' = [session EXCEPT ![s] = j],
         UNCHANGED <<hosted, store, retained, backup, edits>>,
         confirmed \subseteq confirmed', confirmed' \subseteq PlanIds,
         guard = NoSession \/ Holds(s),
         guard' = guard \/ (Holds(s) /\ guard' = NoSession),
         admission' \in Recs, minted' \in minted .. MaxIds,
         plans' \in [PlanIds -> [body : Nat, gen : Nat]],
         \A i \in PlanIds : i <= minted => plans'[i] = plans[i],
         Named(admission)', AtHome', ConsentFirst', CompletedAsAgreed',
         Carried(j)', j.at \in Locked <=> Holds(s)', Holds(s)' => Knows(j)'
  PROVE  IInv'
<1>1. minted \in Nat /\ MaxIds \in Nat
  BY DEF IInv, Types, Shared, Setting
<1>2. minted' \in 0 .. MaxIds /\ minted <= minted'
  BY <1>1
<1>3. Spares(s)
  BY <1>2 DEF Spares, Holds, BackupComplete, Found, Setting
<1>4. Shared'
  BY <1>2 DEF IInv, Types, Shared
<1>5. StoreFits'
  BY DEF IInv, StoreFits
<1>6. Files'
  BY DEF IInv, Files, FilesInOnePlace, Places, MovedIsBackedUp, BackupComplete, Found
<1> QED
  BY <1>3, <1>4, <1>5, <1>6, StepKeeps DEF Records

LEMMA AgreeKeeps ==
  ASSUME Setting, IInv, NEW s \in Sessions, Agree(s)
  PROVE  IInv'
<1>1. ~Holds(s) /\ session[s] \in Jobs /\ Carried(session[s]) /\ session[s].at = "ask"
  BY DEF IInv, Runs, Agree, At, Locked, Copying, Installing, Laying, Types
<1>2. PICK j \in Jobs : j = [session[s] EXCEPT !.at = "check"]
  BY <1>1 DEF Jobs, Points, Unlocked
<1>3. j.at = "check" /\ j.rec = session[s].rec /\ session' = [session EXCEPT ![s] = j]
  BY <1>1, <1>2 DEF Agree, MovesOn, Jobs
<1>4. Named(j.rec) /\ j.rec.phase \in Undone /\ j.rec.id \in PlanIds
  BY <1>1, <1>3 DEF Carried, PhaseFits, Named, Undone, Fresh, Admitted, Moving
<1>5. confirmed' = confirmed \union {j.rec.id} /\ confirmed' \subseteq PlanIds
  BY <1>3, <1>4 DEF Agree, IInv, Types, Shared
<1>6. UNCHANGED <<hosted, store, retained, backup, plans, admission, minted, guard, edits>>
  BY DEF Agree, folders
<1>7. Carried(j)'
  BY <1>3, <1>4, <1>5, <1>6 DEF Carried, Named, PhaseFits, Laying
<1>8. Spares(s)
  BY <1>5, <1>6 DEF Spares, IInv, Types, Shared, Holds, BackupComplete, Found
<1>9. Shared' /\ StoreFits'
  BY <1>5, <1>6 DEF IInv, Types, Shared, StoreFits
<1>10. Files'
  BY <1>5, <1>6 DEF IInv, Files, FilesInOnePlace, Places, MovedIsBackedUp, BackupComplete, Found
<1>11. Records'
  BY <1>5, <1>6 DEF IInv, Records, Named, AtHome, ConsentFirst, CompletedAsAgreed, BackupComplete, Found
<1>12. ~Holds(s)' /\ j.at \notin Locked
  BY <1>1, <1>3, <1>6 DEF Holds, Locked, Copying, Installing, Laying
<1> QED
  BY <1>3, <1>7, <1>8, <1>9, <1>10, <1>11, <1>12, StepKeeps

LEMMA DeclineKeeps ==
  ASSUME Setting, IInv, NEW s \in Sessions, Decline(s)
  PROVE  IInv'
<1> DEFINE r == session[s].rec
<1>1. ~Holds(s) /\ session[s] \in Jobs /\ Carried(session[s]) /\ session[s].at = "decline"
  BY DEF IInv, Runs, Decline, At, Locked, Copying, Installing, Laying, Types
<1>2. CASE ~(guard = NoSession /\ Decided(s, "declined"))
  BY <1>1, <1>2, EndKeeps DEF Decline, saved
<1>3. CASE guard = NoSession /\ Decided(s, "declined")
  <2>1. admission' = [r EXCEPT !.phase = "declined"]
    BY <1>3 DEF Decline
  <2>2. r \in Recs /\ r.source = Nothing /\ r.phase \in Fresh /\ Named(r)
    BY <1>1 DEF Jobs, Carried, PhaseFits
  <2>3. admission' \in Recs /\ admission'.phase = "declined" /\ admission'.id = r.id /\ admission'.source = Nothing
    BY <2>1, <2>2 DEF Recs, Phases
  <2>4. UNCHANGED <<hosted, store, retained, backup, plans, minted, confirmed, guard, edits>>
    BY DEF Decline, folders
  <2>5. Named(admission)'
    BY <2>2, <2>3, <2>4 DEF Named, Fresh
  <2>6. AtHome'
    <3>1. admission = r \/ admission = admission'
      BY <1>3, <2>1 DEF Decided
    <3>2. AtHome
      BY DEF IInv, Records
    <3> QED
      BY <2>2, <2>3, <2>4, <3>1, <3>2 DEF AtHome, Fresh, Undecided
  <2>7. ConsentFirst' /\ CompletedAsAgreed'
    BY <2>3 DEF ConsentFirst, CompletedAsAgreed
  <2>8. Rest \in Jobs /\ Carried(Rest)' /\ Rest.at \notin Locked
    BY <2>4, RestRelies DEF IInv, Carried, Named
  <2>9. ~Holds(s)' /\ session' = [session EXCEPT ![s] = Rest]
    BY <1>1, <2>4 DEF Decline, EndSession, Holds
  <2>10. minted' \in minted .. MaxIds /\ plans' \in [PlanIds -> [body : Nat, gen : Nat]]
         /\ confirmed' \subseteq PlanIds
    BY <2>4 DEF IInv, Types, Shared, Setting
  <2> QED
    BY <1>3, <2>3, <2>4, <2>5, <2>6, <2>7, <2>8, <2>9, <2>10, RecordKeeps
<1> QED
  BY <1>2, <1>3

(* The record goes on with the plan of a session, which holds the lock or      *)
(* found it free.                                                           *)
LEMMA AdvanceKeeps ==
  ASSUME Setting, IInv, NEW s \in Sessions, NEW phase \in Admitted, NEW point \in Points,
         Advance(s, phase, point),
         UNCHANGED <<hosted, folders, plans, minted, confirmed, guard, edits>>,
         session[s] \in Jobs, Named(session[s].rec), session[s].rec.id \in confirmed,
         session[s].rec.phase # "none", PhaseFits(phase, point), point \in Asked \ {"reconcile"},
         guard = NoSession \/ Holds(s),
         phase = "blocked" /\ session[s].rec.source = Nothing => store.kind = "legacy",
         point \in Locked <=> Holds(s),
         Holds(s) => /\ point \in Installing \ Laying /\ BackupComplete(session[s].rec.id)
                     /\ point = "rename" => store.kind = "legacy"
  PROVE  IInv'
<1>1. PICK r \in Recs : r = session[s].rec
  BY DEF Jobs
<1>2. PICK q \in Recs : q = [r EXCEPT !.phase = phase]
  BY <1>1 DEF Recs, Phases, Admitted, Moving
<1>3. admission' = q /\ q.phase = phase /\ q.id = r.id /\ q.source = r.source
  BY <1>1, <1>2 DEF Advance, Recs
<1>4. PICK j \in Jobs : j = [session[s] EXCEPT !.rec = q, !.at = point]
  BY DEF Jobs
<1>5. j.at = point /\ j.rec = q /\ session' = [session EXCEPT ![s] = j]
  BY <1>3, <1>4 DEF Advance, Jobs
<1>6. UNCHANGED <<hosted, store, retained, backup, plans, minted, confirmed, guard, edits>>
  BY DEF folders
<1>7. Named(q)'
  BY <1>1, <1>3, <1>6 DEF Named, Admitted
<1>8. AtHome'
  BY <1>1, <1>3, <1>6 DEF AtHome, Admitted, Moving, Undecided
<1>9. ConsentFirst' /\ CompletedAsAgreed'
  BY <1>1, <1>3, <1>6 DEF ConsentFirst, CompletedAsAgreed, Admitted, Moving
<1>10. Carried(j)'
  BY <1>1, <1>3, <1>5, <1>6, <1>7 DEF Carried, Asked
<1>11. Holds(s)' => Knows(j)'
  BY <1>1, <1>3, <1>5, <1>6 DEF Holds, Knows, BackupComplete, Found, Laying, Installing
<1>12. minted' \in minted .. MaxIds /\ plans' \in [PlanIds -> [body : Nat, gen : Nat]]
       /\ confirmed' \subseteq PlanIds
  BY <1>6 DEF IInv, Types, Shared, Setting
<1>13. Named(admission)'
  BY <1>3, <1>7
<1> QED
  BY <1>3, <1>5, <1>6, <1>8, <1>9, <1>10, <1>11, <1>12, <1>13, RecordKeeps DEF Holds

LEMMA DecideKeeps ==
  ASSUME Setting, IInv, NEW s \in Sessions, Decide(s)
  PROVE  IInv'
<1> DEFINE r == session[s].rec
<1>1. ~Holds(s) /\ session[s] \in Jobs /\ Carried(session[s]) /\ session[s].at = "decide"
  BY DEF IInv, Runs, Decide, At, Locked, Copying, Installing, Laying, Types
<1>2. CASE ~(guard = NoSession /\ Decided(s, "blocked") /\ (Current(s) => Unchanged(s)))
  BY <1>1, <1>2, EndKeeps DEF Decide, saved
<1>3. CASE guard = NoSession /\ Decided(s, "blocked") /\ (Current(s) => Unchanged(s))
  <2>1. Advance(s, "blocked", "preserve")
    BY <1>3 DEF Decide
  <2>2. r \in Recs /\ r.phase \in Fresh /\ Named(r) /\ r.id \in confirmed
    BY <1>1 DEF Jobs, Carried, PhaseFits, Asked, Points, Unlocked
  <2>3. admission.source = r.source /\ admission.phase \in Fresh \union {"blocked"}
    BY <1>3, <2>2 DEF Decided, Recs
  <2>4. r.source = Nothing => store.kind = "legacy"
    BY <2>3 DEF IInv, Records, AtHome, Fresh, Undecided
  <2>5. PhaseFits("blocked", "preserve") /\ "preserve" \in Asked /\ "preserve" \in Points
        /\ "preserve" \notin Locked
    BY DEF PhaseFits, Laying, Asked, Points, Unlocked, Locked, Copying, Installing
  <2> QED
    BY <1>1, <1>3, <2>1, <2>2, <2>4, <2>5, AdvanceKeeps DEF Decide, Admitted, Fresh
<1> QED
  BY <1>2, <1>3

LEMMA AdmitKeeps ==
  ASSUME Setting, IInv, NEW s \in Sessions, Admit(s)
  PROVE  IInv'
<1>1. session[s].at = "admit" /\ session[s].at \in Locked
  BY DEF Admit, At, Locked, Installing
<1>2. CASE ~Unchanged(s)
  BY <1>1, <1>2, LeaveKeeps DEF Admit, LeaveLocked, saved
<1>3. CASE Unchanged(s)
  <2>1. /\ session[s] \in Jobs /\ Carried(session[s]) /\ Knows(session[s]) /\ Holds(s)
        /\ admission.id \in confirmed /\ session[s].rec = admission
    BY <1>1, HolderKnows
  <2>2. Named(session[s].rec) /\ session[s].rec.phase # "none" /\ BackupComplete(admission.id)
    BY <1>1, <2>1 DEF Carried, PhaseFits, Knows, Installing
  <2>3. /\ PhaseFits("replacing", "replace") /\ "replace" \in Asked /\ "replace" \in Points
        /\ "replace" \in Locked /\ "replace" \in Installing \ Laying
    BY DEF PhaseFits, Laying, Asked, Points, Unlocked, Locked, Copying, Installing
  <2> QED
    BY <1>3, <2>1, <2>2, <2>3, AdvanceKeeps DEF Admit, Admitted, Moving
<1> QED
  BY <1>2, <1>3

LEMMA MovedKeeps ==
  ASSUME Setting, IInv, NEW s \in Sessions, Moved(s)
  PROVE  IInv'
<1>1. session[s].at = "moved" /\ session[s].at \in Locked
  BY DEF Moved, At, Locked, Installing
<1>2. CASE retained[RetainedName(admission)] # Plan(s).body
  BY <1>1, <1>2, LeaveKeeps DEF Moved, LeaveLocked, saved
<1>3. CASE retained[RetainedName(admission)] = Plan(s).body
  <2>1. /\ session[s] \in Jobs /\ Carried(session[s]) /\ Knows(session[s]) /\ Holds(s)
        /\ admission.id \in confirmed /\ session[s].rec = admission
    BY <1>1, HolderKnows
  <2>2. Named(session[s].rec) /\ session[s].rec.phase # "none" /\ BackupComplete(admission.id)
    BY <1>1, <2>1 DEF Carried, PhaseFits, Moving, Knows, Installing
  <2>3. /\ PhaseFits("installing", "lay") /\ "lay" \in Asked /\ "lay" \in Points
        /\ "lay" \in Locked /\ "lay" \in Installing \ Laying
    BY DEF PhaseFits, Laying, Asked, Points, Unlocked, Locked, Copying, Installing
  <2> QED
    BY <1>3, <2>1, <2>2, <2>3, AdvanceKeeps DEF Moved, Admitted, Moving
<1> QED
  BY <1>2, <1>3

LEMMA FinishKeeps ==
  ASSUME Setting, IInv, NEW s \in Sessions, Finish(s)
  PROVE  IInv'
<1>1. session[s].at = "finish" /\ session[s].at \in Locked
  BY DEF Finish, At, Locked, Installing, Laying
<1>2. CASE ~Authorized(s)
  BY <1>1, <1>2, LeaveKeeps DEF Finish, saved
<1>3. CASE Authorized(s)
  <2>1. /\ session[s] \in Jobs /\ Carried(session[s]) /\ Knows(session[s]) /\ Holds(s)
        /\ admission.id \in confirmed /\ session[s].rec = admission
    BY <1>1, HolderKnows
  <2>2. admission' = [admission EXCEPT !.phase = "completed"] /\ admission \in Recs
    BY <1>3 DEF Finish, IInv, Types, Shared
  <2>3. /\ admission' \in Recs /\ admission'.phase = "completed"
        /\ admission'.id = admission.id /\ admission'.source = admission.source
    BY <2>2 DEF Recs, Phases
  <2>4. UNCHANGED <<hosted, store, retained, backup, plans, minted, confirmed, edits>>
    BY DEF Finish, folders
  <2>5. /\ BackupComplete(admission.id) /\ store.kind = "replica" /\ store.shape = "whole"
        /\ store.gen = plans[admission.id].gen
    BY <1>1, <2>1 DEF Knows, Installing, Laying
  <2>6. store = Replica(plans[admission.id].gen, "whole")
    BY <2>5 DEF IInv, StoreFits
  <2>7. Named(admission)
    BY DEF IInv, Records
  <2>8. admission.phase # "none"
    BY <1>1, <2>1 DEF Carried, PhaseFits, Laying
  <2>9. Named(admission)'
    BY <2>3, <2>4, <2>7, <2>8 DEF Named
  <2>10. AtHome'
    BY <2>3 DEF AtHome, Undecided
  <2>11. ConsentFirst' /\ CompletedAsAgreed'
    BY <2>1, <2>3, <2>4, <2>5, <2>6
    DEF ConsentFirst, CompletedAsAgreed, BackupComplete, Found, Replica, Vacant
  <2>12. Rest \in Jobs /\ Carried(Rest)' /\ Rest.at \notin Locked
    BY <2>4, RestRelies DEF IInv, Carried, Named
  <2>13. ~Holds(s)' /\ session' = [session EXCEPT ![s] = Rest] /\ guard' = NoSession
    BY DEF Finish, LeaveLocked, EndSession, Holds, Setting
  <2>14. minted' \in minted .. MaxIds /\ plans' \in [PlanIds -> [body : Nat, gen : Nat]]
         /\ confirmed' \subseteq PlanIds
    BY <2>4 DEF IInv, Types, Shared, Setting
  <2> QED
    BY <2>1, <2>3, <2>4, <2>9, <2>10, <2>11, <2>12, <2>13, <2>14, RecordKeeps
<1> QED
  BY <1>2, <1>3

-----------------------------------------------------------------------------
(* The backup and the folders.                                              *)

(* A step that touches the folders while its session has the lock, or had it   *)
(* free.                                                                     *)
LEMMA FoldersKeep ==
  ASSUME Setting, IInv, NEW s \in Sessions, NEW j \in Jobs, session' = [session EXCEPT ![s] = j],
         UNCHANGED <<hosted, saved, edits>>,
         guard = NoSession \/ Holds(s), guard' = s \/ (guard = NoSession /\ guard' = NoSession),
         store' \in Stores, retained' \in [PlanIds -> Nat],
         backup' \in [PlanIds -> {"none", "begun", "whole"}],
         \A i \in PlanIds : BackupComplete(i) => BackupComplete(i)',
         StoreFits', FilesInOnePlace', MovedIsBackedUp', AtHome',
         admission.phase = "completed" => UNCHANGED store,
         Carried(j), j.at \in Locked <=> Holds(s)', Holds(s)' => Knows(j)'
  PROVE  IInv'
<1> USE DEF saved
<1>1. Spares(s)
  BY DEF Spares, IInv, Types, Shared, Holds, Setting
<1>2. Shared'
  BY DEF IInv, Types, Shared
<1>3. Records'
  <2>1. Named(admission)' /\ ConsentFirst'
    BY DEF IInv, Records, Named, ConsentFirst
  <2>2. CompletedAsAgreed'
    BY DEF IInv, Records, Named, CompletedAsAgreed, Replica, Vacant
  <2> QED
    BY <2>1, <2>2 DEF Records
<1>4. Carried(j)'
  BY DEF Carried, Named
<1> QED
  BY <1>1, <1>2, <1>3, <1>4, StepKeeps DEF Files

LEMMA PreserveKeeps ==
  ASSUME Setting, IInv, NEW s \in Sessions, Preserve(s)
  PROVE  IInv'
<1>1. ~Holds(s) /\ session[s] \in Jobs /\ Carried(session[s]) /\ session[s].at = "preserve"
  BY DEF IInv, Runs, Preserve, At, Locked, Copying, Installing, Laying, Types
<1>2. CASE ~(guard = NoSession /\ Current(s) /\ Authorized(s) /\ Unchanged(s))
  BY <1>1, <1>2, EndKeeps DEF Preserve, folders
<1>3. CASE guard = NoSession /\ Current(s) /\ Authorized(s) /\ Unchanged(s)
  <2>1. PICK j \in Jobs : j = [session[s] EXCEPT !.at = "copy"]
    BY <1>1 DEF Jobs, Points, Locked, Copying
  <2>2. j.at = "copy" /\ j.rec = session[s].rec /\ session' = [session EXCEPT ![s] = j]
    BY <1>1, <1>3, <2>1 DEF Preserve, MovesOn, Jobs
  <2>3. guard' = s /\ UNCHANGED <<hosted, store, retained, plans, admission, minted, confirmed, edits>>
    BY <1>3 DEF Preserve, saved
  <2>4. Carried(j)
    BY <1>1, <2>2 DEF Carried, PhaseFits, Laying, Asked, Points, Locked, Copying, Unlocked
  <2>5. /\ backup' \in [PlanIds -> {"none", "begun", "whole"}]
        /\ \A i \in PlanIds : BackupComplete(i) => BackupComplete(i)'
    BY <1>3 DEF Preserve, IInv, Types, Shared, BackupComplete, Found
  <2>6. StoreFits' /\ FilesInOnePlace' /\ AtHome'
    BY <2>3 DEF IInv, StoreFits, Files, FilesInOnePlace, Places, Records, AtHome
  <2>7. MovedIsBackedUp'
    BY <2>3, <2>5 DEF IInv, Files, MovedIsBackedUp, Places
  <2>8. Knows(j)' /\ Holds(s)' /\ j.at \in Locked
    BY <1>3, <2>2, <2>3 DEF Knows, Holds, Current, Locked, Copying, Installing, Laying
  <2>9. store' \in Stores /\ retained' \in [PlanIds -> Nat]
    BY <2>3 DEF IInv, Types, Shared
  <2> QED
    BY <1>3, <2>2, <2>3, <2>4, <2>5, <2>6, <2>7, <2>8, <2>9, FoldersKeep DEF saved
<1> QED
  BY <1>2, <1>3

LEMMA CopyKeeps ==
  ASSUME Setting, IInv, NEW s \in Sessions, Copy(s)
  PROVE  IInv'
<1>1. session[s].at = "copy" /\ session[s].at \in Locked
  BY DEF Copy, At, Locked, Copying
<1>2. CASE ~(BackupComplete(admission.id) \/ Unchanged(s))
  BY <1>1, <1>2, LeaveKeeps DEF Copy, folders
<1>3. CASE BackupComplete(admission.id) \/ Unchanged(s)
  <2>1. /\ session[s] \in Jobs /\ Carried(session[s]) /\ Holds(s) /\ session[s].rec = admission
    BY <1>1, HolderKnows
  <2>2. PICK j \in Jobs : j = [session[s] EXCEPT !.at = "copied"]
    BY <2>1 DEF Jobs, Points, Locked, Copying
  <2>3. j.at = "copied" /\ j.rec = admission /\ session' = [session EXCEPT ![s] = j]
    BY <1>3, <2>1, <2>2 DEF Copy, MovesOn, Jobs
  <2>4. UNCHANGED <<hosted, store, retained, plans, admission, minted, confirmed, edits, guard>>
    BY <1>3 DEF Copy, saved
  <2>5. Carried(j)
    BY <1>1, <2>1, <2>3 DEF Carried, PhaseFits, Laying, Asked, Points, Locked, Copying
  <2>6. /\ backup' \in [PlanIds -> {"none", "begun", "whole"}]
        /\ \A i \in PlanIds : BackupComplete(i) => BackupComplete(i)'
    BY <1>3 DEF Copy, IInv, Types, Shared, BackupComplete, Found
  <2>7. StoreFits' /\ FilesInOnePlace' /\ AtHome'
    BY <2>4 DEF IInv, StoreFits, Files, FilesInOnePlace, Places, Records, AtHome
  <2>8. MovedIsBackedUp'
    BY <2>4, <2>6 DEF IInv, Files, MovedIsBackedUp, Places
  <2>9. Knows(j)' /\ Holds(s)' /\ j.at \in Locked
    BY <2>1, <2>3, <2>4 DEF Knows, Holds, Locked, Copying, Installing, Laying
  <2>10. store' \in Stores /\ retained' \in [PlanIds -> Nat]
    BY <2>4 DEF IInv, Types, Shared
  <2> QED
    BY <2>1, <2>3, <2>4, <2>5, <2>6, <2>7, <2>8, <2>9, <2>10, FoldersKeep DEF saved, Holds
<1> QED
  BY <1>2, <1>3

(* The one step at which the files change their place.                        *)
LEMMA RenameKeeps ==
  ASSUME Setting, IInv, NEW s \in Sessions, Rename(s)
  PROVE  IInv'
<1>1. session[s].at = "rename" /\ session[s].at \in Locked
  BY DEF Rename, At, Locked, Installing
<1>2. /\ session[s] \in Jobs /\ Carried(session[s]) /\ Holds(s) /\ session[s].rec = admission
      /\ admission.id \in PlanIds /\ admission.id \in confirmed
      /\ store.kind = "legacy" /\ BackupComplete(admission.id) /\ admission.phase = "replacing"
  BY <1>1, HolderKnows DEF Knows, Carried, PhaseFits, Installing
<1>3. PICK j \in Jobs : j = [session[s] EXCEPT !.at = "moved"]
  BY <1>2 DEF Jobs, Points, Locked, Installing
<1>4. j.at = "moved" /\ j.rec = admission /\ session' = [session EXCEPT ![s] = j]
  BY <1>2, <1>3 DEF Rename, MovesOn, Jobs
<1>5. /\ UNCHANGED <<hosted, backup, plans, admission, minted, confirmed, edits, guard>>
      /\ store' = Vacant
  BY DEF Rename, saved
<1>6. Carried(j)
  BY <1>1, <1>2, <1>4 DEF Carried, PhaseFits, Laying, Moving, Asked, Points, Locked, Installing
<1>7. store.body = edits + 1 /\ Places = {} /\ edits \in Nat
  BY <1>2, StoreIs DEF IInv, Types, Shared
<1>8. /\ retained' \in [PlanIds -> Nat] /\ retained'[admission.id] = edits + 1
      /\ \A i \in PlanIds : i # admission.id => retained'[i] = Nothing
  BY <1>2, <1>7 DEF Rename, IInv, Types, Shared, Places
<1>9. Places' = {admission.id}
  BY <1>2, <1>7, <1>8 DEF Places, Nothing, PlanIds
<1>10. Vacant \in Stores /\ Vacant.kind = "vacant"
  BY DEF Vacant, Stores, Shapes, Nothing
<1>11. StoreFits' /\ store' \in Stores
  BY <1>5, <1>10 DEF StoreFits
<1>12. FilesInOnePlace'
  BY <1>2, <1>5, <1>8, <1>9, <1>10 DEF FilesInOnePlace, PlanIds
<1>13. MovedIsBackedUp'
  BY <1>2, <1>5, <1>9 DEF MovedIsBackedUp, BackupComplete, Found
<1>14. AtHome'
  BY <1>2, <1>5 DEF AtHome, Undecided
<1>15. Knows(j)' /\ Holds(s)' /\ j.at \in Locked
  BY <1>2, <1>4, <1>5 DEF Knows, Holds, Locked, Installing, Laying, BackupComplete, Found
<1>16. backup' \in [PlanIds -> {"none", "begun", "whole"}] /\ \A i \in PlanIds : BackupComplete(i) => BackupComplete(i)'
  BY <1>5 DEF IInv, Types, Shared, BackupComplete, Found
<1> QED
  BY <1>2, <1>4, <1>5, <1>6, <1>8, <1>11, <1>12, <1>13, <1>14, <1>15, <1>16, FoldersKeep
  DEF saved, Holds

(* A step of the installation: what is at the store becomes more of a replica  *)
(* of the plan's generation.                                                 *)
LEMMA InstallKeeps ==
  ASSUME Setting, IInv, NEW s \in Sessions, session[s].at \in {"lay"} \union Laying,
         NEW point \in {"stage", "root", "control", "finish"}, MovesOn(s, point),
         UNCHANGED <<hosted, retained, backup, saved, guard, edits>>,
         store.kind # "legacy",
         store'.gen = plans[admission.id].gen, store'.shape \in Shapes,
         store' = Replica(store'.gen, store'.shape),
         point = "finish" => store'.shape = "whole"
  PROVE  IInv'
<1>1. session[s].at \in Locked
  BY DEF Locked, Installing
<1>2. /\ session[s] \in Jobs /\ Carried(session[s]) /\ Holds(s) /\ session[s].rec = admission
      /\ admission.id \in PlanIds /\ admission.id \in confirmed /\ plans[admission.id].gen # Nothing
      /\ BackupComplete(admission.id) /\ admission.phase = "installing"
  BY <1>1, HolderKnows DEF Knows, Carried, PhaseFits, Installing, Laying
<1>3. PICK j \in Jobs : j = [session[s] EXCEPT !.at = point]
  BY <1>2 DEF Jobs, Points, Locked, Installing, Laying
<1>4. j.at = point /\ j.rec = admission /\ session' = [session EXCEPT ![s] = j]
  BY <1>2, <1>3 DEF MovesOn, Jobs
<1>5. UNCHANGED <<hosted, retained, backup, plans, admission, minted, confirmed, edits, guard>>
  BY DEF saved
<1>6. Carried(j)
  BY <1>1, <1>2, <1>4 DEF Carried, PhaseFits, Laying, Asked, Points, Locked, Installing
<1>7. plans[admission.id].gen \in Nat
  BY <1>2 DEF IInv, Types, Shared
<1>8. \A g \in Nat, sh \in Shapes : Replica(g, sh) \in Stores /\ Replica(g, sh).kind = "replica"
  BY DEF Replica, Vacant, Stores, Shapes, Nothing
<1>9. store' \in Stores /\ store'.kind = "replica"
  BY <1>7, <1>8
<1>10. StoreFits'
  BY <1>2, <1>9 DEF StoreFits
<1>11. FilesInOnePlace' /\ MovedIsBackedUp'
  BY <1>5, <1>9 DEF IInv, Files, FilesInOnePlace, MovedIsBackedUp, Places, BackupComplete, Found
<1>12. AtHome'
  BY <1>2, <1>5 DEF AtHome, Undecided
<1>13. Knows(j)' /\ Holds(s)' /\ j.at \in Locked
  BY <1>2, <1>4, <1>5, <1>9 DEF Knows, Holds, Locked, Installing, Laying, BackupComplete, Found
<1>14. /\ backup' \in [PlanIds -> {"none", "begun", "whole"}]
       /\ \A i \in PlanIds : BackupComplete(i) => BackupComplete(i)'
       /\ retained' \in [PlanIds -> Nat]
  BY <1>5 DEF IInv, Types, Shared, BackupComplete, Found
<1> QED
  BY <1>2, <1>4, <1>5, <1>6, <1>9, <1>10, <1>11, <1>12, <1>13, <1>14, FoldersKeep
  DEF saved, Holds

LEMMA LayKeeps ==
  ASSUME Setting, IInv, NEW s \in Sessions, Lay(s)
  PROVE  IInv'
<1>1. session[s].at = "lay" /\ session[s].at \in Locked
  BY DEF Lay, At, Locked, Installing
<1>2. CASE ~(Authorized(s) /\ Retainable(Plan(s).gen))
  BY <1>1, <1>2, LeaveKeeps DEF Lay, LeaveLocked, folders
<1>3. CASE Authorized(s) /\ Retainable(Plan(s).gen)
  <2>1. session[s].rec = admission /\ admission.id \in PlanIds /\ plans[admission.id].gen # Nothing
    BY <1>1, HolderKnows
  <2>2. plans[admission.id].gen \in Nat
    BY <2>1 DEF IInv, Types, Shared
  <2>3. store.kind # "legacy" /\ (store.kind # "vacant" => store.gen = plans[admission.id].gen)
    BY <1>3, <2>1, StoreIs DEF Retainable, Plan
  <2>4. store' = IF store.kind = "vacant" THEN Replica(plans[admission.id].gen, "dirs") ELSE store
    BY <1>3, <2>1 DEF Lay, Plan
  <2>5. \A g, sh : Replica(g, sh).gen = g /\ Replica(g, sh).shape = sh
    BY DEF Replica, Vacant
  <2>6. /\ store'.gen = plans[admission.id].gen /\ store'.shape \in Shapes
        /\ store' = Replica(store'.gen, store'.shape)
    <3>1. CASE store.kind = "vacant"
      BY <2>4, <2>5, <3>1 DEF Shapes
    <3>2. CASE store.kind # "vacant"
      BY <2>3, <2>4, <3>2 DEF IInv, StoreFits, Types, Shared, Stores
    <3> QED
      BY <3>1, <3>2
  <2>7. PICK point \in {"control", "stage"} : MovesOn(s, point)
    BY <1>3 DEF Lay
  <2> QED
    BY <1>1, <1>3, <2>3, <2>6, <2>7, InstallKeeps DEF Lay
<1> QED
  BY <1>2, <1>3

LEMMA LaidKeeps ==
  ASSUME Setting, IInv, NEW s \in Sessions, Stage(s) \/ Root(s) \/ Control(s)
  PROVE  IInv'
<1>1. session[s].at \in {"stage", "root", "control"}
  BY DEF Stage, Root, Control, At
<1>2. session[s].at \in Locked /\ session[s].at \in Laying
  BY <1>1 DEF Locked, Installing, Laying
<1>3. store.kind = "replica" /\ store.gen = plans[admission.id].gen
  BY <1>2, HolderKnows DEF Knows
<1>4. store = Replica(store.gen, store.shape)
  BY <1>3 DEF IInv, StoreFits
<1>5. PICK shape \in Shapes, point \in {"root", "control", "finish"} :
        /\ store' = [store EXCEPT !.shape = shape] /\ MovesOn(s, point)
        /\ point = "finish" => shape = "whole"
  BY <1>1 DEF Stage, Root, Control, Shapes
<1>6. [Replica(store.gen, store.shape) EXCEPT !.shape = shape] = Replica(store.gen, shape)
  BY DEF Replica, Vacant
<1>7. store' = Replica(store.gen, shape)
  BY <1>4, <1>5, <1>6
<1>8. Replica(store.gen, shape).gen = store.gen /\ Replica(store.gen, shape).shape = shape
  BY DEF Replica, Vacant
<1> QED
  BY <1>2, <1>3, <1>5, <1>7, <1>8, InstallKeeps DEF Stage, Root, Control

LEMMA SetAsideKeeps ==
  ASSUME Setting, IInv, NEW s \in Sessions, SetAside(s)
  PROVE  IInv'
<1>1. ~Holds(s) /\ session[s] \in Jobs /\ Carried(session[s]) /\ session[s].at = "aside"
  BY DEF IInv, Runs, SetAside, At, Locked, Copying, Installing, Laying, Types
<1>2. CASE store' = store /\ EndSession(s)
  BY <1>1, <1>2, EndKeeps DEF SetAside, folders
<1>3. CASE ~(store' = store /\ EndSession(s))
  <2>1. /\ guard = NoSession /\ admission = session[s].rec /\ store.kind = "replica"
        /\ store' = Vacant /\ MovesOn(s, "observe")
    BY <1>3 DEF SetAside, Current
  <2>2. PICK j \in Jobs : j = [session[s] EXCEPT !.at = "observe"]
    BY <1>1 DEF Jobs, Points, Unlocked
  <2>3. j.at = "observe" /\ j.rec = session[s].rec /\ session' = [session EXCEPT ![s] = j]
    BY <1>1, <2>1, <2>2 DEF MovesOn, Jobs
  <2>4. UNCHANGED <<hosted, retained, backup, plans, admission, minted, confirmed, edits, guard>>
    BY DEF SetAside, saved
  <2>5. Carried(j) /\ admission.phase = "installing"
    BY <1>1, <2>1, <2>3
    DEF Carried, PhaseFits, Laying, Asked, Points, Unlocked, Admitted, Moving
  <2>6. Vacant \in Stores /\ Vacant.kind = "vacant"
    BY DEF Vacant, Stores, Shapes, Nothing
  <2>7. StoreFits' /\ store' \in Stores
    BY <2>1, <2>6 DEF StoreFits
  <2>8. FilesInOnePlace' /\ MovedIsBackedUp'
    BY <2>1, <2>4, <2>6
    DEF IInv, Files, FilesInOnePlace, MovedIsBackedUp, Places, BackupComplete, Found
  <2>9. AtHome'
    BY <2>4, <2>5 DEF AtHome, Undecided
  <2>10. ~Holds(s)' /\ j.at \notin Locked
    BY <1>1, <2>3, <2>4 DEF Holds, Locked, Copying, Installing, Laying
  <2>11. /\ backup' \in [PlanIds -> {"none", "begun", "whole"}]
         /\ \A i \in PlanIds : BackupComplete(i) => BackupComplete(i)'
         /\ retained' \in [PlanIds -> Nat]
    BY <2>4 DEF IInv, Types, Shared, BackupComplete, Found
  <2> QED
    BY <2>1, <2>3, <2>4, <2>5, <2>7, <2>8, <2>9, <2>10, <2>11, FoldersKeep DEF saved
<1> QED
  BY <1>2, <1>3

-----------------------------------------------------------------------------
(* New plans.                                                               *)

LEMMA PublishKeeps ==
  ASSUME Setting, IInv, NEW s \in Sessions, NEW phase \in Fresh, NEW source \in PlanIds \union {Nothing},
         NEW body \in Nat \ {0}, NEW gen \in Nat \ {0}, Publish(phase, source, body, gen),
         session' = [session EXCEPT ![s].at = "ask", ![s].rec = admission'],
         UNCHANGED <<hosted, folders, confirmed, guard, edits>>,
         guard = NoSession, session[s] \in Jobs,
         source = Nothing => store.kind = "legacy",
         source # Nothing => phase = "reassessed"
  PROVE  IInv'
<1>1. minted \in Nat /\ MaxIds \in Nat /\ minted < MaxIds /\ minted' = minted + 1
  BY DEF Publish, MakePlan, IInv, Types, Shared, Setting
<1>2. minted' \in PlanIds /\ minted' \in minted .. MaxIds
  BY <1>1 DEF PlanIds
<1>3. PICK q \in Recs : q = [id |-> minted + 1, phase |-> phase, source |-> source]
  <2>1. minted + 1 \in Nat /\ source \in Nat /\ phase \in Phases
    BY <1>1 DEF Phases, Fresh, PlanIds, Nothing
  <2> QED
    BY <2>1 DEF Recs
<1>4. admission' = q /\ q.id = minted' /\ q.phase = phase /\ q.source = source
  BY <1>1, <1>3 DEF Publish
<1>5. PICK j \in Jobs : j = [session[s] EXCEPT !.at = "ask", !.rec = q]
  BY <1>4 DEF Jobs, Points, Unlocked
<1>6. j.at = "ask" /\ j.rec = q /\ session' = [session EXCEPT ![s] = j]
  BY <1>4, <1>5 DEF Jobs
<1>7. plans' = [plans EXCEPT ![minted'] = [body |-> body, gen |-> gen]]
  BY DEF Publish, MakePlan
<1>8. /\ plans' \in [PlanIds -> [body : Nat, gen : Nat]]
      /\ \A i \in PlanIds : i <= minted => plans'[i] = plans[i]
      /\ plans'[minted'].body = body /\ plans'[minted'].gen = gen
  BY <1>1, <1>2, <1>7 DEF IInv, Types, Shared
<1>9. Named(q)'
  BY <1>1, <1>2, <1>4, <1>8 DEF Named, Nothing
<1>10. Carried(j)'
  BY <1>4, <1>6, <1>9 DEF Carried, PhaseFits, Undone, Asked, Laying
<1>11. AtHome'
  BY <1>4 DEF AtHome, folders
<1>12. ConsentFirst' /\ CompletedAsAgreed'
  BY <1>4 DEF ConsentFirst, CompletedAsAgreed, Fresh
<1>13. j.at \notin Locked /\ ~Holds(s)'
  BY <1>6 DEF Locked, Copying, Installing, Laying, Holds, Setting
<1>14. UNCHANGED <<hosted, store, retained, backup, edits, confirmed, guard>> /\ confirmed' \subseteq PlanIds
  BY DEF folders, IInv, Types, Shared
<1>15. Named(admission)'
  BY <1>4, <1>9
<1> QED
  BY <1>2, <1>4, <1>6, <1>8, <1>10, <1>11, <1>12, <1>13, <1>14, <1>15, RecordKeeps

LEMMA SaveKeeps ==
  ASSUME Setting, IInv, NEW s \in Sessions, SaveRecord(s)
  PROVE  IInv'
<1>1. ~Holds(s) /\ session[s] \in Jobs /\ Carried(session[s]) /\ session[s].at = "save"
  BY DEF IInv, Runs, SaveRecord, At, Locked, Copying, Installing, Laying, Types
<1>2. CASE ~(guard = NoSession /\ Current(s))
  BY <1>1, <1>2, EndKeeps DEF SaveRecord, saved
<1>3. CASE guard = NoSession /\ Current(s)
  <2>1. admission.phase \in Undecided /\ Named(admission)
    BY <1>1, <1>3 DEF Carried, PhaseFits, Current
  <2>2. admission.source = Nothing
    BY <2>1 DEF Named, Undecided, Admitted, Moving
  <2>3. store.kind = "legacy"
    BY <2>1, <2>2 DEF IInv, Records, AtHome
  <2>4. session[s].body \in Nat \ {0} /\ session[s].gen \in Nat \ {0}
    BY <1>1 DEF Carried, Jobs, Nothing
  <2>5. Publish("assessed", Nothing, session[s].body, session[s].gen)
    BY <1>3 DEF SaveRecord
  <2> QED
    BY <1>1, <1>3, <2>3, <2>4, <2>5, PublishKeeps DEF SaveRecord, Fresh
<1> QED
  BY <1>2, <1>3

LEMMA ReconcileKeeps ==
  ASSUME Setting, IInv, NEW s \in Sessions, Reconcile(s)
  PROVE  IInv'
<1>1. ~Holds(s) /\ session[s] \in Jobs /\ Carried(session[s]) /\ session[s].at = "reconcile"
  BY DEF IInv, Runs, Reconcile, At, Locked, Copying, Installing, Laying, Types
<1> DEFINE body == IF Relocated(admission) THEN retained[RetainedName(admission)] ELSE BodyAtStore
           source == IF admission.source # Nothing THEN admission.source
                     ELSE IF Relocated(admission) THEN admission.id ELSE Nothing
<1>2. CASE EndSession(s) /\ UNCHANGED <<plans, admission, minted>>
  BY <1>1, <1>2, EndKeeps DEF Reconcile, saved
<1>3. CASE ~(EndSession(s) /\ UNCHANGED <<plans, admission, minted>>)
  <2>1. /\ guard = NoSession /\ admission = session[s].rec
        /\ IF Relocated(admission) THEN OnlyRetained(admission) ELSE OnlyAtStore(admission)
        /\ Publish("reassessed", source, body, hosted)
        /\ session' = [session EXCEPT ![s].at = "ask", ![s].rec = admission']
    BY <1>3 DEF Reconcile, Current, ReassessedAs
  <2>2. admission \in Recs /\ Named(admission) /\ admission.id \in PlanIds
    BY <1>1, <2>1 DEF Jobs, Carried, Named, PhaseFits, Admitted, Moving
  <2>3. source \in PlanIds \union {Nothing} /\ (source = Nothing => store.kind = "legacy")
    BY <2>1, <2>2 DEF Named, Relocated, OnlyAtStore, PlanIds, Nothing
  <2>4. body \in Nat \ {0}
    <3>1. CASE Relocated(admission)
      BY <2>1, <2>2, <3>1 DEF OnlyRetained, RetainedName, Named, IInv, Types, Shared, Nothing
    <3>2. CASE ~Relocated(admission)
      BY <2>1, <3>2, StoreIs DEF OnlyAtStore, BodyAtStore, IInv, Types, Shared, Nothing
    <3> QED
      BY <3>1, <3>2
  <2>5. hosted \in Nat \ {0} /\ UNCHANGED <<hosted, folders, confirmed, guard, edits>>
    BY DEF IInv, Types, Shared, Reconcile
  <2> QED
    BY <1>1, <2>1, <2>3, <2>4, <2>5, PublishKeeps DEF Fresh
<1> QED
  BY <1>2, <1>3

-----------------------------------------------------------------------------
(* What happens around a conversion.                                        *)

LEMMA EditKeeps ==
  ASSUME Setting, IInv, Edit
  PROVE  IInv'
<1>1. UNCHANGED <<hosted, backup, plans, admission, minted, confirmed, guard, session>>
  BY DEF Edit, saved
<1>2. edits \in Nat /\ edits' = edits + 1
  BY DEF Edit, IInv, Types, Shared
<1>3. /\ store' \in Stores /\ retained' \in [PlanIds -> Nat]
      /\ store'.kind = store.kind /\ store'.gen = store.gen /\ store'.shape = store.shape
  BY <1>2 DEF Edit, IInv, Types, Shared, Stores
<1>4. StoreFits' /\ FilesInOnePlace' /\ Places' = Places
      /\ (store.kind # "legacy" => store' = store)
  <2>1. CASE store.kind = "legacy"
    <3>1. store' = [store EXCEPT !.body = edits' + 1] /\ retained' = retained
      BY <2>1 DEF Edit
    <3>2. [Legacy(edits + 1) EXCEPT !.body = edits' + 1] = Legacy(edits' + 1)
      BY DEF Legacy, Vacant
    <3>3. store' = Legacy(edits' + 1)
      BY <2>1, <3>1, <3>2 DEF IInv, StoreFits
    <3>4. store'.body = edits' + 1
      BY <3>3 DEF Legacy, Vacant
    <3> QED
      BY <1>3, <2>1, <3>1, <3>3, <3>4
      DEF StoreFits, FilesInOnePlace, Places, IInv, Files
  <2>2. CASE store.kind # "legacy"
    <3>1. store' = store
      BY <2>2 DEF Edit
    <3>2. PICK i \in PlanIds : Places = {i} /\ retained[i] = edits + 1
      BY <2>2 DEF IInv, Files, FilesInOnePlace
    <3>3. retained' = [retained EXCEPT ![i] = edits' + 1]
      BY <2>2, <3>2 DEF Edit, Places
    <3>4. Places' = Places /\ retained'[i] = edits' + 1
      BY <1>2, <3>2, <3>3 DEF Places, IInv, Types, Shared, Nothing
    <3> QED
      BY <2>2, <3>1, <3>2, <3>4 DEF IInv, StoreFits, FilesInOnePlace
  <2> QED
    BY <2>1, <2>2
<1>5. MovedIsBackedUp'
  BY <1>1, <1>4 DEF IInv, Files, MovedIsBackedUp, BackupComplete, Found
<1>6. Named(admission)' /\ ConsentFirst'
  BY <1>1 DEF IInv, Records, Named, ConsentFirst
<1>7. AtHome' /\ CompletedAsAgreed'
  <2>1. admission.phase = "completed" => store' = store
    <3>1. Replica(plans[admission.id].gen, "whole").kind = "replica"
      BY DEF Replica, Vacant
    <3> QED
      BY <1>4, <3>1 DEF IInv, Records, CompletedAsAgreed
  <2> QED
    BY <1>1, <1>3, <2>1 DEF IInv, Records, AtHome, CompletedAsAgreed, BackupComplete, Found, Replica, Vacant
<1>8. Spares(NoSession)
  BY <1>1, <1>3 DEF Spares, Holds, BackupComplete, Found, IInv, Types, Shared
<1>9. ASSUME NEW t \in Sessions PROVE Runs(t)'
  <2>1. t \in Sessions \ {NoSession} /\ session'[t] = session[t] /\ minted' \in Nat
    BY <1>1 DEF Setting, IInv, Types, Shared
  <2> QED
    BY <1>8, <2>1, BystanderKeeps DEF IInv
<1>10. Types'
  BY <1>1, <1>2, <1>3 DEF IInv, Types, Shared
<1> QED
  BY <1>4, <1>5, <1>6, <1>7, <1>9, <1>10 DEF IInv, Files, Records

LEMMA MoveOnKeeps ==
  ASSUME Setting, IInv, MoveOn
  PROVE  IInv'
<1>1. UNCHANGED <<store, retained, backup, plans, admission, minted, confirmed, guard, session, edits>>
      /\ hosted' \in Nat \ {0}
  BY DEF MoveOn, saved, folders, IInv, Types, Shared
<1>2. Types' /\ StoreFits' /\ Files' /\ Records'
  BY <1>1 DEF IInv, Types, Shared, StoreFits, Files, FilesInOnePlace, Places, MovedIsBackedUp,
              Records, Named, AtHome, ConsentFirst, CompletedAsAgreed, BackupComplete, Found
<1>3. ASSUME NEW t \in Sessions PROVE Runs(t)'
  BY <1>1 DEF IInv, Runs, Carried, Knows, Named, Holds, BackupComplete, Found
<1> QED
  BY <1>2, <1>3 DEF IInv

LEMMA DieKeeps ==
  ASSUME Setting, IInv, NEW s \in Sessions, EndProcess(s)
  PROVE  IInv'
BY EndKeeps DEF EndProcess

LEMMA StutterKeeps ==
  ASSUME IInv, UNCHANGED conversion
  PROVE  IInv'
<1>1. UNCHANGED <<hosted, store, retained, backup, plans, admission, minted, confirmed, guard, session,
                  edits>>
  BY DEF conversion, saved, folders
<1>2. Types' /\ StoreFits' /\ Files' /\ Records'
  BY <1>1 DEF IInv, Types, Shared, StoreFits, Files, FilesInOnePlace, Places, MovedIsBackedUp,
              Records, Named, AtHome, ConsentFirst, CompletedAsAgreed, BackupComplete, Found
<1>3. ASSUME NEW t \in Sessions PROVE Runs(t)'
  BY <1>1 DEF IInv, Runs, Carried, Knows, Named, Holds, BackupComplete, Found
<1> QED
  BY <1>2, <1>3 DEF IInv

LEMMA StepsKeep ==
  ASSUME Setting, IInv, [VNext]_conversion
  PROVE  IInv'
<1>1. ASSUME NEW s \in Sessions, CarryOn(s) PROVE IInv'
  BY <1>1, OpenKeeps, PrepareKeeps, SaveKeeps, AgreeKeeps, DeclineKeeps, CheckKeeps, AcquireKeeps,
     DecideKeeps, PreserveKeeps, CopyKeeps, CopiedKeeps, ContinueKeeps, AdmitKeeps, ReplaceKeeps,
     RenameKeeps, MovedKeeps, LayKeeps, LaidKeeps, FinishKeeps, ChangedKeeps, SetAsideKeeps,
     ObserveKeeps, ReconcileKeeps
  DEF CarryOn
<1>2. ASSUME NEW s \in Sessions, Refuse(s) \/ EndProcess(s) PROVE IInv'
  BY <1>2, RefuseKeeps, DieKeeps
<1> QED
  BY <1>1, <1>2, EditKeeps, MoveOnKeeps, StutterKeeps DEF VNext

LEMMA StartHolds ==
  ASSUME Setting, VInit
  PROVE  IInv
<1>1. Rest \in Jobs /\ Rest.at = "idle" /\ Rest.rec = NoRecord /\ NoRecord \in Recs
  BY DEF Rest, Jobs, Points, Unlocked, Recs, NoRecord, Phases, Shapes, Nothing
<1>2. /\ Legacy(1) \in Stores /\ Legacy(1).kind = "legacy" /\ Legacy(1).body = 1
  BY DEF Legacy, Vacant, Stores, Shapes, Nothing
<1>3. Types
  BY <1>1, <1>2 DEF Setting, VInit, Types, Shared, PlanIds, Nothing
<1>4. StoreFits
  BY <1>2 DEF VInit, StoreFits
<1>5. Files
  BY <1>2 DEF VInit, Files, FilesInOnePlace, MovedIsBackedUp, Places
<1>6. NoRecord.id = Nothing /\ NoRecord.phase = "none" /\ NoRecord.source = Nothing
  BY DEF NoRecord
<1>7. Named(NoRecord)
  BY <1>6 DEF VInit, Named, Nothing
<1>8. Records
  BY <1>2, <1>6, <1>7 DEF VInit, Records, AtHome, ConsentFirst, CompletedAsAgreed
<1>9. ASSUME NEW s \in Sessions PROVE Runs(s)
  BY <1>1, <1>6, <1>7 DEF VInit, Runs, Carried, PhaseFits, Laying, Asked, Points, Locked, Copying,
     Installing, Holds, Setting
<1> QED
  BY <1>3, <1>4, <1>5, <1>8, <1>9 DEF IInv

LEMMA Implied ==
  ASSUME IInv
  PROVE  ConversionSound
<1>1. WritersFindAStore
  <2>1. ASSUME admission.phase \in Undecided PROVE store.kind = "legacy"
    BY <2>1 DEF IInv, Records, Named, AtHome, Undecided, Admitted, Moving
  <2>2. ASSUME admission.phase = "completed" PROVE store.shape = "whole"
    BY <2>2 DEF IInv, Records, CompletedAsAgreed, Replica, Vacant
  <2>3. admission.phase \in Phases
    BY DEF IInv, Types, Shared, Recs
  <2> QED
    BY <2>1, <2>2, <2>3 DEF WritersFindAStore, Blocking, Phases, Undecided
<1> QED
  BY <1>1 DEF IInv, Files, Records, ConversionSound

(* A conversion keeps the person's files: they are at one place with every     *)
(* edit, in a complete backup once moved; nothing happens without consent; no   *)
(* writer that is admitted meets half a store; and a completed conversion is    *)
(* the one agreed to, however sessions overlap, die or are overtaken           *)
(* (continue_migration_installation, reconcile_admitted_migration).            *)
THEOREM ConversionsAreSound ==
  Setting /\ VSpec => []ConversionSound
<1> SUFFICES ASSUME Setting PROVE VSpec => []ConversionSound
  OBVIOUS
<1>1. VInit => IInv
  BY StartHolds
<1>2. IInv /\ [VNext]_conversion => IInv'
  BY StepsKeep
<1>3. IInv => ConversionSound
  BY Implied
<1> QED
  BY <1>1, <1>2, <1>3, PTL DEF VSpec

=============================================================================
