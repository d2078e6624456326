----------------------------- MODULE Conversion -----------------------------
(***************************************************************************)
(* The guided conversion of a project's legacy files into a replica of the *)
(* hosted record (cli/generation_upgrade.py, sync/migration_*.py), on one  *)
(* machine. A person confirms a plan, it preserves the files in a backup   *)
(* folder, moves them aside and installs a generation; a saved record says *)
(* how far it came, blocks every Nauro writer while it is under way, and   *)
(* lets another session go on after a crash. Meanwhile the person may edit *)
(* the files, and the hosted project moves on to a later generation. If    *)
(* either changes before the end, the conversion must be reassessed and    *)
(* confirmed again.                                                        *)
(*                                                                         *)
(* The files are one body, numbered by the edits made to it. Left out:     *)
(* files that are refused (links, pending writes), evidence somebody has   *)
(* altered, a binding, owner or registration that changes, and what a plan *)
(* lists.                                                                  *)
(***************************************************************************)
EXTENDS Naturals, FiniteSets

CONSTANTS
  Sessions,     \* processes in which a person may open the conversion
  MaxIds,       \* bound: plans made
  MaxEdits,     \* bound: edits of the legacy files
  MaxGen,       \* bound: generations of the hosted project
  MaxTrips      \* bound: refusals by the person, dead processes, network failures

VARIABLES
  hosted,       \* the current generation of the hosted project
  store,        \* what is at the project's store: [kind, body, gen, shape]
  retained,     \* legacy-source-<id>: the body moved there, or Nothing
  backup,       \* legacy-backup-<id>: which part of it is there
  plans,        \* migration-plan-<id>: the body and the generation it was made for
  admission,    \* the admission record: [id, phase, source]
  guard,        \* who holds the migration lock
  session,      \* what each process is doing
  minted, edits, trips,
  confirmed     \* history: the plans a person has agreed to

folders == <<store, retained, backup>>
saved == <<plans, admission, minted, confirmed>>
conversion == <<hosted, folders, saved, guard, session, edits, trips>>

PlanIds == 1 .. MaxIds
Nothing == 0
NoSession == "nobody"

Vacant == [kind |-> "vacant", body |-> Nothing, gen |-> Nothing, shape |-> "none"]
Legacy(body) == [Vacant EXCEPT !.kind = "legacy", !.body = body]
Replica(gen, shape) == [Vacant EXCEPT !.kind = "replica", !.gen = gen, !.shape = shape]

NoRecord == [id |-> Nothing, phase |-> "none", source |-> Nothing]
Fresh == {"assessed", "reassessed"}
Blocking == {"blocked", "reassessed", "replacing", "installing"}

Rest == [at |-> "idle", rec |-> NoRecord, gen |-> Nothing, body |-> Nothing, again |-> FALSE,
         shape |-> "none"]

VInit ==
  /\ hosted = 1 /\ store = Legacy(1)
  /\ retained = [i \in PlanIds |-> Nothing] /\ backup = [i \in PlanIds |-> "none"]
  /\ plans = [i \in PlanIds |-> [body |-> Nothing, gen |-> Nothing]]
  /\ admission = NoRecord
  /\ guard = NoSession /\ session = [s \in Sessions |-> Rest]
  /\ minted = 0 /\ edits = 0 /\ trips = 0 /\ confirmed = {}

-----------------------------------------------------------------------------
(* Where the files of a record are, by its name and phase.                 *)
RetainedName(rec) == IF rec.source = Nothing THEN rec.id ELSE rec.source
AtStore(rec) == rec.source = Nothing /\ rec.phase \in {"assessed", "declined", "blocked", "reassessed"}

BodyAtStore == IF store.kind = "legacy" THEN store.body ELSE Nothing
CurrentBody(rec) == IF AtStore(rec) THEN BodyAtStore ELSE retained[RetainedName(rec)]
AdmittedBody(rec) ==
  IF /\ rec.phase = "replacing" /\ rec.source = Nothing
     /\ store.kind # "vacant" /\ retained[rec.id] = Nothing
    THEN BodyAtStore ELSE CurrentBody(rec)

Plan(s) == plans[session[s].rec.id]
Current(s) == admission = session[s].rec
(* verify_migration_source: the files are those the plan lists.            *)
Unchanged(s) == CurrentBody(session[s].rec) = Plan(s).body
Authorized(s) == hosted = Plan(s).gen

At(s, point) == session[s].at = point
MovesOn(s, point) == session' = [session EXCEPT ![s].at = point]
EndSession(s) == session' = [session EXCEPT ![s] = Rest]
Holds(s) == guard = s
LeaveLocked(s) == EndSession(s) /\ guard' = NoSession
Advance(s, phase, point) ==
  /\ admission' = [session[s].rec EXCEPT !.phase = phase]
  /\ session' = [session EXCEPT ![s].rec = admission', ![s].at = point]
Trip == trips < MaxTrips /\ trips' = trips + 1

-----------------------------------------------------------------------------
(* guided_existing_hosted_upgrade: a new plan where there is none or the   *)
(* last was declined, else the saved one.                                  *)
Open(s) ==
  /\ At(s, "idle") /\ admission.phase # "completed"
  /\ session' = [session EXCEPT
       ![s] = [Rest EXCEPT !.rec = admission,
               !.at = IF admission.phase \in {"none", "declined"} THEN "prepare" ELSE "ask"]]
  /\ UNCHANGED <<hosted, folders, saved, guard, edits, trips>>

(* _prepare: the hosted generation and the files as they are, without a    *)
(* lock.                                                                   *)
PreparePlan(s) ==
  /\ At(s, "prepare")
  /\ IF store.kind = "legacy"
       THEN session' = [session EXCEPT ![s].at = "save", ![s].gen = hosted, ![s].body = store.body]
       ELSE EndSession(s)
  /\ UNCHANGED <<hosted, folders, saved, guard, edits, trips>>

(* A plan gets a new id. It is written before the record that names it.    *)
MakePlan(body, gen) ==
  /\ minted < MaxIds /\ minted' = minted + 1
  /\ plans' = [plans EXCEPT ![minted'] = [body |-> body, gen |-> gen]]
Publish(phase, source, body, gen) ==
  /\ MakePlan(body, gen)
  /\ admission' = [id |-> minted', phase |-> phase, source |-> source]

(* save_migration_assessment: only over the record the plan was made to    *)
(* replace.                                                                *)
SaveRecord(s) ==
  /\ At(s, "save")
  /\ IF guard = NoSession /\ Current(s)
       THEN /\ Publish("assessed", Nothing, session[s].body, session[s].gen)
            /\ session' = [session EXCEPT ![s].at = "ask", ![s].rec = admission']
       ELSE EndSession(s) /\ UNCHANGED <<plans, admission, minted>>
  /\ UNCHANGED <<hosted, folders, confirmed, guard, edits, trips>>

(* The person is shown the plan and agrees,                                *)
Agree(s) ==
  /\ At(s, "ask")
  /\ MovesOn(s, "check")
  /\ confirmed' = confirmed \union {session[s].rec.id}
  /\ UNCHANGED <<hosted, folders, plans, admission, minted, guard, edits, trips>>

(* or does not: a plan of files still in place is declined.                *)
Refuse(s) ==
  /\ At(s, "ask") /\ Trip
  /\ IF session[s].rec.phase \in Fresh /\ session[s].rec.source = Nothing
       THEN MovesOn(s, "decline") ELSE EndSession(s)
  /\ UNCHANGED <<hosted, folders, saved, guard, edits>>

Decided(s, phase) == admission \in {session[s].rec, [session[s].rec EXCEPT !.phase = phase]}
Decline(s) ==
  /\ At(s, "decline")
  /\ admission' = IF guard = NoSession /\ Decided(s, "declined")
                 THEN [session[s].rec EXCEPT !.phase = "declined"] ELSE admission
  /\ EndSession(s)
  /\ UNCHANGED <<hosted, folders, plans, minted, confirmed, guard, edits, trips>>

-----------------------------------------------------------------------------
(* _execute, up to its decision: is everything as the plan says? A session *)
(* that went past "blocked" looks at the files before it asks the server.  *)
Check(s) ==
  LET rec == session[s].rec
  IN /\ At(s, "check")
     /\ MovesOn(s, IF /\ rec.phase \in {"replacing", "installing"}
                      /\ ~Current(s) \/ AdmittedBody(rec) # Plan(s).body
                  THEN "changed" ELSE "acquire")
     /\ UNCHANGED <<hosted, folders, saved, guard, edits, trips>>

AcquireProjection(s) ==
  LET rec == session[s].rec
  IN /\ At(s, "acquire")
     /\ IF ~Current(s) THEN EndSession(s)
        ELSE IF \/ ~Authorized(s)
                \/ /\ rec.phase \in Fresh \union {"blocked"}
                   /\ ~Unchanged(s)
          THEN MovesOn(s, "changed")
          ELSE MovesOn(s, IF rec.phase \in Fresh THEN "decide"
                       ELSE IF rec.phase = "blocked" THEN "preserve" ELSE "continue")
     /\ UNCHANGED <<hosted, folders, saved, guard, edits, trips>>

(* decide_migration_assessment(preserve=True): blocks the writers.         *)
Decide(s) ==
  /\ At(s, "decide")
  /\ IF /\ guard = NoSession /\ Decided(s, "blocked")
        /\ Current(s) => Unchanged(s)
       THEN Advance(s, "blocked", "preserve")
       ELSE EndSession(s) /\ UNCHANGED admission
  /\ UNCHANGED <<hosted, folders, plans, minted, confirmed, guard, edits, trips>>

Found(id) == backup[id]
BackupComplete(id) == Found(id) = "whole"

(* preserve_migration_source: the files are copied while the lock is held, *)
(* each copy compared with the plan, and the source looked at once more.   *)
Preserve(s) ==
  /\ At(s, "preserve")
  /\ IF guard = NoSession /\ Current(s) /\ Authorized(s) /\ Unchanged(s)
       THEN /\ guard' = s /\ MovesOn(s, "copy")
            /\ backup' = [backup EXCEPT ![admission.id] =
                           IF Found(admission.id) = "none" THEN "begun" ELSE @]
       ELSE EndSession(s) /\ UNCHANGED <<guard, backup>>
  /\ UNCHANGED <<hosted, store, retained, saved, edits, trips>>

Copy(s) ==
  /\ At(s, "copy")
  /\ IF BackupComplete(admission.id) \/ Unchanged(s)
       THEN /\ backup' = [backup EXCEPT ![admission.id] = "whole"]
            /\ MovesOn(s, "copied") /\ UNCHANGED guard
       ELSE LeaveLocked(s) /\ UNCHANGED backup
  /\ UNCHANGED <<hosted, store, retained, saved, edits, trips>>

Copied(s) ==
  /\ At(s, "copied")
  /\ guard' = NoSession
  /\ IF Unchanged(s) /\ Authorized(s) THEN MovesOn(s, "continue") ELSE EndSession(s)
  /\ UNCHANGED <<hosted, folders, saved, edits, trips>>

-----------------------------------------------------------------------------
(* continue_migration_installation, under one lock: nothing moves before   *)
(* the backup is complete.                                                 *)
Continue(s) ==
  LET phase == session[s].rec.phase
  IN /\ At(s, "continue")
     /\ IF guard = NoSession /\ Current(s) /\ Authorized(s) /\ BackupComplete(admission.id)
          THEN /\ guard' = s
               /\ MovesOn(s, CASE phase = "blocked" -> "admit"
                            [] phase = "replacing" -> "replace"
                            [] phase = "installing" -> "moved")
          ELSE EndSession(s) /\ UNCHANGED guard
     /\ UNCHANGED <<hosted, folders, saved, edits, trips>>

Admit(s) ==
  /\ At(s, "admit")
  /\ IF Unchanged(s)
       THEN Advance(s, "replacing", "replace") /\ UNCHANGED guard
       ELSE LeaveLocked(s) /\ UNCHANGED admission
  /\ UNCHANGED <<hosted, folders, plans, minted, confirmed, edits, trips>>

(* _replace_source: the files leave the store by one rename, unless they   *)
(* have left it before.                                                    *)
Replace(s) ==
  /\ At(s, "replace")
  /\ IF admission.source # Nothing
       THEN IF retained[admission.source] # Nothing /\ store.kind = "vacant"
              THEN MovesOn(s, "moved") /\ UNCHANGED guard ELSE LeaveLocked(s)
     ELSE IF store.kind # "vacant"
       THEN IF retained[admission.id] = Nothing /\ BodyAtStore = Plan(s).body
              THEN MovesOn(s, "rename") /\ UNCHANGED guard ELSE LeaveLocked(s)
     ELSE IF retained[admission.id] # Nothing THEN MovesOn(s, "moved") /\ UNCHANGED guard
                                        ELSE LeaveLocked(s)
  /\ UNCHANGED <<hosted, folders, saved, edits, trips>>

RenameByCopy(s) ==
  /\ At(s, "rename")
  /\ retained' = [retained EXCEPT ![admission.id] = store.body]
  /\ MovesOn(s, "moved")
  /\ UNCHANGED <<hosted, store, backup, saved, guard, edits, trips>>

Rename(s) ==
  /\ At(s, "rename")
  /\ retained' = [retained EXCEPT ![admission.id] = store.body]
  /\ store' = Vacant
  /\ MovesOn(s, "moved")
  /\ UNCHANGED <<hosted, backup, saved, guard, edits, trips>>

(* What was moved is compared with the plan, for the rename moved whatever *)
(* was there; the record says "installing", and the server is asked again. *)
Moved(s) ==
  /\ At(s, "moved")
  /\ IF retained[RetainedName(admission)] = Plan(s).body
       THEN Advance(s, "installing", "lay") /\ UNCHANGED guard
       ELSE LeaveLocked(s) /\ UNCHANGED admission
  /\ UNCHANGED <<hosted, folders, plans, minted, confirmed, edits, trips>>

(* _install: what an earlier attempt left is used where it is of this      *)
(* generation. Directories, a staged tree (a second one beside an          *)
(* abandoned), the root by one rename, and the controls with the marker.   *)
Retainable(gen) == store.kind = "vacant" \/ store.gen = gen
Lay(s) ==
  /\ At(s, "lay")
  /\ IF Authorized(s) /\ Retainable(Plan(s).gen)
       THEN /\ store' = IF store.kind = "vacant" THEN Replica(Plan(s).gen, "dirs") ELSE store
            /\ MovesOn(s, IF store.shape \in {"root", "whole"} THEN "control" ELSE "stage")
            /\ UNCHANGED guard
       ELSE LeaveLocked(s) /\ UNCHANGED store
  /\ UNCHANGED <<hosted, retained, backup, saved, edits, trips>>

Stage(s) ==
  /\ At(s, "stage")
  /\ store' = [store EXCEPT !.shape = IF @ = "dirs" THEN "staged" ELSE "strewn"]
  /\ MovesOn(s, "root")
  /\ UNCHANGED <<hosted, retained, backup, saved, guard, edits, trips>>

Root(s) ==
  /\ At(s, "root")
  /\ store' = [store EXCEPT !.shape = "root"]
  /\ MovesOn(s, "control")
  /\ UNCHANGED <<hosted, retained, backup, saved, guard, edits, trips>>

Control(s) ==
  /\ At(s, "control")
  /\ store' = [store EXCEPT !.shape = "whole"]
  /\ MovesOn(s, "finish")
  /\ UNCHANGED <<hosted, retained, backup, saved, guard, edits, trips>>

Finish(s) ==
  /\ At(s, "finish")
  /\ admission' = IF Authorized(s) THEN [admission EXCEPT !.phase = "completed"] ELSE admission
  /\ LeaveLocked(s)
  /\ UNCHANGED <<hosted, folders, plans, minted, confirmed, edits, trips>>

-----------------------------------------------------------------------------
(* _guide, when the plan no longer holds: a first plan is made anew, an    *)
(* admitted one reassessed, once in a session.                             *)
StaleShape == IF store.shape = "staged" THEN "staged" ELSE "root"
Changed(s) ==
  LET rec == session[s].rec
  IN /\ At(s, "changed")
     /\ IF ~Current(s) \/ session[s].again THEN EndSession(s)
        ELSE session' = [session EXCEPT
               ![s].again = TRUE,
               ![s].at = IF rec.phase = "assessed" THEN "prepare"
                         ELSE IF rec.phase = "installing" /\ store.kind # "vacant" THEN "aside"
                         ELSE "observe",
               ![s].shape = StaleShape]
     /\ UNCHANGED <<hosted, folders, saved, guard, edits, trips>>

(* set_aside_stale_replica: what was installed of an earlier generation    *)
(* leaves the store, if it is a verified root or one staged tree.          *)
Recognized(shape) == shape \in {"staged", "root", "whole"}
SetAside(s) ==
  /\ At(s, "aside")
  /\ IF /\ guard = NoSession /\ Current(s) /\ ~Authorized(s)
        /\ store.kind = "replica" /\ Recognized(store.shape)
        /\ StaleShape = session[s].shape
        /\ retained[RetainedName(admission)] # Nothing
       THEN store' = Vacant /\ MovesOn(s, "observe")
       ELSE EndSession(s) /\ UNCHANGED store
  /\ UNCHANGED <<hosted, retained, backup, saved, guard, edits, trips>>

(* reconcile_admitted_migration: the hosted generation first, then the rest*)
(* under the lock. Files that have moved, or that a conversion past        *)
(* "blocked" was to move, must not have changed.                           *)
Observe(s) ==
  /\ At(s, "observe")
  /\ session' = [session EXCEPT ![s].at = "reconcile", ![s].gen = hosted]
  /\ UNCHANGED <<hosted, folders, saved, guard, edits, trips>>

OnlyAtStore(rec) == store.kind = "legacy" /\ retained[rec.id] = Nothing
OnlyRetained(rec) == store.kind = "vacant" /\ retained[RetainedName(rec)] # Nothing
Relocated(rec) ==
  \/ rec.phase = "installing" \/ rec.source # Nothing
  \/ rec.phase = "replacing" /\ store.kind = "vacant"

ReassessedAs(rec) == "reassessed"
MayHaveChanged(rec) == ~Relocated(rec) /\ rec.phase \in {"blocked", "reassessed"}
Reconcile(s) ==
  LET body == IF Relocated(admission) THEN retained[RetainedName(admission)] ELSE BodyAtStore
      source == IF admission.source # Nothing THEN admission.source
                ELSE IF Relocated(admission) THEN admission.id ELSE Nothing
  IN /\ At(s, "reconcile")
     /\ IF /\ guard = NoSession /\ Current(s)
           /\ IF Relocated(admission) THEN OnlyRetained(admission) ELSE OnlyAtStore(admission)
           /\ admission.phase \notin {"blocked", "reassessed"} => BackupComplete(admission.id)
           /\ body # Plan(s).body => MayHaveChanged(admission)
           /\ body # Plan(s).body \/ session[s].gen # Plan(s).gen
           /\ session[s].gen = hosted
          THEN /\ Publish(ReassessedAs(admission), source, body, hosted)
               /\ session' = [session EXCEPT ![s].at = "ask", ![s].rec = admission']
          ELSE EndSession(s) /\ UNCHANGED <<plans, admission, minted>>
     /\ UNCHANGED <<hosted, folders, confirmed, guard, edits, trips>>

-----------------------------------------------------------------------------
(* Around it: an edit of the legacy files wherever they are, by a writer   *)
(* that is admitted or by hand; the next generation; a process that dies   *)
(* and lets go of the lock, or that the network fails.                     *)
Edit ==
  /\ edits < MaxEdits /\ edits' = edits + 1
  /\ IF store.kind = "legacy"
       THEN store' = [store EXCEPT !.body = edits' + 1] /\ UNCHANGED retained
       ELSE /\ \E i \in PlanIds : /\ retained[i] # Nothing
                                  /\ retained' = [retained EXCEPT ![i] = edits' + 1]
            /\ UNCHANGED store
  /\ UNCHANGED <<hosted, backup, saved, guard, session, trips>>

MoveOn ==
  /\ hosted < MaxGen /\ hosted' = hosted + 1
  /\ UNCHANGED <<folders, saved, guard, session, edits, trips>>

EndProcess(s) ==
  /\ ~At(s, "idle") /\ Trip
  /\ EndSession(s)
  /\ guard' = IF Holds(s) THEN NoSession ELSE guard
  /\ UNCHANGED <<hosted, folders, saved, edits>>

CarryOn(s) ==
  \/ Open(s) \/ PreparePlan(s) \/ SaveRecord(s) \/ Agree(s) \/ Decline(s) \/ Check(s)
  \/ AcquireProjection(s)
  \/ Decide(s) \/ Preserve(s) \/ Copy(s) \/ Copied(s) \/ Continue(s) \/ Admit(s) \/ Replace(s)
  \/ Rename(s) \/ Moved(s) \/ Lay(s) \/ Stage(s) \/ Root(s) \/ Control(s) \/ Finish(s)
  \/ Changed(s) \/ SetAside(s) \/ Observe(s) \/ Reconcile(s)

VNext == (\E s \in Sessions : CarryOn(s) \/ Refuse(s) \/ EndProcess(s)) \/ Edit \/ MoveOn
VSpec == VInit /\ [][VNext]_conversion

(* A person opens the conversion again until it is done, and agrees to what*)
(* is asked but a bounded number of times; an open session goes on by      *)
(* itself.                                                                 *)
VFairness == \A s \in Sessions : WF_conversion(CarryOn(s))

-----------------------------------------------------------------------------
Phases == {"none", "assessed", "blocked", "declined", "reassessed", "replacing", "installing",
           "completed"}
VTypeOK ==
  /\ hosted \in 1 .. MaxGen
  /\ store.kind \in {"vacant", "legacy", "replica"}
  /\ store.shape \in {"none", "dirs", "staged", "strewn", "root", "whole"}
  /\ admission \in [id : 0 .. MaxIds, phase : Phases, source : 0 .. MaxIds]
  /\ \A i \in PlanIds : backup[i] # "none" => plans[i].body # Nothing
  /\ guard \in Sessions \union {NoSession}
  /\ \A s \in Sessions :
       Holds(s) <=> session[s].at \in {"copy", "copied", "admit", "replace", "rename", "moved",
                                       "lay", "stage", "root", "control", "finish"}

(* The person's files are in one place at every moment, whatever was cut   *)
(* short, with every edit made to them (_replace_source, _locate).         *)
Places == {i \in PlanIds : retained[i] # Nothing}
FilesInOnePlace ==
  IF store.kind = "legacy" THEN Places = {} /\ store.body = edits + 1
                           ELSE \E i \in PlanIds : Places = {i} /\ retained[i] = edits + 1

(* Files that left the store are in a complete backup too, as they were    *)
(* when the plan under which they left was confirmed.                      *)
MovedIsBackedUp == \A i \in Places : BackupComplete(i) /\ i \in confirmed

(* Nothing is admitted, moved or installed under a plan nobody agreed to,  *)
(* however sessions overlap (decide_migration_assessment).                 *)
ConsentFirst ==
  admission.phase \in {"blocked", "replacing", "installing", "completed"} => admission.id \in confirmed

(* require_migration_admission: a writer that is admitted finds the legacy *)
(* files or a whole replica, never a store in between.                     *)
WritersFindAStore ==
  admission.phase \notin Blocking => store.kind = "legacy" \/ store.shape = "whole"

(* A completed conversion has installed the generation that was agreed to, *)
(* and has a backup of its own plan.                                       *)
CompletedAsAgreed ==
  admission.phase = "completed" =>
    store = Replica(plans[admission.id].gen, "whole") /\ BackupComplete(admission.id)

ConversionSound ==
  FilesInOnePlace /\ MovedIsBackedUp /\ ConsentFirst /\ WritersFindAStore /\ CompletedAsAgreed

(* The cases the code leaves to an owner: files edited after they moved or *)
(* were admitted to move, and an interrupted installation of an earlier    *)
(* generation in a state nobody can verify.                                *)
LeftToOwner ==
  \/ /\ admission.phase \in {"replacing", "installing"} \/ admission.source # Nothing
     /\ AdmittedBody(admission) # plans[admission.id].body
  \/ store.kind = "replica" /\ store.gen # hosted /\ ~Recognized(store.shape)

(* A person who goes on agreeing ends with a replica.                      *)
ConversionEnds == <>(admission.phase = "completed" \/ LeftToOwner)
=============================================================================
