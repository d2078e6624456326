------------------------------ MODULE MC_Store ------------------------------
(***************************************************************************)
(* What fills a store from the cloud, and what leads an agent to it: repeated *)
(* file syncs, the acquisition of a generation, the restore of a lost store,  *)
(* and the files set-up writes. They share no state here and are checked in    *)
(* one run: a behaviour chooses one and the others keep their first state.    *)
(***************************************************************************)
EXTENDS FileSync, Restore, Acquisition

CONSTANTS MaxRuns, MaxMishaps                                    \* Surfaces

VARIABLES
  chosen,
  member, wiring, shared, ignore, tracked, agents, claude, payload, codex, skill, release,
  run, typed, marks, count

surfaces == <<member, wiring, shared, ignore, tracked, agents, claude, payload, codex, skill,
              release, run, typed, marks, count>>

(* Three artifacts in three generations: the second replaces one, the third   *)
(* another.                                                        *)
Digests == << [p |-> 1, q |-> 1, r |-> 1], [p |-> 1, q |-> 2, r |-> 1],
              [p |-> 1, q |-> 3, r |-> 2] >>

(* Two repositories; the store may render a heading of AGENTS.md's own.        *)
S == INSTANCE Surfaces WITH
  Procs <- {"a", "b"}, RepoOrder <- <<"here", "there">>, EditedRepos <- {"here"},
  Projects <- {"one", "two"}, Payloads <- {<<"p">>, <<"p", "## Skills", "q">>}, version <- release

GInit ==
  /\ chosen \in {"sync", "acquisition", "restore", "surfaces"}
  /\ Init /\ QInit /\ RInit /\ S!SInit
  /\ chosen # "restore" => dest = Absent
  /\ chosen # "restore" => remote = [f \in {"project", "notes"} |-> 0]
  /\ chosen # "acquisition" => committed = 2
  /\ chosen # "surfaces" =>
       payload = <<"p">> /\ \A r \in {"here", "there"} : shared[r] = {} /\ agents[r] = <<>>

Syncing == chosen = "sync" /\ Next /\ UNCHANGED <<chosen, qvars, rvars, surfaces>>
Fetching == chosen = "acquisition" /\ QNext /\ UNCHANGED <<chosen, vars, rvars, surfaces>>
Restoring == chosen = "restore" /\ RNext /\ UNCHANGED <<chosen, vars, qvars, surfaces>>
SettingUp == chosen = "surfaces" /\ S!SNext /\ UNCHANGED <<chosen, vars, qvars, rvars>>

GNext == Syncing \/ Fetching \/ Restoring \/ SettingUp

(* The fairness of FileSync.tla, Acquisition.tla and Restore.tla, of the      *)
(* component at work.                                                       *)
GSpec ==
  /\ GInit
  /\ [][GNext]_<<chosen, vars, qvars, rvars, surfaces>>
  /\ \A r \in Replica :
       /\ WF_vars(chosen = "sync" /\ PullStep(r)) /\ WF_vars(chosen = "sync" /\ PushStep(r))
       /\ SF_vars(chosen = "sync" /\ PullBegin(r)) /\ SF_vars(chosen = "sync" /\ PushBegin(r))
  /\ WF_qvars(chosen = "acquisition" /\ Acquiring)
  /\ \A r \in Restorers :
       /\ WF_rvars(chosen = "restore" /\ Start(r))
       /\ WF_rvars(chosen = "restore" /\ Advance(r))

-----------------------------------------------------------------------------
(* Every component's variables have their types.                             *)
GTypeOK ==
  CASE chosen = "sync" -> TypeOK
    [] chosen = "acquisition" -> QTypeOK
    [] chosen = "restore" -> RTypeOK
    [] OTHER -> S!STypeOK

(* Surfaces.tla: what people wrote stays, wiring is ignored by git, no run      *)
(* takes the hook away, a removal leaves nothing and spares other projects.    *)
SurfacesSound == S!SurfacesSound

(* FileSync.tla: syncing comes to rest. Acquisition.tla: every acquisition     *)
(* ends. Restore.tla: a person who tries again ends with a store.            *)
StoreSettles ==
  /\ chosen = "sync" => SyncsSettle
  /\ chosen = "acquisition" => AcquisitionEnds
  /\ chosen = "restore" => RestoreSettles
=============================================================================
