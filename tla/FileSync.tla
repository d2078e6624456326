------------------------------ MODULE FileSync ------------------------------
(***************************************************************************)
(* Whole-file cloud sync of a store: `nauro sync`, the SessionStart pull   *)
(* and the post-write push (sync/pull.py, sync/push.py, sync/merge.py,     *)
(* sync/state.py) run by several machines against one object store.        *)
(*                                                                         *)
(* Decision-number collisions are left to DecisionPull: here every         *)
(* decision path owns its number, so the decision gate reduces to its      *)
(* same-path leg.                                                          *)
(***************************************************************************)
EXTENDS Naturals, Sequences, FiniteSets

CONSTANTS
  Replica,          \* the machines that hold a copy of the store
  Path,             \* the synced paths
  DecisionPath,     \* those under decisions/, which the pull classifies first
  UnionPath,        \* those of _SET_UNION_PATHS, merged line by line
  ComparableEtag,   \* TRUE when an ETag is the content's MD5 (single-part put)
  MaxEdits,         \* bound: how many local edits a behaviour makes
  MaxLate,          \* bound: how many abandoned PUTs are out at once
  Faults,           \* which environment events this instance allows
  NoFile,           \* no object, no file
  Untracked         \* no entry in .sync-state.json

FaultKinds == {"crash", "oserror", "fetch", "put", "late", "delete", "stateloss", "race", "interrupt"}

ASSUME PathAssumption ==
  /\ DecisionPath \subseteq Path
  /\ UnionPath \subseteq Path
  /\ DecisionPath \cap UnionPath = {}
  /\ ComparableEtag \in BOOLEAN
  /\ MaxEdits \in Nat
  /\ MaxLate \in Nat
  /\ Faults \subseteq FaultKinds

(* A file is what it says: the edits its bytes incorporate. An edit is     *)
(* fresh, so two contents are equal exactly when their edits are; the      *)
(* order of lines in a set-union file is not modelled.                     *)
Edit == 1..MaxEdits
Content == SUBSET Edit
Record == [sha : Content, etag : Content]

ASSUME SentinelAssumption ==
  /\ \A c \in Content : c # NoFile
  /\ \A entry \in Record : entry # Untracked

VARIABLES
  server,    \* server[p]: the object stored under p, its ETag being its content
  since,     \* since[p]: history, <<c, d>> when p held d at or after it held c
  late,      \* PUTs whose client gave up on them and that may still land
  edits,     \* how many edits were made
  disk,      \* disk[r][p]: the file on machine r
  state,     \* state[r][p]: the entry of r's saved .sync-state.json
  stamp,     \* stamp[r]: the manifest behind r's last_full_sync
  backup,    \* backup[r]: the files of r's .conflict-backup/
  seen,      \* history: every content that ever was r's file or r's backup
  pc,        \* where the job holding r's sync lock is
  route,     \* pull: what triage chose for each path, push: the candidates
  manifest,  \* pull: the file list the run fetched
  mem,       \* the SyncState object in memory
  spool,     \* pull: the decision bodies fetched before the decision lock
  cur,       \* the path being transferred
  body,      \* its bytes
  refused,   \* pull: whether some subject was left for the next sync
  raced      \* history: the files the user touched while this job ran

jobVars == <<pc, route, manifest, mem, spool, cur, body, refused>>
remoteVars == <<server, since, late>>
localVars == <<disk, backup, seen>>
savedVars == <<state, stamp>>
vars == <<remoteVars, localVars, savedVars, jobVars, raced, edits>>

MaybeContent == Content \cup {NoFile}
Routes == {"ignore", "install", "adopt", "conflict", "gate", "send", "done"}
Pcs == {"idle", "spool", "locked", "stream", "fetched", "write", "written",
        "push", "put", "reconcile", "checkpoint"}

TypeOK ==
  /\ server \in [Path -> MaybeContent]
  /\ since \in [Path -> SUBSET (Content \X Content)]
  /\ late \in SUBSET (Path \X Content)
  /\ edits \in 0..MaxEdits
  /\ disk \in [Replica -> [Path -> MaybeContent]]
  /\ \A r \in Replica, p \in Path : mem[r][p] # Untracked => mem[r][p].sha # NoFile
  /\ state \in [Replica -> [Path -> Record \cup {Untracked}]]
  /\ stamp \in [Replica -> [Path -> MaybeContent]]
  /\ backup \in [Replica -> SUBSET (Path \X Content)]
  /\ seen \in [Replica -> SUBSET (Path \X Content)]
  /\ pc \in [Replica -> Pcs]
  /\ route \in [Replica -> [Path -> Routes]]
  /\ manifest \in [Replica -> [Path -> MaybeContent]]
  /\ mem \in [Replica -> [Path -> Record \cup {Untracked}]]
  /\ spool \in [Replica -> [Path -> MaybeContent]]
  /\ cur \in [Replica -> Path \cup {NoFile}]
  /\ body \in [Replica -> MaybeContent]
  /\ refused \in [Replica -> BOOLEAN]
  /\ raced \in [Replica -> SUBSET Path]

NoFiles == [p \in Path |-> NoFile]
NoRoutes == [p \in Path |-> "ignore"]
NothingTracked == [p \in Path |-> Untracked]

Init ==
  /\ server = NoFiles
  /\ since = [p \in Path |-> {}]
  /\ late = {}
  /\ edits = 0
  /\ disk = [r \in Replica |-> NoFiles]
  /\ state = [r \in Replica |-> NothingTracked]
  /\ stamp = [r \in Replica |-> NoFiles]
  /\ backup = [r \in Replica |-> {}]
  /\ seen = [r \in Replica |-> {}]
  /\ pc = [r \in Replica |-> "idle"]
  /\ route = [r \in Replica |-> NoRoutes]
  /\ manifest = [r \in Replica |-> NoFiles]
  /\ mem = [r \in Replica |-> NothingTracked]
  /\ spool = [r \in Replica |-> NoFiles]
  /\ cur = [r \in Replica |-> NoFile]
  /\ body = [r \in Replica |-> NoFile]
  /\ refused = [r \in Replica |-> FALSE]
  /\ raced = [r \in Replica |-> {}]

-----------------------------------------------------------------------------
(* Helpers.                                                                *)

(* The contents the server ever held under p. *)
Published(p) == {c \in Content : <<c, c>> \in since[p]}

(* The object store accepts any PUT: there is no compare-and-swap.         *)
Store(p, c) ==
  /\ server' = [server EXCEPT ![p] = c]
  /\ since' = [since EXCEPT ![p] = @ \cup ((Published(p) \cup {c}) \X {c})]

(* compare_local_file answers "matches": an opaque ETag compares nothing.  *)
MatchesEtag(c, etag) == ComparableEtag /\ c = etag

ChangedRemotely(etag, entry) == entry # Untracked => entry.etag # etag
ChangedLocally(c, entry) == entry # Untracked => entry.sha # c

(* A decision the state does not track, or that is not on disk, may only   *)
(* be written through the classifier.                                      *)
NeedsDecisionGate(r, p, st) ==
  p \in DecisionPath /\ (st[p] = Untracked \/ disk[r][p] = NoFile)

(* What one manifest row needs, decided from the saved state and the file  *)
(* as they are when the run triages.                                       *)
RouteEntry(r, p) ==
  LET local == disk[r][p]
      remote == server[p]
  IN  IF \/ remote = NoFile
         \/ local # NoFile /\ ~ChangedRemotely(remote, state[r][p])
      THEN "ignore"
      ELSE IF NeedsDecisionGate(r, p, state[r]) THEN "gate"
      ELSE IF local = NoFile THEN "install"
      ELSE IF MatchesEtag(local, remote) THEN "adopt"
      ELSE IF ChangedLocally(local, state[r][p]) THEN "conflict"
      ELSE "install"

(* plan_push: the files whose hash is not the recorded one.                *)
IsCandidate(r, p) == disk[r][p] # NoFile /\ ChangedLocally(disk[r][p], state[r][p])

WriteFile(r, p, c) ==
  /\ disk' = [disk EXCEPT ![r][p] = c]
  /\ seen' = [seen EXCEPT ![r] = @ \cup {<<p, c>>}]

SaveBackup(r, p, c) ==
  /\ backup' = [backup EXCEPT ![r] = @ \cup {<<p, c>>}]
  /\ seen' = [seen EXCEPT ![r] = @ \cup {<<p, c>>}]

(* A guarded step that failed, or a row with nothing left to do.           *)
Settle(r, p, next) ==
  /\ pc' = [pc EXCEPT ![r] = next]
  /\ route' = [route EXCEPT ![r][p] = "done"]
  /\ cur' = [cur EXCEPT ![r] = NoFile]
  /\ body' = [body EXCEPT ![r] = NoFile]

Refuse(r) == refused' = [refused EXCEPT ![r] = TRUE]

(* The job ends: the lock is released and its memory is gone.              *)
EndJob(r) ==
  /\ pc' = [pc EXCEPT ![r] = "idle"]
  /\ route' = [route EXCEPT ![r] = NoRoutes]
  /\ manifest' = [manifest EXCEPT ![r] = NoFiles]
  /\ mem' = [mem EXCEPT ![r] = NothingTracked]
  /\ spool' = [spool EXCEPT ![r] = NoFiles]
  /\ cur' = [cur EXCEPT ![r] = NoFile]
  /\ body' = [body EXCEPT ![r] = NoFile]
  /\ refused' = [refused EXCEPT ![r] = FALSE]
  /\ raced' = [raced EXCEPT ![r] = {}]

-----------------------------------------------------------------------------
(* The user and the agents of machine r write the store.                   *)

(* Nauro's writers hold the migration lock, as every pull and push does,   *)
(* so they wait for the job to end; an editor takes no lock at all and     *)
(* races with the job, as a deletion always may.                           *)
MayWriteLocally(r) == pc[r] # "idle" => "race" \in Faults

(* An editor may come between any two steps of the job.                   *)
Touch(r, p) ==
  raced' = [raced EXCEPT ![r] = IF pc[r] = "idle" THEN @ ELSE @ \cup {p}]

LocalEdit(r, p) ==
  /\ MayWriteLocally(r)
  /\ edits < MaxEdits
  /\ edits' = edits + 1
  /\ WriteFile(r, p, (IF disk[r][p] = NoFile THEN {} ELSE disk[r][p]) \cup {edits + 1})
  /\ Touch(r, p)
  /\ UNCHANGED <<remoteVars, savedVars, jobVars, backup>>

LocalDelete(r, p) ==
  /\ "delete" \in Faults
  /\ disk[r][p] # NoFile
  /\ disk' = [disk EXCEPT ![r][p] = NoFile]
  /\ Touch(r, p)
  /\ UNCHANGED <<remoteVars, savedVars, jobVars, backup, seen, edits>>

(* The state file was removed or is not JSON: load_state starts fresh.     *)
LoseState(r) ==
  /\ "stateloss" \in Faults
  /\ pc[r] = "idle"
  /\ state[r] # NothingTracked
  /\ state' = [state EXCEPT ![r] = NothingTracked]
  /\ stamp' = [stamp EXCEPT ![r] = NoFiles]
  /\ UNCHANGED <<remoteVars, localVars, jobVars, raced, edits>>

-----------------------------------------------------------------------------
(* Pull.                                                                   *)

(* Take the sync lock, fetch the manifest, load the state, triage and      *)
(* presign. A failed manifest or presign writes nothing and ends the run.  *)
PullBegin(r) ==
  /\ pc[r] = "idle"
  /\ pc' = [pc EXCEPT ![r] = "spool"]
  /\ manifest' = [manifest EXCEPT ![r] = server]
  /\ mem' = [mem EXCEPT ![r] = state[r]]
  /\ route' = [route EXCEPT ![r] = [p \in Path |-> RouteEntry(r, p)]]
  /\ UNCHANGED <<remoteVars, localVars, savedVars, spool, cur, body, refused, raced, edits>>

(* Fetch one gated decision to disk, before the decision lock.             *)
PullSpool(r, p) ==
  /\ pc[r] = "spool"
  /\ route[r][p] = "gate"
  /\ spool[r][p] = NoFile
  /\ spool' = [spool EXCEPT ![r][p] = server[p]]
  /\ UNCHANGED <<remoteVars, localVars, savedVars, pc, route, manifest, mem, cur, body, refused, raced, edits>>

PullSpoolFails(r, p) ==
  /\ "fetch" \in Faults
  /\ pc[r] = "spool"
  /\ route[r][p] = "gate"
  /\ spool[r][p] = NoFile
  /\ Settle(r, p, "spool")
  /\ Refuse(r)
  /\ UNCHANGED <<remoteVars, localVars, savedVars, manifest, mem, spool, raced, edits>>

PullLock(r) ==
  /\ pc[r] = "spool"
  /\ \A p \in Path : route[r][p] = "gate" => spool[r][p] # NoFile
  /\ pc' = [pc EXCEPT ![r] = "locked"]
  /\ UNCHANGED <<remoteVars, localVars, savedVars, route, manifest, mem, spool, cur, body, refused, raced, edits>>

(* Mutant: the server's body is not backed up before it is refused.        *)
PullApplyDecisionNoBackup(r, p) ==
  /\ pc[r] = "locked"
  /\ route[r][p] = "gate"
  /\ IF disk[r][p] = NoFile
     THEN WriteFile(r, p, spool[r][p]) /\ UNCHANGED backup
     ELSE UNCHANGED localVars
  /\ mem' = [mem EXCEPT ![r][p] = [sha |-> disk'[r][p], etag |-> manifest[r][p]]]
  /\ Settle(r, p, "locked")
  /\ UNCHANGED <<remoteVars, savedVars, manifest, spool, refused, raced, edits>>

(* _apply_decision for a number no other file claims: the same-path leg    *)
(* adopts equal bytes and otherwise keeps the local copy.                  *)
PullApplyDecision(r, p) ==
  /\ pc[r] = "locked"
  /\ route[r][p] = "gate"
  /\ \/ /\ disk[r][p] = NoFile
        /\ WriteFile(r, p, spool[r][p])
        /\ UNCHANGED backup
     \/ /\ disk[r][p] = spool[r][p]
        /\ UNCHANGED localVars
     \/ /\ disk[r][p] \notin {NoFile, spool[r][p]}
        /\ SaveBackup(r, p, spool[r][p])
        /\ UNCHANGED disk
  /\ mem' = [mem EXCEPT ![r][p] = [sha |-> disk'[r][p], etag |-> manifest[r][p]]]
  /\ Settle(r, p, "locked")
  /\ UNCHANGED <<remoteVars, savedVars, manifest, spool, refused, raced, edits>>

PullApplyFails(r, p) ==
  /\ "oserror" \in Faults
  /\ pc[r] = "locked"
  /\ route[r][p] = "gate"
  /\ Settle(r, p, "locked")
  /\ Refuse(r)
  /\ UNCHANGED <<remoteVars, localVars, savedVars, manifest, mem, spool, raced, edits>>

(* Release the decision lock and record the adopted rows with the digest   *)
(* triage computed, which is the manifest's content.                       *)
PullUnlock(r) ==
  /\ pc[r] = "locked"
  /\ \A p \in Path : route[r][p] # "gate"
  /\ pc' = [pc EXCEPT ![r] = "stream"]
  /\ mem' = [mem EXCEPT ![r] = [p \in Path |->
               IF route[r][p] = "adopt"
               THEN [sha |-> manifest[r][p], etag |-> manifest[r][p]]
               ELSE mem[r][p]]]
  /\ route' = [route EXCEPT ![r] = [p \in Path |->
                 IF route[r][p] = "adopt" THEN "done" ELSE route[r][p]]]
  /\ UNCHANGED <<remoteVars, localVars, savedVars, manifest, spool, cur, body, refused, raced, edits>>

(* Pulls are streamed one at a time, then conflicts.                       *)
Streams(r, p) ==
  /\ pc[r] = "stream"
  /\ \/ route[r][p] = "install"
     \/ route[r][p] = "conflict" /\ \A q \in Path : route[r][q] # "install"

(* The body is whatever the object holds by now; the ETag recorded for it  *)
(* later is the manifest's.                                                *)
PullFetch(r, p) ==
  /\ Streams(r, p)
  /\ pc' = [pc EXCEPT ![r] = "fetched"]
  /\ cur' = [cur EXCEPT ![r] = p]
  /\ body' = [body EXCEPT ![r] = server[p]]
  /\ UNCHANGED <<remoteVars, localVars, savedVars, route, manifest, mem, spool, refused, raced, edits>>

PullFetchFails(r, p) ==
  /\ "fetch" \in Faults
  /\ Streams(r, p)
  /\ Settle(r, p, "stream")
  /\ Refuse(r)
  /\ UNCHANGED <<remoteVars, localVars, savedVars, manifest, mem, spool, raced, edits>>

(* The write barrier: a tracked decision deleted since triage is counted   *)
(* permanently skipped, not refused.                                       *)
PullBarrierRefuses(r) ==
  /\ pc[r] = "fetched"
  /\ NeedsDecisionGate(r, cur[r], mem[r])
  /\ Settle(r, cur[r], "stream")
  /\ UNCHANGED <<remoteVars, localVars, savedVars, manifest, mem, spool, refused, raced, edits>>

PullAdmitInstall(r) ==
  /\ pc[r] = "fetched"
  /\ ~NeedsDecisionGate(r, cur[r], mem[r])
  /\ route[r][cur[r]] = "install"
  /\ pc' = [pc EXCEPT ![r] = "write"]
  /\ UNCHANGED <<remoteVars, localVars, savedVars, route, manifest, mem, spool, cur, body, refused, raced, edits>>

(* Mutant: the server wins without a backup of the file it replaces.       *)
PullResolveNoBackup(r) ==
  /\ pc[r] = "fetched"
  /\ route[r][cur[r]] = "conflict"
  /\ disk[r][cur[r]] # NoFile
  /\ pc' = [pc EXCEPT ![r] = "write"]
  /\ UNCHANGED <<remoteVars, localVars, savedVars, route, manifest, mem, spool, cur, body, refused, raced, edits>>

(* resolve_conflict: a set-union file takes both sides' lines; any other   *)
(* keeps the local copy when tracked and the server's when not, and backs  *)
(* the other one up.                                                       *)
PullResolve(r) ==
  LET p == cur[r] IN
  /\ pc[r] = "fetched"
  /\ ~NeedsDecisionGate(r, p, mem[r])
  /\ route[r][p] = "conflict"
  /\ disk[r][p] # NoFile
  /\ \/ /\ p \in UnionPath
        /\ body' = [body EXCEPT ![r] = disk[r][p] \cup body[r]]
        /\ UNCHANGED localVars
     \/ /\ p \notin UnionPath
        /\ mem[r][p] # Untracked
        /\ SaveBackup(r, p, body[r])
        /\ body' = [body EXCEPT ![r] = disk[r][p]]
        /\ UNCHANGED disk
     \/ /\ p \notin UnionPath
        /\ mem[r][p] = Untracked
        /\ SaveBackup(r, p, disk[r][p])
        /\ UNCHANGED <<disk, body>>
  /\ pc' = [pc EXCEPT ![r] = "write"]
  /\ UNCHANGED <<remoteVars, savedVars, route, manifest, mem, spool, cur, refused, raced, edits>>

(* The local file vanished under the resolution: read_bytes raises.        *)
PullResolveFails(r) ==
  /\ pc[r] = "fetched"
  /\ ~NeedsDecisionGate(r, cur[r], mem[r])
  /\ route[r][cur[r]] = "conflict"
  /\ disk[r][cur[r]] = NoFile
  /\ Settle(r, cur[r], "stream")
  /\ Refuse(r)
  /\ UNCHANGED <<remoteVars, localVars, savedVars, manifest, mem, spool, raced, edits>>

PullWrite(r) ==
  /\ pc[r] = "write"
  /\ WriteFile(r, cur[r], body[r])
  /\ pc' = [pc EXCEPT ![r] = "written"]
  /\ UNCHANGED <<remoteVars, savedVars, backup, route, manifest, mem, spool, cur, body, refused, raced, edits>>

PullWriteFails(r) ==
  /\ "oserror" \in Faults
  /\ pc[r] = "write"
  /\ Settle(r, cur[r], "stream")
  /\ Refuse(r)
  /\ UNCHANGED <<remoteVars, localVars, savedVars, manifest, mem, spool, raced, edits>>

(* Mutant: the file is taken to be there still.                            *)
PullRecordUnchecked(r) ==
  LET p == cur[r] IN
  /\ pc[r] = "written"
  /\ mem' = [mem EXCEPT ![r][p] = [sha |-> disk[r][p], etag |-> manifest[r][p]]]
  /\ Settle(r, p, "stream")
  /\ UNCHANGED <<remoteVars, localVars, savedVars, manifest, spool, refused, raced, edits>>

(* Mutant: the ETag is computed from the bytes that were written.          *)
PullRecordOwnEtag(r) ==
  LET p == cur[r] IN
  /\ pc[r] = "written"
  /\ disk[r][p] # NoFile
  /\ mem' = [mem EXCEPT ![r][p] = [sha |-> disk[r][p], etag |-> body[r]]]
  /\ Settle(r, p, "stream")
  /\ UNCHANGED <<remoteVars, localVars, savedVars, manifest, spool, refused, raced, edits>>

(* update_file_state hashes the file again: what it records is the file as *)
(* it is now, under the manifest's ETag.                                   *)
PullRecord(r) ==
  LET p == cur[r] IN
  /\ pc[r] = "written"
  /\ disk[r][p] # NoFile
  /\ mem' = [mem EXCEPT ![r][p] = [sha |-> disk[r][p], etag |-> manifest[r][p]]]
  /\ Settle(r, p, "stream")
  /\ UNCHANGED <<remoteVars, localVars, savedVars, manifest, spool, refused, raced, edits>>

PullRecordFails(r) ==
  /\ pc[r] = "written"
  /\ disk[r][cur[r]] = NoFile
  /\ Settle(r, cur[r], "stream")
  /\ Refuse(r)
  /\ UNCHANGED <<remoteVars, localVars, savedVars, manifest, mem, spool, raced, edits>>

(* Stamp a run that refused nothing, save the state, release the lock.     *)
PullFinish(r) ==
  /\ pc[r] = "stream"
  /\ \A p \in Path : route[r][p] \notin {"install", "conflict"}
  /\ state' = [state EXCEPT ![r] = mem[r]]
  /\ stamp' = IF refused[r] THEN stamp ELSE [stamp EXCEPT ![r] = manifest[r]]
  /\ EndJob(r)
  /\ UNCHANGED <<remoteVars, localVars, edits>>

(* Ctrl-C, or an exception no step guards, once the run may have changed   *)
(* the store: the finally clause saves what the run recorded, unstamped.   *)
PullInterrupted(r) ==
  /\ "interrupt" \in Faults
  /\ pc[r] \in {"locked", "stream", "fetched", "write", "written"}
  /\ state' = [state EXCEPT ![r] = mem[r]]
  /\ EndJob(r)
  /\ UNCHANGED <<remoteVars, localVars, stamp, edits>>

-----------------------------------------------------------------------------
(* Push.                                                                   *)

PushBegin(r) ==
  /\ pc[r] = "idle"
  /\ \E p \in Path : IsCandidate(r, p)
  /\ pc' = [pc EXCEPT ![r] = "push"]
  /\ mem' = [mem EXCEPT ![r] = state[r]]
  /\ route' = [route EXCEPT ![r] = [p \in Path |->
                 IF IsCandidate(r, p) THEN "send" ELSE "ignore"]]
  /\ UNCHANGED <<remoteVars, localVars, savedVars, manifest, spool, cur, body, refused, raced, edits>>

(* The payload is read when its turn comes, not when it was planned.       *)
PushRead(r, p) ==
  /\ pc[r] = "push"
  /\ route[r][p] = "send"
  /\ disk[r][p] # NoFile
  /\ pc' = [pc EXCEPT ![r] = "put"]
  /\ cur' = [cur EXCEPT ![r] = p]
  /\ body' = [body EXCEPT ![r] = disk[r][p]]
  /\ UNCHANGED <<remoteVars, localVars, savedVars, route, manifest, mem, spool, refused, raced, edits>>

PushReadFails(r, p) ==
  /\ pc[r] = "push"
  /\ route[r][p] = "send"
  /\ disk[r][p] = NoFile
  /\ Settle(r, p, "push")
  /\ UNCHANGED <<remoteVars, localVars, savedVars, manifest, mem, spool, refused, raced, edits>>

(* 200 with a usable ETag.                                                 *)
PushPutVerified(r) ==
  /\ pc[r] = "put"
  /\ Store(cur[r], body[r])
  /\ pc' = [pc EXCEPT ![r] = "checkpoint"]
  /\ UNCHANGED <<late, localVars, savedVars, route, manifest, mem, spool, cur, body, refused, raced, edits>>

(* Refused before anything was written, retries exhausted.                 *)
PushPutFails(r) ==
  /\ "put" \in Faults
  /\ pc[r] = "put"
  /\ Settle(r, cur[r], "push")
  /\ UNCHANGED <<remoteVars, localVars, savedVars, manifest, mem, spool, refused, raced, edits>>

(* The answer was lost, or carried no ETag: the write happened, will       *)
(* happen, or never does.                                                  *)
PushPutAmbiguous(r) ==
  /\ pc[r] = "put"
  /\ \/ "put" \in Faults /\ Store(cur[r], body[r]) /\ UNCHANGED late
     \/ /\ "late" \in Faults
        /\ Cardinality(late) < MaxLate
        /\ late' = late \cup {<<cur[r], body[r]>>}
        /\ UNCHANGED <<server, since>>
  /\ pc' = [pc EXCEPT ![r] = "reconcile"]
  /\ UNCHANGED <<localVars, savedVars, route, manifest, mem, spool, cur, body, refused, raced, edits>>

LatePutLands(p, c) ==
  /\ <<p, c>> \in late
  /\ Store(p, c)
  /\ late' = late \ {<<p, c>>}
  /\ UNCHANGED <<localVars, savedVars, jobVars, raced, edits>>

LatePutIsLost(p, c) ==
  /\ <<p, c>> \in late
  /\ late' = late \ {<<p, c>>}
  /\ UNCHANGED <<server, since, localVars, savedVars, jobVars, raced, edits>>

(* Mutant: any object under the key is taken for this write.               *)
PushReconcileTrusting(r) ==
  /\ pc[r] = "reconcile"
  /\ pc' = [pc EXCEPT ![r] = "checkpoint"]
  /\ UNCHANGED <<remoteVars, localVars, savedVars, route, manifest, mem, spool, cur, body, refused, raced, edits>>

(* Ask the server what it holds before believing an ambiguous write.       *)
PushReconcileVerified(r) ==
  /\ pc[r] = "reconcile"
  /\ server[cur[r]] = body[r]
  /\ pc' = [pc EXCEPT ![r] = "checkpoint"]
  /\ UNCHANGED <<remoteVars, localVars, savedVars, route, manifest, mem, spool, cur, body, refused, raced, edits>>

PushReconcilePending(r) ==
  /\ pc[r] = "reconcile"
  /\ server[cur[r]] # body[r] \/ "fetch" \in Faults
  /\ Settle(r, cur[r], "push")
  /\ UNCHANGED <<remoteVars, localVars, savedVars, manifest, mem, spool, refused, raced, edits>>

(* Record the payload that was sent under the verified ETag and save.      *)
PushCheckpoint(r) ==
  LET p == cur[r] IN
  /\ pc[r] = "checkpoint"
  /\ mem' = [mem EXCEPT ![r][p] = [sha |-> body[r], etag |-> body[r]]]
  /\ state' = [state EXCEPT ![r] = mem'[r]]
  /\ Settle(r, p, "push")
  /\ UNCHANGED <<remoteVars, localVars, stamp, manifest, spool, refused, raced, edits>>

(* The save failed: the rest of the plan is abandoned.                     *)
PushCheckpointFails(r) ==
  /\ "oserror" \in Faults
  /\ pc[r] = "checkpoint"
  /\ EndJob(r)
  /\ UNCHANGED <<remoteVars, localVars, savedVars, edits>>

PushFinish(r) ==
  /\ pc[r] = "push"
  /\ \A p \in Path : route[r][p] # "send"
  /\ EndJob(r)
  /\ UNCHANGED <<remoteVars, localVars, savedVars, edits>>

-----------------------------------------------------------------------------
(* The process is killed, or the decision lock timed out before the pull   *)
(* changed anything: nothing is saved.                                     *)
Crash(r) ==
  /\ "crash" \in Faults
  /\ pc[r] # "idle"
  /\ EndJob(r)
  /\ UNCHANGED <<remoteVars, localVars, savedVars, edits>>

PullStep(r) ==
  \/ \E p \in Path : PullSpool(r, p) \/ PullSpoolFails(r, p)
  \/ PullLock(r)
  \/ \E p \in Path : PullApplyDecision(r, p) \/ PullApplyFails(r, p)
  \/ PullUnlock(r)
  \/ \E p \in Path : PullFetch(r, p) \/ PullFetchFails(r, p)
  \/ PullBarrierRefuses(r) \/ PullAdmitInstall(r) \/ PullResolve(r) \/ PullResolveFails(r)
  \/ PullWrite(r) \/ PullWriteFails(r)
  \/ PullRecord(r) \/ PullRecordFails(r)
  \/ PullFinish(r) \/ PullInterrupted(r)

PushStep(r) ==
  \/ \E p \in Path : PushRead(r, p) \/ PushReadFails(r, p)
  \/ PushPutVerified(r) \/ PushPutFails(r) \/ PushPutAmbiguous(r)
  \/ PushReconcileVerified(r) \/ PushReconcilePending(r)
  \/ PushCheckpoint(r) \/ PushCheckpointFails(r)
  \/ PushFinish(r)

Next ==
  \/ \E r \in Replica, p \in Path : LocalEdit(r, p) \/ LocalDelete(r, p)
  \/ \E r \in Replica : LoseState(r) \/ PullBegin(r) \/ PushBegin(r)
  \/ \E r \in Replica : PullStep(r) \/ PushStep(r) \/ Crash(r)
  \/ \E p \in Path, c \in Content : LatePutLands(p, c) \/ LatePutIsLost(p, c)

Spec == Init /\ [][Next]_vars

-----------------------------------------------------------------------------
(* Safety.                                                                 *)

(* An ETag in .sync-state.json is one the server really held under that    *)
(* path: a push that cannot prove its write landed records nothing.        *)
EtagTruthful ==
  \A r \in Replica, p \in Path :
    state[r][p] # Untracked => state[r][p].etag \in Published(p)

(* A path is only called synced at an ETag once this machine received that *)
(* version, or one the server held after it, on disk, as a part of a merge *)
(* or in .conflict-backup/.                                                *)
Received(r, p, etag) ==
  \E v \in since[p], s \in seen[r] :
    /\ v[1] = etag
    /\ s[1] = p
    /\ s[2] = v[2] \/ (p \in UnionPath /\ v[2] \subseteq s[2])

TrackedMeansReceived ==
  \A r \in Replica, p \in Path :
    state[r][p] # Untracked => Received(r, p, state[r][p].etag)

(* "The stamp says every file this run found is on disk": each version the *)
(* stamped manifest listed reached this machine, or a later one did. Not   *)
(* of decisions: one deleted while the pull runs is skipped unrefused.     *)
StampTruthful ==
  \A r \in Replica, p \in Path \ DecisionPath :
    stamp[r][p] # NoFile => Received(r, p, stamp[r][p])

ReceiptsTruthful == TrackedMeansReceived /\ StampTruthful

(* A pull never overwrites bytes nothing else holds: what it replaces is   *)
(* recorded in the state as synced, was published, is a part of the        *)
(* set-union that replaces it, or went to .conflict-backup/. The one way   *)
(* around it is an editor that saves the file while the pull runs.         *)
KeepsWhatItReplaces ==
  \A r \in Replica, p \in Path :
    (/\ pc[r] \in {"locked", "write"}
     /\ p \notin raced'[r]
     /\ disk[r][p] # NoFile
     /\ disk'[r][p] # disk[r][p])
    => \/ mem[r][p] # Untracked /\ mem[r][p].sha = disk[r][p]
       \/ disk[r][p] \in Published(p)
       \/ disk[r][p] \subseteq disk'[r][p]
       \/ <<p, disk[r][p]>> \in backup[r]

OverwritesOnlyWhatIsKept == [][KeepsWhatItReplaces]_vars

(* The strengthening of EtagTruthful and TypeOK that every step preserves: *)
(* each ETag a job carries on its way to .sync-state.json was published.   *)
EtagInv ==
  /\ \A p \in Path : server[p] # NoFile => server[p] \in Published(p)
  /\ EtagTruthful
  /\ \A r \in Replica, p \in Path :
       /\ mem[r][p] # Untracked => mem[r][p].etag \in Published(p)
       /\ manifest[r][p] # NoFile => manifest[r][p] \in Published(p) /\ server[p] # NoFile
       /\ route[r][p] \in {"gate", "adopt", "install", "conflict"} => manifest[r][p] # NoFile
       /\ pc[r] \in {"locked"} /\ route[r][p] = "gate" => spool[r][p] # NoFile
  /\ \A r \in Replica :
       /\ pc[r] \in {"fetched", "write", "written"} =>
            cur[r] \in Path /\ body[r] \in Content /\ route[r][cur[r]] \in {"install", "conflict"}
       /\ pc[r] \in {"put", "reconcile", "checkpoint"} => cur[r] \in Path /\ body[r] \in Content
       /\ pc[r] = "checkpoint" => body[r] \in Published(cur[r])

-----------------------------------------------------------------------------
(* Liveness.                                                               *)

(* A started job keeps running, and every machine keeps syncing.           *)
Fairness ==
  \A r \in Replica :
    /\ WF_vars(PullStep(r))
    /\ WF_vars(PushStep(r))
    /\ SF_vars(PullBegin(r))
    /\ SF_vars(PushBegin(r))

LiveSpec == Spec /\ Fairness

Quiet ==
  \A r \in Replica, p \in Path : RouteEntry(r, p) = "ignore" /\ ~IsCandidate(r, p)

(* Once the edits stop, machines that keep syncing run out of work: no run *)
(* answers the same question on every pull forever.                        *)
SyncsSettle == <>[]Quiet

-----------------------------------------------------------------------------
(* What the code's comments promise and its behaviour does not keep.       *)

Recoverable(p, e) ==
  \/ \E c \in Published(p) : e \in c
  \/ \E r \in Replica : disk[r][p] # NoFile /\ e \in disk[r][p]
  \/ \E r \in Replica : \E b \in backup[r] : b[1] = p /\ e \in b[2]

(* "Append-only logs where a set-union merge is safe", "a union has no     *)
(* losing side": an edit nobody deleted is on some disk, in some backup or *)
(* was published.                                                          *)
EditsRecoverable == \A e \in 1..edits : \E p \in Path : Recoverable(p, e)
=============================================================================
