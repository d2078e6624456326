------------------------------ MODULE Refresh ------------------------------
(***************************************************************************)
(* Installing a generation replica and moving it to a newer generation     *)
(* (sync/generation_attachment.py, store/generation_installation.py,       *)
(* sync/generation_refresh.py, store/generation_refresh_{intent,io}.py,    *)
(* sync/generation_refresh_status.py).                                     *)
(*                                                                         *)
(* The replica is a set of immutable roots, one for each generation, and   *)
(* three control files that select one: the marker, the pointer and the    *)
(* carrier (authorization-view.json).  A refresh changes two files, so it  *)
(* writes an intent first, which names the pair it starts from and the     *)
(* pair it means to leave.                                                 *)
(*                                                                         *)
(* A file has the content every process sees, and the contents a power     *)
(* loss may leave behind: a rename is visible at once and settles when its *)
(* directory is flushed, a write that is not flushed may come back torn.   *)
(***************************************************************************)
EXTENDS Naturals, FiniteSets

CONSTANTS
  Process,     \* the processes of one account that use the replica
  MaxGen,      \* bound: generations the server publishes
  MaxIds,      \* bound: install identities (ULIDs) allocated
  MaxTicks,    \* bound: refresh attempts begun and successes recorded
  MaxLosses    \* bound: power losses

ASSUME BoundsAssumption ==
  /\ MaxGen \in Nat \ {0} /\ MaxIds \in Nat \ {0}
  /\ MaxTicks \in Nat /\ MaxLosses \in Nat

Gen == 1..MaxGen

(* A control record: the generation it selects and the identity of the     *)
(* installation that wrote it (installed_state_id, ordered as ULIDs are).  *)
Pair == [gen : 0..MaxGen, id : 0..MaxIds]
Absent == [gen |-> 0, id |-> 0]
Torn == [gen |-> 0, id |-> 1]
Marker == [gen |-> 1, id |-> 0]
ControlFile == {"marker", "pointer", "carrier"}

(* An intent is known by the identity of its target; before is the         *)
(* identity of the intent it replaced, 0 when it replaced none.            *)
Intent == [base : Pair, view : Pair, target : Pair, before : 0..MaxIds]
NoIntent == [base |-> Absent, view |-> Absent, target |-> Absent, before |-> 0]

RootState == {"none", "torn", "whole"}

VARIABLES
  head,        \* the server's current generation
  disk,        \* the control files as processes see them
  maybe,       \* for each, the contents a power loss may leave
  intent,      \* refresh-intent.json
  intentMaybe,
  root,        \* root[g]: the installed root of generation g
  rootMaybe,
  archive,     \* refresh-history/: the intents preserved there
  archiveSafe, \* those whose directory entry is flushed
  retained,    \* the attachment record: its generation, 0 when there is none
  attached,    \* the project is bound to this replica in the registry
  lock,        \* who holds .replica-control.lock: {} or a singleton
  home,        \* who holds the lock of the refresh status
  attempt,     \* the refresh status: [at, ok, code]
  tick,        \* the clock of the refresh status
  ids,         \* the install identities allocated so far
  job,         \* job[p]: what process p is doing
  served,      \* the latest pair whose generation a caller was given
  losses

files == <<disk, maybe, intent, intentMaybe, root, rootMaybe, archive, archiveSafe>>
status == <<home, attempt, tick>>
vars == <<head, files, retained, attached, lock, status, ids, job, served, losses>>

(* generation-refresh-*.json: when the last attempt began, when the last   *)
(* success was recorded (0: never) and how the last attempt stands.        *)
Attempt ==
  [at : 0..MaxTicks, ok : 0..MaxTicks,
   code : {"none", "incomplete", "failed", "succeeded"}]
NoAttempt == [at |-> 0, ok |-> 0, code |-> "none"]

(* A call: where it stands, what it is part of, the controls and the       *)
(* intent it read when it prepared, the intent it publishes or completes,  *)
(* the generation it acquired and the attempt it recorded.                 *)
Place ==
  {"idle", "root", "carrier", "pointer", "marker", "initial", "prepare", "acquire",
   "check", "install", "commit", "announce", "resume", "admitted", "report"}
Mode == {"refresh", "attach", "read"}
Job ==
  [at : Place, mode : Mode,
   base : [ControlFile -> Pair], raw : Intent, new : Intent,
   gen : 0..MaxGen, mine : Attempt]

NoControls == [f \in ControlFile |-> Absent]

Idle ==
  [at |-> "idle", mode |-> "read", base |-> NoControls, raw |-> NoIntent,
   new |-> NoIntent, gen |-> 0, mine |-> NoAttempt]

Init ==
  /\ head = 1
  /\ disk = NoControls
  /\ maybe = [f \in ControlFile |-> {Absent}]
  /\ intent = NoIntent /\ intentMaybe = {NoIntent}
  /\ root = [g \in Gen |-> "none"]
  /\ rootMaybe = [g \in Gen |-> {"none"}]
  /\ archive = {} /\ archiveSafe = {}
  /\ retained = 0
  /\ attached = FALSE
  /\ lock = {} /\ home = {}
  /\ attempt = NoAttempt
  /\ tick = 0
  /\ ids = 0
  /\ job = [p \in Process |-> Idle]
  /\ served = Absent
  /\ losses = 0

-----------------------------------------------------------------------------
(* The evidence on disk.                                                   *)

HasControls ==
  /\ disk["marker"] = Marker
  /\ \A f \in {"pointer", "carrier"} : disk[f] \notin {Absent, Torn}

(* RefreshIntent.classify: where the controls stand between the pair the   *)
(* intent starts from and the pair it leaves.                              *)
Classify(i, controls) ==
  CASE controls["marker"] # Marker -> "conflict"
    [] controls["pointer"] = i.base /\ controls["carrier"] = i.view -> "base_present"
    [] controls["pointer"] = i.base /\ controls["carrier"] = i.target ->
         "carrier_published"
    [] controls["pointer"] = i.target /\ controls["carrier"] = i.target ->
         "target_present"
    [] OTHER -> "conflict"

(* _intent: the intent that may be acted on.                               *)
IntentStands ==
  /\ intent # NoIntent
  /\ HasControls
  /\ intent.before # 0 => intent.before \in archive
  /\ Classify(intent, disk) # "conflict"

(* Mutants: a publication that does not wait for its directory, a root     *)
(* that is audited and never flushed.                                      *)
IntentUnsynced == intentMaybe
AuditTarget(g) == root[g] = "whole" /\ UNCHANGED rootMaybe

(* fsync of the control files and of the directories that hold them.       *)
SyncedControls == [f \in ControlFile |-> {disk[f]}]

(* fsync of the directories alone: the entries settle, a content that was  *)
(* never flushed stays in doubt.                                           *)
SyncedEntries == [f \in ControlFile |-> maybe[f] \cap {disk[f], Torn}]
SyncedIntent == {intent}

(* _sync_target: audit the root and flush it.                              *)
SyncTarget(g) ==
  /\ root[g] = "whole"
  /\ rootMaybe' = [rootMaybe EXCEPT ![g] = {"whole"}]

(* durable_replace up to its rename, over what the barrier before it left  *)
(* in doubt: the content is flushed, the entry waits for the next barrier. *)
Replace(f, pair, doubt) ==
  /\ disk' = [disk EXCEPT ![f] = pair]
  /\ maybe' = [doubt EXCEPT ![f] = @ \cup {pair}]

(* durable_write_bytes on POSIX: atomic, and nothing is flushed.           *)
WriteUnflushed(f, pair) ==
  /\ disk' = [disk EXCEPT ![f] = pair]
  /\ maybe' = [maybe EXCEPT ![f] = @ \cup {pair, Torn}]

LockFree == lock = {}
Goto(p, at) == job' = [job EXCEPT ![p].at = at]

-----------------------------------------------------------------------------
(* Installing a root: what is staged is renamed into place unflushed; a    *)
(* root that is there already must pass the audit.                         *)
InstallRoot(g) ==
  /\ root[g] # "torn"
  /\ root' = [root EXCEPT ![g] = "whole"]
  /\ rootMaybe' = IF root[g] = "none"
                    THEN [rootMaybe EXCEPT ![g] = @ \cup {"torn", "whole"}]
                    ELSE rootMaybe

(* The initial attachment.  validate_retained_projection: the evidence of  *)
(* an earlier attempt must be of this generation, and nothing else.        *)
RetainedAgrees(g) ==
  /\ \A h \in Gen \ {g} : root[h] = "none"
  /\ archive = {}
  /\ IF intent # NoIntent
       THEN intent.base.gen = g /\ intent.target.gen = g
       ELSE /\ disk["carrier"] # Torn /\ disk["carrier"].gen \in {0, g}
            /\ disk["pointer"] \in {Absent, disk["carrier"]}
            /\ disk["marker"] \in {Absent, Marker}
            /\ disk["marker"] = Marker =>
                 disk["carrier"] # Absent /\ disk["pointer"] # Absent

Attaching == \E p \in Process : job[p].at # "idle" /\ job[p].mode = "attach"

StartAttach(p) ==
  /\ job[p].at = "idle"
  /\ ~attached /\ ~Attaching
  /\ retained \in {0, head}
  /\ RetainedAgrees(head)
  /\ retained' = head
  /\ job' = [job EXCEPT ![p] =
       [Idle EXCEPT !.mode = "attach", !.gen = head,
                    !.at = IF intent = NoIntent THEN "root" ELSE "prepare"]]
  /\ UNCHANGED <<head, files, attached, lock, status, ids, served, losses>>

AttachRoot(p) ==
  /\ job[p].at = "root"
  /\ LockFree
  /\ InstallRoot(job[p].gen)
  /\ Goto(p, "carrier")
  /\ UNCHANGED <<head, disk, maybe, intent, intentMaybe, archive, archiveSafe,
                 retained, attached, lock, status, ids, served, losses>>

(* _publish_generation_control, one control file at a time under the lock. *)
(* A marker that is there closes the publication: the pair it selects is   *)
(* verified.  Otherwise a carrier of this generation is kept, with its     *)
(* identity, and another one is replaced.                                  *)
PublishNothing(p) ==
  /\ job[p].at = "carrier"
  /\ LockFree
  /\ intent = NoIntent
  /\ HasControls
  /\ disk["pointer"] = disk["carrier"] /\ disk["carrier"].gen = job[p].gen
  /\ root[job[p].gen] = "whole"
  /\ Goto(p, "initial")
  /\ UNCHANGED <<head, files, retained, attached, lock, status, ids, served, losses>>

PublishCarrier(p) ==
  /\ job[p].at = "carrier"
  /\ LockFree
  /\ intent = NoIntent
  /\ disk["marker"] = Absent
  /\ disk["carrier"] # Torn
  /\ root[job[p].gen] = "whole"
  /\ IF disk["carrier"].gen = job[p].gen
       THEN UNCHANGED <<disk, maybe, ids>>
       ELSE /\ ids < MaxIds
            /\ ids' = ids + 1
            /\ WriteUnflushed("carrier", [gen |-> job[p].gen, id |-> ids + 1])
  /\ lock' = {p}
  /\ Goto(p, "pointer")
  /\ UNCHANGED <<head, intent, intentMaybe, root, rootMaybe, archive, archiveSafe,
                 retained, attached, status, served, losses>>

PublishPointer(p) ==
  /\ job[p].at = "pointer"
  /\ IF disk["pointer"] = disk["carrier"]
       THEN UNCHANGED <<disk, maybe>>
       ELSE WriteUnflushed("pointer", disk["carrier"])
  /\ Goto(p, "marker")
  /\ UNCHANGED <<head, intent, intentMaybe, root, rootMaybe, archive, archiveSafe,
                 retained, attached, lock, status, ids, served, losses>>

PublishMarker(p) ==
  /\ job[p].at = "marker"
  /\ root[job[p].gen] = "whole"
  /\ WriteUnflushed("marker", Marker)
  /\ lock' = {}
  /\ Goto(p, "initial")
  /\ UNCHANGED <<head, intent, intentMaybe, root, rootMaybe, archive, archiveSafe,
                 retained, attached, status, ids, served, losses>>

(* prepare_initial_generation_refresh with the projection attach acquired: *)
(* no intent may exist, the controls are a pair, and the server must still *)
(* answer with the acquired generation.                                    *)
PrepareInitial(p) ==
  /\ job[p].at = "initial"
  /\ LockFree
  /\ HasControls
  /\ intent = NoIntent
  /\ disk["pointer"] = disk["carrier"]
  /\ head = job[p].gen
  /\ job' = [job EXCEPT ![p].base = disk, ![p].raw = NoIntent, ![p].at = "check"]
  /\ UNCHANGED <<head, files, retained, attached, lock, status, ids, served, losses>>

-----------------------------------------------------------------------------
(* A refresh.  refresh_replica records an incomplete attempt first.        *)
StartRefresh(p) ==
  /\ job[p].at = "idle"
  /\ attached
  /\ home = {}
  /\ tick < MaxTicks
  /\ tick' = tick + 1
  /\ attempt' = [attempt EXCEPT !.at = tick + 1, !.code = "incomplete"]
  /\ job' = [job EXCEPT ![p] =
       [Idle EXCEPT !.mode = "refresh", !.at = "prepare", !.mine = attempt']]
  /\ UNCHANGED <<head, files, retained, attached, lock, home, ids, served, losses>>

Prepare(p) ==
  /\ job[p].at = "prepare"
  /\ LockFree
  /\ IntentStands
  /\ job' = [job EXCEPT ![p].base = disk, ![p].raw = intent, ![p].at = "acquire"]
  /\ UNCHANGED <<head, files, retained, attached, lock, status, ids, served, losses>>

(* Outside the lock: observe the server's generation and acquire it.  When *)
(* the installed generation stands it is captured too, for the bytes that  *)
(* can be reused, and the evidence must not have moved.                    *)
Acquire(p) ==
  /\ job[p].at = "acquire"
  /\ job[p].mode = "attach" => head = job[p].gen
  /\ Classify(job[p].raw, job[p].base) = "target_present" =>
       /\ LockFree
       /\ disk = job[p].base /\ intent = job[p].raw
       /\ root[intent.target.gen] = "whole"
  /\ job' = [job EXCEPT ![p].gen = head, ![p].at = "check"]
  /\ UNCHANGED <<head, files, retained, attached, lock, status, ids, served, losses>>

(* The controls and the intent are still those the refresh prepared from.  *)
NotStale(p) == disk = job[p].base /\ intent = job[p].raw

(* commit_generation_refresh, before the root is installed: over an intent *)
(* whose target is present and is the acquired generation there is nothing *)
(* to publish.  refresh_replica holds the status lock from here.           *)
Check(p) ==
  /\ job[p].at = "check"
  /\ IF job[p].mode = "refresh" THEN home = {} /\ home' = {p} ELSE UNCHANGED home
  /\ LET raw == job[p].raw
         here == raw.target.gen = job[p].gen /\ Classify(raw, disk) = "target_present"
     IN  IF raw = NoIntent
           THEN /\ Goto(p, "install")
                /\ UNCHANGED lock
           ELSE /\ LockFree
                /\ NotStale(p)
                /\ IntentStands
                /\ lock' = IF here THEN {p} ELSE {}
                /\ job' = IF here
                            THEN [job EXCEPT ![p].new = raw, ![p].at = "resume"]
                            ELSE [job EXCEPT ![p].at = "install"]
  /\ UNCHANGED <<head, files, retained, attached, attempt, tick, ids, served, losses>>

CommitRoot(p) ==
  /\ job[p].at = "install"
  /\ LockFree
  /\ InstallRoot(job[p].gen)
  /\ Goto(p, "commit")
  /\ UNCHANGED <<head, disk, maybe, intent, intentMaybe, archive, archiveSafe,
                 retained, attached, lock, status, ids, served, losses>>

(* Under the lock again: nothing moved, the root and the base are flushed, *)
(* and then either the intent already on disk is resumed, when it leads to *)
(* the acquired generation, or it is preserved and a new one is made.      *)
CommitResumes(p) ==
  /\ job[p].at = "commit"
  /\ LockFree
  /\ NotStale(p)
  /\ SyncTarget(job[p].gen)
  /\ maybe' = SyncedControls /\ intentMaybe' = SyncedIntent
  /\ job[p].raw # NoIntent
  /\ IntentStands
  /\ intent.target.gen = job[p].gen
  /\ lock' = {p}
  /\ job' = [job EXCEPT ![p].new = intent, ![p].at = "resume"]
  /\ UNCHANGED <<head, disk, intent, root, archive, archiveSafe,
                 retained, attached, status, ids, served, losses>>

NewIntent(p, id) ==
  [base |-> job[p].base["pointer"], view |-> job[p].base["carrier"],
   target |-> [gen |-> job[p].gen, id |-> id], before |-> job[p].raw.target.id]

CommitAnew(p) ==
  /\ job[p].at = "commit"
  /\ LockFree
  /\ NotStale(p)
  /\ SyncTarget(job[p].gen)
  /\ maybe' = SyncedControls /\ intentMaybe' = SyncedIntent
  /\ job[p].raw # NoIntent => IntentStands /\ intent.target.gen # job[p].gen
  /\ ids < MaxIds
  /\ ids' = ids + 1
  /\ archive' = archive \cup ({intent.target.id} \ {0})
  /\ lock' = {p}
  /\ job' = [job EXCEPT ![p].new = NewIntent(p, ids + 1), ![p].at = "announce"]
  /\ UNCHANGED <<head, disk, intent, root, archiveSafe,
                 retained, attached, status, served, losses>>

(* Mutant: the archive is kept under the digest of the new intent.         *)
AnnounceUnderNewDigest(p) ==
  /\ job[p].at = "announce"
  /\ archiveSafe' = archive \cup {job[p].new.target.id}
  /\ intent' = job[p].new
  /\ intentMaybe' = intentMaybe \cup {job[p].new}
  /\ Goto(p, "resume")
  /\ UNCHANGED <<head, disk, maybe, root, rootMaybe, archive,
                 retained, attached, lock, status, ids, served, losses>>

(* preserve_predecessor has flushed the archive; the intent is replaced.   *)
Announce(p) ==
  /\ job[p].at = "announce"
  /\ archiveSafe' = archive
  /\ intent' = job[p].new
  /\ intentMaybe' = intentMaybe \cup {job[p].new}
  /\ Goto(p, "resume")
  /\ UNCHANGED <<head, disk, maybe, root, rootMaybe, archive,
                 retained, attached, lock, status, ids, served, losses>>

(* _resume: behind a barrier each time, first the carrier is replaced and  *)
(* then the pointer.                                                       *)
Publish(p) ==
  /\ job[p].at = "resume"
  /\ IntentStands /\ intent = job[p].new
  /\ SyncTarget(intent.target.gen)
  /\ intentMaybe' = SyncedIntent
  /\ \/ /\ Classify(intent, disk) = "base_present"
        /\ Replace("carrier", intent.target, SyncedEntries)
     \/ /\ Classify(intent, disk) = "carrier_published"
        /\ Replace("pointer", intent.target, SyncedEntries)
  /\ UNCHANGED <<head, intent, root, archive, archiveSafe,
                 retained, attached, lock, status, ids, job, served, losses>>

(* Mutant: the generation is handed out before the controls are flushed.   *)
CompleteUnflushed(p) ==
  /\ job[p].at = "resume"
  /\ IntentStands /\ intent = job[p].new
  /\ Classify(intent, disk) = "target_present"
  /\ SyncTarget(intent.target.gen)
  /\ archiveSafe' = archive
  /\ lock' = {}
  /\ served' = intent.target
  /\ attached' = (attached \/ job[p].mode = "attach")
  /\ job' = [job EXCEPT ![p] =
       IF job[p].mode = "refresh" THEN [job[p] EXCEPT !.at = "admitted"] ELSE Idle]
  /\ UNCHANGED <<head, disk, maybe, intent, intentMaybe, root, archive,
                 retained, status, ids, losses>>

(* _complete: the target is present, everything it stands on is flushed,   *)
(* and only then is the generation handed out.  The last step of an        *)
(* attachment is the entry in the registry.                                *)
Complete(p) ==
  /\ job[p].at = "resume"
  /\ IntentStands /\ intent = job[p].new
  /\ Classify(intent, disk) = "target_present"
  /\ SyncTarget(intent.target.gen)
  /\ maybe' = SyncedControls /\ intentMaybe' = SyncedIntent
  /\ archiveSafe' = archive
  /\ lock' = {}
  /\ served' = intent.target
  /\ attached' = (attached \/ job[p].mode = "attach")
  /\ job' = [job EXCEPT ![p] =
       IF job[p].mode = "refresh" THEN [job[p] EXCEPT !.at = "admitted"] ELSE Idle]
  /\ UNCHANGED <<head, disk, intent, root, archive,
                 retained, status, ids, losses>>

RecordSuccess(p) ==
  /\ job[p].at = "admitted"
  /\ tick < MaxTicks
  /\ tick' = tick + 1
  /\ attempt' = [job[p].mine EXCEPT !.ok = tick + 1, !.code = "succeeded"]
  /\ home' = {}
  /\ job' = [job EXCEPT ![p] = Idle]
  /\ UNCHANGED <<head, files, retained, attached, lock, ids, served, losses>>

(* admit_generation_store: a read of the installed generation passes the   *)
(* same barriers before it returns.                                        *)
Read(p) ==
  /\ job[p].at = "idle"
  /\ attached
  /\ LockFree
  /\ IntentStands
  /\ Classify(intent, disk) = "target_present"
  /\ lock' = {p}
  /\ job' = [job EXCEPT ![p] = [Idle EXCEPT !.at = "resume", !.new = intent]]
  /\ UNCHANGED <<head, files, retained, attached, status, ids, served, losses>>

-----------------------------------------------------------------------------
(* A call stops: a lock is busy, the evidence is stale or refused, the     *)
(* account changed, a write failed.  What it did stays; its locks go.      *)
Fail(p) ==
  /\ job[p].at \notin {"idle", "report"}
  /\ lock' = lock \ {p}
  /\ home' = home \ {p}
  /\ job' = [job EXCEPT ![p] =
       IF job[p].mode = "refresh" THEN [job[p] EXCEPT !.at = "report"] ELSE Idle]
  /\ UNCHANGED <<head, files, retained, attached, attempt, tick, ids, served, losses>>

(* Mutant: the record is marked failed whoever wrote it last.              *)
ReportAlways(p) ==
  /\ job[p].at = "report"
  /\ home = {}
  /\ attempt' = [job[p].mine EXCEPT !.code = "failed"]
  /\ job' = [job EXCEPT ![p] = Idle]
  /\ UNCHANGED <<head, files, retained, attached, lock, home, tick, ids, served, losses>>

(* The handler of refresh_replica: the record is marked failed when it is  *)
(* still the one this attempt wrote, and is kept otherwise.                *)
Report(p) ==
  /\ job[p].at = "report"
  /\ home = {}
  /\ attempt' = IF attempt = job[p].mine
                  THEN [job[p].mine EXCEPT !.code = "failed"] ELSE attempt
  /\ job' = [job EXCEPT ![p] = Idle]
  /\ UNCHANGED <<head, files, retained, attached, lock, home, tick, ids, served, losses>>

(* The process dies, or its report finds the status lock busy.             *)
Die(p) ==
  /\ job[p].at # "idle"
  /\ lock' = lock \ {p}
  /\ home' = home \ {p}
  /\ job' = [job EXCEPT ![p] = Idle]
  /\ UNCHANGED <<head, files, retained, attached, attempt, tick, ids, served, losses>>

(* The machine loses power: every process is gone, every file holds one of *)
(* the contents it may hold, and some unflushed archives are gone.         *)
PowerLoss ==
  /\ losses < MaxLosses
  /\ losses' = losses + 1
  /\ disk' \in {d \in [ControlFile -> UNION {maybe[f] : f \in ControlFile}] :
                  \A f \in ControlFile : d[f] \in maybe[f]}
  /\ maybe' = [f \in ControlFile |-> {disk'[f]}]
  /\ intent' \in intentMaybe
  /\ intentMaybe' = {intent'}
  /\ root' \in {r \in [Gen -> RootState] : \A g \in Gen : r[g] \in rootMaybe[g]}
  /\ rootMaybe' = [g \in Gen |-> {root'[g]}]
  /\ \E kept \in SUBSET archive :
       /\ archiveSafe \subseteq kept
       /\ archive' = kept /\ archiveSafe' = kept
  /\ lock' = {} /\ home' = {}
  /\ job' = [p \in Process |-> Idle]
  /\ UNCHANGED <<head, retained, attached, attempt, tick, ids, served>>

(* The server publishes a generation.                                      *)
Advance ==
  /\ head < MaxGen
  /\ head' = head + 1
  /\ UNCHANGED <<files, retained, attached, lock, status, ids, job, served, losses>>

Step(p) ==
  \/ StartAttach(p) \/ AttachRoot(p)
  \/ PublishNothing(p) \/ PublishCarrier(p) \/ PublishPointer(p) \/ PublishMarker(p)
  \/ PrepareInitial(p)
  \/ StartRefresh(p) \/ Prepare(p) \/ Acquire(p) \/ Check(p) \/ CommitRoot(p)
  \/ CommitResumes(p) \/ CommitAnew(p) \/ Announce(p) \/ Publish(p) \/ Complete(p)
  \/ RecordSuccess(p) \/ Read(p)
  \/ Fail(p) \/ Report(p) \/ Die(p)

Next == (\E p \in Process : Step(p)) \/ PowerLoss \/ Advance

Spec == Init /\ [][Next]_vars

-----------------------------------------------------------------------------
TypeOK ==
  /\ head \in Gen
  /\ disk \in [ControlFile -> Pair]
  /\ maybe \in [ControlFile -> SUBSET Pair]
  /\ intent \in Intent /\ intentMaybe \subseteq Intent
  /\ root \in [Gen -> RootState]
  /\ rootMaybe \in [Gen -> SUBSET RootState]
  /\ archiveSafe \subseteq archive /\ archive \subseteq 1..MaxIds
  /\ retained \in 0..MaxGen
  /\ attached \in BOOLEAN
  /\ lock \subseteq Process /\ home \subseteq Process
  /\ attempt \in Attempt
  /\ tick \in 0..MaxTicks /\ ids \in 0..MaxIds /\ losses \in 0..MaxLosses
  /\ job \in [Process -> Job]
  /\ served \in Pair

(* Whatever dies and wherever the power fails, an intent on disk can be    *)
(* acted on: the controls stand at its base, at its target or between the  *)
(* two writes, and the intent it replaced is preserved.  Otherwise every   *)
(* later refresh and read would refuse (_intent).                          *)
IntentAlwaysStands == intent # NoIntent => IntentStands

(* Once an intent is on disk, the root the pointer selects and the root    *)
(* the intent leads to are whole, also after a power loss.                 *)
SelectedRootsAreWhole ==
  intent # NoIntent =>
    root[disk["pointer"].gen] = "whole" /\ root[intent.target.gen] = "whole"

(* A generation handed to a caller stays installed: the pointer never      *)
(* selects an older installation, nor an older generation, than the latest *)
(* one that was completed, power losses included.                          *)
ServedStaysInstalled ==
  disk["pointer"].id >= served.id /\ disk["pointer"].gen >= served.gen

(* The three together: what the replica promises whoever reads it.          *)
ReplicaSound == IntentAlwaysStands /\ SelectedRootsAreWhole /\ ServedStaysInstalled

(* The status never forgets a success: a refresh that fails late, with an  *)
(* older record in hand, does not write over the success of another.       *)
LastSuccessKept == [][attempt'.ok >= attempt.ok]_attempt

(* "A record this attempt did not write belongs to a later attempt and is  *)
(* kept" (generation_refresh_status.py, the handler's comment).            *)
KeptRecordIsLater ==
  \A p \in Process :
    job[p].at = "report" /\ attempt # job[p].mine => attempt.at > job[p].mine.at

=============================================================================
