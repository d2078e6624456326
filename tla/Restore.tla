------------------------------- MODULE Restore -------------------------------
(***************************************************************************)
(* Restoring a project's store from the cloud into an absent or empty       *)
(* directory (store/recovery.py).                                          *)
(*                                                                         *)
(* The record is assembled in a staging directory beside the destination,   *)
(* with a ledger of what each staged file is, and installed by one rename.  *)
(* A run may die or fail anywhere; the next one resumes. Meanwhile the cloud *)
(* record is edited and the user works on the destination.                  *)
(***************************************************************************)
EXTENDS Naturals

CONSTANTS Files,        \* paths of the record, the required "project" among them
          Dated,        \* paths whose ETag is the digest of their content
          Restorers,    \* processes that restore this project
          MaxVersion,   \* bound: versions of a file
          BadVersion,   \* a version that fails the store's diagnosis
          MaxFaults     \* bound: deaths, failed transfers, damaged files, user actions

Version == 0 .. MaxVersion
None == 0                          \* no file
Damaged == MaxVersion + 1          \* local bytes that are no version
Bodies == [Files -> Version \union {Damaged}]
NoBodies == [f \in Files |-> None]
NoRecord == [etag |-> None, body |-> None]
Ledgers == [Files -> [etag : Version, body : Version]]
NoLedger == [f \in Files |-> NoRecord]
NoOne == "no one"

VARIABLES
  remote,    \* the cloud record: the version of each file
  staged,    \* the staging directory
  seeded,    \* the sync state written into it
  ledger,    \* the ledger file
  readable,  \* it can be parsed
  dest,      \* the destination: what it is, what it holds
  lockedBy,  \* the restore lock
  point,     \* where each run stands
  hand,      \* what each run has read
  faults

rvars == <<remote, staged, seeded, ledger, readable, dest, lockedBy, point, hand, faults>>
area == <<staged, seeded, ledger, readable>>

Empty == [kind |-> "empty", body |-> NoBodies, state |-> NoLedger, manifest |-> NoBodies]
Absent == [Empty EXCEPT !.kind = "absent"]
Users == [Empty EXCEPT !.kind = "user"]
Available == dest.kind \in {"absent", "empty"}

NoHand == [entries |-> NoBodies, ledger |-> NoLedger, kept |-> {}, path |-> "none",
           body |-> None]

RInit ==
  /\ remote \in [Files -> {0, 1}]
  /\ staged = NoBodies /\ seeded = NoLedger
  /\ ledger = NoLedger /\ readable = TRUE
  /\ dest \in {Absent, Empty}
  /\ lockedBy = NoOne
  /\ point = [r \in Restorers |-> "idle"]
  /\ hand = [r \in Restorers |-> NoHand]
  /\ faults = 0

(***************************************************************************)
(* One run. Leaving it, by an exception too, releases the lock.            *)
(***************************************************************************)
Goto(r, place) == point' = [point EXCEPT ![r] = place] /\ UNCHANGED lockedBy
Leave(r) == /\ point' = [point EXCEPT ![r] = "idle"]
            /\ lockedBy' = NoOne
            /\ hand' = [hand EXCEPT ![r] = NoHand]
At(r, place) == point[r] = place
Faulty == faults < MaxFaults /\ faults' = faults + 1

DiscardState == staged' = NoBodies /\ seeded' = NoLedger /\ ledger' = NoLedger /\ readable' = TRUE

(* The first look at the destination, before any lock.                       *)
Start(r) ==
  /\ At(r, "idle") /\ Available
  /\ Goto(r, "waiting")
  /\ UNCHANGED <<remote, area, dest, hand, faults>>

(* Another run holds the lock for longer than a person waits.                *)
Busy(r) ==
  /\ At(r, "waiting") /\ lockedBy # NoOne
  /\ Goto(r, "idle")
  /\ UNCHANGED <<remote, area, dest, hand, faults>>

(* Under the lock the destination is looked at again: the run it waited for  *)
(* may have installed the record.                                           *)
Locked(r) ==
  /\ At(r, "waiting") /\ lockedBy = NoOne
  /\ IF Available
       THEN /\ point' = [point EXCEPT ![r] = "manifest"] /\ lockedBy' = r
            /\ UNCHANGED <<area, hand>>
       ELSE Leave(r) /\ DiscardState
  /\ UNCHANGED <<remote, dest, faults>>

(* Without a record there is nothing to resume toward.                       *)
FetchManifest(r) ==
  /\ At(r, "manifest")
  /\ IF remote = NoBodies
       THEN Leave(r) /\ DiscardState
       ELSE /\ hand' = [hand EXCEPT ![r].entries = remote]
            /\ Goto(r, "audit") /\ UNCHANGED area
  /\ UNCHANGED <<remote, dest, faults>>

(* Mutants: a staged file is trusted by its ETag, or by its own bytes, alone. *)
StillGoodByEtag(recorded, entry, body) == recorded.etag = entry /\ body # None
StillGoodByBytes(recorded, entry, body) == recorded.body = body /\ body # None

(* _still_good: recorded under this very ETag, with these very bytes.        *)
StillGood(recorded, entry, body) ==
  /\ entry # None /\ body # None
  /\ recorded.etag = entry /\ recorded.body = body

(* Mutant: a ledger that cannot be read stops the restore.                   *)
OpenLedgerOrFail(r) == readable

(* An unreadable ledger counts as an empty one.                              *)
OpenLedger(r) == TRUE

Audit(r) ==
  /\ At(r, "audit")
  /\ IF ~OpenLedger(r) THEN Leave(r) /\ UNCHANGED staged
     ELSE LET recorded == IF readable THEN ledger ELSE NoLedger
              kept == {f \in Files : StillGood(recorded[f], hand[r].entries[f], staged[f])}
          IN /\ staged' = [f \in Files |-> IF f \in kept THEN staged[f] ELSE None]
             /\ hand' = [hand EXCEPT
                  ![r].kept = kept,
                  ![r].ledger = [f \in Files |-> IF f \in kept THEN recorded[f] ELSE NoRecord]]
             /\ Goto(r, "download")
  /\ seeded' = NoLedger        \* the old sync state is in no manifest
  /\ UNCHANGED <<remote, ledger, readable, dest, faults>>

Pending(r) == {f \in Files : hand[r].entries[f] # None} \ hand[r].kept

(* A GET answers with what is stored now. A body that is not the listed one  *)
(* stops the restore where the ETag tells.                                  *)
Download(r) ==
  /\ At(r, "download")
  /\ \E f \in Pending(r) :
       IF f \in Dated /\ remote[f] # hand[r].entries[f]
         THEN Leave(r)
         ELSE /\ hand' = [hand EXCEPT ![r].path = f, ![r].body = remote[f]]
              /\ Goto(r, "accept")
  /\ UNCHANGED <<remote, area, dest, faults>>

(* accept: the file first, the record of it after.                           *)
Accept(r) ==
  /\ At(r, "accept")
  /\ staged' = [staged EXCEPT ![hand[r].path] = hand[r].body]
  /\ Goto(r, "record")
  /\ UNCHANGED <<remote, seeded, ledger, readable, dest, hand, faults>>

Recorded(r) ==
  [hand[r].ledger EXCEPT
     ![hand[r].path] = [etag |-> hand[r].entries[hand[r].path], body |-> hand[r].body]]

SaveLedger(r) ==
  /\ At(r, "record")
  /\ ledger' = Recorded(r) /\ readable' = TRUE
  /\ hand' = [hand EXCEPT ![r].ledger = Recorded(r), ![r].kept = @ \union {hand[r].path}]
  /\ Goto(r, "download")
  /\ UNCHANGED <<remote, staged, seeded, dest, faults>>

(* _validate_restored_store; a bad record is not resumed.                    *)
Complete(bodies) == bodies["project"] # None
Clean(bodies) == \A f \in Files : bodies[f] # BadVersion

Validate(r) ==
  /\ At(r, "download") /\ Pending(r) = {}
  /\ IF Complete(staged) /\ Clean(staged)
       THEN Goto(r, "seed") /\ UNCHANGED <<area, hand>>
       ELSE Leave(r) /\ DiscardState
  /\ UNCHANGED <<remote, dest, faults>>

(* Mutant: the state is recorded as if every file were what is stored now.   *)
SeedOfRemote(r) == [f \in Files |-> [etag |-> remote[f], body |-> hand[r].ledger[f].body]]

(* _seed_sync_state: from the ledger, inside the tree about to land.         *)
SeedOf(r) == hand[r].ledger

Seed(r) ==
  /\ At(r, "seed")
  /\ seeded' = SeedOf(r)
  /\ Goto(r, "clear")
  /\ UNCHANGED <<remote, staged, ledger, readable, dest, hand, faults>>

(* _install_staged_store: rmdir takes away an empty destination only.        *)
ClearDestination(r) ==
  /\ At(r, "clear")
  /\ IF dest.kind = "user"
       THEN Leave(r) /\ UNCHANGED dest
       ELSE dest' = Absent /\ Goto(r, "rename") /\ UNCHANGED hand
  /\ UNCHANGED <<remote, area, faults>>

(* Mutant: the rename replaces whatever is there.                            *)
ReplacesAnything == TRUE

(* os.replace takes no directory that holds something.                       *)
Replaces == dest.kind # "user"

Rename(r) ==
  /\ At(r, "rename")
  /\ IF Replaces
       THEN /\ dest' = [kind |-> "store", body |-> staged, state |-> seeded,
                        manifest |-> hand[r].entries]
            /\ staged' = NoBodies /\ seeded' = NoLedger
            /\ Goto(r, "cleanup") /\ UNCHANGED hand
       ELSE Leave(r) /\ UNCHANGED <<dest, staged, seeded>>
  /\ UNCHANGED <<remote, ledger, readable, faults>>

CleanUp(r) ==
  /\ At(r, "cleanup")
  /\ ledger' = NoLedger /\ readable' = TRUE
  /\ Leave(r)
  /\ UNCHANGED <<remote, staged, seeded, dest, faults>>

(***************************************************************************)
(* Faults and the others.                                                  *)
(***************************************************************************)
(* A death, a failed transfer, a full disk, an interrupt: staging is kept.   *)
Die(r) ==
  /\ Faulty /\ point[r] \notin {"idle", "waiting"}
  /\ Leave(r)
  /\ UNCHANGED <<remote, area, dest>>

Damage ==
  /\ Faulty /\ lockedBy = NoOne
  /\ \/ \E f \in Files : staged[f] # None /\ staged' = [staged EXCEPT ![f] = Damaged]
                         /\ UNCHANGED readable
     \/ readable /\ ledger # NoLedger /\ readable' = FALSE /\ UNCHANGED staged
  /\ UNCHANGED <<remote, seeded, ledger, dest, lockedBy, point, hand>>

(* Somebody edits the cloud record, or adds a file to it.                    *)
EditRemote ==
  /\ \E f \in Files : remote[f] < MaxVersion /\ remote' = [remote EXCEPT ![f] = @ + 1]
  /\ UNCHANGED <<area, dest, lockedBy, point, hand, faults>>

(* The user makes the directory, fills it, or removes what is there.         *)
UserActs ==
  /\ Faulty
  /\ \/ dest.kind = "absent" /\ dest' = Empty
     \/ dest.kind = "empty" /\ dest' = Users
     \/ dest.kind \in {"user", "store"} /\ dest' = Absent
  /\ UNCHANGED <<remote, area, lockedBy, point, hand>>

Advance(r) == \/ Busy(r) \/ Locked(r) \/ FetchManifest(r) \/ Audit(r) \/ Download(r)
              \/ Accept(r) \/ SaveLedger(r) \/ Validate(r) \/ Seed(r)
              \/ ClearDestination(r) \/ Rename(r) \/ CleanUp(r)

RNext == \/ \E r \in Restorers : Start(r) \/ Advance(r) \/ Die(r)
         \/ Damage \/ EditRemote \/ UserActs

RSpec == RInit /\ [][RNext]_rvars

(* Waits and requests are bounded, and the user runs the command again, as   *)
(* the message of a kept staging directory tells.                           *)
RFairness == \A r \in Restorers : WF_rvars(Start(r)) /\ WF_rvars(Advance(r))

-----------------------------------------------------------------------------
(* Types of the record, the staging area, the destination and the runs.      *)
RTypeOK ==
  /\ remote \in [Files -> Version]
  /\ staged \in Bodies /\ seeded \in Ledgers /\ ledger \in Ledgers
  /\ dest \in [kind : {"absent", "empty", "user", "store"}, body : Bodies,
               state : Ledgers, manifest : [Files -> Version]]
  /\ lockedBy \in Restorers \union {NoOne}
  /\ point \in [Restorers -> {"idle", "waiting", "manifest", "audit", "download", "accept",
                              "record", "seed", "clear", "rename", "cleanup"}]

(* An installed store is the record one manifest listed, whole and sound: no  *)
(* file of an earlier run, no damaged one, none missing, however often the   *)
(* restore was resumed.                                                     *)
InstalledWhole ==
  dest.kind = "store" =>
    /\ Complete(dest.body) /\ Clean(dest.body)
    /\ \A f \in Files :
         /\ (dest.body[f] = None) = (dest.manifest[f] = None)
         /\ dest.body[f] # Damaged
         /\ dest.body[f] >= dest.manifest[f]
         /\ f \in Dated => dest.body[f] = dest.manifest[f]

(* The sync state it comes with says what each file is and under which listed *)
(* version it came: never a newer one, which a pull would then skip.        *)
SeededTruthful ==
  dest.kind = "store" =>
    \A f \in Files : dest.state[f] = [etag |-> dest.manifest[f], body |-> dest.body[f]]

(* To the user a restore is one step: where nothing was, a whole and sound    *)
(* store appears, made of files the record has held; what the user put there  *)
(* goes by the user's own hand only.                                        *)
Sound == {body \in Bodies : Complete(body) /\ Clean(body)}
Promise == INSTANCE RestoreContract WITH
  Usable <- Sound, NoFiles <- NoBodies,
  kind <- IF Available THEN "nothing" ELSE dest.kind,
  body <- IF dest.kind = "store" THEN dest.body ELSE NoBodies
RestoresAsPromised == Promise!Spec

(* A person who runs the command again ends with a store, unless the record   *)
(* is unusable or something else is there: no death, failure or damage leaves *)
(* a state the restore cannot get out of.                                   *)
Restorable == Complete(remote) /\ Clean(remote)
RestoreSettles == []<>(dest.kind \in {"store", "user"} \/ ~Restorable)

(* What a restore leaves is whole, and its sync state true of it.             *)
RestoredSound == InstalledWhole /\ SeededTruthful
=============================================================================
