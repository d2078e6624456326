--------------------------- MODULE Store_proofs ---------------------------
(***************************************************************************)
(* Proofs about the store's files: FileSync.tla for any machines, paths,   *)
(* faults and edits, Upload.tla for any answers of the object store, and   *)
(* Restore.tla for any set of files and restorers.                         *)
(*                                                                         *)
(* FileSync: every reachable state is well typed; every ETag in a saved    *)
(* .sync-state.json is one the server held under that path; a path is only *)
(* called synced at a version this machine received; and a pull overwrites *)
(* only bytes that are kept elsewhere, unless an editor raced it.          *)
(* EtagTruthful alone is not inductive: a job carries ETags from its       *)
(* manifest, its in-memory state and its ambiguous PUT to the file, so     *)
(* EtagInv follows them there. ReceiptInv does the same for what was       *)
(* received: through the route triage chose, the spool, the body fetched   *)
(* and the backup taken, up to the state and the stamp a job saves.        *)
(*                                                                         *)
(* Upload: the evidence kept of a PUT claims no more than is so.           *)
(*                                                                         *)
(* Restore: an installed store is one listed record, whole and sound, and  *)
(* to the user a restore is one step.                                      *)
(***************************************************************************)
EXTENDS FileSync, Upload, Restore, TLAPS

(* The server's objects and their history stay contents.                   *)

LEMMA StoreKeepsTypes ==
  ASSUME TypeOK, NEW p \in Path, NEW c \in Content, Store(p, c)
  PROVE  /\ server' \in [Path -> MaybeContent]
         /\ since' \in [Path -> SUBSET (Content \X Content)]
<1>1. Published(p) \subseteq Content
  BY DEF Published
<1>2. (Published(p) \cup {c}) \X {c} \subseteq Content \X Content
  BY <1>1
<1> QED
  BY <1>2 DEF Store, TypeOK, MaybeContent

(* A PUT adds to what was published and changes one object only.          *)
LEMMA PublishedGrows ==
  ASSUME TypeOK, NEW p \in Path, NEW c \in Content, Store(p, c)
  PROVE  /\ server'[p] = c
         /\ c \in Published(p)'
         /\ \A q \in Path : Published(q) \subseteq Published(q)'
         /\ \A q \in Path \ {p} : server'[q] = server[q]
  BY DEF Store, TypeOK, Published

(* One step per action: each keeps the types of what it assigns.           *)
LEMMA TypeStep == TypeOK /\ EtagInv /\ Next => TypeOK'
<1> SUFFICES ASSUME TypeOK, EtagInv, Next PROVE TypeOK'
  OBVIOUS
<1> USE DEF TypeOK, EtagInv, MaybeContent, Record, Pcs, Routes, jobVars, remoteVars, localVars,
     savedVars, NoFiles, NoRoutes, NothingTracked
<1>0. \A entry \in Record : entry.sha # NoFile
  BY SentinelAssumption
<1>1. ASSUME NEW r \in Replica, NEW p \in Path, LocalEdit(r, p) PROVE TypeOK'
  <2> DEFINE new == (IF disk[r][p] = NoFile THEN {} ELSE disk[r][p]) \cup {edits + 1}
  <2>1. edits + 1 \in Edit /\ disk[r][p] \in Content \cup {NoFile}
    BY <1>1, PathAssumption DEF LocalEdit, Edit
  <2>2. new \in Content
    BY <2>1 DEF Content
  <2>3. /\ WriteFile(r, p, new) /\ edits' = edits + 1 /\ edits < MaxEdits
        /\ Touch(r, p) /\ UNCHANGED <<remoteVars, savedVars, jobVars, backup>>
    BY <1>1 DEF LocalEdit
  <2>4. edits' \in 0..MaxEdits
    BY <2>3, PathAssumption
  <2> HIDE DEF new
  <2> QED BY <2>2, <2>3, <2>4 DEF WriteFile, Touch
<1>2. ASSUME NEW r \in Replica, NEW p \in Path, LocalDelete(r, p) PROVE TypeOK'
  BY <1>2 DEF LocalDelete, Touch
<1>3. ASSUME NEW r \in Replica, LoseState(r) PROVE TypeOK'
  BY <1>3 DEF LoseState
<1>4. ASSUME NEW r \in Replica, PullBegin(r) PROVE TypeOK'
  BY <1>0, <1>4 DEF PullBegin, RouteEntry
<1>5. ASSUME NEW r \in Replica, NEW p \in Path, PullSpool(r, p) PROVE TypeOK'
  BY <1>5 DEF PullSpool
<1>6. ASSUME NEW r \in Replica, NEW p \in Path, PullSpoolFails(r, p) PROVE TypeOK'
  BY <1>6 DEF PullSpoolFails, Settle, Refuse
<1>7. ASSUME NEW r \in Replica, PullLock(r) PROVE TypeOK'
  BY <1>7 DEF PullLock
<1>8. ASSUME NEW r \in Replica, NEW p \in Path, PullApplyDecision(r, p) PROVE TypeOK'
  <2>1. spool[r][p] \in Content /\ manifest[r][p] \in Content
    BY <1>8 DEF PullApplyDecision
  <2>2. CASE disk[r][p] = NoFile /\ WriteFile(r, p, spool[r][p]) /\ UNCHANGED backup
    <3>1. disk'[r][p] \in Content
      BY <2>1, <2>2 DEF WriteFile
    <3> QED BY <1>8, <2>1, <2>2, <3>1 DEF PullApplyDecision, Settle, WriteFile
  <2>3. CASE disk[r][p] = spool[r][p] /\ UNCHANGED localVars
    BY <1>8, <2>1, <2>3 DEF PullApplyDecision, Settle
  <2>4. CASE disk[r][p] \notin {NoFile, spool[r][p]} /\ SaveBackup(r, p, spool[r][p]) /\
       UNCHANGED disk
    BY <1>8, <2>1, <2>4 DEF PullApplyDecision, Settle, SaveBackup
  <2> QED BY <1>8, <2>2, <2>3, <2>4 DEF PullApplyDecision
<1>9. ASSUME NEW r \in Replica, NEW p \in Path, PullApplyFails(r, p) PROVE TypeOK'
  BY <1>9 DEF PullApplyFails, Settle, Refuse
<1>10. ASSUME NEW r \in Replica, PullUnlock(r) PROVE TypeOK'
  BY <1>10 DEF PullUnlock
<1>11. ASSUME NEW r \in Replica, NEW p \in Path, PullFetch(r, p) PROVE TypeOK'
  BY <1>11 DEF PullFetch, Streams
<1>12. ASSUME NEW r \in Replica, NEW p \in Path, PullFetchFails(r, p) PROVE TypeOK'
  BY <1>12 DEF PullFetchFails, Settle, Refuse, Streams
<1>13. ASSUME NEW r \in Replica, PullBarrierRefuses(r) PROVE TypeOK'
  BY <1>13 DEF PullBarrierRefuses, Settle
<1>14. ASSUME NEW r \in Replica, PullAdmitInstall(r) PROVE TypeOK'
  BY <1>14 DEF PullAdmitInstall
<1>15. ASSUME NEW r \in Replica, PullResolve(r) PROVE TypeOK'
  <2>1. cur[r] \in Path /\ body[r] \in Content /\ disk[r][cur[r]] \in Content
    BY <1>15 DEF PullResolve
  <2>2. disk[r][cur[r]] \cup body[r] \in Content
    BY <2>1 DEF Content
  <2>3. CASE body' = [body EXCEPT ![r] = disk[r][cur[r]] \cup body[r]] /\ UNCHANGED localVars
    BY <1>15, <2>1, <2>2, <2>3 DEF PullResolve
  <2>4. CASE /\ SaveBackup(r, cur[r], body[r])
             /\ body' = [body EXCEPT ![r] = disk[r][cur[r]]]
             /\ UNCHANGED disk
    BY <1>15, <2>1, <2>4 DEF PullResolve, SaveBackup
  <2>5. CASE SaveBackup(r, cur[r], disk[r][cur[r]]) /\ UNCHANGED <<disk, body>>
    BY <1>15, <2>1, <2>5 DEF PullResolve, SaveBackup
  <2> QED BY <1>15, <2>3, <2>4, <2>5 DEF PullResolve
<1>16. ASSUME NEW r \in Replica, PullResolveFails(r) PROVE TypeOK'
  BY <1>16 DEF PullResolveFails, Settle, Refuse
<1>17. ASSUME NEW r \in Replica, PullWrite(r) PROVE TypeOK'
  BY <1>17 DEF PullWrite, WriteFile
<1>18. ASSUME NEW r \in Replica, PullWriteFails(r) PROVE TypeOK'
  BY <1>18 DEF PullWriteFails, Settle, Refuse
<1>19. ASSUME NEW r \in Replica, PullRecord(r) PROVE TypeOK'
  BY <1>0, <1>19 DEF PullRecord, Settle
<1>20. ASSUME NEW r \in Replica, PullRecordFails(r) PROVE TypeOK'
  BY <1>20 DEF PullRecordFails, Settle, Refuse
<1>21. ASSUME NEW r \in Replica, PullFinish(r) PROVE TypeOK'
  BY <1>21 DEF PullFinish, EndJob
<1>22. ASSUME NEW r \in Replica, PullInterrupted(r) PROVE TypeOK'
  BY <1>22 DEF PullInterrupted, EndJob
<1>23. ASSUME NEW r \in Replica, PushBegin(r) PROVE TypeOK'
  BY <1>0, <1>23 DEF PushBegin, IsCandidate
<1>24. ASSUME NEW r \in Replica, NEW p \in Path, PushRead(r, p) PROVE TypeOK'
  BY <1>24 DEF PushRead
<1>25. ASSUME NEW r \in Replica, NEW p \in Path, PushReadFails(r, p) PROVE TypeOK'
  BY <1>25 DEF PushReadFails, Settle
<1>26. ASSUME NEW r \in Replica, PushPutVerified(r) PROVE TypeOK'
  <2>1. cur[r] \in Path /\ body[r] \in Content /\ Store(cur[r], body[r])
    BY <1>26 DEF PushPutVerified
  <2> QED BY <1>26, <2>1, StoreKeepsTypes DEF PushPutVerified
<1>27. ASSUME NEW r \in Replica, PushPutFails(r) PROVE TypeOK'
  BY <1>27 DEF PushPutFails, Settle
<1>28. ASSUME NEW r \in Replica, PushPutAmbiguous(r) PROVE TypeOK'
  <2>1. cur[r] \in Path /\ body[r] \in Content
    BY <1>28 DEF PushPutAmbiguous
  <2>2. CASE Store(cur[r], body[r]) /\ UNCHANGED late
    BY <1>28, <2>1, <2>2, StoreKeepsTypes DEF PushPutAmbiguous
  <2>3. CASE late' = late \cup {<<cur[r], body[r]>>} /\ UNCHANGED <<server, since>>
    BY <1>28, <2>1, <2>3 DEF PushPutAmbiguous
  <2> QED BY <1>28, <2>2, <2>3 DEF PushPutAmbiguous
<1>29. ASSUME NEW p \in Path, NEW c \in Content, LatePutLands(p, c) PROVE TypeOK'
  BY <1>29, StoreKeepsTypes DEF LatePutLands
<1>30. ASSUME NEW p \in Path, NEW c \in Content, LatePutIsLost(p, c) PROVE TypeOK'
  BY <1>30 DEF LatePutIsLost
<1>31. ASSUME NEW r \in Replica, PushReconcileVerified(r) PROVE TypeOK'
  BY <1>31 DEF PushReconcileVerified
<1>32. ASSUME NEW r \in Replica, PushReconcilePending(r) PROVE TypeOK'
  BY <1>32 DEF PushReconcilePending, Settle
<1>33. ASSUME NEW r \in Replica, PushCheckpoint(r) PROVE TypeOK'
  BY <1>0, <1>33 DEF PushCheckpoint, Settle
<1>34. ASSUME NEW r \in Replica, PushCheckpointFails(r) PROVE TypeOK'
  BY <1>34 DEF PushCheckpointFails, EndJob
<1>35. ASSUME NEW r \in Replica, PushFinish(r) PROVE TypeOK'
  BY <1>35 DEF PushFinish, EndJob
<1>36. ASSUME NEW r \in Replica, Crash(r) PROVE TypeOK'
  BY <1>36 DEF Crash, EndJob
<1>37. QED
  BY <1>1, <1>2, <1>3, <1>4, <1>5, <1>6, <1>7, <1>8, <1>9, <1>10, <1>11, <1>12, <1>13, <1>14,
       <1>15, <1>16, <1>17, <1>18, <1>19, <1>20, <1>21, <1>22, <1>23, <1>24, <1>25, <1>26,
       <1>27, <1>28, <1>29, <1>30, <1>31, <1>32, <1>33, <1>34, <1>35, <1>36 DEF Next, PullStep,
       PushStep

(* Nothing takes a version out of the server's history.                    *)
LEMMA PublishedKept == TypeOK /\ EtagInv /\ Next => \A q \in Path : Published(q) \subseteq
     Published(q)'
<1> SUFFICES ASSUME TypeOK, EtagInv, Next PROVE \A q \in Path : Published(q) \subseteq Published(q)'
  OBVIOUS
<1>1. CASE UNCHANGED since
  BY <1>1 DEF Published
<1>2. CASE \E p \in Path, c \in Content : Store(p, c)
  BY <1>2, PublishedGrows
<1>3. ASSUME NEW r \in Replica, PushPutVerified(r) \/ PushPutAmbiguous(r)
      PROVE  UNCHANGED since \/ \E p \in Path, c \in Content : Store(p, c)
  BY <1>3 DEF PushPutVerified, PushPutAmbiguous, EtagInv
<1>4. ASSUME NEW r \in Replica, PushStep(r)
      PROVE  UNCHANGED since \/ \E p \in Path, c \in Content : Store(p, c)
  BY <1>3, <1>4 DEF PushStep, PushRead, PushReadFails, PushPutFails, PushReconcileVerified,
     PushReconcilePending, PushCheckpoint, PushCheckpointFails, PushFinish, remoteVars
<1>5. ASSUME NEW r \in Replica, PullStep(r) PROVE UNCHANGED since
  BY <1>5 DEF PullStep, PullSpool, PullSpoolFails, PullLock, PullApplyDecision, PullApplyFails,
     PullUnlock, PullFetch, PullFetchFails, PullBarrierRefuses, PullAdmitInstall, PullResolve,
     PullResolveFails, PullWrite, PullWriteFails, PullRecord, PullRecordFails, PullFinish,
     PullInterrupted, remoteVars
<1> QED
  BY <1>1, <1>2, <1>4, <1>5 DEF Next, LocalEdit, LocalDelete, LoseState, PullBegin, PushBegin,
     Crash, LatePutLands, LatePutIsLost, remoteVars

(* One step per action: each carries published ETags only.                 *)
LEMMA EtagStep == TypeOK /\ EtagInv /\ Next => EtagInv'
<1> SUFFICES ASSUME TypeOK, EtagInv, Next PROVE EtagInv'
  OBVIOUS
<1>b. \A q \in Path : Published(q) \subseteq Published(q)'
  BY PublishedKept
<1>a. ASSUME NEW p \in Path, NEW c \in Content, Store(p, c)
       PROVE  /\ c \in Published(p)'
              /\ \A q \in Path : server[q] # NoFile => server'[q] # NoFile
              /\ \A q \in Path : server'[q] # NoFile => server'[q] \in Published(q)'
  <2>1. \A q \in Path : server[q] # NoFile => server[q] \in Published(q)
    BY DEF EtagInv
  <2>2. /\ server'[p] = c /\ c \in Published(p)'
        /\ \A q \in Path \ {p} : server'[q] = server[q]
    BY <1>a, PublishedGrows
  <2>3. c # NoFile
    BY SentinelAssumption
  <2> QED BY <1>b, <2>1, <2>2, <2>3
<1> USE SentinelAssumption DEF TypeOK, EtagInv, EtagTruthful, MaybeContent, Record, Pcs, Routes,
     jobVars, remoteVars, localVars, savedVars, NoFiles, NoRoutes, NothingTracked
<1>1. ASSUME NEW r \in Replica, NEW p \in Path, LocalEdit(r, p) PROVE EtagInv'
  BY <1>1, <1>b DEF LocalEdit, WriteFile, MayWriteLocally
<1>2. ASSUME NEW r \in Replica, NEW p \in Path, LocalDelete(r, p) PROVE EtagInv'
  BY <1>2, <1>b DEF LocalDelete
<1>3. ASSUME NEW r \in Replica, LoseState(r) PROVE EtagInv'
  BY <1>3, <1>b DEF LoseState
<1>4. ASSUME NEW r \in Replica, PullBegin(r) PROVE EtagInv'
  BY <1>4, <1>b DEF PullBegin, RouteEntry
<1>5. ASSUME NEW r \in Replica, NEW p \in Path, PullSpool(r, p) PROVE EtagInv'
  BY <1>5, <1>b DEF PullSpool
<1>6. ASSUME NEW r \in Replica, NEW p \in Path, PullSpoolFails(r, p) PROVE EtagInv'
  BY <1>6, <1>b DEF PullSpoolFails, Settle, Refuse
<1>7. ASSUME NEW r \in Replica, PullLock(r) PROVE EtagInv'
  BY <1>7, <1>b DEF PullLock
<1>8. ASSUME NEW r \in Replica, NEW p \in Path, PullApplyDecision(r, p) PROVE EtagInv'
  BY <1>8, <1>b DEF PullApplyDecision, Settle, WriteFile, SaveBackup
<1>9. ASSUME NEW r \in Replica, NEW p \in Path, PullApplyFails(r, p) PROVE EtagInv'
  BY <1>9, <1>b DEF PullApplyFails, Settle, Refuse
<1>10. ASSUME NEW r \in Replica, PullUnlock(r) PROVE EtagInv'
  BY <1>10, <1>b DEF PullUnlock
<1>11. ASSUME NEW r \in Replica, NEW p \in Path, PullFetch(r, p) PROVE EtagInv'
  BY <1>11, <1>b DEF PullFetch, Streams
<1>12. ASSUME NEW r \in Replica, NEW p \in Path, PullFetchFails(r, p) PROVE EtagInv'
  BY <1>12, <1>b DEF PullFetchFails, Settle, Refuse, Streams
<1>13. ASSUME NEW r \in Replica, PullBarrierRefuses(r) PROVE EtagInv'
  BY <1>13, <1>b DEF PullBarrierRefuses, Settle
<1>14. ASSUME NEW r \in Replica, PullAdmitInstall(r) PROVE EtagInv'
  BY <1>14, <1>b DEF PullAdmitInstall
<1>15. ASSUME NEW r \in Replica, PullResolve(r) PROVE EtagInv'
  <2>1. body'[r] \in Content /\ pc'[r] = "write" /\ route[r][cur[r]] = "conflict" /\ cur[r] \in Path
    BY <1>15 DEF PullResolve, Content
  <2>2. \A x \in Replica \ {r} : pc'[x] = pc[x] /\ body'[x] = body[x]
    BY <1>15 DEF PullResolve
  <2>3. UNCHANGED <<server, state, mem, manifest, route, spool, cur>>
    BY <1>15 DEF PullResolve
  <2> QED BY <1>b, <2>1, <2>2, <2>3
<1>16. ASSUME NEW r \in Replica, PullResolveFails(r) PROVE EtagInv'
  BY <1>16, <1>b DEF PullResolveFails, Settle, Refuse
<1>17. ASSUME NEW r \in Replica, PullWrite(r) PROVE EtagInv'
  BY <1>17, <1>b DEF PullWrite, WriteFile
<1>18. ASSUME NEW r \in Replica, PullWriteFails(r) PROVE EtagInv'
  BY <1>18, <1>b DEF PullWriteFails, Settle, Refuse
<1>19. ASSUME NEW r \in Replica, PullRecord(r) PROVE EtagInv'
  BY <1>19, <1>b DEF PullRecord, Settle
<1>20. ASSUME NEW r \in Replica, PullRecordFails(r) PROVE EtagInv'
  BY <1>20, <1>b DEF PullRecordFails, Settle, Refuse
<1>21. ASSUME NEW r \in Replica, PullFinish(r) PROVE EtagInv'
  BY <1>21, <1>b DEF PullFinish, EndJob
<1>22. ASSUME NEW r \in Replica, PullInterrupted(r) PROVE EtagInv'
  BY <1>22, <1>b DEF PullInterrupted, EndJob
<1>23. ASSUME NEW r \in Replica, PushBegin(r) PROVE EtagInv'
  BY <1>23, <1>b DEF PushBegin, IsCandidate
<1>24. ASSUME NEW r \in Replica, NEW p \in Path, PushRead(r, p) PROVE EtagInv'
  BY <1>24, <1>b DEF PushRead
<1>25. ASSUME NEW r \in Replica, NEW p \in Path, PushReadFails(r, p) PROVE EtagInv'
  BY <1>25, <1>b DEF PushReadFails, Settle
<1>26. ASSUME NEW r \in Replica, PushPutVerified(r) PROVE EtagInv'
  <2>1. cur[r] \in Path /\ body[r] \in Content /\ Store(cur[r], body[r])
    BY <1>26 DEF PushPutVerified
  <2> QED BY <1>26, <1>b, <1>a, <2>1 DEF PushPutVerified
<1>27. ASSUME NEW r \in Replica, PushPutFails(r) PROVE EtagInv'
  BY <1>27, <1>b DEF PushPutFails, Settle
<1>28. ASSUME NEW r \in Replica, PushPutAmbiguous(r) PROVE EtagInv'
  <2>1. cur[r] \in Path /\ body[r] \in Content
    BY <1>28 DEF PushPutAmbiguous
  <2>2. CASE Store(cur[r], body[r])
    BY <1>28, <1>b, <1>a, <2>1, <2>2 DEF PushPutAmbiguous
  <2>3. CASE UNCHANGED <<server, since>>
    BY <1>28, <1>b, <2>1, <2>3 DEF PushPutAmbiguous
  <2> QED BY <1>28, <2>2, <2>3 DEF PushPutAmbiguous
<1>29. ASSUME NEW p \in Path, NEW c \in Content, LatePutLands(p, c) PROVE EtagInv'
  BY <1>29, <1>b, <1>a DEF LatePutLands
<1>30. ASSUME NEW p \in Path, NEW c \in Content, LatePutIsLost(p, c) PROVE EtagInv'
  BY <1>30, <1>b DEF LatePutIsLost
<1>31. ASSUME NEW r \in Replica, PushReconcileVerified(r) PROVE EtagInv'
  BY <1>31, <1>b DEF PushReconcileVerified
<1>32. ASSUME NEW r \in Replica, PushReconcilePending(r) PROVE EtagInv'
  BY <1>32, <1>b DEF PushReconcilePending, Settle
<1>33. ASSUME NEW r \in Replica, PushCheckpoint(r) PROVE EtagInv'
  BY <1>33, <1>b DEF PushCheckpoint, Settle
<1>34. ASSUME NEW r \in Replica, PushCheckpointFails(r) PROVE EtagInv'
  BY <1>34, <1>b DEF PushCheckpointFails, EndJob
<1>35. ASSUME NEW r \in Replica, PushFinish(r) PROVE EtagInv'
  BY <1>35, <1>b DEF PushFinish, EndJob
<1>36. ASSUME NEW r \in Replica, Crash(r) PROVE EtagInv'
  BY <1>36, <1>b DEF Crash, EndJob
<1>37. QED
  BY <1>1, <1>2, <1>3, <1>4, <1>5, <1>6, <1>7, <1>8, <1>9, <1>10, <1>11, <1>12, <1>13, <1>14,
       <1>15, <1>16, <1>17, <1>18, <1>19, <1>20, <1>21, <1>22, <1>23, <1>24, <1>25, <1>26,
       <1>27, <1>28, <1>29, <1>30, <1>31, <1>32, <1>33, <1>34, <1>35, <1>36 DEF Next, PullStep,
       PushStep

LEMMA InitInv == Init => TypeOK /\ EtagInv
<1> SUFFICES ASSUME Init PROVE TypeOK /\ EtagInv
  OBVIOUS
<1>1. TypeOK
  BY PathAssumption DEF Init, TypeOK, MaybeContent, Content, Record, Pcs, Routes, NoFiles, NoRoutes,
     NothingTracked
<1>2. EtagInv
  BY DEF Init, EtagInv, EtagTruthful, NoFiles, NoRoutes, NothingTracked
<1> QED
  BY <1>1, <1>2

LEMMA StutterInv == TypeOK /\ EtagInv /\ UNCHANGED vars => TypeOK' /\ EtagInv'
<1> SUFFICES ASSUME TypeOK, EtagInv, UNCHANGED vars PROVE TypeOK' /\ EtagInv'
  OBVIOUS
<1> USE DEF vars, jobVars, remoteVars, localVars, savedVars
<1>1. TypeOK'
  BY DEF TypeOK
<1>2. \A p \in Path : Published(p)' = Published(p)
  BY DEF Published
<1>3. EtagInv'
  BY <1>2 DEF EtagInv, EtagTruthful
<1> QED
  BY <1>1, <1>3

(* The inductive invariant holds in every reachable state.                 *)
THEOREM Invariant == Spec => [](TypeOK /\ EtagInv)
<1>1. TypeOK /\ EtagInv /\ [Next]_vars => (TypeOK /\ EtagInv)'
  BY TypeStep, EtagStep, StutterInv
<1> QED
  BY InitInv, <1>1, PTL DEF Spec

(* Every variable keeps its type: the saved entries are records, a job     *)
(* between two steps names a path and holds its bytes.                     *)
THEOREM TypeCorrect == Spec => []TypeOK
  BY Invariant, PTL

(* A push that cannot prove its write landed records nothing: every ETag   *)
(* in .sync-state.json was published under its path.                       *)
THEOREM EtagsAreTruthful == Spec => []EtagTruthful
<1>1. TypeOK /\ EtagInv => EtagTruthful
  BY DEF EtagInv
<1> QED
  BY <1>1, Invariant, PTL

-----------------------------------------------------------------------------
(* Receipts. A version reaches .sync-state.json long after it was received:  *)
(* between the two it is a manifest row, a spooled or fetched body, a merged   *)
(* one, a file. The invariant says of each how it stands to the versions the   *)
(* server held (S, since[p]) and to what this machine has seen (G, seen[r]).   *)

Got(p, etag, S, G) ==
  \E v \in S, s \in G :
    /\ v[1] = etag
    /\ s[1] = p
    /\ s[2] = v[2] \/ (p \in UnionPath /\ v[2] \subseteq s[2])

(* Bytes that hold the listed version, or one the server held after it.      *)
Brings(p, etag, bytes, S) ==
  \E v \in S : v[1] = etag /\ (bytes = v[2] \/ (p \in UnionPath /\ v[2] \subseteq bytes))

Pushing == {"push", "put", "reconcile", "checkpoint"}

(* What a job that stands at "at" carries: its manifest, spool, routes,       *)
(* memory, the path and bytes in hand, and whether it refused something.       *)
Carry(at, man, sp, way, m, c, b, rf, S, G) ==
  /\ \A p \in Path :
       /\ at \in Pushing \cup {"idle"} => man[p] = NoFile /\ sp[p] = NoFile
       /\ sp[p] # NoFile => <<man[p], sp[p]>> \in S[p]
       /\ m[p] # Untracked => Got(p, m[p].etag, S[p], G)
       /\ way[p] = "adopt" => Got(p, man[p], S[p], G)
       /\ at \notin Pushing => way[p] # "send"
       /\ at \in {"stream", "fetched", "write", "written"} => way[p] # "gate"
       /\ (/\ man[p] # NoFile /\ way[p] \in {"ignore", "done"}
           /\ ~rf /\ p \notin DecisionPath) => Got(p, man[p], S[p], G)
  /\ at = "fetched" => <<man[c], b>> \in S[c]
  /\ at = "write" => Got(c, man[c], S[c], G) \/ Brings(c, man[c], b, S[c])
  /\ at = "written" => Got(c, man[c], S[c], G)
  /\ at \in Pushing \ {"push"} => <<c, b>> \in G

CarryInv(r) ==
  Carry(pc[r], manifest[r], spool[r], route[r], mem[r], cur[r], body[r], refused[r],
        since, seen[r])

(* What a job is about to replace, unless the user came in between, is        *)
(* recorded, part of what replaces it, or backed up.                         *)
Spares(at, way, m, c, b, rc, D, K) ==
  \A p \in Path :
    p \notin rc /\ D[p] # NoFile =>
      /\ (way[p] = "install" /\ ~(at = "written" /\ c = p)) =>
           m[p] # Untracked /\ m[p].sha = D[p]
      /\ (at = "write" /\ c = p /\ way[p] = "conflict") =>
           D[p] \subseteq b \/ <<p, D[p]>> \in K

SparesInv(r) ==
  Spares(pc[r], route[r], mem[r], cur[r], body[r], raced[r], disk[r], backup[r])

(* Every file was seen, and what is saved was received.                      *)
Known(D, st, mark, S, G) ==
  /\ \A p \in Path : D[p] # NoFile => <<p, D[p]>> \in G
  /\ \A p \in Path : st[p] # Untracked => Got(p, st[p].etag, S[p], G)
  /\ \A p \in Path \ DecisionPath : mark[p] # NoFile => Got(p, mark[p], S[p], G)

KnownInv(r) == Known(disk[r], state[r], stamp[r], since, seen[r])

(* Whatever was published, the current object came at or after it.           *)
Ordered == \A p \in Path : \A c \in Published(p) : <<c, server[p]>> \in since[p]

ReceiptInv ==
  /\ Ordered
  /\ \A r \in Replica : CarryInv(r) /\ SparesInv(r) /\ KnownInv(r)

(* Versions and sights are never forgotten, so neither is a receipt.         *)
LEMMA GotGrows ==
  ASSUME NEW p, NEW e, NEW S, NEW G, NEW T, NEW H, S \subseteq T, G \subseteq H, Got(p, e, S, G)
  PROVE  Got(p, e, T, H)
  BY DEF Got

LEMMA CarryGrows ==
  ASSUME NEW at, NEW man, NEW sp, NEW way, NEW m, NEW c, NEW b, NEW rf, NEW S, NEW G,
         NEW T, NEW H, \A p \in Path : S[p] \subseteq T[p], G \subseteq H,
         at \in {"fetched", "write", "written"} => c \in Path,
         Carry(at, man, sp, way, m, c, b, rf, S, G)
  PROVE  Carry(at, man, sp, way, m, c, b, rf, T, H)
<1>1. \A p \in Path : \A e : Got(p, e, S[p], G) => Got(p, e, T[p], H)
  BY GotGrows
<1>2. \A p \in Path : \A e : Brings(p, e, b, S[p]) => Brings(p, e, b, T[p])
  BY DEF Brings
<1> QED
  BY <1>1, <1>2 DEF Carry

(* A PUT adds pairs that end in the new object; nothing else touches the      *)
(* history.                                                                *)
LEMMA HistoryGrows ==
  TypeOK /\ EtagInv /\ Next =>
    \/ UNCHANGED <<server, since>>
    \/ \E p \in Path, c \in Content : Store(p, c)
<1> SUFFICES ASSUME TypeOK, EtagInv, Next
             PROVE  \/ UNCHANGED <<server, since>>
                    \/ \E p \in Path, c \in Content : Store(p, c)
  OBVIOUS
<1>1. ASSUME NEW r \in Replica, PushPutVerified(r) \/ PushPutAmbiguous(r)
      PROVE  UNCHANGED <<server, since>> \/ \E p \in Path, c \in Content : Store(p, c)
  <2>1. cur[r] \in Path /\ body[r] \in Content
    BY <1>1 DEF PushPutVerified, PushPutAmbiguous, EtagInv
  <2> QED
    BY <1>1, <2>1 DEF PushPutVerified, PushPutAmbiguous
<1>2. ASSUME NEW r \in Replica, PushStep(r)
      PROVE  UNCHANGED <<server, since>> \/ \E p \in Path, c \in Content : Store(p, c)
  BY <1>1, <1>2 DEF PushStep, PushRead, PushReadFails, PushPutFails, PushReconcileVerified,
     PushReconcilePending, PushCheckpoint, PushCheckpointFails, PushFinish, remoteVars
<1>3. ASSUME NEW r \in Replica, PullStep(r) PROVE UNCHANGED <<server, since>>
  BY <1>3 DEF PullStep, PullSpool, PullSpoolFails, PullLock, PullApplyDecision, PullApplyFails,
     PullUnlock, PullFetch, PullFetchFails, PullBarrierRefuses, PullAdmitInstall, PullResolve,
     PullResolveFails, PullWrite, PullWriteFails, PullRecord, PullRecordFails, PullFinish,
     PullInterrupted, remoteVars
<1> QED
  BY <1>2, <1>3 DEF Next, LocalEdit, LocalDelete, LoseState, PullBegin, PushBegin,
     Crash, LatePutLands, LatePutIsLost, remoteVars

LEMMA SinceGrows ==
  ASSUME TypeOK, EtagInv, Next
  PROVE  \A p \in Path : since[p] \subseteq since'[p]
<1>1. CASE UNCHANGED <<server, since>>
  BY <1>1
<1>2. ASSUME NEW q \in Path, NEW c \in Content, Store(q, c)
      PROVE  \A p \in Path : since[p] \subseteq since'[p]
  BY <1>2 DEF Store, TypeOK
<1> QED
  BY <1>1, <1>2, HistoryGrows

LEMMA OrderStep ==
  ASSUME TypeOK, EtagInv, Next, Ordered
  PROVE  Ordered'
<1>1. CASE UNCHANGED <<server, since>>
  BY <1>1 DEF Ordered, Published
<1>2. ASSUME NEW q \in Path, NEW c \in Content, Store(q, c)
      PROVE  Ordered'
  <2>1. /\ server'[q] = c /\ since'[q] = since[q] \cup ((Published(q) \cup {c}) \X {c})
        /\ \A p \in Path \ {q} : server'[p] = server[p] /\ since'[p] = since[p]
    BY <1>2 DEF Store, TypeOK
  <2>2. \A x \in Content : <<x, x>> \in since'[q] => <<x, c>> \in since'[q]
    BY <2>1 DEF Published
  <2>3. \A p \in Path : \A x \in Content : <<x, x>> \in since'[p] => <<x, server'[p]>> \in since'[p]
    BY <2>1, <2>2 DEF Ordered, Published
  <2> QED
    BY <2>3 DEF Ordered, Published
<1> QED
  BY <1>1, <1>2, HistoryGrows

(* The saved and the seen of one machine.                                    *)

LEMMA KnownGrows ==
  ASSUME NEW D, NEW st, NEW mark, NEW S, NEW G, NEW T, NEW H,
         \A p \in Path : S[p] \subseteq T[p], G \subseteq H, Known(D, st, mark, S, G)
  PROVE  Known(D, st, mark, T, H)
<1>1. \A p \in Path : \A e : Got(p, e, S[p], G) => Got(p, e, T[p], H)
  BY GotGrows
<1> QED
  BY <1>1 DEF Known

(* Machines another one's step leaves alone.                                 *)
Still(r) ==
  /\ disk'[r] = disk[r] /\ state'[r] = state[r] /\ stamp'[r] = stamp[r]
  /\ backup'[r] = backup[r] /\ seen'[r] = seen[r]
  /\ pc'[r] = pc[r] /\ route'[r] = route[r] /\ manifest'[r] = manifest[r] /\ mem'[r] = mem[r]
  /\ spool'[r] = spool[r] /\ cur'[r] = cur[r] /\ body'[r] = body[r]
  /\ refused'[r] = refused[r] /\ raced'[r] = raced[r]

LEMMA StillKeeps ==
  ASSUME TypeOK, EtagInv, NEW r \in Replica, Still(r), \A p \in Path : since[p] \subseteq since'[p],
         CarryInv(r), SparesInv(r), KnownInv(r)
  PROVE  CarryInv(r)' /\ SparesInv(r)' /\ KnownInv(r)'
<1>1. pc[r] \in {"fetched", "write", "written"} => cur[r] \in Path
  BY DEF EtagInv
<1>2. Carry(pc[r], manifest[r], spool[r], route[r], mem[r], cur[r], body[r], refused[r],
            since', seen[r])
  BY <1>1, CarryGrows DEF CarryInv
<1>3. Known(disk[r], state[r], stamp[r], since', seen[r])
  BY KnownGrows DEF KnownInv
<1> QED
  BY <1>2, <1>3 DEF CarryInv, SparesInv, KnownInv, Still

LEMMA OthersAreStill ==
  ASSUME TypeOK, NEW r \in Replica, NEW x \in Replica \ {r},
         \/ \E p \in Path : LocalEdit(r, p) \/ LocalDelete(r, p)
         \/ LoseState(r) \/ PullBegin(r) \/ PushBegin(r)
         \/ PullStep(r) \/ PushStep(r) \/ Crash(r)
  PROVE  Still(x)
<1> USE DEF TypeOK, Still, jobVars, localVars, savedVars
<1>1. ASSUME NEW p \in Path, LocalEdit(r, p) \/ LocalDelete(r, p) PROVE Still(x)
  BY <1>1 DEF LocalEdit, LocalDelete, WriteFile, Touch
<1>2. ASSUME LoseState(r) \/ PullBegin(r) \/ PushBegin(r) \/ Crash(r) PROVE Still(x)
  BY <1>2 DEF LoseState, PullBegin, PushBegin, Crash, EndJob
<1>3. ASSUME NEW p \in Path, PullSpool(r, p) \/ PullSpoolFails(r, p) \/ PullApplyFails(r, p)
                             \/ PullFetch(r, p) \/ PullFetchFails(r, p)
      PROVE  Still(x)
  BY <1>3 DEF PullSpool, PullSpoolFails, PullApplyFails, PullFetch, PullFetchFails, Settle, Refuse
<1>4. ASSUME NEW p \in Path, PullApplyDecision(r, p) PROVE Still(x)
  BY <1>4 DEF PullApplyDecision, WriteFile, SaveBackup, Settle
<1>5. ASSUME PullLock(r) \/ PullUnlock(r) \/ PullBarrierRefuses(r) \/ PullAdmitInstall(r)
      PROVE  Still(x)
  BY <1>5 DEF PullLock, PullUnlock, PullBarrierRefuses, PullAdmitInstall, Settle
<1>6. ASSUME PullResolve(r) PROVE Still(x)
  BY <1>6 DEF PullResolve, SaveBackup
<1>7. ASSUME PullResolveFails(r) \/ PullWrite(r) \/ PullWriteFails(r) PROVE Still(x)
  BY <1>7 DEF PullResolveFails, PullWrite, PullWriteFails, WriteFile, Settle, Refuse
<1>8. ASSUME PullRecord(r) \/ PullRecordFails(r) \/ PullFinish(r) \/ PullInterrupted(r)
      PROVE  Still(x)
  BY <1>8 DEF PullRecord, PullRecordFails, PullFinish, PullInterrupted, Settle, Refuse, EndJob
<1>9. ASSUME NEW p \in Path, PushRead(r, p) \/ PushReadFails(r, p) PROVE Still(x)
  BY <1>9 DEF PushRead, PushReadFails, Settle
<1>10. ASSUME PushPutVerified(r) \/ PushPutFails(r) \/ PushPutAmbiguous(r)
              \/ PushReconcileVerified(r) \/ PushReconcilePending(r)
       PROVE  Still(x)
  BY <1>10 DEF PushPutVerified, PushPutFails, PushPutAmbiguous, PushReconcileVerified,
               PushReconcilePending, Settle
<1>11. ASSUME PushCheckpoint(r) \/ PushCheckpointFails(r) \/ PushFinish(r) PROVE Still(x)
  BY <1>11 DEF PushCheckpoint, PushCheckpointFails, PushFinish, Settle, EndJob
<1> QED
  BY <1>1, <1>2, <1>3, <1>4, <1>5, <1>6, <1>7, <1>8, <1>9, <1>10, <1>11 DEF PullStep, PushStep

(* What one machine carries and saves, when it steps itself.                 *)
SoundJob(r) == CarryInv(r) /\ KnownInv(r)

(* A job that carries nothing: none is running, or its lock is released.     *)
LEMMA NothingCarried ==
  ASSUME NEW c, NEW b, NEW rf, NEW S, NEW G
  PROVE  Carry("idle", NoFiles, NoFiles, NoRoutes, NothingTracked, c, b, rf, S, G)
  BY DEF Carry, NoFiles, NoRoutes, NothingTracked, Pushing

LEMMA EndCarries ==
  ASSUME TypeOK, NEW r \in Replica, EndJob(r)
  PROVE  CarryInv(r)'
<1>1. /\ pc'[r] = "idle" /\ manifest'[r] = NoFiles /\ spool'[r] = NoFiles /\ route'[r] = NoRoutes
      /\ mem'[r] = NothingTracked
  BY DEF EndJob, TypeOK
<1> QED
  BY <1>1, NothingCarried DEF CarryInv

(* The user's own steps.                                                     *)
LEMMA UserSound ==
  ASSUME TypeOK, EtagInv, NEW r \in Replica, NEW q \in Path, LocalEdit(r, q) \/ LocalDelete(r, q),
         SoundJob(r)
  PROVE  SoundJob(r)'
<1> USE DEF TypeOK, jobVars, remoteVars, localVars, savedVars
<1>1. /\ pc' = pc /\ manifest' = manifest /\ spool' = spool /\ route' = route /\ mem' = mem
      /\ cur' = cur /\ body' = body /\ refused' = refused /\ since' = since
      /\ state' = state /\ stamp' = stamp
  BY DEF LocalEdit, LocalDelete
<1>2. seen[r] \subseteq seen'[r]
  BY DEF LocalEdit, LocalDelete, WriteFile
<1>3. \A p \in Path : disk'[r][p] # NoFile =>
        disk'[r][p] = disk[r][p] \/ <<p, disk'[r][p]>> \in seen'[r]
  <2>1. CASE LocalDelete(r, q)
    BY <2>1 DEF LocalDelete
  <2>2. CASE LocalEdit(r, q)
    <3>1. PICK c : WriteFile(r, q, c)
      BY <2>2 DEF LocalEdit
    <3> QED
      BY <3>1 DEF WriteFile
  <2> QED
    BY <2>1, <2>2
<1>4. pc[r] \in {"fetched", "write", "written"} => cur[r] \in Path
  BY DEF EtagInv
<1>5. Carry(pc[r], manifest[r], spool[r], route[r], mem[r], cur[r], body[r], refused[r],
            since, seen'[r])
  BY <1>2, <1>4, CarryGrows DEF SoundJob, CarryInv
<1>6. Known(disk[r], state[r], stamp[r], since, seen'[r])
  BY <1>2, KnownGrows DEF SoundJob, KnownInv
<1>7. Known(disk'[r], state[r], stamp[r], since, seen'[r])
  BY <1>3, <1>6 DEF Known
<1> QED
  BY <1>1, <1>5, <1>7 DEF SoundJob, CarryInv, KnownInv

LEMMA LossSound ==
  ASSUME TypeOK, NEW r \in Replica, LoseState(r), SoundJob(r)
  PROVE  SoundJob(r)'
<1> USE DEF TypeOK, jobVars, remoteVars, localVars, savedVars
<1>1. CarryInv(r)'
  BY DEF LoseState, SoundJob, CarryInv
<1>2. disk' = disk /\ seen' = seen /\ since' = since /\ state'[r] = NothingTracked /\ stamp'[r] = NoFiles
  BY DEF LoseState
<1>3. KnownInv(r)'
  BY <1>2 DEF SoundJob, KnownInv, Known, NothingTracked, NoFiles
<1> QED
  BY <1>1, <1>3 DEF SoundJob

(* The current object is one this machine has if its own file is the same.   *)
LEMMA ObjectGot ==
  ASSUME NEW p \in Path, NEW r \in Replica, EtagInv, Ordered, server[p] # NoFile,
         <<p, server[p]>> \in seen[r]
  PROVE  Got(p, server[p], since[p], seen[r])
<1>1. server[p] \in Published(p)
  BY DEF EtagInv
<1>2. <<server[p], server[p]>> \in since[p]
  BY <1>1 DEF Published
<1> QED
  BY <1>2 DEF Got

LEMMA BeginSound ==
  ASSUME TypeOK, EtagInv, Ordered, NEW r \in Replica, PullBegin(r) \/ PushBegin(r), SoundJob(r)
  PROVE  SoundJob(r)'
<1> USE DEF TypeOK, jobVars, remoteVars, localVars, savedVars
<1>1. pc[r] = "idle" /\ disk' = disk /\ seen' = seen /\ since' = since /\ state' = state
      /\ stamp' = stamp /\ mem'[r] = state[r] /\ spool' = spool
  BY DEF PullBegin, PushBegin
<1>2. KnownInv(r)'
  BY <1>1 DEF SoundJob, KnownInv
<1>3. /\ \A p \in Path : spool[r][p] = NoFile /\ manifest[r][p] = NoFile
      /\ \A p \in Path : state[r][p] # Untracked => Got(p, state[r][p].etag, since[p], seen[r])
      /\ \A p \in Path : disk[r][p] # NoFile => <<p, disk[r][p]>> \in seen[r]
  BY <1>1 DEF SoundJob, CarryInv, Carry, KnownInv, Known
<1>4. CASE PullBegin(r)
  <2>1. manifest'[r] = server /\ pc'[r] = "spool" /\ \A p \in Path : route'[r][p] = RouteEntry(r, p)
    BY <1>4 DEF PullBegin
  <2>2. \A p \in Path : RouteEntry(r, p) = "adopt" => Got(p, server[p], since[p], seen[r])
    <3> TAKE p \in Path
    <3> HAVE RouteEntry(r, p) = "adopt"
    <3>1. disk[r][p] # NoFile /\ disk[r][p] = server[p]
      BY DEF RouteEntry, MatchesEtag
    <3> QED
      BY <1>3, <3>1, ObjectGot
  <2>3. \A p \in Path : RouteEntry(r, p) = "ignore" /\ server[p] # NoFile =>
                          Got(p, server[p], since[p], seen[r])
    <3> TAKE p \in Path
    <3> HAVE RouteEntry(r, p) = "ignore" /\ server[p] # NoFile
    <3>1. state[r][p] # Untracked /\ state[r][p].etag = server[p]
      BY DEF RouteEntry, ChangedRemotely
    <3> QED
      BY <1>3, <3>1
  <2>4. \A p \in Path : RouteEntry(r, p) \notin {"done", "send"}
    BY DEF RouteEntry
  <2> HIDE DEF RouteEntry
  <2>5. Carry("spool", server, spool[r], route'[r], state[r], cur'[r], body'[r], refused'[r],
              since, seen[r])
    BY <1>3, <2>1, <2>2, <2>3, <2>4 DEF Carry, Pushing
  <2> QED
    BY <1>1, <1>2, <2>1, <2>5 DEF SoundJob, CarryInv
<1>5. CASE PushBegin(r)
  <2>1. manifest' = manifest /\ pc'[r] = "push" /\ \A p \in Path : route'[r][p] \in {"send", "ignore"}
    BY <1>5 DEF PushBegin
  <2>2. Carry("push", manifest[r], spool[r], route'[r], state[r], cur'[r], body'[r], refused'[r],
              since, seen[r])
    BY <1>3, <2>1 DEF Carry, Pushing
  <2> QED
    BY <1>1, <1>2, <2>1, <2>2 DEF SoundJob, CarryInv
<1> QED
  BY <1>4, <1>5

(* The pull. Its settled and refused rows carry nothing new.                 *)

LEMMA RefusalSound ==
  ASSUME TypeOK, EtagInv, NEW r \in Replica, SoundJob(r),
         \/ \E p \in Path : PullSpoolFails(r, p) \/ PullApplyFails(r, p) \/ PullFetchFails(r, p)
         \/ PullBarrierRefuses(r) \/ PullResolveFails(r) \/ PullWriteFails(r) \/ PullRecordFails(r)
  PROVE  SoundJob(r)'
<1> USE DEF TypeOK, jobVars, remoteVars, localVars, savedVars
<1>1. PICK p \in Path, to \in {"spool", "locked", "stream"} :
        /\ Settle(r, p, to)
        /\ refused'[r] \/ (p \in DecisionPath /\ refused'[r] = refused[r])
        /\ pc[r] \in {"spool", "locked", "stream", "fetched", "write", "written"}
        /\ to = "stream" => pc[r] \notin {"spool", "locked"}
        /\ UNCHANGED <<remoteVars, localVars, savedVars, manifest, mem, spool>>
  <2>1. ASSUME NEW q \in Path, PullSpoolFails(r, q) \/ PullApplyFails(r, q) \/ PullFetchFails(r, q)
        PROVE  /\ \E to \in {"spool", "locked", "stream"} :
                    Settle(r, q, to) /\ (to = "stream" => pc[r] \notin {"spool", "locked"})
               /\ refused'[r]
               /\ pc[r] \in {"spool", "locked", "stream", "fetched", "write", "written"}
               /\ UNCHANGED <<remoteVars, localVars, savedVars, manifest, mem, spool>>
    BY <2>1 DEF PullSpoolFails, PullApplyFails, PullFetchFails, Refuse, Streams
  <2>2. ASSUME PullBarrierRefuses(r)
        PROVE  /\ Settle(r, cur[r], "stream") /\ cur[r] \in Path
               /\ cur[r] \in DecisionPath /\ refused'[r] = refused[r]
               /\ pc[r] = "fetched"
               /\ UNCHANGED <<remoteVars, localVars, savedVars, manifest, mem, spool>>
    BY <2>2 DEF PullBarrierRefuses, NeedsDecisionGate, EtagInv
  <2>3. ASSUME PullResolveFails(r) \/ PullWriteFails(r) \/ PullRecordFails(r)
        PROVE  /\ Settle(r, cur[r], "stream") /\ cur[r] \in Path
               /\ refused'[r]
               /\ pc[r] \in {"fetched", "write", "written"}
               /\ UNCHANGED <<remoteVars, localVars, savedVars, manifest, mem, spool>>
    BY <2>3 DEF PullResolveFails, PullWriteFails, PullRecordFails, Refuse, EtagInv
  <2> QED
    BY <2>1, <2>2, <2>3
<1>2. /\ pc'[r] = to /\ route'[r] = [route[r] EXCEPT ![p] = "done"]
      /\ manifest' = manifest /\ mem' = mem /\ spool' = spool /\ since' = since /\ seen' = seen
      /\ disk' = disk /\ state' = state /\ stamp' = stamp
  BY <1>1 DEF Settle
<1>3. Carry(to, manifest[r], spool[r], route'[r], mem[r], cur'[r], body'[r], refused'[r],
            since, seen[r])
  <2>1. /\ route[r] \in [Path -> Routes] /\ pc[r] \notin Pushing \cup {"idle"} /\ to # "push"
        /\ to = "stream" => pc[r] \in {"stream", "fetched", "write", "written"}
    BY <1>1 DEF Pushing
  <2>2. Carry(pc[r], manifest[r], spool[r], route[r], mem[r], cur[r], body[r], refused[r],
              since, seen[r])
    BY DEF SoundJob, CarryInv
  <2>3. (refused[r] => refused'[r]) /\ (refused'[r] \/ p \in DecisionPath)
    BY <1>1
  <2>4. \A q \in Path \ {p} : route'[r][q] = route[r][q]
    BY <1>2, <2>1
  <2>5. route'[r][p] = "done" /\ (~refused'[r] => ~refused[r])
    BY <1>2, <2>1, <2>3
  <2> HIDE DEF TypeOK
  <2> QED
    BY <2>1, <2>2, <2>3, <2>4, <2>5 DEF Carry, Pushing
<1>4. KnownInv(r)'
  BY <1>2 DEF SoundJob, KnownInv
<1> QED
  BY <1>2, <1>3, <1>4 DEF SoundJob, CarryInv

LEMMA SpoolSound ==
  ASSUME TypeOK, EtagInv, Ordered, NEW r \in Replica, SoundJob(r),
         (\E p \in Path : PullSpool(r, p)) \/ PullLock(r)
  PROVE  SoundJob(r)'
<1> USE DEF TypeOK, jobVars, remoteVars, localVars, savedVars
<1>1. /\ pc[r] = "spool" /\ pc'[r] \in {"spool", "locked"}
      /\ route' = route /\ manifest' = manifest /\ mem' = mem /\ refused' = refused
      /\ cur' = cur /\ body' = body
      /\ since' = since /\ seen' = seen /\ disk' = disk /\ state' = state /\ stamp' = stamp
  BY DEF PullSpool, PullLock
<1>2. \A p \in Path : spool'[r][p] # NoFile => <<manifest[r][p], spool'[r][p]>> \in since[p]
  <2>1. \A p \in Path : spool[r][p] # NoFile => <<manifest[r][p], spool[r][p]>> \in since[p]
    BY DEF SoundJob, CarryInv, Carry
  <2>2. ASSUME NEW q \in Path, PullSpool(r, q)
        PROVE  <<manifest[r][q], spool'[r][q]>> \in since[q]
    <3>1. manifest[r][q] \in Published(q) /\ manifest[r][q] \in Content /\ spool'[r][q] = server[q]
      BY <2>2 DEF PullSpool, EtagInv, Published
    <3> QED
      BY <3>1 DEF Ordered
  <2>3. ASSUME NEW q \in Path, PullSpool(r, q), NEW p \in Path, p # q
        PROVE  spool'[r][p] = spool[r][p]
    BY <2>3 DEF PullSpool
  <2> QED
    BY <2>1, <2>2, <2>3 DEF PullLock
<1>3. CarryInv(r)'
  <2> HIDE DEF TypeOK
  <2> QED
    BY <1>1, <1>2 DEF SoundJob, CarryInv, Carry, Pushing
<1>4. KnownInv(r)'
  BY <1>1 DEF SoundJob, KnownInv
<1> QED
  BY <1>3, <1>4 DEF SoundJob

(* The server's body is installed, equal, or in the backup: it was seen.     *)
LEMMA ApplySound ==
  ASSUME TypeOK, EtagInv, NEW r \in Replica, NEW q \in Path, PullApplyDecision(r, q), SoundJob(r)
  PROVE  SoundJob(r)'
<1> USE DEF TypeOK, jobVars, remoteVars, localVars, savedVars
<1>1. /\ pc[r] = "locked" /\ pc'[r] = "locked" /\ route[r][q] = "gate"
      /\ manifest' = manifest /\ spool' = spool /\ refused' = refused
      /\ since' = since /\ state' = state /\ stamp' = stamp
      /\ route'[r][q] = "done" /\ mem'[r][q].etag = manifest[r][q]
      /\ \A p \in Path \ {q} : route'[r][p] = route[r][p] /\ mem'[r][p] = mem[r][p]
  BY DEF PullApplyDecision, Settle
<1>2. seen[r] \subseteq seen'[r] /\ <<q, spool[r][q]>> \in seen'[r]
      /\ \A p \in Path : disk'[r][p] = disk[r][p] \/ (p = q /\ disk'[r][p] = spool[r][p])
  <2>1. CASE disk[r][q] = NoFile /\ WriteFile(r, q, spool[r][q])
    BY <2>1 DEF WriteFile
  <2>2. CASE disk[r][q] # NoFile /\ disk[r][q] = spool[r][q] /\ UNCHANGED localVars
    BY <2>2 DEF SoundJob, KnownInv, Known
  <2>3. CASE SaveBackup(r, q, spool[r][q]) /\ UNCHANGED disk
    BY <2>3 DEF SaveBackup
  <2>4. spool[r][q] # NoFile
    BY <1>1 DEF EtagInv
  <2> QED
    BY <2>1, <2>2, <2>3, <2>4 DEF PullApplyDecision
<1>3. Got(q, manifest[r][q], since[q], seen'[r])
  <2>1. <<manifest[r][q], spool[r][q]>> \in since[q]
    BY <1>1 DEF SoundJob, CarryInv, Carry, EtagInv
  <2> HIDE DEF TypeOK
  <2> QED
    BY <1>2, <2>1 DEF Got
<1>4. \A p \in Path : \A e : Got(p, e, since[p], seen[r]) => Got(p, e, since[p], seen'[r])
  BY <1>2, GotGrows
<1>5. CarryInv(r)'
  <2> HIDE DEF TypeOK
  <2> QED
    BY <1>1, <1>3, <1>4 DEF SoundJob, CarryInv, Carry, Pushing
<1>6. KnownInv(r)'
  <2> HIDE DEF TypeOK
  <2> QED
    BY <1>1, <1>2, <1>4 DEF SoundJob, KnownInv, Known
<1> QED
  BY <1>5, <1>6 DEF SoundJob

LEMMA UnlockSound ==
  ASSUME TypeOK, EtagInv, NEW r \in Replica, PullUnlock(r), SoundJob(r)
  PROVE  SoundJob(r)'
<1> USE DEF TypeOK, jobVars, remoteVars, localVars, savedVars
<1>1. /\ pc[r] = "locked" /\ pc'[r] = "stream" /\ \A p \in Path : route[r][p] # "gate"
      /\ manifest' = manifest /\ spool' = spool /\ refused' = refused
      /\ since' = since /\ seen' = seen /\ disk' = disk /\ state' = state /\ stamp' = stamp
      /\ \A p \in Path :
           IF route[r][p] = "adopt"
           THEN mem'[r][p].etag = manifest[r][p] /\ route'[r][p] = "done"
           ELSE mem'[r][p] = mem[r][p] /\ route'[r][p] = route[r][p]
  BY DEF PullUnlock
<1>2. CarryInv(r)'
  <2> HIDE DEF TypeOK
  <2> QED
    BY <1>1 DEF SoundJob, CarryInv, Carry, Pushing
<1>3. KnownInv(r)'
  BY <1>1 DEF SoundJob, KnownInv
<1> QED
  BY <1>2, <1>3 DEF SoundJob

LEMMA FetchSound ==
  ASSUME TypeOK, EtagInv, Ordered, NEW r \in Replica, SoundJob(r),
         (\E p \in Path : PullFetch(r, p)) \/ PullAdmitInstall(r)
  PROVE  SoundJob(r)'
<1> USE DEF TypeOK, jobVars, remoteVars, localVars, savedVars
<1>1. /\ pc[r] \in {"stream", "fetched"}
      /\ route' = route /\ manifest' = manifest /\ mem' = mem /\ refused' = refused
      /\ spool' = spool
      /\ since' = since /\ seen' = seen /\ disk' = disk /\ state' = state /\ stamp' = stamp
  BY DEF PullFetch, PullAdmitInstall, Streams
<1>2. \/ pc'[r] = "fetched" /\ <<manifest[r][cur'[r]], body'[r]>> \in since[cur'[r]]
      \/ pc'[r] = "write" /\ Brings(cur'[r], manifest[r][cur'[r]], body'[r], since[cur'[r]])
  <2>1. ASSUME NEW q \in Path, PullFetch(r, q)
        PROVE  pc'[r] = "fetched" /\ <<manifest[r][cur'[r]], body'[r]>> \in since[cur'[r]]
    <3>1. /\ pc'[r] = "fetched" /\ cur'[r] = q /\ body'[r] = server[q]
          /\ manifest[r][q] \in Published(q) /\ manifest[r][q] \in Content
      BY <2>1 DEF PullFetch, Streams, EtagInv, Published
    <3> QED
      BY <3>1 DEF Ordered
  <2>2. ASSUME PullAdmitInstall(r)
        PROVE  pc'[r] = "write" /\ Brings(cur'[r], manifest[r][cur'[r]], body'[r], since[cur'[r]])
    <3>1. pc[r] = "fetched" /\ pc'[r] = "write" /\ cur' = cur /\ body' = body
      BY <2>2 DEF PullAdmitInstall
    <3>2. <<manifest[r][cur[r]], body[r]>> \in since[cur[r]]
      BY <3>1 DEF SoundJob, CarryInv, Carry
    <3> QED
      BY <3>1, <3>2 DEF Brings
  <2> QED
    BY <2>1, <2>2
<1>3. CarryInv(r)'
  <2> HIDE DEF TypeOK
  <2> QED
    BY <1>1, <1>2 DEF SoundJob, CarryInv, Carry, Pushing
<1>4. KnownInv(r)'
  BY <1>1 DEF SoundJob, KnownInv
<1> QED
  BY <1>3, <1>4 DEF SoundJob

(* A conflict: the merge holds both sides, or the losing side is backed up.   *)
LEMMA ResolveSound ==
  ASSUME TypeOK, EtagInv, NEW r \in Replica, PullResolve(r), SoundJob(r)
  PROVE  SoundJob(r)'
<1> USE DEF TypeOK, jobVars, remoteVars, localVars, savedVars
<1> DEFINE q == cur[r]
<1>1. /\ pc[r] = "fetched" /\ pc'[r] = "write" /\ cur' = cur /\ q \in Path
      /\ route' = route /\ manifest' = manifest /\ mem' = mem /\ refused' = refused
      /\ spool' = spool
      /\ since' = since /\ disk' = disk /\ state' = state /\ stamp' = stamp
  BY DEF PullResolve, EtagInv
<1>2. seen[r] \subseteq seen'[r]
  BY DEF PullResolve, SaveBackup
<1>3. <<manifest[r][q], body[r]>> \in since[q]
  BY <1>1 DEF SoundJob, CarryInv, Carry
<1>4. \/ q \in UnionPath /\ body[r] \subseteq body'[r]
      \/ <<q, body[r]>> \in seen'[r]
      \/ body'[r] = body[r]
  BY DEF PullResolve, SaveBackup
<1>5. Got(q, manifest[r][q], since[q], seen'[r]) \/ Brings(q, manifest[r][q], body'[r], since[q])
  <2> HIDE DEF TypeOK, q
  <2> QED
    BY <1>3, <1>4 DEF Got, Brings
<1>6. \A p \in Path : \A e : Got(p, e, since[p], seen[r]) => Got(p, e, since[p], seen'[r])
  BY <1>2, GotGrows
<1>7. CarryInv(r)'
  <2> HIDE DEF TypeOK
  <2> QED
    BY <1>1, <1>5, <1>6 DEF SoundJob, CarryInv, Carry, Pushing
<1>8. KnownInv(r)'
  <2> HIDE DEF TypeOK
  <2> QED
    BY <1>1, <1>2, <1>6 DEF SoundJob, KnownInv, Known
<1> QED
  BY <1>7, <1>8 DEF SoundJob

LEMMA WriteSound ==
  ASSUME TypeOK, EtagInv, NEW r \in Replica, PullWrite(r), SoundJob(r)
  PROVE  SoundJob(r)'
<1> USE DEF TypeOK, jobVars, remoteVars, localVars, savedVars
<1> DEFINE q == cur[r]
<1>1. /\ pc[r] = "write" /\ pc'[r] = "written" /\ cur' = cur /\ q \in Path /\ body' = body
      /\ route' = route /\ manifest' = manifest /\ mem' = mem /\ refused' = refused
      /\ spool' = spool
      /\ since' = since /\ state' = state /\ stamp' = stamp
  BY DEF PullWrite, EtagInv
<1>2. /\ seen[r] \subseteq seen'[r] /\ <<q, body[r]>> \in seen'[r]
      /\ \A p \in Path : disk'[r][p] = disk[r][p] \/ (p = q /\ disk'[r][p] = body[r])
  BY <1>1 DEF PullWrite, WriteFile
<1>3. Got(q, manifest[r][q], since[q], seen[r]) \/ Brings(q, manifest[r][q], body[r], since[q])
  BY <1>1 DEF SoundJob, CarryInv, Carry
<1>4. \A p \in Path : \A e : Got(p, e, since[p], seen[r]) => Got(p, e, since[p], seen'[r])
  BY <1>2, GotGrows
<1>5. Got(q, manifest[r][q], since[q], seen'[r])
  <2> HIDE DEF TypeOK, q
  <2>1. CASE Brings(q, manifest[r][q], body[r], since[q])
    BY <1>2, <2>1 DEF Got, Brings
  <2> QED
    BY <1>1, <1>3, <1>4, <2>1
<1>6. CarryInv(r)'
  <2> HIDE DEF TypeOK
  <2> QED
    BY <1>1, <1>4, <1>5 DEF SoundJob, CarryInv, Carry, Pushing
<1>7. KnownInv(r)'
  <2> HIDE DEF TypeOK
  <2> QED
    BY <1>1, <1>2, <1>4 DEF SoundJob, KnownInv, Known
<1> QED
  BY <1>6, <1>7 DEF SoundJob

LEMMA PullRecordSound ==
  ASSUME TypeOK, EtagInv, NEW r \in Replica, PullRecord(r), SoundJob(r)
  PROVE  SoundJob(r)'
<1> USE DEF TypeOK, jobVars, remoteVars, localVars, savedVars
<1> DEFINE q == cur[r]
<1>1. /\ pc[r] = "written" /\ pc'[r] = "stream" /\ q \in Path
      /\ manifest' = manifest /\ refused' = refused /\ spool' = spool
      /\ since' = since /\ seen' = seen /\ disk' = disk /\ state' = state /\ stamp' = stamp
      /\ route'[r][q] = "done" /\ mem'[r][q].etag = manifest[r][q]
      /\ \A p \in Path \ {q} : route'[r][p] = route[r][p] /\ mem'[r][p] = mem[r][p]
  BY DEF PullRecord, Settle, EtagInv
<1>2. Got(q, manifest[r][q], since[q], seen[r])
  BY <1>1 DEF SoundJob, CarryInv, Carry
<1>3. CarryInv(r)'
  <2> HIDE DEF TypeOK, q
  <2> QED
    BY <1>1, <1>2 DEF SoundJob, CarryInv, Carry, Pushing
<1>4. KnownInv(r)'
  BY <1>1 DEF SoundJob, KnownInv
<1> QED
  BY <1>3, <1>4 DEF SoundJob

(* What is saved is what the memory held; a stamp needs that nothing was      *)
(* refused, and then every row is either as the state had it or done.        *)
LEMMA SaveSound ==
  ASSUME TypeOK, EtagInv, NEW r \in Replica, SoundJob(r),
         \/ PullFinish(r) \/ PullInterrupted(r) \/ PushCheckpointFails(r) \/ PushFinish(r)
         \/ Crash(r)
  PROVE  SoundJob(r)'
<1> USE DEF TypeOK, jobVars, remoteVars, localVars, savedVars
<1>1. EndJob(r) /\ since' = since /\ seen' = seen /\ disk' = disk
  BY DEF PullFinish, PullInterrupted, PushCheckpointFails, PushFinish, Crash
<1>2. CarryInv(r)'
  BY <1>1, EndCarries
<1>3. state'[r] = state[r] \/ state'[r] = mem[r]
  BY DEF PullFinish, PullInterrupted, PushCheckpointFails, PushFinish, Crash
<1>4. ASSUME stamp'[r] # stamp[r]
      PROVE  /\ stamp'[r] = manifest[r] /\ ~refused[r] /\ pc[r] = "stream"
             /\ \A p \in Path : route[r][p] \notin {"install", "conflict"}
  BY <1>4 DEF PullFinish, PullInterrupted, PushCheckpointFails, PushFinish, Crash
<1>5. ASSUME stamp'[r] # stamp[r], NEW p \in Path \ DecisionPath, stamp'[r][p] # NoFile
      PROVE  Got(p, stamp'[r][p], since[p], seen[r])
  <2>1. route[r][p] \in {"ignore", "adopt", "gate", "send", "done"}
    BY <1>4, <1>5 DEF Routes
  <2>2. route[r][p] \notin {"gate", "send"}
    BY <1>4, <1>5 DEF SoundJob, CarryInv, Carry, Pushing
  <2> QED
    BY <1>4, <1>5, <2>1, <2>2 DEF SoundJob, CarryInv, Carry
<1>6. KnownInv(r)'
  <2> HIDE DEF TypeOK
  <2> QED
    BY <1>1, <1>3, <1>5 DEF SoundJob, KnownInv, Known, CarryInv, Carry
<1> QED
  BY <1>2, <1>6 DEF SoundJob

(* The push.                                                                 *)

LEMMA PushReadSound ==
  ASSUME TypeOK, EtagInv, NEW r \in Replica, SoundJob(r),
         \/ \E p \in Path : PushRead(r, p) \/ PushReadFails(r, p)
         \/ PushPutFails(r) \/ PushReconcilePending(r)
  PROVE  SoundJob(r)'
<1> USE DEF TypeOK, jobVars, remoteVars, localVars, savedVars
<1>1. /\ pc[r] \in Pushing /\ pc'[r] \in {"push", "put"}
      /\ manifest' = manifest /\ mem' = mem /\ refused' = refused /\ spool' = spool
      /\ since' = since /\ seen' = seen /\ disk' = disk /\ state' = state /\ stamp' = stamp
  BY DEF PushRead, PushReadFails, PushPutFails, PushReconcilePending, Settle, Pushing
<1>2. pc'[r] = "put" => cur'[r] \in Path /\ disk[r][cur'[r]] # NoFile /\ body'[r] = disk[r][cur'[r]]
  BY DEF PushRead, PushReadFails, PushPutFails, PushReconcilePending, Settle
<1>3. pc'[r] = "put" => <<cur'[r], body'[r]>> \in seen[r]
  BY <1>2 DEF SoundJob, KnownInv, Known
<1>4. \A p \in Path : manifest[r][p] = NoFile /\ spool[r][p] = NoFile
  BY <1>1 DEF SoundJob, CarryInv, Carry
<1>5. \A p \in Path : route'[r][p] # "adopt"
  <2>1. \A p \in Path : route[r][p] # "adopt"
    BY <1>4 DEF EtagInv
  <2> QED
    BY <2>1 DEF PushRead, PushReadFails, PushPutFails, PushReconcilePending, Settle, EtagInv
<1>6. CarryInv(r)'
  <2> HIDE DEF TypeOK
  <2> QED
    BY <1>1, <1>3, <1>4, <1>5 DEF SoundJob, CarryInv, Carry, Pushing
<1>7. KnownInv(r)'
  BY <1>1 DEF SoundJob, KnownInv
<1> QED
  BY <1>6, <1>7 DEF SoundJob

LEMMA PushPutSound ==
  ASSUME TypeOK, EtagInv, NEW r \in Replica, SoundJob(r), \A p \in Path : since[p] \subseteq since'[p],
         PushPutVerified(r) \/ PushPutAmbiguous(r) \/ PushReconcileVerified(r)
  PROVE  SoundJob(r)'
<1> USE DEF TypeOK, jobVars, remoteVars, localVars, savedVars
<1>1. /\ pc[r] \in {"put", "reconcile"} /\ pc'[r] \in {"checkpoint", "reconcile"}
      /\ route' = route /\ cur' = cur /\ body' = body
      /\ manifest' = manifest /\ mem' = mem /\ refused' = refused /\ spool' = spool
      /\ seen' = seen /\ disk' = disk /\ state' = state /\ stamp' = stamp
  BY DEF PushPutVerified, PushPutAmbiguous, PushReconcileVerified
<1>2. Carry(pc[r], manifest[r], spool[r], route[r], mem[r], cur[r], body[r], refused[r],
            since', seen[r])
  BY <1>1, CarryGrows DEF SoundJob, CarryInv
<1>3. Known(disk[r], state[r], stamp[r], since', seen[r])
  BY KnownGrows DEF SoundJob, KnownInv
<1>4. CarryInv(r)'
  <2> HIDE DEF TypeOK
  <2> QED
    BY <1>1, <1>2 DEF CarryInv, Carry, Pushing
<1>5. KnownInv(r)'
  BY <1>1, <1>3 DEF KnownInv
<1> QED
  BY <1>4, <1>5 DEF SoundJob

(* The payload that was sent is the version received: the machine had it.     *)
LEMMA CheckpointSound ==
  ASSUME TypeOK, EtagInv, NEW r \in Replica, PushCheckpoint(r), SoundJob(r)
  PROVE  SoundJob(r)'
<1> USE DEF TypeOK, jobVars, remoteVars, localVars, savedVars
<1> DEFINE q == cur[r]
<1>1. /\ pc[r] = "checkpoint" /\ pc'[r] = "push" /\ q \in Path
      /\ manifest' = manifest /\ refused' = refused /\ spool' = spool
      /\ since' = since /\ seen' = seen /\ disk' = disk /\ state'[r] = mem'[r] /\ stamp' = stamp
      /\ route'[r][q] = "done" /\ mem'[r][q].etag = body[r]
      /\ \A p \in Path \ {q} : route'[r][p] = route[r][p] /\ mem'[r][p] = mem[r][p]
  BY DEF PushCheckpoint, Settle, EtagInv
<1>2. <<q, body[r]>> \in seen[r]
  BY <1>1 DEF SoundJob, CarryInv, Carry, Pushing
<1>3. <<body[r], body[r]>> \in since[q]
  BY <1>1 DEF EtagInv, Published
<1>4. Got(q, body[r], since[q], seen[r])
  <2> HIDE DEF TypeOK, q
  <2> QED
    BY <1>2, <1>3 DEF Got
<1>5. \A p \in Path : mem'[r][p] # Untracked => Got(p, mem'[r][p].etag, since[p], seen[r])
  <2> HIDE DEF TypeOK, q
  <2> QED
    BY <1>1, <1>4 DEF SoundJob, CarryInv, Carry
<1>6. CarryInv(r)'
  <2> HIDE DEF TypeOK, q
  <2> QED
    BY <1>1, <1>5 DEF SoundJob, CarryInv, Carry, Pushing
<1>7. KnownInv(r)'
  <2> HIDE DEF TypeOK, q
  <2> QED
    BY <1>1, <1>5 DEF SoundJob, KnownInv, Known
<1> QED
  BY <1>6, <1>7 DEF SoundJob

LEMMA SoundStep ==
  ASSUME TypeOK, EtagInv, Ordered, \A p \in Path : since[p] \subseteq since'[p],
         NEW r \in Replica, SoundJob(r),
         \/ \E p \in Path : LocalEdit(r, p) \/ LocalDelete(r, p)
         \/ LoseState(r) \/ PullBegin(r) \/ PushBegin(r)
         \/ PullStep(r) \/ PushStep(r) \/ Crash(r)
  PROVE  SoundJob(r)'
<1>1. ASSUME PullStep(r) PROVE SoundJob(r)'
  BY <1>1, SpoolSound, RefusalSound, ApplySound, UnlockSound, FetchSound, ResolveSound, WriteSound,
     PullRecordSound, SaveSound DEF PullStep
<1>2. ASSUME PushStep(r) PROVE SoundJob(r)'
  BY <1>2, PushReadSound, PushPutSound, CheckpointSound, SaveSound DEF PushStep
<1> QED
  BY <1>1, <1>2, UserSound, LossSound, BeginSound, SaveSound

(* What a job is about to replace.                                           *)

LEMMA NothingReplaced ==
  ASSUME EtagInv', NEW r \in Replica, CarryInv(r)', pc'[r] \in Pushing \cup {"idle"}
  PROVE  SparesInv(r)'
<1>1. \A p \in Path : manifest'[r][p] = NoFile
  BY DEF CarryInv, Carry
<1>2. \A p \in Path : route'[r][p] \notin {"install", "conflict"}
  BY <1>1 DEF EtagInv
<1> QED
  BY <1>2 DEF SparesInv, Spares

LEMMA PullBeginSpares ==
  ASSUME TypeOK, NEW r \in Replica, PullBegin(r)
  PROVE  SparesInv(r)'
<1> USE DEF TypeOK, jobVars, remoteVars, localVars, savedVars
<1>1. /\ pc'[r] = "spool" /\ disk' = disk /\ mem'[r] = state[r]
      /\ \A p \in Path : route'[r][p] = RouteEntry(r, p)
  BY DEF PullBegin
<1>2. \A p \in Path : RouteEntry(r, p) = "install" /\ disk[r][p] # NoFile =>
        state[r][p] # Untracked /\ state[r][p].sha = disk[r][p]
  BY DEF RouteEntry, ChangedLocally
<1> HIDE DEF TypeOK
<1> QED
  BY <1>1, <1>2 DEF SparesInv, Spares

(* A step of a pull that leaves the files alone, or settles a row.            *)
LEMMA PullSpares ==
  ASSUME TypeOK, EtagInv, NEW r \in Replica, SparesInv(r),
         \/ \E p \in Path : PullSpool(r, p) \/ PullSpoolFails(r, p) \/ PullApplyFails(r, p)
                            \/ PullFetch(r, p) \/ PullFetchFails(r, p)
         \/ PullLock(r) \/ PullBarrierRefuses(r) \/ PullAdmitInstall(r) \/ PullResolveFails(r)
         \/ PullWriteFails(r) \/ PullRecordFails(r)
  PROVE  SparesInv(r)'
<1> USE DEF TypeOK, jobVars, remoteVars, localVars, savedVars
<1>1. /\ disk' = disk /\ backup' = backup /\ mem' = mem /\ raced' = raced
      /\ pc'[r] # "written"
      /\ pc'[r] = "write" => route'[r][cur'[r]] = "install"
  BY DEF PullSpool, PullSpoolFails, PullApplyFails, PullFetch, PullFetchFails, PullLock,
         PullBarrierRefuses, PullAdmitInstall, PullResolveFails, PullWriteFails, PullRecordFails, Settle
<1>2. \A p \in Path : route'[r][p] = "install" =>
        route[r][p] = "install" /\ ~(pc[r] = "written" /\ cur[r] = p)
  <2>1. ASSUME NEW q \in Path, PullSpool(r, q) \/ PullSpoolFails(r, q) \/ PullApplyFails(r, q)
                               \/ PullFetch(r, q) \/ PullFetchFails(r, q)
        PROVE  pc[r] # "written" /\ \A p \in Path : route'[r][p] \in {route[r][p], "done"}
    BY <2>1 DEF PullSpool, PullSpoolFails, PullApplyFails, PullFetch, PullFetchFails, Settle, Streams
  <2>2. ASSUME PullLock(r) \/ PullBarrierRefuses(r) \/ PullAdmitInstall(r) \/ PullResolveFails(r)
               \/ PullWriteFails(r)
        PROVE  pc[r] # "written" /\ \A p \in Path : route'[r][p] \in {route[r][p], "done"}
    BY <2>2 DEF PullLock, PullBarrierRefuses, PullAdmitInstall, PullResolveFails, PullWriteFails,
                Settle
  <2>3. ASSUME PullRecordFails(r)
        PROVE  \A p \in Path : IF p = cur[r] THEN route'[r][p] = "done"
                                             ELSE route'[r][p] = route[r][p]
    BY <2>3 DEF PullRecordFails, Settle, EtagInv
  <2> QED
    BY <2>1, <2>2, <2>3
<1> HIDE DEF TypeOK
<1> QED
  BY <1>1, <1>2 DEF SparesInv, Spares

LEMMA ApplySpares ==
  ASSUME TypeOK, NEW r \in Replica, SparesInv(r),
         (\E p \in Path : PullApplyDecision(r, p)) \/ PullUnlock(r)
  PROVE  SparesInv(r)'
<1> USE DEF TypeOK, jobVars, remoteVars, localVars, savedVars
<1>1. /\ pc[r] = "locked" /\ pc'[r] \in {"locked", "stream"} /\ raced' = raced
      /\ backup[r] \subseteq backup'[r]
      /\ \A p \in Path :
           \/ route'[r][p] = "done"
           \/ /\ route'[r][p] = route[r][p] /\ mem'[r][p] = mem[r][p]
              /\ disk'[r][p] = disk[r][p]
  <2>1. ASSUME NEW q \in Path, PullApplyDecision(r, q)
        PROVE  /\ route'[r][q] = "done"
               /\ \A p \in Path \ {q} : /\ route'[r][p] = route[r][p] /\ mem'[r][p] = mem[r][p]
                                        /\ disk'[r][p] = disk[r][p]
               /\ pc[r] = "locked" /\ pc'[r] = "locked" /\ raced' = raced
               /\ backup[r] \subseteq backup'[r]
    BY <2>1 DEF PullApplyDecision, Settle, WriteFile, SaveBackup
  <2>2. CASE PullUnlock(r)
    BY <2>2 DEF PullUnlock
  <2> QED
    BY <2>1, <2>2
<1> HIDE DEF TypeOK
<1> QED
  BY <1>1 DEF SparesInv, Spares

LEMMA ResolveSpares ==
  ASSUME TypeOK, EtagInv, NEW r \in Replica, SparesInv(r), PullResolve(r)
  PROVE  SparesInv(r)'
<1> USE DEF TypeOK, jobVars, remoteVars, localVars, savedVars
<1>1. /\ pc[r] = "fetched" /\ pc'[r] = "write" /\ cur' = cur /\ cur[r] \in Path
      /\ disk' = disk /\ mem' = mem /\ route' = route /\ raced' = raced
      /\ backup[r] \subseteq backup'[r]
  BY DEF PullResolve, SaveBackup, EtagInv
<1>2. disk[r][cur[r]] \subseteq body'[r] \/ <<cur[r], disk[r][cur[r]]>> \in backup'[r]
  BY <1>1 DEF PullResolve, SaveBackup
<1> HIDE DEF TypeOK
<1> QED
  BY <1>1, <1>2 DEF SparesInv, Spares

LEMMA WriteSpares ==
  ASSUME TypeOK, EtagInv, NEW r \in Replica, SparesInv(r), PullWrite(r) \/ PullRecord(r)
  PROVE  SparesInv(r)'
<1> USE DEF TypeOK, jobVars, remoteVars, localVars, savedVars
<1> DEFINE q == cur[r]
<1>1. /\ q \in Path /\ raced' = raced /\ backup' = backup /\ pc'[r] # "write"
      /\ \A p \in Path \ {q} : /\ disk'[r][p] = disk[r][p] /\ mem'[r][p] = mem[r][p]
                               /\ route'[r][p] = route[r][p]
  BY DEF PullWrite, PullRecord, WriteFile, Settle, EtagInv
<1>2. (pc'[r] = "written" /\ cur'[r] = q) \/ route'[r][q] = "done"
  BY <1>1 DEF PullWrite, PullRecord, Settle
<1>3. pc[r] = "written" => cur[r] = q
  OBVIOUS
<1> HIDE DEF TypeOK, q
<1> QED
  BY <1>1, <1>2, <1>3 DEF SparesInv, Spares

LEMMA UserSpares ==
  ASSUME TypeOK, EtagInv', NEW r \in Replica, NEW q \in Path, LocalEdit(r, q) \/ LocalDelete(r, q),
         SparesInv(r), CarryInv(r)'
  PROVE  SparesInv(r)'
<1> USE DEF TypeOK, jobVars, remoteVars, localVars, savedVars
<1>1. /\ pc' = pc /\ route' = route /\ mem' = mem /\ cur' = cur /\ body' = body
      /\ backup' = backup /\ Touch(r, q)
  BY DEF LocalEdit, LocalDelete
<1>2. \A p \in Path \ {q} : disk'[r][p] = disk[r][p]
  BY DEF LocalEdit, LocalDelete, WriteFile
<1>3. CASE pc[r] = "idle"
  BY <1>1, <1>3, NothingReplaced
<1>4. CASE pc[r] # "idle"
  <2>1. q \in raced'[r] /\ raced[r] \subseteq raced'[r]
    BY <1>1, <1>4 DEF Touch
  <2> HIDE DEF TypeOK
  <2> QED
    BY <1>1, <1>2, <2>1 DEF SparesInv, Spares
<1> QED
  BY <1>3, <1>4

LEMMA SparesStep ==
  ASSUME TypeOK, EtagInv, EtagInv', NEW r \in Replica, SparesInv(r), CarryInv(r)',
         \/ \E p \in Path : LocalEdit(r, p) \/ LocalDelete(r, p)
         \/ LoseState(r) \/ PullBegin(r) \/ PushBegin(r)
         \/ PullStep(r) \/ PushStep(r) \/ Crash(r)
  PROVE  SparesInv(r)'
<1>1. CASE LoseState(r)
  BY <1>1 DEF LoseState, SparesInv, localVars, jobVars
<1>2. ASSUME EndJob(r) PROVE pc'[r] = "idle"
  BY <1>2 DEF EndJob, TypeOK
<1>3. ASSUME PushBegin(r) \/ PushStep(r) \/ Crash(r) PROVE SparesInv(r)'
  <2>1. pc'[r] \in Pushing \cup {"idle"}
    BY <1>2, <1>3 DEF PushBegin, PushStep, PushRead, PushReadFails, PushPutVerified, PushPutFails,
       PushPutAmbiguous, PushReconcileVerified, PushReconcilePending, PushCheckpoint,
       PushCheckpointFails, PushFinish, Crash, Settle, Pushing, TypeOK
  <2> QED
    BY <2>1, NothingReplaced
<1>4. ASSUME PullFinish(r) \/ PullInterrupted(r) PROVE SparesInv(r)'
  <2>1. pc'[r] = "idle"
    BY <1>2, <1>4 DEF PullFinish, PullInterrupted
  <2> QED
    BY <2>1, NothingReplaced
<1>5. ASSUME PullStep(r) PROVE SparesInv(r)'
  BY <1>4, <1>5, PullSpares, ApplySpares, ResolveSpares, WriteSpares DEF PullStep
<1> QED
  BY <1>1, <1>3, <1>5, UserSpares, PullBeginSpares

(* The inductive invariant of receipts: one step is one machine's, or a PUT's  *)
(* that comes late.                                                        *)
LEMMA ReceiptStep ==
  TypeOK /\ EtagInv /\ EtagInv' /\ ReceiptInv /\ Next => ReceiptInv'
<1> SUFFICES ASSUME TypeOK, EtagInv, EtagInv', ReceiptInv, Next
             PROVE  ReceiptInv'
  OBVIOUS
<1>1. Ordered' /\ \A p \in Path : since[p] \subseteq since'[p]
  BY OrderStep, SinceGrows DEF ReceiptInv
<1>2. ASSUME NEW r \in Replica,
             \/ \E p \in Path : LocalEdit(r, p) \/ LocalDelete(r, p)
             \/ LoseState(r) \/ PullBegin(r) \/ PushBegin(r)
             \/ PullStep(r) \/ PushStep(r) \/ Crash(r)
      PROVE  \A x \in Replica : CarryInv(x)' /\ SparesInv(x)' /\ KnownInv(x)'
  <2>1. SoundJob(r)'
    BY <1>1, <1>2, SoundStep DEF ReceiptInv, SoundJob
  <2>2. SparesInv(r)'
    BY <1>2, <2>1, SparesStep DEF ReceiptInv, SoundJob
  <2>3. ASSUME NEW x \in Replica \ {r} PROVE CarryInv(x)' /\ SparesInv(x)' /\ KnownInv(x)'
    <3>1. Still(x)
      BY <1>2, OthersAreStill
    <3> QED
      BY <1>1, <3>1, StillKeeps DEF ReceiptInv
  <2> QED
    BY <2>1, <2>2, <2>3 DEF SoundJob
<1>3. ASSUME NEW p \in Path, NEW c \in Content, LatePutLands(p, c) \/ LatePutIsLost(p, c)
      PROVE  \A x \in Replica : CarryInv(x)' /\ SparesInv(x)' /\ KnownInv(x)'
  <2>1. \A x \in Replica : Still(x)
    BY <1>3 DEF LatePutLands, LatePutIsLost, Still, localVars, savedVars, jobVars
  <2> QED
    BY <1>1, <2>1, StillKeeps DEF ReceiptInv
<1>4. \A x \in Replica : CarryInv(x)' /\ SparesInv(x)' /\ KnownInv(x)'
  BY <1>2, <1>3 DEF Next
<1> QED
  BY <1>1, <1>4 DEF ReceiptInv

LEMMA InitReceipts == Init => ReceiptInv
<1> SUFFICES ASSUME Init PROVE ReceiptInv
  OBVIOUS
<1>1. ASSUME NEW r \in Replica PROVE CarryInv(r) /\ SparesInv(r) /\ KnownInv(r)
  <2>1. CarryInv(r)
    BY NothingCarried DEF Init, CarryInv
  <2>2. SparesInv(r) /\ KnownInv(r)
    BY DEF Init, SparesInv, Spares, KnownInv, Known, NoRoutes, NoFiles, NothingTracked
  <2> QED
    BY <2>1, <2>2
<1>2. Ordered
  BY DEF Init, Ordered, Published
<1> QED
  BY <1>1, <1>2 DEF ReceiptInv

THEOREM ReceiptsAreKept == Spec => []ReceiptInv
<1>1. TypeOK /\ EtagInv /\ EtagInv' /\ ReceiptInv /\ [Next]_vars => ReceiptInv'
  <2>1. TypeOK /\ EtagInv /\ ReceiptInv /\ UNCHANGED vars => ReceiptInv'
    <3> SUFFICES ASSUME TypeOK, EtagInv, ReceiptInv, UNCHANGED vars PROVE ReceiptInv'
      OBVIOUS
    <3>1. \A x \in Replica : Still(x)
      BY DEF vars, Still, localVars, savedVars, jobVars
    <3>2. \A p \in Path : since[p] \subseteq since'[p]
      BY DEF vars, remoteVars
    <3>3. Ordered'
      BY DEF ReceiptInv, Ordered, Published, vars, remoteVars
    <3> QED
      BY <3>1, <3>2, <3>3, StillKeeps DEF ReceiptInv
  <2> QED
    BY <2>1, ReceiptStep
<1> QED
  BY InitReceipts, <1>1, Invariant, PTL DEF Spec

(* A path is only called synced at a version this machine received, or a      *)
(* later one, and the stamp says so of every file of its manifest but          *)
(* decisions: for any machines, faults and editors.                           *)
THEOREM ReceiptsAreTruthful == Spec => []ReceiptsTruthful
<1>1. ReceiptInv => ReceiptsTruthful
  BY DEF ReceiptInv, KnownInv, Known, Got, ReceiptsTruthful, TrackedMeansReceived, StampTruthful,
     Received
<1> QED
  BY <1>1, ReceiptsAreKept, PTL

(* A pull replaces nothing that is not kept elsewhere, unless an editor saved  *)
(* the file while it ran.                                                   *)
THEOREM OverwritesAreKept == Spec => OverwritesOnlyWhatIsKept
<1>1. TypeOK /\ EtagInv /\ ReceiptInv /\ [Next]_vars => [KeepsWhatItReplaces]_vars
  <2> SUFFICES ASSUME TypeOK, EtagInv, ReceiptInv, Next,
                      NEW r \in Replica, NEW p \in Path,
                      pc[r] \in {"locked", "write"}, p \notin raced'[r], disk[r][p] # NoFile,
                      disk'[r][p] # disk[r][p]
               PROVE  \/ mem[r][p] # Untracked /\ mem[r][p].sha = disk[r][p]
                      \/ disk[r][p] \subseteq disk'[r][p]
                      \/ <<p, disk[r][p]>> \in backup[r]
    BY DEF KeepsWhatItReplaces
  <2>1. PullWrite(r) /\ cur[r] = p /\ disk'[r][p] = body[r] /\ raced' = raced
    <3> USE DEF TypeOK, jobVars, remoteVars, localVars, savedVars
    <3>1. ASSUME NEW x \in Replica, NEW q \in Path, LocalEdit(x, q) \/ LocalDelete(x, q)
          PROVE  FALSE
      <4>1. CASE LocalDelete(x, q)
        <5>1. x = r /\ q = p
          BY <4>1 DEF LocalDelete
        <5> QED
          BY <4>1, <5>1 DEF LocalDelete, Touch
      <4>2. CASE LocalEdit(x, q)
        <5>1. Touch(x, q) /\ \E c : WriteFile(x, q, c)
          BY <4>2 DEF LocalEdit
        <5>2. PICK c : WriteFile(x, q, c)
          BY <5>1
        <5>3. x = r /\ q = p
          BY <5>2 DEF WriteFile
        <5> QED
          BY <5>1, <5>3 DEF Touch
      <4> QED
        BY <3>1, <4>1, <4>2
    <3>2. ASSUME NEW x \in Replica, NEW q \in Path, PullApplyDecision(x, q) PROVE FALSE
      BY <3>2 DEF PullApplyDecision, WriteFile
    <3>3. ASSUME NEW x \in Replica, PullWrite(x)
          PROVE  x = r /\ cur[r] = p /\ disk'[r][p] = body[r] /\ raced' = raced
      BY <3>3 DEF PullWrite, WriteFile, EtagInv
    <3>4. ASSUME NEW x \in Replica, PushStep(x) \/ LoseState(x) \/ PullBegin(x) \/ PushBegin(x)
                                    \/ Crash(x)
          PROVE  disk' = disk
      BY <3>4 DEF PushStep, PushRead, PushReadFails, PushPutVerified, PushPutFails,
         PushPutAmbiguous, PushReconcileVerified, PushReconcilePending, PushCheckpoint,
         PushCheckpointFails, PushFinish, LoseState, PullBegin, PushBegin, Crash
    <3>5. ASSUME NEW x \in Replica, PullStep(x), ~PullWrite(x),
                 ~\E q \in Path : PullApplyDecision(x, q)
          PROVE  disk' = disk
      BY <3>5 DEF PullStep, PullSpool, PullSpoolFails, PullLock, PullApplyFails,
         PullUnlock, PullFetch, PullFetchFails, PullBarrierRefuses, PullAdmitInstall, PullResolve,
         SaveBackup, PullResolveFails, PullWriteFails, PullRecord, PullRecordFails, PullFinish,
         PullInterrupted
    <3>6. ASSUME NEW q \in Path, NEW c \in Content, LatePutLands(q, c) \/ LatePutIsLost(q, c)
          PROVE  disk' = disk
      BY <3>6 DEF LatePutLands, LatePutIsLost
    <3> HIDE DEF TypeOK
    <3> QED
      BY <3>1, <3>2, <3>3, <3>4, <3>5, <3>6 DEF Next
  <2>2. pc[r] = "write" /\ route[r][p] \in {"install", "conflict"}
    BY <2>1 DEF PullWrite, EtagInv
  <2> QED
    BY <2>1, <2>2 DEF ReceiptInv, SparesInv, Spares
<1> QED
  BY <1>1, Invariant, ReceiptsAreKept, PTL DEF Spec, OverwritesOnlyWhatIsKept

-----------------------------------------------------------------------------
(***************************************************************************)
(* Upload.                                                                 *)
(***************************************************************************)
(* Until a body is on its way the store has none of it.                      *)
PutInv == EvidenceTruthful /\ (phase = "connecting" => stored = FALSE)

(* An exception tells "not written" only of a PUT that never began to send.   *)
LEMMA BrokenEvidence ==
  ASSUME NEW kinds, kinds \subseteq ExceptionKind, Broken(kinds),
         (\E kind \in kinds : kind \in BeforeSending) => stored' = FALSE
  PROVE  PutInv'
<1>1. PICK kind \in kinds : /\ phase' = "answered"
                            /\ evidence' = ClassifyException(kind, "PUT").write
  BY DEF Broken
<1>2. ClassifyException(kind, "PUT").write = IF kind \in BeforeSending THEN "not-written" ELSE "ambiguous"
  BY DEF ClassifyException
<1> QED
  BY <1>1, <1>2 DEF PutInv, EvidenceTruthful

LEMMA AnswerEvidence ==
  ASSUME PutInv, AnswerPut
  PROVE  PutInv'
<1>1. CASE Broken(WhileWaiting) /\ UNCHANGED stored
  BY <1>1, BrokenEvidence DEF WhileWaiting, BeforeSending, ExceptionKind
<1>2. ASSUME NEW status, NEW etag \in BOOLEAN,
             status \in 200 .. 299 => stored, status \in 400 .. 499 => ~stored,
             phase' = "answered", stored' = stored,
             evidence' = IF status \in 200 .. 299 THEN AcceptedWrite(etag)
                         ELSE ClassifyStatus(status, "PUT").write
      PROVE  PutInv'
  <2>1. AcceptedWrite(etag) \in {"verified", "written-unverified"}
    BY DEF AcceptedWrite
  <2>2. ClassifyStatus(status, "PUT").write =
          IF status \in 400 .. 499 THEN "not-written" ELSE "ambiguous"
    BY DEF ClassifyStatus
  <2> QED
    BY <1>2, <2>1, <2>2 DEF PutInv, EvidenceTruthful
<1> QED
  BY <1>1, <1>2 DEF AnswerPut

(* What a push decides by is true of the server: a PUT recorded as not written *)
(* left no bytes there, one recorded as written did, whatever broke or was      *)
(* answered (boundary_error, put_via_presigned_url).                          *)
THEOREM EvidenceIsTruthful == USpec => []EvidenceTruthful
<1>1. UInit => PutInv
  BY DEF UInit, PutInv, EvidenceTruthful
<1>2. PutInv /\ [UNext]_uvars => PutInv'
  <2> SUFFICES ASSUME PutInv, [UNext]_uvars PROVE PutInv'
    OBVIOUS
  <2>1. CASE StartPut
    BY <2>1 DEF StartPut, PutInv, EvidenceTruthful
  <2>2. CASE Connect
    BY <2>2, BrokenEvidence DEF Connect, PutInv, EvidenceTruthful, ExceptionKind
  <2>3. CASE Transmit
    BY <2>3, BrokenEvidence
    DEF Transmit, PutInv, EvidenceTruthful, WhileSending, BeforeSending, ExceptionKind
  <2>4. CASE AnswerPut
    BY <2>4, AnswerEvidence
  <2>5. CASE NextPut
    BY <2>5 DEF NextPut, PutInv, EvidenceTruthful
  <2>6. CASE UNCHANGED uvars
    BY <2>6 DEF uvars, PutInv, EvidenceTruthful
  <2> QED
    BY <2>1, <2>2, <2>3, <2>4, <2>5, <2>6 DEF UNext
<1>3. PutInv => EvidenceTruthful
  BY DEF PutInv
<1> QED
  BY <1>1, <1>2, <1>3, PTL DEF USpec

-----------------------------------------------------------------------------
(***************************************************************************)
(* Restore.                                                                *)
(***************************************************************************)
(* What the constants are: the record has a required file, versions are      *)
(* counted, and no process has the name of nobody.                          *)
Setting == /\ "project" \in Files
           /\ MaxVersion \in Nat \ {0}
           /\ NoOne \notin Restorers

-----------------------------------------------------------------------------
(* The inductive invariant.                                                 *)

Before == {"idle", "waiting"}
Filling == {"download", "accept", "record"}
Filled == {"seed", "clear", "rename"}
Places == Before \union {"manifest", "audit"} \union Filling \union Filled \union {"cleanup"}

Entries == [Files -> Version]
Hands == [entries : Entries, ledger : Ledgers, kept : SUBSET Files,
          path : Files \union {"none"}, body : Version]
Dests == [kind : {"absent", "empty", "user", "store"}, body : Bodies, state : Ledgers,
          manifest : Entries]

Types ==
  /\ remote \in Entries
  /\ staged \in Bodies /\ seeded \in Ledgers /\ ledger \in Ledgers /\ readable \in BOOLEAN
  /\ dest \in Dests
  /\ lockedBy \in Restorers \union {NoOne}
  /\ point \in [Restorers -> Places]
  /\ hand \in [Restorers -> Hands]

(* The run past waiting is the one that holds the lock.                      *)
Held == \A r \in Restorers : point[r] \notin Before <=> lockedBy = r

(* A record names a body the cloud has held, no older than its listing.       *)
TrueOf(l, rm) ==
  \A f \in Files : /\ l[f].body >= l[f].etag /\ l[f].body <= rm[f]
                   /\ f \in Dated => l[f].body = l[f].etag

Listed(h, rm) == \A f \in Files : h.entries[f] <= rm[f]

(* What a run trusts is staged as recorded under the ETag listed; nothing     *)
(* else is staged, but for the file it is about to record.                   *)
Trusted(h, st, f) == /\ h.entries[f] # None /\ st[f] # None
                     /\ h.ledger[f].etag = h.entries[f] /\ h.ledger[f].body = st[f]
Sorted(p, h, st) ==
  p \in Filling \union Filled =>
    \A f \in Files :
      \/ f \in h.kept /\ Trusted(h, st, f)
      \/ /\ f \notin h.kept /\ h.ledger[f] = NoRecord
         /\ st[f] = None \/ (p = "record" /\ f = h.path)

(* What a run has downloaded is what the listed ETag allows.                  *)
Carried(p, h, st, rm) ==
  p \in {"accept", "record"} =>
    /\ h.path \in Files \ h.kept /\ h.entries[h.path] # None
    /\ h.body >= h.entries[h.path] /\ h.body <= rm[h.path]
    /\ h.path \in Dated => h.body = h.entries[h.path]
    /\ p = "record" => st[h.path] = h.body

(* A validated staging area lacks nothing listed.                            *)
Checked(p, h, st) ==
  p \in Filled => /\ Complete(st) /\ Clean(st)
                  /\ \A f \in Files : h.entries[f] # None => f \in h.kept
Marked(p, h, se) == p \in {"clear", "rename"} => se = h.ledger

Fit(p, h, st, se, rm) ==
  /\ TrueOf(h.ledger, rm) /\ Listed(h, rm)
  /\ Sorted(p, h, st) /\ Carried(p, h, st, rm) /\ Checked(p, h, st) /\ Marked(p, h, se)

Runs == \A r \in Restorers : Fit(point[r], hand[r], staged, seeded, remote)

(* Until the lock's holder has installed a store there is none.               *)
Room == \A r \in Restorers : point[r] \notin Before \union {"cleanup"} => dest.kind # "store"

IInv == Types /\ Held /\ TrueOf(ledger, remote) /\ Runs /\ Room /\ RestoredSound
-----------------------------------------------------------------------------
(* Values and their parts.                                                  *)

LEMMA Blank ==
  ASSUME Setting
  PROVE  /\ None \in Version /\ NoBodies \in Entries /\ NoBodies \in Bodies
         /\ NoLedger \in Ledgers /\ \A f \in Files : NoBodies[f] = None /\ NoLedger[f] = NoRecord
         /\ NoRecord.etag = None /\ NoRecord.body = None
  BY DEF Setting, None, Version, NoBodies, Bodies, Entries, NoLedger, Ledgers, NoRecord

LEMMA BlankHand ==
  ASSUME Setting
  PROVE  /\ NoHand \in Hands /\ NoHand.entries = NoBodies /\ NoHand.ledger = NoLedger
  BY Blank DEF NoHand, Hands

LEMMA HandFields ==
  ASSUME NEW h \in Hands
  PROVE  /\ h.entries \in Entries /\ h.ledger \in Ledgers /\ h.kept \in SUBSET Files
         /\ h.path \in Files \union {"none"} /\ h.body \in Version
  BY DEF Hands

(* Places a run stands at, and those before the lock.                        *)
LEMMA PlaceNames ==
  /\ {"idle", "waiting", "manifest", "audit", "download", "accept", "record", "seed", "clear",
      "rename", "cleanup"} \subseteq Places
  /\ {"manifest", "audit", "download", "accept", "record", "seed", "clear", "rename", "cleanup"}
       \intersect Before = {}
  /\ "idle" \in Before /\ "waiting" \in Before
  BY DEF Places, Before, Filling, Filled

LEMMA Goes ==
  ASSUME Types, NEW r \in Restorers, NEW place \in Places, Goto(r, place)
  PROVE  /\ point' \in [Restorers -> Places] /\ point'[r] = place /\ lockedBy' = lockedBy
         /\ \A q \in Restorers \ {r} : point'[q] = point[q]
  BY DEF Types, Goto

LEMMA Leaves ==
  ASSUME Setting, Types, NEW r \in Restorers, Leave(r)
  PROVE  /\ point' \in [Restorers -> Places] /\ point'[r] = "idle" /\ lockedBy' = NoOne
         /\ hand' \in [Restorers -> Hands] /\ hand'[r] = NoHand
         /\ \A q \in Restorers \ {r} : point'[q] = point[q] /\ hand'[q] = hand[q]
<1>1. point \in [Restorers -> Places] /\ hand \in [Restorers -> Hands] /\ NoHand \in Hands
  BY BlankHand DEF Types
<1>2. "idle" \in Places
  BY PlaceNames
<1> QED
  BY <1>1, <1>2 DEF Leave

(* A version listed or recorded stays held: the record only grows.           *)
LEMMA Grows ==
  ASSUME Setting, NEW rm \in Entries, NEW more \in Entries, \A f \in Files : more[f] >= rm[f]
  PROVE  /\ \A l \in Ledgers : TrueOf(l, rm) => TrueOf(l, more)
         /\ \A h \in Hands : Listed(h, rm) => Listed(h, more)
         /\ \A h \in Hands, p \in Places, st \in Bodies :
              Carried(p, h, st, rm) => Carried(p, h, st, more)
<1>1. \A n \in Version : n \in Nat
  BY DEF Version, Setting
<1>2. \A f \in Files : rm[f] \in Nat /\ more[f] \in Nat
  BY <1>1 DEF Entries
<1>3. \A l \in Ledgers : TrueOf(l, rm) => TrueOf(l, more)
  <2> SUFFICES ASSUME NEW l \in Ledgers, TrueOf(l, rm), NEW f \in Files
               PROVE  l[f].body <= more[f]
    BY DEF TrueOf
  <2>1. l[f].body \in Nat /\ l[f].body <= rm[f]
    BY <1>1 DEF Ledgers, TrueOf
  <2> QED
    BY <2>1, <1>2
<1>4. \A h \in Hands : Listed(h, rm) => Listed(h, more)
  <2> SUFFICES ASSUME NEW h \in Hands, Listed(h, rm), NEW f \in Files
               PROVE  h.entries[f] <= more[f]
    BY DEF Listed
  <2>1. h.entries[f] \in Nat /\ h.entries[f] <= rm[f]
    BY <1>1, HandFields DEF Listed, Entries
  <2> QED
    BY <2>1, <1>2
<1>5. \A h \in Hands, p \in Places, st \in Bodies :
        Carried(p, h, st, rm) => Carried(p, h, st, more)
  BY <1>1, <1>2, HandFields DEF Carried
<1> QED
  BY <1>3, <1>4, <1>5

(* A run without the lock has nothing staged to answer for.                  *)
LEMMA Waits ==
  ASSUME NEW p \in Before, NEW h, NEW st, NEW se, NEW rm
  PROVE  Fit(p, h, st, se, rm) <=> TrueOf(h.ledger, rm) /\ Listed(h, rm)
  BY DEF Fit, Before, Filling, Filled, Sorted, Carried, Checked, Marked

LEMMA BlankFits ==
  ASSUME Setting, NEW p \in Before, NEW st, NEW se, NEW rm \in Entries
  PROVE  Fit(p, NoHand, st, se, rm) /\ TrueOf(NoLedger, rm)
<1>1. \A f \in Files : rm[f] >= None
  BY DEF Entries, Version, None, Setting
<1>2. TrueOf(NoLedger, rm)
  <2> SUFFICES ASSUME NEW f \in Files
               PROVE  /\ NoLedger[f].body >= NoLedger[f].etag /\ NoLedger[f].body <= rm[f]
                      /\ NoLedger[f].body = NoLedger[f].etag
    BY DEF TrueOf
  <2>1. NoLedger[f].body = None /\ NoLedger[f].etag = None
    BY Blank
  <2>2. rm[f] \in Nat
    BY DEF Entries, Version, Setting
  <2> QED
    BY <2>1, <2>2 DEF None
<1>3. Listed(NoHand, rm)
  BY <1>1, Blank, BlankHand DEF Listed
<1> QED
  BY <1>2, <1>3, BlankHand, Waits

(* The lock's holder, or a run that takes it, changes the area alone: the    *)
(* others all wait.                                                         *)
LEMMA Alone ==
  ASSUME Setting, IInv, NEW r \in Restorers, lockedBy \in {r, NoOne}, remote' = remote,
         \A q \in Restorers \ {r} : point'[q] = point[q] /\ hand'[q] = hand[q],
         IF point'[r] \in Before THEN lockedBy' = NoOne ELSE lockedBy' = r,
         Types', TrueOf(ledger', remote), RestoredSound',
         Fit(point'[r], hand'[r], staged', seeded', remote),
         point'[r] \notin Before \union {"cleanup"} => dest'.kind # "store"
  PROVE  IInv'
<1>1. \A q \in Restorers \ {r} : point[q] \in Before
  BY DEF IInv, Held, Setting
<1>2. Held'
  BY <1>1 DEF Held, Setting
<1>3. Runs'
  <2>1. \A q \in Restorers \ {r} : Fit(point'[q], hand'[q], staged', seeded', remote')
    BY <1>1, Waits DEF IInv, Runs
  <2> QED
    BY <2>1 DEF Runs
<1>4. Room'
  BY <1>1 DEF Room
<1> QED
  BY <1>2, <1>3, <1>4 DEF IInv
-----------------------------------------------------------------------------
(* The steps of a run.                                                      *)

LEMMA WaitStep ==
  ASSUME Setting, IInv, NEW r \in Restorers, Start(r) \/ Busy(r)
  PROVE  IInv'
<1>1. point[r] \in Before /\ point'[r] \in Before /\ point' \in [Restorers -> Places]
      /\ \A q \in Restorers \ {r} : point'[q] = point[q]
  BY Goes, PlaceNames DEF Start, Busy, At, IInv
<1>2. UNCHANGED <<remote, staged, seeded, ledger, readable, dest, hand, lockedBy>>
  BY DEF Start, Busy, Goto, area
<1>3. Types'
  BY <1>1, <1>2 DEF IInv, Types
<1>4. Held'
  BY <1>1, <1>2 DEF IInv, Held
<1>5. Runs'
  <2>1. \A q \in Restorers : Fit(point[q], hand[q], staged, seeded, remote)
    BY DEF IInv, Runs
  <2>2. Fit(point'[r], hand[r], staged, seeded, remote)
    BY <2>1, <1>1, Waits
  <2>3. \A q \in Restorers : Fit(point'[q], hand[q], staged, seeded, remote)
    BY <2>1, <2>2, <1>1
  <2> QED
    BY <2>3, <1>2 DEF Runs
<1>6. Room' /\ RestoredSound' /\ TrueOf(ledger', remote')
  BY <1>1, <1>2 DEF IInv, Room, RestoredSound, InstalledWhole, SeededTruthful
<1> QED
  BY <1>3, <1>4, <1>5, <1>6 DEF IInv

(* What a run inside knows.                                                  *)
LEMMA Inside ==
  ASSUME Setting, IInv, NEW r \in Restorers, point[r] \notin Before
  PROVE  /\ lockedBy = r /\ hand[r] \in Hands
         /\ TrueOf(hand[r].ledger, remote) /\ Listed(hand[r], remote)
         /\ Sorted(point[r], hand[r], staged)
         /\ Carried(point[r], hand[r], staged, remote)
         /\ Checked(point[r], hand[r], staged) /\ Marked(point[r], hand[r], seeded)
  BY DEF IInv, Types, Held, Runs, Fit

(* A store that stands is not touched by what a run does beside it.          *)
LEMMA Standing ==
  ASSUME IInv, dest' = dest
  PROVE  RestoredSound'
  BY DEF IInv, RestoredSound, InstalledWhole, SeededTruthful

LEMMA DiscardTypes ==
  ASSUME Setting, DiscardState
  PROVE  /\ staged' \in Bodies /\ seeded' \in Ledgers /\ ledger' \in Ledgers
         /\ readable' \in BOOLEAN /\ ledger' = NoLedger
  BY Blank DEF DiscardState

(* A run that leaves keeps or discards what is staged.                       *)
LEMMA LeaveStep ==
  ASSUME Setting, IInv, NEW r \in Restorers, Leave(r), lockedBy \in {r, NoOne},
         remote' = remote, dest' = dest,
         ledger' \in {ledger, NoLedger}, readable' \in BOOLEAN, staged' \in Bodies,
         seeded' \in Ledgers
  PROVE  IInv'
<1>1. Types
  BY DEF IInv
<1>2. Types'
  BY <1>1, Leaves, Blank DEF Types
<1>3. remote \in Entries
  BY <1>1 DEF Types
<1>4. TrueOf(ledger', remote)
  BY <1>3, BlankFits, PlaceNames DEF IInv
<1>5. Fit(point'[r], hand'[r], staged', seeded', remote)
  BY <1>1, <1>3, Leaves, BlankFits, PlaceNames
<1> QED
  BY <1>1, <1>2, <1>4, <1>5, Leaves, Alone, Standing, PlaceNames

LEMMA LockStep ==
  ASSUME Setting, IInv, NEW r \in Restorers, Locked(r)
  PROVE  IInv'
<1>ty. Types
  BY DEF IInv
<1>1. lockedBy = NoOne /\ remote' = remote /\ dest' = dest /\ point[r] = "waiting"
  BY DEF Locked, At
<1>2. CASE Available
  <2>1. /\ point' \in [Restorers -> Places] /\ point'[r] = "manifest"
        /\ \A q \in Restorers \ {r} : point'[q] = point[q]
        /\ lockedBy' = r /\ UNCHANGED <<area, hand>>
    BY <1>ty, <1>2, PlaceNames DEF Locked, Types
  <2>2. Types'
    BY <1>ty, <1>1, <2>1 DEF Types, area
  <2>3. TrueOf(hand[r].ledger, remote) /\ Listed(hand[r], remote)
    BY DEF IInv, Runs, Fit
  <2>4. Fit("manifest", hand[r], staged, seeded, remote)
    BY <2>3 DEF Fit, Sorted, Carried, Checked, Marked, Filling, Filled
  <2>5. Fit(point'[r], hand'[r], staged', seeded', remote) /\ TrueOf(ledger', remote)
    BY <2>1, <2>4 DEF area, IInv
  <2>6. dest'.kind # "store"
    BY <1>1, <1>2 DEF Available
  <2>7. \A q \in Restorers \ {r} : point'[q] = point[q] /\ hand'[q] = hand[q]
    BY <2>1
  <2> QED
    BY <1>1, <2>1, <2>2, <2>5, <2>6, <2>7, Alone, Standing, PlaceNames
<1>3. CASE ~Available
  <2>1. Leave(r) /\ DiscardState
    BY <1>3 DEF Locked
  <2> QED
    BY <1>1, <2>1, DiscardTypes, LeaveStep
<1> QED
  BY <1>2, <1>3

LEMMA ManifestStep ==
  ASSUME Setting, IInv, NEW r \in Restorers, FetchManifest(r)
  PROVE  IInv'
<1>ty. Types
  BY DEF IInv
<1>1. remote' = remote /\ dest' = dest /\ point[r] = "manifest"
  BY DEF FetchManifest, At
<1>2. lockedBy = r
  BY <1>1, Inside, PlaceNames
<1>3. CASE remote = NoBodies
  BY <1>1, <1>2, <1>3, DiscardTypes, LeaveStep DEF FetchManifest
<1>4. CASE remote # NoBodies
  <2>1. hand' = [hand EXCEPT ![r].entries = remote] /\ Goto(r, "audit") /\ UNCHANGED area
    BY <1>4 DEF FetchManifest
  <2>2. /\ hand' \in [Restorers -> Hands] /\ hand'[r].entries = remote
        /\ hand'[r].ledger = hand[r].ledger
        /\ \A q \in Restorers \ {r} : hand'[q] = hand[q]
    <3>1. hand \in [Restorers -> Hands] /\ remote \in Entries
      BY <1>ty DEF Types
    <3> QED
      BY <2>1, <3>1 DEF Hands
  <2>3. /\ point' \in [Restorers -> Places] /\ point'[r] = "audit" /\ lockedBy' = lockedBy
        /\ \A q \in Restorers \ {r} : point'[q] = point[q]
    BY <2>1, <1>ty, Goes, PlaceNames
  <2>4. Types'
    BY <1>ty, <1>1, <2>1, <2>2, <2>3 DEF Types, area
  <2>5. Listed(hand'[r], remote)
    <3>1. \A f \in Files : remote[f] \in Nat
      BY <1>ty DEF Types, Entries, Version, Setting
    <3> QED
      BY <2>2, <3>1 DEF Listed
  <2>6. Fit("audit", hand'[r], staged, seeded, remote)
    BY <2>2, <2>5, <1>1, Inside, PlaceNames
       DEF Fit, Sorted, Carried, Checked, Marked, Filling, Filled
  <2>7. dest'.kind # "store"
    BY <1>1 DEF IInv, Room, Before
  <2>8. Fit(point'[r], hand'[r], staged', seeded', remote) /\ TrueOf(ledger', remote)
    BY <2>1, <2>3, <2>6 DEF area, IInv
  <2> QED
    BY <1>1, <1>2, <2>2, <2>3, <2>4, <2>7, <2>8, Alone, Standing, PlaceNames
<1> QED
  BY <1>3, <1>4
(* The audit keeps what is staged as the ledger says, under the listed ETag.  *)
LEMMA AuditStep ==
  ASSUME Setting, IInv, NEW r \in Restorers, Audit(r)
  PROVE  IInv'
<1> DEFINE recorded == IF readable THEN ledger ELSE NoLedger
           kept == {f \in Files : StillGood(recorded[f], hand[r].entries[f], staged[f])}
           l == [f \in Files |-> IF f \in kept THEN recorded[f] ELSE NoRecord]
           st == [f \in Files |-> IF f \in kept THEN staged[f] ELSE None]
<1>ty. Types
  BY DEF IInv
<1>1. /\ remote' = remote /\ dest' = dest /\ point[r] = "audit"
      /\ seeded' = NoLedger /\ ledger' = ledger /\ readable' = readable
  BY DEF Audit, At
<1>2. lockedBy = r /\ hand[r] \in Hands /\ Listed(hand[r], remote)
  BY <1>1, Inside, PlaceNames
<1>3. /\ staged' = st /\ hand' = [hand EXCEPT ![r].kept = kept, ![r].ledger = l]
      /\ Goto(r, "download")
  BY DEF Audit, OpenLedger
<1>4. recorded \in Ledgers /\ TrueOf(recorded, remote)
  <2>1. remote \in Entries /\ ledger \in Ledgers /\ TrueOf(ledger, remote)
    BY <1>ty DEF Types, IInv
  <2> QED
    BY <2>1, Blank, BlankFits, PlaceNames
<1>5. kept \in SUBSET Files /\ l \in Ledgers /\ st \in Bodies /\ TrueOf(l, remote)
  <2>1. remote \in Entries /\ staged \in Bodies
    BY <1>ty DEF Types
  <2>2. l \in Ledgers
    BY <1>4, Blank DEF Ledgers
  <2>3. st \in Bodies
    BY <2>1, Blank DEF Bodies
  <2>4. TrueOf(NoLedger, remote)
    BY <2>1, BlankFits, PlaceNames
  <2>5. TrueOf(l, remote)
    BY <1>4, <2>4, Blank DEF TrueOf
  <2> QED
    BY <2>2, <2>3, <2>5
<1> HIDE DEF recorded, l, st, kept
<1>6. /\ hand' \in [Restorers -> Hands] /\ hand'[r].entries = hand[r].entries
      /\ hand'[r].ledger = l /\ hand'[r].kept = kept
      /\ \A q \in Restorers \ {r} : hand'[q] = hand[q]
  <2>1. hand \in [Restorers -> Hands]
    BY <1>ty DEF Types
  <2> QED
    BY <2>1, <1>3, <1>5 DEF Hands
<1>7. /\ point' \in [Restorers -> Places] /\ point'[r] = "download" /\ lockedBy' = lockedBy
      /\ \A q \in Restorers \ {r} : point'[q] = point[q]
  BY <1>3, <1>ty, Goes, PlaceNames
<1>8. Types'
  BY <1>ty, <1>1, <1>3, <1>5, <1>6, <1>7, Blank DEF Types
<1>9. Sorted("download", hand'[r], st)
  <2> SUFFICES ASSUME NEW f \in Files
               PROVE  \/ f \in hand'[r].kept /\ Trusted(hand'[r], st, f)
                      \/ f \notin hand'[r].kept /\ hand'[r].ledger[f] = NoRecord /\ st[f] = None
    BY DEF Sorted
  <2>1. CASE f \in kept
    <3>1. /\ hand[r].entries[f] # None /\ staged[f] # None
          /\ recorded[f].etag = hand[r].entries[f] /\ recorded[f].body = staged[f]
      BY <2>1 DEF kept, StillGood
    <3>2. l[f] = recorded[f] /\ st[f] = staged[f]
      BY <2>1 DEF l, st
    <3> QED
      BY <2>1, <3>1, <3>2, <1>6 DEF Trusted
  <2>2. CASE f \notin kept
    <3>1. l[f] = NoRecord /\ st[f] = None
      BY <2>2 DEF l, st
    <3> QED
      BY <2>2, <3>1, <1>6
  <2> QED
    BY <2>1, <2>2
<1>10. Fit("download", hand'[r], st, NoLedger, remote)
  BY <1>2, <1>5, <1>6, <1>9 DEF Fit, Listed, Carried, Checked, Marked, Filled
<1>11. Fit(point'[r], hand'[r], staged', seeded', remote) /\ TrueOf(ledger', remote)
  BY <1>1, <1>3, <1>7, <1>10 DEF IInv
<1>12. dest'.kind # "store"
  BY <1>1 DEF IInv, Room, Before
<1> QED
  BY <1>1, <1>2, <1>6, <1>7, <1>8, <1>11, <1>12, Alone, Standing, PlaceNames

(* What is downloaded is as new as its listing, and the very listing where   *)
(* the ETag tells.                                                          *)
LEMMA DownloadStep ==
  ASSUME Setting, IInv, NEW r \in Restorers, Download(r)
  PROVE  IInv'
<1>ty. Types
  BY DEF IInv
<1>1. remote' = remote /\ dest' = dest /\ point[r] = "download" /\ UNCHANGED area
  BY DEF Download, At
<1>2. /\ lockedBy = r /\ hand[r] \in Hands /\ Listed(hand[r], remote)
      /\ TrueOf(hand[r].ledger, remote) /\ Sorted("download", hand[r], staged)
  BY <1>1, Inside, PlaceNames
<1>3. PICK f \in Pending(r) :
        IF f \in Dated /\ remote[f] # hand[r].entries[f]
          THEN Leave(r)
          ELSE /\ hand' = [hand EXCEPT ![r].path = f, ![r].body = remote[f]]
               /\ Goto(r, "accept")
  BY DEF Download
<1>4. CASE f \in Dated /\ remote[f] # hand[r].entries[f]
  <2>1. Leave(r) /\ ledger' = ledger /\ readable' \in BOOLEAN /\ staged' \in Bodies /\ seeded' \in Ledgers
    BY <1>1, <1>3, <1>4, <1>ty DEF area, Types
  <2> QED
    BY <1>1, <1>2, <2>1, LeaveStep
<1>5. CASE ~(f \in Dated /\ remote[f] # hand[r].entries[f])
  <2>1. f \in Files \ hand[r].kept /\ hand[r].entries[f] # None
    BY DEF Pending
  <2>2. hand' = [hand EXCEPT ![r].path = f, ![r].body = remote[f]] /\ Goto(r, "accept")
    BY <1>3, <1>5
  <2>3. remote[f] \in Version /\ remote[f] \in Nat
    BY <1>ty, <2>1 DEF Types, Entries, Version, Setting
  <2>4. /\ hand' \in [Restorers -> Hands] /\ hand'[r].entries = hand[r].entries
        /\ hand'[r].ledger = hand[r].ledger /\ hand'[r].kept = hand[r].kept
        /\ hand'[r].path = f /\ hand'[r].body = remote[f]
        /\ \A q \in Restorers \ {r} : hand'[q] = hand[q]
    <3>1. hand \in [Restorers -> Hands]
      BY <1>ty DEF Types
    <3> QED
      BY <2>1, <2>2, <2>3, <3>1 DEF Hands
  <2>5. /\ point' \in [Restorers -> Places] /\ point'[r] = "accept" /\ lockedBy' = lockedBy
        /\ \A q \in Restorers \ {r} : point'[q] = point[q]
    BY <2>2, <1>ty, Goes, PlaceNames
  <2>6. Types'
    BY <1>ty, <1>1, <2>4, <2>5 DEF Types, area
  <2>7. Carried("accept", hand'[r], staged, remote)
    <3>1. hand[r].entries[f] <= remote[f]
      BY <1>2, <2>1 DEF Listed
    <3>2. hand[r].entries[f] \in Nat
      BY <1>2, <2>1, HandFields DEF Entries, Version, Setting
    <3> QED
      BY <1>5, <2>1, <2>3, <2>4, <3>1, <3>2 DEF Carried
  <2>8. Fit("accept", hand'[r], staged, seeded, remote)
    BY <1>2, <2>4, <2>7 DEF Fit, Listed, Sorted, Trusted, Filling, Checked, Marked, Filled
  <2>9. Fit(point'[r], hand'[r], staged', seeded', remote) /\ TrueOf(ledger', remote)
    BY <1>1, <2>5, <2>8 DEF area, IInv
  <2>10. dest'.kind # "store"
    BY <1>1 DEF IInv, Room, Before
  <2> QED
    BY <1>1, <1>2, <2>4, <2>5, <2>6, <2>9, <2>10, Alone, Standing, PlaceNames
<1> QED
  BY <1>4, <1>5

(* The file first: nothing trusts it yet.                                   *)
LEMMA AcceptStep ==
  ASSUME Setting, IInv, NEW r \in Restorers, Accept(r)
  PROVE  IInv'
<1> DEFINE f == hand[r].path
           st == [staged EXCEPT ![f] = hand[r].body]
<1>ty. Types
  BY DEF IInv
<1>1. /\ remote' = remote /\ dest' = dest /\ point[r] = "accept"
      /\ UNCHANGED <<seeded, ledger, readable, hand>> /\ staged' = st /\ Goto(r, "record")
  BY DEF Accept, At
<1>2. /\ lockedBy = r /\ hand[r] \in Hands /\ Listed(hand[r], remote)
      /\ TrueOf(hand[r].ledger, remote) /\ Sorted("accept", hand[r], staged)
      /\ Carried("accept", hand[r], staged, remote)
  BY <1>1, Inside, PlaceNames
<1>3. f \in Files \ hand[r].kept
  BY <1>2 DEF Carried
<1>4. st \in Bodies /\ st[f] = hand[r].body /\ \A g \in Files \ {f} : st[g] = staged[g]
  <2>1. staged \in Bodies /\ hand[r].body \in Version
    BY <1>ty, <1>2, HandFields DEF Types
  <2> QED
    BY <2>1, <1>3 DEF Bodies
<1> HIDE DEF f, st
<1>5. /\ point' \in [Restorers -> Places] /\ point'[r] = "record" /\ lockedBy' = lockedBy
      /\ \A q \in Restorers \ {r} : point'[q] = point[q]
  BY <1>1, <1>ty, Goes, PlaceNames
<1>6. Types'
  BY <1>ty, <1>1, <1>4, <1>5 DEF Types
<1>7. Sorted("record", hand[r], st)
  BY <1>2, <1>3, <1>4 DEF Sorted, Trusted, Filling, f
<1>8. Carried("record", hand[r], st, remote)
  BY <1>2, <1>4 DEF Carried, f
<1>9. Fit("record", hand[r], st, seeded, remote)
  BY <1>2, <1>7, <1>8 DEF Fit, Checked, Marked, Filled
<1>10. Fit(point'[r], hand'[r], staged', seeded', remote) /\ TrueOf(ledger', remote)
  BY <1>1, <1>5, <1>9 DEF IInv
<1>11. dest'.kind # "store"
  BY <1>1 DEF IInv, Room, Before
<1>12. \A q \in Restorers \ {r} : point'[q] = point[q] /\ hand'[q] = hand[q]
  BY <1>1, <1>5
<1> QED
  BY <1>1, <1>2, <1>5, <1>6, <1>10, <1>11, <1>12, Alone, Standing, PlaceNames
(* The record of it after: now it is trusted.                                *)
LEMMA RecordStep ==
  ASSUME Setting, IInv, NEW r \in Restorers, SaveLedger(r)
  PROVE  IInv'
<1> DEFINE f == hand[r].path
           new == [etag |-> hand[r].entries[f], body |-> hand[r].body]
           l == [hand[r].ledger EXCEPT ![f] = new]
<1>ty. Types
  BY DEF IInv
<1>1. /\ remote' = remote /\ dest' = dest /\ point[r] = "record"
      /\ UNCHANGED <<staged, seeded>> /\ ledger' = l /\ readable' = TRUE
      /\ hand' = [hand EXCEPT ![r].ledger = l, ![r].kept = @ \union {f}]
      /\ Goto(r, "download")
  BY DEF SaveLedger, At, Recorded
<1>2. /\ lockedBy = r /\ hand[r] \in Hands /\ Listed(hand[r], remote)
      /\ TrueOf(hand[r].ledger, remote) /\ Sorted("record", hand[r], staged)
      /\ Carried("record", hand[r], staged, remote)
  BY <1>1, Inside, PlaceNames
<1>3. /\ f \in Files \ hand[r].kept /\ hand[r].entries[f] # None
      /\ hand[r].body >= hand[r].entries[f] /\ hand[r].body <= remote[f]
      /\ f \in Dated => hand[r].body = hand[r].entries[f]
      /\ staged[f] = hand[r].body
  BY <1>2 DEF Carried
<1>4. /\ new \in [etag : Version, body : Version] /\ new.etag = hand[r].entries[f]
      /\ new.body = hand[r].body
  BY <1>2, <1>3, HandFields DEF Entries
<1> HIDE DEF new
<1>5. l \in Ledgers /\ l[f] = new /\ \A g \in Files \ {f} : l[g] = hand[r].ledger[g]
  <2>1. hand[r].ledger \in Ledgers
    BY <1>2, HandFields
  <2> QED
    BY <2>1, <1>3, <1>4 DEF Ledgers
<1> HIDE DEF l, f
<1>6. /\ hand' \in [Restorers -> Hands] /\ hand'[r].entries = hand[r].entries
      /\ hand'[r].ledger = l /\ hand'[r].kept = hand[r].kept \union {f}
      /\ \A q \in Restorers \ {r} : hand'[q] = hand[q]
  <2>1. hand \in [Restorers -> Hands]
    BY <1>ty DEF Types
  <2> QED
    BY <2>1, <1>1, <1>3, <1>5 DEF Hands
<1>7. /\ point' \in [Restorers -> Places] /\ point'[r] = "download" /\ lockedBy' = lockedBy
      /\ \A q \in Restorers \ {r} : point'[q] = point[q]
  BY <1>1, <1>ty, Goes, PlaceNames
<1>8. Types'
  BY <1>ty, <1>1, <1>5, <1>6, <1>7 DEF Types
<1>9. TrueOf(l, remote)
  BY <1>2, <1>3, <1>4, <1>5 DEF TrueOf
<1>10. Sorted("download", hand'[r], staged)
  <2> SUFFICES ASSUME NEW g \in Files
               PROVE  \/ g \in hand'[r].kept /\ Trusted(hand'[r], staged, g)
                      \/ g \notin hand'[r].kept /\ hand'[r].ledger[g] = NoRecord /\ staged[g] = None
    BY DEF Sorted
  <2>1. CASE g = f
    <3>1. hand[r].body # None
      <4>1. hand[r].body \in Nat /\ hand[r].entries[f] \in Nat
        BY <1>2, <1>3, HandFields DEF Entries, Version, Setting
      <4> QED
        BY <4>1, <1>3 DEF None
    <3> QED
      BY <2>1, <3>1, <1>3, <1>4, <1>5, <1>6 DEF Trusted
  <2>2. CASE g # f
    BY <2>2, <1>2, <1>5, <1>6 DEF Sorted, Trusted, Filling, f
  <2> QED
    BY <2>1, <2>2
<1>11. Fit("download", hand'[r], staged, seeded, remote)
  BY <1>2, <1>6, <1>9, <1>10 DEF Fit, Listed, Carried, Checked, Marked, Filled
<1>12. Fit(point'[r], hand'[r], staged', seeded', remote) /\ TrueOf(ledger', remote)
  BY <1>1, <1>7, <1>9, <1>11
<1>13. dest'.kind # "store"
  BY <1>1 DEF IInv, Room, Before
<1> QED
  BY <1>1, <1>2, <1>6, <1>7, <1>8, <1>12, <1>13, Alone, Standing, PlaceNames

(* Nothing is validated while something listed is missing.                   *)
LEMMA ValidateStep ==
  ASSUME Setting, IInv, NEW r \in Restorers, Validate(r)
  PROVE  IInv'
<1>ty. Types
  BY DEF IInv
<1>1. remote' = remote /\ dest' = dest /\ point[r] = "download" /\ Pending(r) = {}
  BY DEF Validate, At
<1>2. /\ lockedBy = r /\ hand[r] \in Hands /\ Listed(hand[r], remote)
      /\ TrueOf(hand[r].ledger, remote) /\ Sorted("download", hand[r], staged)
  BY <1>1, Inside, PlaceNames
<1>3. CASE Complete(staged) /\ Clean(staged)
  <2>1. Goto(r, "seed") /\ UNCHANGED <<staged, seeded, ledger, readable>> /\ hand' = hand
    BY <1>3 DEF Validate, area
  <2>2. /\ point' \in [Restorers -> Places] /\ point'[r] = "seed" /\ lockedBy' = lockedBy
        /\ \A q \in Restorers \ {r} : point'[q] = point[q]
    BY <2>1, <1>ty, Goes, PlaceNames
  <2>3. Types'
    BY <1>ty, <1>1, <2>1, <2>2 DEF Types
  <2>4. \A f \in Files : hand[r].entries[f] # None => f \in hand[r].kept
    BY <1>1 DEF Pending
  <2>5. Fit("seed", hand[r], staged, seeded, remote)
    BY <1>2, <1>3, <2>4 DEF Fit, Sorted, Filling, Filled, Carried, Checked, Marked
  <2>6. Fit(point'[r], hand'[r], staged', seeded', remote) /\ TrueOf(ledger', remote)
    BY <1>1, <2>1, <2>2, <2>5 DEF IInv
  <2>7. dest'.kind # "store"
    BY <1>1 DEF IInv, Room, Before
  <2>8. \A q \in Restorers \ {r} : point'[q] = point[q] /\ hand'[q] = hand[q]
    BY <2>1, <2>2
  <2> QED
    BY <1>1, <1>2, <2>2, <2>3, <2>6, <2>7, <2>8, Alone, Standing, PlaceNames
<1>4. CASE ~(Complete(staged) /\ Clean(staged))
  <2>1. Leave(r) /\ DiscardState
    BY <1>4 DEF Validate
  <2> QED
    BY <1>1, <1>2, <2>1, DiscardTypes, LeaveStep
<1> QED
  BY <1>3, <1>4

LEMMA SeedStep ==
  ASSUME Setting, IInv, NEW r \in Restorers, Seed(r)
  PROVE  IInv'
<1>ty. Types
  BY DEF IInv
<1>1. /\ remote' = remote /\ dest' = dest /\ point[r] = "seed"
      /\ UNCHANGED <<staged, ledger, readable, hand>> /\ seeded' = hand[r].ledger
      /\ Goto(r, "clear")
  BY DEF Seed, At, SeedOf
<1>2. /\ lockedBy = r /\ hand[r] \in Hands /\ Listed(hand[r], remote)
      /\ TrueOf(hand[r].ledger, remote) /\ Sorted("seed", hand[r], staged)
      /\ Checked("seed", hand[r], staged)
  BY <1>1, Inside, PlaceNames
<1>3. /\ point' \in [Restorers -> Places] /\ point'[r] = "clear" /\ lockedBy' = lockedBy
      /\ \A q \in Restorers \ {r} : point'[q] = point[q]
  BY <1>1, <1>ty, Goes, PlaceNames
<1>4. Types'
  BY <1>ty, <1>1, <1>2, <1>3, HandFields DEF Types
<1>5. Fit("clear", hand[r], staged, hand[r].ledger, remote)
  BY <1>2 DEF Fit, Sorted, Filling, Filled, Carried, Checked, Marked
<1>6. Fit(point'[r], hand'[r], staged', seeded', remote) /\ TrueOf(ledger', remote)
  BY <1>1, <1>3, <1>5 DEF IInv
<1>7. dest'.kind # "store"
  BY <1>1 DEF IInv, Room, Before
<1>8. \A q \in Restorers \ {r} : point'[q] = point[q] /\ hand'[q] = hand[q]
  BY <1>1, <1>3
<1> QED
  BY <1>1, <1>2, <1>3, <1>4, <1>6, <1>7, <1>8, Alone, Standing, PlaceNames

LEMMA DestKinds ==
  ASSUME Setting, NEW d \in {Absent, Empty, Users}
  PROVE  d \in Dests /\ d.kind # "store"
<1>1. Empty \in Dests /\ Empty.kind = "empty"
  BY Blank DEF Empty, Dests
<1>2. Absent \in Dests /\ Absent.kind = "absent"
  BY <1>1 DEF Absent, Dests
<1>3. Users \in Dests /\ Users.kind = "user"
  BY <1>1 DEF Users, Dests
<1> QED
  BY <1>1, <1>2, <1>3

LEMMA ClearStep ==
  ASSUME Setting, IInv, NEW r \in Restorers, ClearDestination(r)
  PROVE  IInv'
<1>ty. Types
  BY DEF IInv
<1>1. remote' = remote /\ point[r] = "clear" /\ UNCHANGED <<staged, seeded, ledger, readable>>
  BY DEF ClearDestination, At, area
<1>2. /\ lockedBy = r /\ hand[r] \in Hands /\ Listed(hand[r], remote)
      /\ TrueOf(hand[r].ledger, remote) /\ Sorted("clear", hand[r], staged)
      /\ Checked("clear", hand[r], staged) /\ Marked("clear", hand[r], seeded)
  BY <1>1, Inside, PlaceNames
<1>3. CASE dest.kind = "user"
  <2>1. Leave(r) /\ dest' = dest
    BY <1>3 DEF ClearDestination
  <2>2. ledger' = ledger /\ readable' \in BOOLEAN /\ staged' \in Bodies /\ seeded' \in Ledgers
    BY <1>1, <1>ty DEF Types
  <2> QED
    BY <1>1, <1>2, <2>1, <2>2, LeaveStep
<1>4. CASE dest.kind # "user"
  <2>1. dest' = Absent /\ Goto(r, "rename") /\ hand' = hand
    BY <1>4 DEF ClearDestination
  <2>2. /\ point' \in [Restorers -> Places] /\ point'[r] = "rename" /\ lockedBy' = lockedBy
        /\ \A q \in Restorers \ {r} : point'[q] = point[q]
    BY <2>1, <1>ty, Goes, PlaceNames
  <2>3. dest' \in Dests /\ dest'.kind # "store"
    BY <2>1, DestKinds
  <2>4. Types'
    BY <1>ty, <1>1, <2>1, <2>2, <2>3 DEF Types
  <2>5. Fit("rename", hand[r], staged, seeded, remote)
    BY <1>2 DEF Fit, Sorted, Filling, Filled, Carried, Checked, Marked
  <2>6. Fit(point'[r], hand'[r], staged', seeded', remote) /\ TrueOf(ledger', remote)
    BY <1>1, <2>1, <2>2, <2>5 DEF IInv
  <2>7. RestoredSound'
    BY <2>3 DEF RestoredSound, InstalledWhole, SeededTruthful
  <2>8. \A q \in Restorers \ {r} : point'[q] = point[q] /\ hand'[q] = hand[q]
    BY <2>1, <2>2
  <2> QED
    BY <1>1, <1>2, <2>2, <2>3, <2>4, <2>6, <2>7, <2>8, Alone, PlaceNames
<1> QED
  BY <1>3, <1>4
(* What lands is whole and its sync state true, by what a run knows.          *)
LEMMA Landing ==
  ASSUME Setting, NEW h \in Hands, NEW st \in Bodies, NEW rm \in Entries,
         TrueOf(h.ledger, rm), Sorted("rename", h, st), Checked("rename", h, st)
  PROVE  /\ Complete(st) /\ Clean(st)
         /\ \A f \in Files :
              /\ (st[f] = None) = (h.entries[f] = None)
              /\ st[f] # Damaged /\ st[f] >= h.entries[f] /\ st[f] <= rm[f]
              /\ f \in Dated => st[f] = h.entries[f]
              /\ h.ledger[f] = [etag |-> h.entries[f], body |-> st[f]]
<1>1. Complete(st) /\ Clean(st)
  BY DEF Checked, Filled
<1> SUFFICES ASSUME NEW f \in Files
             PROVE  /\ (st[f] = None) = (h.entries[f] = None)
                    /\ st[f] # Damaged /\ st[f] >= h.entries[f] /\ st[f] <= rm[f]
                    /\ f \in Dated => st[f] = h.entries[f]
                    /\ h.ledger[f] = [etag |-> h.entries[f], body |-> st[f]]
  BY <1>1
<1>2. /\ h.ledger[f] \in [etag : Version, body : Version] /\ h.entries[f] \in Version
      /\ rm[f] \in Nat
  BY HandFields DEF Ledgers, Entries, Version, Setting
<1>3. h.ledger[f] = [etag |-> h.ledger[f].etag, body |-> h.ledger[f].body]
  BY <1>2
<1>4. \A n \in Version : n \in Nat /\ n # Damaged
  BY DEF Version, Damaged, Setting
<1>5. h.ledger[f].body \in Version /\ h.ledger[f].etag \in Version
  BY <1>2
<1>6. /\ h.ledger[f].body >= h.ledger[f].etag /\ h.ledger[f].body <= rm[f]
      /\ f \in Dated => h.ledger[f].body = h.ledger[f].etag
  BY DEF TrueOf
<1>7. CASE f \in h.kept /\ Trusted(h, st, f)
  BY <1>7, <1>3, <1>4, <1>5, <1>6 DEF Trusted
<1>8. CASE f \notin h.kept /\ h.ledger[f] = NoRecord /\ st[f] = None
  <2>1. h.entries[f] = None
    BY <1>8 DEF Checked, Filled
  <2> QED
    BY <2>1, <1>8, <1>2, <1>4, Blank DEF NoRecord, None
<1>9. (f \in h.kept /\ Trusted(h, st, f)) \/ (f \notin h.kept /\ h.ledger[f] = NoRecord /\ st[f] = None)
  BY DEF Sorted, Filling, Filled
<1> QED
  BY <1>7, <1>8, <1>9

LEMMA RenameStep ==
  ASSUME Setting, IInv, NEW r \in Restorers, Rename(r)
  PROVE  IInv'
<1>ty. Types
  BY DEF IInv
<1>1. remote' = remote /\ point[r] = "rename" /\ UNCHANGED <<ledger, readable>>
  BY DEF Rename, At
<1>2. /\ lockedBy = r /\ hand[r] \in Hands /\ Listed(hand[r], remote)
      /\ TrueOf(hand[r].ledger, remote) /\ Sorted("rename", hand[r], staged)
      /\ Checked("rename", hand[r], staged) /\ Marked("rename", hand[r], seeded)
  BY <1>1, Inside, PlaceNames
<1>3. CASE dest.kind # "user"
  <2>1. /\ dest' = [kind |-> "store", body |-> staged, state |-> seeded,
                    manifest |-> hand[r].entries]
        /\ staged' = NoBodies /\ seeded' = NoLedger /\ Goto(r, "cleanup") /\ hand' = hand
    BY <1>3 DEF Rename, Replaces
  <2>2. /\ point' \in [Restorers -> Places] /\ point'[r] = "cleanup" /\ lockedBy' = lockedBy
        /\ \A q \in Restorers \ {r} : point'[q] = point[q]
    BY <2>1, <1>ty, Goes, PlaceNames
  <2>3. staged \in Bodies /\ seeded \in Ledgers /\ remote \in Entries /\ hand[r].entries \in Entries
    BY <1>ty, <1>2, HandFields DEF Types
  <2>4. /\ dest' \in Dests /\ dest'.kind = "store" /\ dest'.body = staged
        /\ dest'.state = seeded /\ dest'.manifest = hand[r].entries
    BY <2>1, <2>3 DEF Dests
  <2>5. Types'
    BY <1>ty, <1>1, <2>1, <2>2, <2>4, Blank DEF Types
  <2>6. seeded = hand[r].ledger
    BY <1>2 DEF Marked
  <2>7. RestoredSound'
    <3>1. InstalledWhole'
      <4>1. /\ Complete(staged) /\ Clean(staged)
            /\ \A f \in Files :
                 /\ (staged[f] = None) = (hand[r].entries[f] = None)
                 /\ staged[f] # Damaged /\ staged[f] >= hand[r].entries[f]
                 /\ f \in Dated => staged[f] = hand[r].entries[f]
        BY <1>2, <2>3, Landing
      <4> QED
        BY <4>1, <2>4 DEF InstalledWhole
    <3>2. SeededTruthful'
      BY <1>2, <2>3, <2>4, <2>6, Landing DEF SeededTruthful
    <3> QED
      BY <3>1, <3>2 DEF RestoredSound
  <2>8. Fit("cleanup", hand[r], NoBodies, NoLedger, remote)
    BY <1>2 DEF Fit, Sorted, Filling, Filled, Carried, Checked, Marked
  <2>9. Fit(point'[r], hand'[r], staged', seeded', remote) /\ TrueOf(ledger', remote)
    BY <1>1, <2>1, <2>2, <2>8 DEF IInv
  <2>10. \A q \in Restorers \ {r} : point'[q] = point[q] /\ hand'[q] = hand[q]
    BY <2>1, <2>2
  <2> QED
    BY <1>1, <1>2, <2>2, <2>5, <2>7, <2>9, <2>10, Alone, PlaceNames
<1>4. CASE dest.kind = "user"
  <2>1. Leave(r) /\ dest' = dest /\ staged' = staged /\ seeded' = seeded
    BY <1>4 DEF Rename, Replaces
  <2>2. ledger' = ledger /\ readable' \in BOOLEAN /\ staged' \in Bodies /\ seeded' \in Ledgers
    BY <1>1, <2>1, <1>ty DEF Types
  <2> QED
    BY <1>1, <1>2, <2>1, <2>2, LeaveStep
<1> QED
  BY <1>3, <1>4

LEMMA CleanUpStep ==
  ASSUME Setting, IInv, NEW r \in Restorers, CleanUp(r)
  PROVE  IInv'
<1>1. /\ remote' = remote /\ dest' = dest /\ point[r] = "cleanup" /\ Leave(r)
      /\ ledger' = NoLedger /\ readable' = TRUE /\ UNCHANGED <<staged, seeded>>
  BY DEF CleanUp, At
<1>2. lockedBy = r
  BY <1>1, Inside, PlaceNames
<1>3. staged' \in Bodies /\ seeded' \in Ledgers
  BY <1>1 DEF IInv, Types
<1> QED
  BY <1>1, <1>2, <1>3, LeaveStep

(* A death keeps the staging area for the next run.                          *)
LEMMA DieStep ==
  ASSUME Setting, IInv, NEW r \in Restorers, Die(r)
  PROVE  IInv'
<1>1. /\ remote' = remote /\ dest' = dest /\ point[r] \notin Before /\ Leave(r)
      /\ UNCHANGED <<staged, seeded, ledger, readable>>
  BY DEF Die, area, Before
<1>2. lockedBy = r
  BY <1>1, Inside
<1>3. ledger' = ledger /\ readable' \in BOOLEAN /\ staged' \in Bodies /\ seeded' \in Ledgers
  BY <1>1 DEF IInv, Types
<1> QED
  BY <1>1, <1>2, <1>3, LeaveStep

(* Files are damaged while no run is inside, and nobody trusts them then.     *)
LEMMA DamageStep ==
  ASSUME Setting, IInv, Damage
  PROVE  IInv'
<1>ty. Types
  BY DEF IInv
<1>1. /\ lockedBy = NoOne /\ UNCHANGED <<remote, seeded, ledger, dest, lockedBy, point, hand>>
  BY DEF Damage
<1>2. staged' \in Bodies /\ readable' \in BOOLEAN
  <2>1. staged \in Bodies /\ readable \in BOOLEAN
    BY <1>ty DEF Types
  <2> QED
    BY <2>1 DEF Damage, Bodies
<1>3. Types'
  BY <1>ty, <1>1, <1>2 DEF Types
<1>4. Held' /\ Room' /\ TrueOf(ledger', remote')
  BY <1>1 DEF IInv, Held, Room
<1>5. Runs'
  <2>1. \A r \in Restorers : point[r] \in Before
    BY <1>1 DEF IInv, Held, Setting
  <2>2. \A r \in Restorers : Fit(point[r], hand[r], staged', seeded, remote)
    BY <2>1, Waits DEF IInv, Runs
  <2> QED
    BY <2>2, <1>1 DEF Runs
<1> QED
  BY <1>1, <1>3, <1>4, <1>5, Standing DEF IInv

(* The record only grows: what is known of it stays true.                    *)
LEMMA EditStep ==
  ASSUME Setting, IInv, EditRemote
  PROVE  IInv' /\ \A f \in Files : remote'[f] >= remote[f]
<1>ty. Types
  BY DEF IInv
<1>1. UNCHANGED <<staged, seeded, ledger, readable, dest, lockedBy, point, hand>>
  BY DEF EditRemote, area
<1>2. remote \in Entries /\ remote' \in Entries /\ \A f \in Files : remote'[f] >= remote[f]
  <2>1. remote \in Entries
    BY <1>ty DEF Types
  <2>2. \A f \in Files : remote[f] \in Nat
    BY <2>1 DEF Entries, Version, Setting
  <2>3. PICK f \in Files : remote[f] < MaxVersion /\ remote' = [remote EXCEPT ![f] = remote[f] + 1]
    BY DEF EditRemote
  <2>4. remote[f] + 1 \in Version
    BY <2>2, <2>3 DEF Version, Setting
  <2> QED
    BY <2>1, <2>2, <2>3, <2>4 DEF Entries
<1>3. Types'
  BY <1>ty, <1>1, <1>2 DEF Types
<1>4. Held' /\ Room'
  BY <1>1 DEF IInv, Held, Room
<1>5. TrueOf(ledger', remote')
  BY <1>1, <1>2, <1>ty, Grows DEF IInv, Types
<1>6. Runs'
  <2> SUFFICES ASSUME NEW r \in Restorers
               PROVE  Fit(point[r], hand[r], staged, seeded, remote')
    BY <1>1 DEF Runs
  <2>1. hand[r] \in Hands /\ hand[r].ledger \in Ledgers /\ point[r] \in Places /\ staged \in Bodies
    BY <1>ty, HandFields DEF Types
  <2>2. Fit(point[r], hand[r], staged, seeded, remote)
    BY DEF IInv, Runs
  <2> QED
    BY <2>1, <2>2, <1>2, Grows DEF Fit
<1> QED
  BY <1>1, <1>2, <1>3, <1>4, <1>5, <1>6, Standing DEF IInv

LEMMA UserStep ==
  ASSUME Setting, IInv, UserActs
  PROVE  IInv'
<1>1. UNCHANGED <<remote, staged, seeded, ledger, readable, lockedBy, point, hand>>
  BY DEF UserActs, area
<1>2. dest' \in Dests /\ dest'.kind # "store"
  BY DestKinds DEF UserActs
<1>3. Types'
  BY <1>1, <1>2 DEF IInv, Types
<1>4. Held' /\ Room' /\ TrueOf(ledger', remote') /\ Runs'
  BY <1>1, <1>2 DEF IInv, Held, Room, Runs
<1>5. RestoredSound'
  BY <1>2 DEF RestoredSound, InstalledWhole, SeededTruthful
<1> QED
  BY <1>3, <1>4, <1>5 DEF IInv

-----------------------------------------------------------------------------
(* The results.                                                             *)

LEMMA Initial == Setting /\ RInit => IInv
<1> SUFFICES ASSUME Setting, RInit
             PROVE  IInv
  OBVIOUS
<1>1. remote \in Entries
  BY DEF RInit, Entries, Version, Setting
<1>2. dest \in Dests /\ dest.kind # "store"
  BY DestKinds DEF RInit
<1>3. \A r \in Restorers : point[r] = "idle" /\ hand[r] = NoHand
  BY DEF RInit
<1>4. Types
  BY <1>1, <1>2, Blank, BlankHand, PlaceNames DEF Types, RInit
<1>5. Held /\ Room
  BY <1>3, PlaceNames DEF Held, Room, RInit, Setting
<1>6. Runs /\ TrueOf(ledger, remote)
  BY <1>1, <1>3, BlankFits, PlaceNames DEF Runs, RInit
<1>7. RestoredSound
  BY <1>2 DEF RestoredSound, InstalledWhole, SeededTruthful
<1> QED
  BY <1>4, <1>5, <1>6, <1>7 DEF IInv

LEMMA Step == Setting /\ IInv /\ [RNext]_rvars => IInv'
<1> SUFFICES ASSUME Setting, IInv, [RNext]_rvars
             PROVE  IInv'
  OBVIOUS
<1>1. ASSUME NEW r \in Restorers, Advance(r)
      PROVE  IInv'
  BY <1>1, WaitStep, LockStep, ManifestStep, AuditStep, DownloadStep, AcceptStep, RecordStep,
     ValidateStep, SeedStep, ClearStep, RenameStep, CleanUpStep DEF Advance
<1>2. CASE UNCHANGED rvars
  BY <1>2 DEF IInv, Types, Held, Runs, Room, RestoredSound, InstalledWhole, SeededTruthful, rvars
<1> QED
  BY <1>1, <1>2, WaitStep, DieStep, DamageStep, EditStep, UserStep DEF RNext

(* The invariant of every behaviour: one run at a time is inside, what it     *)
(* trusts is what the record held, and what has landed is whole.             *)
THEOREM Invariance ==
  ASSUME Setting
  PROVE  RSpec => []IInv
<1>1. RInit => IInv
  BY Initial
<1>2. IInv /\ [RNext]_rvars => IInv'
  BY Step
<1> QED
  BY <1>1, <1>2, PTL DEF RSpec

(* Types of the record, the staging area, the destination and the runs.      *)
THEOREM RestoreTypes ==
  ASSUME Setting
  PROVE  RSpec => []RTypeOK
<1>1. IInv => RTypeOK
  BY DEF IInv, Types, RTypeOK, Entries, Dests, Places, Before, Filling, Filled
<1> QED
  BY <1>1, Invariance, PTL

(* An installed store is one listed record, whole, undamaged and diagnosed    *)
(* sound, and its sync state says of each file what it is and under which    *)
(* listed version it came, however often the restore was resumed.            *)
THEOREM RestoreIsSound ==
  ASSUME Setting
  PROVE  RSpec => []RestoredSound
<1>1. IInv => RestoredSound
  BY DEF IInv
<1> QED
  BY <1>1, Invariance, PTL
-----------------------------------------------------------------------------
(* The restore implements its contract.                                     *)

(* What the user sees of a destination.                                      *)
SeenKind(d) == IF d.kind \in {"absent", "empty"} THEN "nothing" ELSE d.kind
SeenBody(d) == IF d.kind = "store" THEN d.body ELSE NoBodies

LEMMA Unseen ==
  ASSUME Setting
  PROVE  /\ \A d \in {Absent, Empty, Users} : SeenBody(d) = NoBodies
         /\ SeenKind(Absent) = "nothing" /\ SeenKind(Empty) = "nothing" /\ SeenKind(Users) = "user"
<1>1. Empty.kind = "empty"
  BY DEF Empty
<1>2. Absent.kind = "absent" /\ Users.kind = "user"
  BY DEF Absent, Users, Empty
<1> QED
  BY <1>1, <1>2 DEF SeenBody, SeenKind

(* A run shows the user nothing until its rename, which shows a whole store.   *)
LEMMA RunIsSeen ==
  ASSUME Setting, IInv, NEW r \in Restorers, Start(r) \/ Advance(r) \/ Die(r)
  PROVE  /\ remote' = remote
         /\ \/ SeenKind(dest') = SeenKind(dest) /\ SeenBody(dest') = SeenBody(dest)
            \/ /\ SeenKind(dest) = "nothing" /\ SeenKind(dest') = "store"
               /\ SeenBody(dest') \in Sound /\ \A f \in Files : SeenBody(dest')[f] <= remote[f]
<1>ty. dest \in Dests /\ staged \in Bodies /\ remote \in Entries
  BY DEF IInv, Types
<1>1. CASE ClearDestination(r) /\ dest' # dest
  <2>1. remote' = remote /\ dest' = Absent /\ dest.kind # "user" /\ point[r] = "clear"
    BY <1>1 DEF ClearDestination, At
  <2>2. dest.kind # "store"
    BY <2>1 DEF IInv, Room, Before
  <2>3. dest.kind \in {"absent", "empty"}
    BY <1>ty, <2>1, <2>2 DEF Dests
  <2> QED
    BY <2>1, <2>2, <2>3, Unseen DEF SeenKind, SeenBody
<1>2. CASE Rename(r) /\ dest' # dest
  <2>1. /\ remote' = remote /\ dest.kind # "user" /\ point[r] = "rename"
        /\ dest' = [kind |-> "store", body |-> staged, state |-> seeded,
                    manifest |-> hand[r].entries]
    BY <1>2 DEF Rename, At, Replaces
  <2>2. dest.kind # "store"
    BY <2>1 DEF IInv, Room, Before
  <2>3. SeenKind(dest) = "nothing"
    BY <1>ty, <2>1, <2>2 DEF Dests, SeenKind
  <2>4. SeenKind(dest') = "store" /\ SeenBody(dest') = staged
    BY <2>1 DEF SeenKind, SeenBody
  <2>5. /\ hand[r] \in Hands /\ TrueOf(hand[r].ledger, remote)
        /\ Sorted("rename", hand[r], staged) /\ Checked("rename", hand[r], staged)
    BY <2>1, Inside, PlaceNames
  <2>6. staged \in Sound /\ \A f \in Files : staged[f] <= remote[f]
    BY <1>ty, <2>5, Landing DEF Sound
  <2> QED
    BY <2>1, <2>3, <2>4, <2>6
<1>3. remote' = remote /\ (dest' = dest \/ ClearDestination(r) \/ Rename(r))
  BY DEF Advance, Start, Die, Busy, Locked, FetchManifest, Audit, Download, Accept, SaveLedger,
         Validate, Seed, ClearDestination, Rename, CleanUp
<1> QED
  BY <1>1, <1>2, <1>3

LEMMA UserIsSeen ==
  ASSUME Setting, UserActs
  PROVE  /\ remote' = remote
         /\ \/ SeenKind(dest') = SeenKind(dest) /\ SeenBody(dest') = SeenBody(dest)
            \/ /\ SeenKind(dest) = "nothing" /\ SeenKind(dest') = "user"
               /\ SeenBody(dest') = NoBodies
            \/ /\ SeenKind(dest) # "nothing" /\ SeenKind(dest') = "nothing"
               /\ SeenBody(dest') = NoBodies
<1>1. CASE dest.kind = "absent" /\ dest' = Empty
  BY <1>1, Unseen DEF SeenKind, SeenBody, UserActs
<1>2. CASE dest.kind = "empty" /\ dest' = Users
  BY <1>2, Unseen DEF SeenKind, SeenBody, UserActs
<1>3. CASE dest.kind \in {"user", "store"} /\ dest' = Absent
  BY <1>3, Unseen DEF SeenKind, SeenBody, UserActs
<1> QED
  BY <1>1, <1>2, <1>3 DEF UserActs

LEMMA StepIsPromised ==
  Setting /\ IInv /\ [RNext]_rvars => [Promise!Next]_<<remote, Promise!place>>
<1> SUFFICES ASSUME Setting, IInv, [RNext]_rvars
             PROVE  [Promise!Next]_<<remote, Promise!place>>
  OBVIOUS
<1>1. /\ (IF Available THEN "nothing" ELSE dest.kind) = SeenKind(dest)
      /\ (IF dest.kind = "store" THEN dest.body ELSE NoBodies) = SeenBody(dest)
      /\ (IF Available THEN "nothing" ELSE dest.kind)' = SeenKind(dest')
      /\ (IF dest.kind = "store" THEN dest.body ELSE NoBodies)' = SeenBody(dest')
  BY DEF Available, SeenKind, SeenBody
<1>2. CASE remote' = remote /\ SeenKind(dest') = SeenKind(dest) /\ SeenBody(dest') = SeenBody(dest)
  BY <1>1, <1>2 DEF Promise!place
<1>3. CASE /\ remote' = remote /\ SeenKind(dest) = "nothing" /\ SeenKind(dest') = "store"
           /\ SeenBody(dest') \in Sound /\ \A f \in Files : SeenBody(dest')[f] <= remote[f]
  <2>1. Promise!Install
    BY <1>1, <1>3 DEF Promise!Install, Promise!Received, Promise!Becomes
  <2> QED
    BY <2>1 DEF Promise!Next
<1>4. CASE /\ remote' = remote /\ SeenKind(dest) = "nothing" /\ SeenKind(dest') = "user"
           /\ SeenBody(dest') = NoBodies
  <2>1. Promise!Put
    BY <1>1, <1>4 DEF Promise!Put, Promise!Becomes
  <2> QED
    BY <2>1 DEF Promise!Next
<1>5. CASE /\ remote' = remote /\ SeenKind(dest) # "nothing" /\ SeenKind(dest') = "nothing"
           /\ SeenBody(dest') = NoBodies
  <2>1. Promise!Take
    BY <1>1, <1>5 DEF Promise!Take, Promise!Becomes
  <2> QED
    BY <2>1 DEF Promise!Next
<1>6. CASE EditRemote
  <2>1. dest' = dest /\ \A f \in Files : remote'[f] >= remote[f]
    BY <1>6, EditStep DEF EditRemote
  <2>2. Promise!Edit
    BY <1>1, <2>1 DEF Promise!Edit, Promise!place
  <2> QED
    BY <2>2 DEF Promise!Next
<1>7. CASE Damage \/ UNCHANGED rvars
  <2>1. remote' = remote /\ dest' = dest
    BY <1>7 DEF Damage, rvars
  <2> QED
    BY <1>2, <2>1
<1> QED
  BY <1>2, <1>3, <1>4, <1>5, <1>6, <1>7, RunIsSeen, UserIsSeen DEF RNext

(* To the user a restore is one step: whatever dies, fails, is damaged or is   *)
(* resumed, where nothing was a whole and sound store appears at once, of      *)
(* files the record has held, and only the user's hand takes it away.        *)
THEOREM RestoreIsOneStep ==
  ASSUME Setting
  PROVE  RSpec => RestoresAsPromised
<1>1. RInit => Promise!Init
  BY Unseen DEF RInit, Promise!Init, Available, Absent, Empty
<1>2. IInv /\ [RNext]_rvars => [Promise!Next]_<<remote, Promise!place>>
  BY StepIsPromised
<1> QED
  BY <1>1, <1>2, Invariance, PTL DEF RSpec, RestoresAsPromised, Promise!Spec

=============================================================================
