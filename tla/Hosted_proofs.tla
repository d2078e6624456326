--------------------------- MODULE Hosted_proofs ---------------------------
(***************************************************************************)
(* Proofs about the components of the hosted exchange that MC_Hosted checks:*)
(* the submission of a write (Submission.tla), and the logins of a machine  *)
(* (Logins.tla: Credentials.tla and Auth.tla).                              *)
(***************************************************************************)
EXTENDS Submission, Logins, TLAPS

(* Whoever is inside a call holds the lock, has loaded the saved record,    *)
(* and found it unsettled; past the mark the record says "uncertain".       *)
Exclusive ==
  \A p \in Process : job[p].at # "idle" =>
    /\ lock = {p}
    /\ job[p].loaded = record
    /\ record.phase \in {"prepared", "uncertain"}
    /\ job[p].at \in {"marked", "waiting", "answered"} => record.phase = "uncertain"

(* A record not marked yet has seen no request.                             *)
Untouched ==
  record.phase \in {"none", "prepared"} => sent = 0 /\ wire = {} /\ ~applied

(* A first send stays the only one while its call lasts, and an early       *)
(* refusal of it leaves nothing behind.                                     *)
OnlyRequest ==
  \A p \in Process :
    /\ job[p].at = "idle" => job[p].before # "prepared"
    /\ job[p].before = "prepared" /\ job[p].at = "marked" => sent = 0 /\ wire = {} /\ ~applied
    /\ job[p].before = "prepared" /\ job[p].at = "waiting" =>
         job[p].mine = 1 /\ sent = 1 /\ wire \subseteq {1} /\ ~applied
    /\ job[p].before = "prepared" /\ job[p].at = "answered" =>
         (job[p].answer = "refused_early" => wire = {} /\ ~applied)
    /\ job[p].before = "prepared" => job[p].at \in {"marked", "waiting", "answered"}
    /\ job[p].at \in {"told", "answered"} =>
         job[p].answer \in Status /\ (job[p].answer = "refused_early" => record.typed)

Inv == TypeOK /\ Exclusive /\ Untouched /\ OnlyRequest /\ RefusedNeverWrites

-----------------------------------------------------------------------------
(* What an answer makes of a record is again a record the validator         *)
(* accepts.                                                                 *)
LEMMA RecordedIsSaved ==
  ASSUME NEW r \in Saved, NEW status \in Status, NEW before \in Phase,
         r.phase \in {"prepared", "uncertain"}
  PROVE  Recorded(r, status, before) \in Saved
<1>1. /\ r.typed \in BOOLEAN
      /\ r.result \in Result
      /\ \A phase \in {"uncertain", "resolved"}, u \in BOOLEAN :
           (phase = "resolved") = ~u => Outcome(r, phase, status, u) \in Saved
  BY DEF Phase, Saved, Result, Outcome
<1>2. r.result.unresolved => [r EXCEPT !.phase = "uncertain"] \in Saved
  BY DEF Phase, Saved
<1>3. r.result.unresolved
  BY DEF Saved
<1> QED
  BY <1>1, <1>2, <1>3 DEF Recorded, RecordedTyped, RecordedJudgment

(* An operation is closed by an early refusal only of its first request.    *)
LEMMA ClosedByRefusal ==
  ASSUME NEW r \in Saved, NEW status \in Status, NEW before \in Phase,
         r.phase \in {"prepared", "uncertain"}, status = "refused_early" => r.typed,
         Recorded(r, status, before).phase = "resolved",
         Recorded(r, status, before).result.status = "refused_early"
  PROVE  status = "refused_early" /\ before = "prepared"
<1>1. \A phase \in {"uncertain", "resolved"}, u \in BOOLEAN :
                   /\ Outcome(r, phase, status, u).phase = phase
                   /\ Outcome(r, phase, status, u).result.status = status
  BY DEF Outcome
<1>2. r.phase # "resolved" /\ [r EXCEPT !.phase = "uncertain"].phase = "uncertain"
  BY DEF Saved
<1>3. status = "refused_early"
  BY <1>1, <1>2 DEF Recorded, RecordedTyped, RecordedJudgment
<1>4. ASSUME Unresolved(status, before)
      PROVE  FALSE
  BY <1>1, <1>2, <1>3, <1>4 DEF Recorded, RecordedTyped, RecordedJudgment
<1> QED
  BY <1>3, <1>4 DEF Unresolved

-----------------------------------------------------------------------------
(* The fields a call sets one after the other keep it well-typed.           *)
LEMMA MarkedIsJob ==
  ASSUME NEW f \in [Process -> Job], NEW p \in Process, NEW r \in Saved, NEW before \in Phase
  PROVE  [f EXCEPT ![p].at = "marked", ![p].loaded = r, ![p].before = before] \in [Process -> Job]
  BY DEF Job

LEMMA WaitingIsJob ==
  ASSUME NEW f \in [Process -> Job], NEW p \in Process, NEW n \in 0..MaxSends
  PROVE  [f EXCEPT ![p].at = "waiting", ![p].mine = n] \in [Process -> Job]
  BY DEF Job

LEMMA SendingIsJob ==
  ASSUME NEW f \in [Process -> Job], NEW p \in Process, NEW r \in Saved
  PROVE  [f EXCEPT ![p].at = "send", ![p].loaded = r] \in [Process -> Job]
  BY DEF Job

LEMMA AnsweredIsJob ==
  ASSUME NEW j \in Job, NEW status \in Status
  PROVE  [j EXCEPT !.at = "answered", !.answer = status] \in Job
  BY DEF Job

(* Each part of Inv survives a step.                                        *)
LEMMA TypeStep == Inv /\ [Next]_vars => TypeOK'
<1> SUFFICES ASSUME Inv, [Next]_vars
             PROVE  TypeOK'
  OBVIOUS
<1> USE SendsAssumption DEF Inv, TypeOK
<1>0. NoResult \in Result /\ Unsaved \in Saved
  BY DEF Phase, Unsaved, Saved, Result, NoResult
<1>0a. Idle \in Job
  BY <1>0 DEF Phase, Idle, Job, Mode
<1>1. ASSUME NEW p \in Process, NEW typed \in BOOLEAN, Prepare(p, typed)
      PROVE  TypeOK'
  BY <1>1 DEF Phase, Prepare, Server, Saved, Result, NoResult
<1>2. ASSUME NEW p \in Process, NEW m \in Mode, Begin(p, m)
      PROVE  TypeOK'
  <2>1. \A s \in {"send", "ask"} :
          [Idle EXCEPT !.at = s, !.mode = m, !.loaded = record] \in Job
    BY <1>0a DEF Job
  <2> QED
    BY <1>2, <2>1 DEF Begin, Server
<1>3. ASSUME NEW p \in Process, MarkUncertain(p)
      PROVE  TypeOK'
  <2>1. record' \in Saved
    BY <1>3 DEF Phase, MarkUncertain, Save, Saved, Exclusive
  <2>3. job' \in [Process -> Job]
    BY <1>3, <2>1, MarkedIsJob DEF MarkUncertain, Saved
  <2> QED
    BY <1>3, <2>1, <2>3 DEF MarkUncertain, Server
<1>4. ASSUME NEW p \in Process, Send(p)
      PROVE  TypeOK'
  <2>1. sent' \in 0..MaxSends /\ wire' \subseteq 1..sent'
    BY <1>4 DEF Send
  <2>2. job' \in [Process -> Job]
    BY <1>4, <2>1, WaitingIsJob DEF Send
  <2> QED
    BY <1>4, <2>1, <2>2 DEF Send
<1>5. ASSUME NEW p \in Process, Ask(p)
      PROVE  TypeOK'
  BY <1>5 DEF Ask, Server, Job
<1>6. ASSUME NEW p \in Process, NEW status \in Status, ServeLookup(p, status)
      PROVE  TypeOK'
  BY <1>6 DEF ServeLookup, Job
<1>7. ASSUME NEW p \in Process, AcceptSend(p)
      PROVE  TypeOK'
  <2>1. job[p].answer \in Status /\ job[p].before \in Phase
    BY <1>7 DEF AcceptSend, Job, OnlyRequest, Exclusive
  <2>2. record' \in Saved
    BY <1>7, <2>1, RecordedIsSaved DEF AcceptSend, Save, Exclusive
  <2> QED
    BY <1>0a, <1>7, <2>2 DEF AcceptSend, Release, Server
<1>8. ASSUME NEW p \in Process, AcceptLookup(p)
      PROVE  TypeOK'
  <2>1. job[p].answer \in Status /\ "none" \in Phase
    BY <1>8 DEF AcceptLookup, Job, OnlyRequest, Phase
  <2>2. record' \in Saved
    BY <1>8, <2>1, RecordedIsSaved DEF AcceptLookup, Save, Exclusive
  <2>3. CASE Release(p)
    BY <1>0a, <1>8, <2>2, <2>3 DEF AcceptLookup, Release, Server
  <2>4. CASE job' = [job EXCEPT ![p].at = "send", ![p].loaded = record'] /\ UNCHANGED lock
    <3>1. job' \in [Process -> Job]
      BY <2>2, <2>4, SendingIsJob
    <3> QED
      BY <1>8, <2>2, <2>4, <3>1 DEF AcceptLookup, Server
  <2> QED
    BY <1>8, <2>3, <2>4 DEF AcceptLookup
<1>9. ASSUME NEW p \in Process, Stop(p)
      PROVE  TypeOK'
  BY <1>0a, <1>9 DEF Stop, Release, Server
<1>10. ASSUME NEW r \in wire, NEW status \in Status, ServeSubmit(r, status)
       PROVE  TypeOK'
  <2>1. job' \in [Process -> Job]
    BY <1>10, AnsweredIsJob DEF ServeSubmit
  <2>2. wire' \subseteq 1..sent' /\ applied' \in BOOLEAN
    BY <1>10 DEF ServeSubmit
  <2> QED
    BY <1>10, <2>1, <2>2 DEF ServeSubmit
<1>11. ASSUME NEW r \in wire, LoseRequest(r)
       PROVE  TypeOK'
  BY <1>11 DEF LoseRequest
<1>12. CASE ClockMoves
  BY <1>12 DEF ClockMoves
<1>13. CASE UNCHANGED vars
  BY <1>13 DEF vars
<1> QED
  BY <1>1, <1>2, <1>3, <1>4, <1>5, <1>6, <1>7, <1>8, <1>9, <1>10, <1>11, <1>12, <1>13
     DEF Next, Step

(* While one process is inside a call every other one is idle.              *)
LEMMA Alone ==
  ASSUME Inv, NEW p \in Process, job[p].at # "idle", NEW q \in Process, q # p
  PROVE  job[q].at = "idle"
  BY DEF Inv, Exclusive

LEMMA ExclusiveStep == Inv /\ [Next]_vars => Exclusive'
<1> SUFFICES ASSUME Inv, [Next]_vars
             PROVE  Exclusive'
  OBVIOUS
<1> USE DEF Inv
<1>0. job \in [Process -> Job] /\ record \in Saved
  BY DEF TypeOK
<1>1. ASSUME NEW p \in Process, NEW typed \in BOOLEAN, Prepare(p, typed)
      PROVE  Exclusive'
  BY <1>1 DEF Prepare, Server, Exclusive
<1>2. ASSUME NEW p \in Process, NEW m \in Mode, Begin(p, m)
      PROVE  Exclusive'
  <2>1. \A q \in Process : q # p => job'[q] = job[q] /\ job[q].at = "idle"
    BY <1>0, <1>2 DEF Begin, Exclusive
  <2>2. job'[p].at \in {"send", "ask"} /\ job'[p].loaded = record
    BY <1>0, <1>2 DEF Begin, Idle
  <2>3. record.phase \in {"prepared", "uncertain"}
    BY <1>0, <1>2 DEF Begin, Saved, Phase
  <2> QED
    BY <1>2, <2>1, <2>2, <2>3 DEF Begin, Exclusive
<1>3. ASSUME NEW p \in Process, MarkUncertain(p)
      PROVE  Exclusive'
  <2>1. \A q \in Process : q # p => job'[q] = job[q] /\ job[q].at = "idle"
    BY <1>0, <1>3, Alone DEF MarkUncertain
  <2>2. job'[p].loaded = record' /\ record'.phase = "uncertain"
    BY <1>0, <1>3 DEF MarkUncertain, Save, Saved
  <2> QED
    BY <1>3, <2>1, <2>2 DEF MarkUncertain, Exclusive
<1>4. ASSUME NEW p \in Process, Send(p)
      PROVE  Exclusive'
  BY <1>0, <1>4 DEF Send, Exclusive
<1>5. ASSUME NEW p \in Process, Ask(p)
      PROVE  Exclusive'
  BY <1>0, <1>5 DEF Ask, Exclusive, Server
<1>6. ASSUME NEW p \in Process, NEW status \in Status, ServeLookup(p, status)
      PROVE  Exclusive'
  BY <1>0, <1>6 DEF ServeLookup, Exclusive
<1>7. ASSUME NEW p \in Process, job[p].at # "idle", Release(p)
      PROVE  Exclusive'
  BY <1>0, <1>7, Alone DEF Release, Exclusive, Idle
<1>8. ASSUME NEW p \in Process, AcceptLookup(p)
      PROVE  Exclusive'
  <2>1. CASE Release(p)
    BY <1>7, <1>8, <2>1 DEF AcceptLookup
  <2>2. CASE /\ job[p].answer = "absent"
             /\ job' = [job EXCEPT ![p].at = "send", ![p].loaded = record']
             /\ UNCHANGED lock
    <3>1. \A q \in Process : q # p => job'[q] = job[q] /\ job[q].at = "idle"
      BY <1>0, <1>8, <2>2, Alone DEF AcceptLookup
    <3>2. record'.phase \in {"prepared", "uncertain"}
      BY <1>8, <2>2 DEF AcceptLookup, Save, Recorded, RecordedTyped, RecordedJudgment, Outcome, Unresolved, Exclusive
    <3>3. job'[p].at = "send" /\ job'[p].loaded = record' /\ lock = {p}
      BY <1>0, <1>8, <2>2 DEF AcceptLookup, Exclusive
    <3> QED
      BY <2>2, <3>1, <3>2, <3>3 DEF Exclusive
  <2> QED
    BY <1>8, <2>1, <2>2 DEF AcceptLookup
<1>9. ASSUME NEW r \in wire, NEW status \in Status, ServeSubmit(r, status)
      PROVE  Exclusive'
  <2>1. ASSUME NEW q \in Process
        PROVE  /\ job'[q].loaded = job[q].loaded
               /\ job'[q].at = job[q].at \/ (job[q].at = "waiting" /\ job'[q].at = "answered")
    BY <1>0, <1>9 DEF ServeSubmit, Job
  <2> QED
    BY <1>9, <2>1 DEF ServeSubmit, Exclusive
<1>10. ASSUME NEW r \in wire, LoseRequest(r)
       PROVE  Exclusive'
  BY <1>10 DEF LoseRequest, Exclusive
<1>11. CASE ClockMoves
  BY <1>11 DEF ClockMoves, Exclusive
<1>12. CASE UNCHANGED vars
  BY <1>12 DEF vars, Exclusive
<1> QED
  BY <1>1, <1>2, <1>3, <1>4, <1>5, <1>6, <1>7, <1>8, <1>9, <1>10, <1>11, <1>12
     DEF Next, Step, AcceptSend, Stop

LEMMA UntouchedStep == Inv /\ [Next]_vars => Untouched'
<1> SUFFICES ASSUME Inv, [Next]_vars
             PROVE  Untouched'
  OBVIOUS
<1> USE DEF Inv
<1>0. job \in [Process -> Job] /\ record \in Saved
  BY DEF TypeOK
<1>1. ASSUME NEW p \in Process, MarkUncertain(p)
      PROVE  Untouched'
  BY <1>0, <1>1 DEF MarkUncertain, Save, Saved, Untouched
<1>2. ASSUME NEW p \in Process, Send(p)
      PROVE  Untouched'
  BY <1>2 DEF Send, Exclusive, Untouched
<1>3. ASSUME NEW p \in Process, NEW status \in Status, NEW before \in Phase,
             Save(p, Recorded(record, status, before)), UNCHANGED Server
      PROVE  Untouched'
  <2>1. record'.phase \in {record.phase, "uncertain", "resolved"}
    BY <1>0, <1>3 DEF Save, Recorded, RecordedTyped, RecordedJudgment, Outcome, Saved
  <2> QED
    BY <1>3, <2>1 DEF Server, Untouched
<1>4. ASSUME NEW p \in Process, AcceptSend(p) \/ AcceptLookup(p)
      PROVE  Untouched'
  <2>1. job[p].answer \in Status /\ job[p].before \in Phase /\ "none" \in Phase
    BY <1>0, <1>4 DEF AcceptSend, AcceptLookup, OnlyRequest, Job, Phase
  <2> QED
    BY <1>3, <1>4, <2>1 DEF AcceptSend, AcceptLookup
<1>5. ASSUME NEW r \in wire, (\E status \in Status : ServeSubmit(r, status)) \/ LoseRequest(r)
      PROVE  Untouched'
  BY <1>5 DEF ServeSubmit, LoseRequest, Untouched
<1>6. ASSUME NEW p \in Process,
             \/ \E typed \in BOOLEAN : Prepare(p, typed)
             \/ \E m \in Mode : Begin(p, m)
             \/ Ask(p)
             \/ \E status \in Status : ServeLookup(p, status)
             \/ Stop(p)
      PROVE  Untouched'
  BY <1>6 DEF Prepare, Begin, Ask, ServeLookup, Stop, Server, Untouched
<1>7. CASE ClockMoves \/ UNCHANGED vars
  BY <1>7 DEF ClockMoves, vars, Untouched
<1>8. ASSUME NEW p \in Process, Step(p)
      PROVE  Untouched'
  BY <1>1, <1>2, <1>4, <1>6, <1>8 DEF Step
<1> QED
  BY <1>5, <1>7, <1>8 DEF Next

(* A settled record is left alone, and no request leaves for it.            *)
LEMMA Settled ==
  ASSUME Inv, [Next]_vars, record.phase = "resolved"
  PROVE  UNCHANGED <<record, sent>> /\ (wire = {} => UNCHANGED <<wire, applied>>)
<1>1. \A p \in Process : job[p].at = "idle"
  BY DEF Inv, Exclusive
<1>2. ASSUME NEW p \in Process, Step(p)
      PROVE  UNCHANGED <<record, sent, wire, applied>>
  <2>1. \E m \in Mode : Begin(p, m)
    BY <1>1, <1>2 DEF Step, Prepare, MarkUncertain, Send, Ask, ServeLookup,
                      AcceptSend, AcceptLookup, Stop
  <2> QED
    BY <2>1 DEF Begin, Server
<1>3. ASSUME NEW r \in wire, (\E status \in Status : ServeSubmit(r, status)) \/ LoseRequest(r)
      PROVE  UNCHANGED <<record, sent>>
  BY <1>3 DEF ServeSubmit, LoseRequest
<1>4. CASE ClockMoves \/ UNCHANGED vars
  BY <1>4 DEF ClockMoves, vars
<1>5. ASSUME wire = {}
      PROVE  UNCHANGED <<record, sent, wire, applied>>
  BY <1>2, <1>4, <1>5 DEF Next, ClockMoves, vars
<1>6. UNCHANGED <<record, sent>>
  BY <1>2, <1>3, <1>4 DEF Next
<1> QED
  BY <1>5, <1>6

LEMMA RefusedStep == Inv /\ [Next]_vars => RefusedNeverWrites'
<1> SUFFICES ASSUME Inv, [Next]_vars,
                    record'.phase = "resolved", record'.result.status = "refused_early"
             PROVE  ~applied' /\ wire' = {}
  BY DEF RefusedNeverWrites
<1> USE DEF Inv
<1>0. job \in [Process -> Job] /\ record \in Saved
  BY DEF TypeOK
<1>1. ASSUME record.phase # "resolved", NEW p \in Process, AcceptSend(p)
      PROVE  ~applied' /\ wire' = {}
  <2>1. /\ job[p].answer \in Status /\ job[p].before \in Phase
        /\ job[p].answer = "refused_early" => record.typed
        /\ record.phase \in {"prepared", "uncertain"}
    BY <1>0, <1>1 DEF AcceptSend, OnlyRequest, Exclusive, Job
  <2>2. job[p].answer = "refused_early" /\ job[p].before = "prepared"
    BY <1>0, <1>1, <2>1, ClosedByRefusal DEF AcceptSend, Save
  <2> QED
    BY <1>1, <2>2 DEF AcceptSend, OnlyRequest, Server
<1>2. ASSUME record.phase # "resolved", NEW p \in Process, AcceptLookup(p)
      PROVE  FALSE
  <2>1. /\ job[p].answer \in Status /\ "none" \in Phase
        /\ job[p].answer = "refused_early" => record.typed
        /\ record.phase \in {"prepared", "uncertain"}
    BY <1>0, <1>2 DEF AcceptLookup, OnlyRequest, Exclusive, Phase
  <2> QED
    BY <1>0, <1>2, <2>1, ClosedByRefusal DEF AcceptLookup, Save
<1>3. ASSUME NEW p \in Process, MarkUncertain(p)
      PROVE  FALSE
  BY <1>0, <1>3 DEF MarkUncertain, Save, Saved
<1>4. ASSUME NEW p \in Process, NEW typed \in BOOLEAN, Prepare(p, typed)
      PROVE  FALSE
  BY <1>4 DEF Prepare
<1>5. CASE record.phase # "resolved" /\ record' = record
  BY <1>5
<1>6. CASE record.phase = "resolved"
  BY <1>6, Settled DEF RefusedNeverWrites
<1> QED
  BY <1>1, <1>2, <1>3, <1>4, <1>5, <1>6
     DEF Next, Step, vars, Begin, Send, Ask, ServeLookup, Stop, ServeSubmit, LoseRequest, ClockMoves

LEMMA OnlyRequestStep == Inv /\ [Next]_vars => OnlyRequest'
<1> SUFFICES ASSUME Inv, [Next]_vars
             PROVE  OnlyRequest'
  OBVIOUS
<1> USE DEF Inv
<1>0. job \in [Process -> Job] /\ record \in Saved
  BY DEF TypeOK
<1>1. ASSUME NEW p \in Process, NEW typed \in BOOLEAN, Prepare(p, typed)
      PROVE  OnlyRequest'
  <2>1. \A q \in Process : job[q].at = "idle"
    BY <1>1 DEF Prepare, Exclusive
  <2> QED
    BY <1>1, <2>1 DEF Prepare, Server, OnlyRequest
<1>2. ASSUME NEW p \in Process, NEW m \in Mode, Begin(p, m)
      PROVE  OnlyRequest'
  <2>1. \A q \in Process : q # p => job'[q] = job[q] /\ job[q].at = "idle"
    BY <1>0, <1>2 DEF Begin, Exclusive
  <2>2. job'[p].at \in {"send", "ask"} /\ job'[p].before = "none"
    BY <1>0, <1>2 DEF Begin, Idle
  <2> QED
    BY <1>2, <2>1, <2>2 DEF Begin, Server, OnlyRequest
<1>3. ASSUME NEW p \in Process, MarkUncertain(p)
      PROVE  OnlyRequest'
  <2>1. \A q \in Process : q # p => job'[q] = job[q] /\ job[q].at = "idle"
    BY <1>0, <1>3, Alone DEF MarkUncertain
  <2>2. job'[p].at = "marked" /\ job'[p].before = record.phase
    BY <1>0, <1>3 DEF MarkUncertain
  <2>3. record.phase = "prepared" => sent = 0 /\ wire = {} /\ ~applied
    BY DEF Untouched
  <2> QED
    BY <1>3, <2>1, <2>2, <2>3 DEF MarkUncertain, Server, OnlyRequest
<1>4. ASSUME NEW p \in Process, Send(p)
      PROVE  OnlyRequest'
  <2>1. \A q \in Process : q # p => job'[q] = job[q] /\ job[q].at = "idle"
    BY <1>0, <1>4, Alone DEF Send
  <2>2. job'[p].at = "waiting" /\ job'[p].before = job[p].before /\ job'[p].mine = sent'
    BY <1>0, <1>4 DEF Send
  <2>3. job[p].before = "prepared" => sent = 0 /\ wire = {} /\ ~applied
    BY <1>4 DEF Send, OnlyRequest
  <2>4. job[p].before = "prepared" => sent' = 1 /\ wire' \subseteq {1} /\ ~applied'
    BY <1>4, <2>3 DEF Send
  <2> QED
    BY <2>1, <2>2, <2>4 DEF OnlyRequest
<1>5. ASSUME NEW p \in Process, Ask(p)
      PROVE  OnlyRequest'
  BY <1>0, <1>5 DEF Ask, OnlyRequest, Server
<1>6. ASSUME NEW p \in Process, NEW status \in Status, ServeLookup(p, status)
      PROVE  OnlyRequest'
  <2>1. status = "refused_early" => record.typed
    BY <1>6 DEF ServeLookup, StatusesFor, JudgmentStatus
  <2>2. /\ job'[p].at = "told" /\ job'[p].answer = status
        /\ job'[p].before = job[p].before /\ job[p].before # "prepared"
        /\ \A q \in Process : q # p => job'[q] = job[q]
    BY <1>0, <1>6 DEF ServeLookup, OnlyRequest
  <2> QED
    BY <1>6, <2>1, <2>2 DEF ServeLookup, OnlyRequest
<1>7. ASSUME NEW p \in Process, job[p].at # "idle", Release(p), UNCHANGED Server
      PROVE  OnlyRequest'
  <2>1. \A q \in Process : job'[q].at = "idle" /\ job'[q].before # "prepared"
    BY <1>0, <1>7, Alone DEF Release, Idle, OnlyRequest
  <2> QED
    BY <2>1 DEF OnlyRequest
<1>8. ASSUME NEW p \in Process, AcceptLookup(p)
      PROVE  OnlyRequest'
  <2>1. CASE Release(p)
    BY <1>7, <1>8, <2>1 DEF AcceptLookup
  <2>2. CASE /\ job' = [job EXCEPT ![p].at = "send", ![p].loaded = record']
             /\ UNCHANGED lock
    <3>1. \A q \in Process : q # p => job'[q] = job[q] /\ job[q].at = "idle"
      BY <1>0, <1>8, <2>2, Alone DEF AcceptLookup
    <3>2. job'[p].at = "send" /\ job'[p].before = job[p].before /\ job[p].before # "prepared"
      BY <1>0, <1>8, <2>2 DEF AcceptLookup, OnlyRequest
    <3> QED
      BY <3>1, <3>2 DEF OnlyRequest
  <2> QED
    BY <1>8, <2>1, <2>2 DEF AcceptLookup
<1>9. ASSUME NEW r \in wire, NEW status \in Status, ServeSubmit(r, status)
      PROVE  OnlyRequest'
  <2>1. status = "refused_early" =>
          record.typed /\ wire' = wire \ {r} /\ applied' = applied
    BY <1>9 DEF ServeSubmit, StatusesFor, JudgmentStatus
  <2>2. UNCHANGED <<sent, record>> /\ wire' \subseteq wire
    BY <1>9 DEF ServeSubmit
  <2>3. ASSUME NEW q \in Process, job[q].at = "waiting", job[q].mine = r
        PROVE  /\ job'[q].at = "answered" /\ job'[q].answer = status
               /\ job'[q].before = job[q].before
               /\ job[q].before = "prepared" => wire \subseteq {r} /\ ~applied
    BY <1>0, <1>9, <2>3 DEF ServeSubmit, Job, OnlyRequest
  <2>4. ASSUME NEW q \in Process, ~(job[q].at = "waiting" /\ job[q].mine = r)
        PROVE  /\ job'[q] = job[q]
               /\ job[q].before = "prepared" => job[q].at = "answered" /\ wire # {}
    BY <1>9, <2>4 DEF ServeSubmit, OnlyRequest
  <2> QED
    BY <2>1, <2>2, <2>3, <2>4 DEF OnlyRequest
<1>10. ASSUME NEW r \in wire, LoseRequest(r)
       PROVE  OnlyRequest'
  BY <1>10 DEF LoseRequest, OnlyRequest
<1>11. CASE ClockMoves
  BY <1>11 DEF ClockMoves, OnlyRequest
<1>12. CASE UNCHANGED vars
  BY <1>12 DEF vars, OnlyRequest
<1> QED
  BY <1>1, <1>2, <1>3, <1>4, <1>5, <1>6, <1>7, <1>8, <1>9, <1>10, <1>11, <1>12
     DEF Next, Step, AcceptSend, Stop

-----------------------------------------------------------------------------
(* The inductive invariant of submit, recover and retry.                    *)
THEOREM Invariant == Spec => []Inv
<1>1. Init => Inv
  <2> SUFFICES ASSUME Init
               PROVE  Inv
    OBVIOUS
  <2>1. NoResult \in Result /\ Unsaved \in Saved
    BY DEF Unsaved, Saved, Result, NoResult, Phase
  <2>2. Idle \in Job
    BY <2>1, SendsAssumption DEF Idle, Job, Mode, Phase
  <2>3. \A p \in Process : job[p] = Idle
    BY DEF Init
  <2>4. job \in [Process -> Job]
    BY <2>2 DEF Init
  <2>5. sent \in 0..MaxSends /\ wire \subseteq 1..sent
    BY SendsAssumption DEF Init
  <2>6. TypeOK
    BY <2>1, <2>4, <2>5 DEF Init, TypeOK
  <2> QED
    BY <2>6, <2>3 DEF Init, Inv, Exclusive, Untouched, OnlyRequest, RefusedNeverWrites,
                      Idle, Unsaved, NoResult
<1>2. Inv /\ [Next]_vars => Inv'
  BY TypeStep, ExclusiveStep, UntouchedStep, OnlyRequestStep, RefusedStep DEF Inv
<1> QED
  BY <1>1, <1>2, PTL DEF Spec

(* An operation the user was told did not write never does, however late    *)
(* its request and whoever looked it up meanwhile.                          *)
THEOREM RefusalIsFinal == Spec => []RefusedNeverWrites
<1>1. Inv => RefusedNeverWrites
  BY DEF Inv
<1> QED
  BY <1>1, Invariant, PTL

(* No request is under way, or carried out, unless the saved record says    *)
(* it may be.                                                               *)
THEOREM WriteAhead == Spec => []SentIsOnRecord
<1>1. Inv => SentIsOnRecord
  BY DEF Inv, TypeOK, Saved, Phase, Untouched, SentIsOnRecord
<1> QED
  BY <1>1, Invariant, PTL

(* A recorded outcome is never changed, nor the operation sent again.       *)
THEOREM OutcomeIsFinal == Spec => SettledIsFinal
<1>1. Inv /\ [Next]_vars => [record.phase = "resolved" => UNCHANGED <<record, sent>>]_vars
  BY Settled
<1> QED
  BY <1>1, Invariant, PTL DEF Spec, SettledIsFinal

-----------------------------------------------------------------------------
(* What brings a call to a request: a submit found the record prepared, so  *)
(* nothing was sent yet, and a retry asked first and was told "absent".     *)
Asked(p) == job[p].mode = "retry" /\ job[p].answer = "absent"

Entitled ==
  \A p \in Process :
    /\ job[p].at \in {"ask", "asked", "told"} => job[p].mode # "submit"
    /\ job[p].at = "send" => Asked(p) \/ (job[p].mode = "submit" /\ job[p].loaded.phase = "prepared")
    /\ job[p].at = "marked" => Asked(p) \/ sent = 0

LEMMA EntitledStep == Inv /\ Entitled /\ [Next]_vars => Entitled'
<1> SUFFICES ASSUME Inv, Entitled, [Next]_vars
             PROVE  Entitled'
  OBVIOUS
<1>0. job \in [Process -> Job] /\ record \in Saved
  BY DEF Inv, TypeOK
<1>1. ASSUME NEW p \in Process, NEW m \in Mode, Begin(p, m)
      PROVE  Entitled'
  <2>1. \A q \in Process : q # p => job'[q] = job[q]
    BY <1>0, <1>1 DEF Begin
  <2>2. /\ job'[p].mode = m /\ job'[p].loaded = record
        /\ job'[p].at = IF m = "submit" THEN "send" ELSE "ask"
        /\ m = "submit" => record.phase = "prepared"
        /\ sent' = sent
    BY <1>0, <1>1 DEF Begin, Idle, Server
  <2> QED
    BY <2>1, <2>2 DEF Entitled, Asked
<1>2. ASSUME NEW p \in Process, MarkUncertain(p)
      PROVE  Entitled'
  <2>1. \A q \in Process : q # p => job'[q] = job[q]
    BY <1>0, <1>2 DEF MarkUncertain
  <2>2. /\ job[p].at = "send" /\ job'[p].at = "marked" /\ sent' = sent
        /\ job'[p].mode = job[p].mode /\ job'[p].answer = job[p].answer
    BY <1>0, <1>2 DEF MarkUncertain, Server
  <2>3. job[p].loaded.phase = "prepared" => sent = 0
    BY <2>2 DEF Inv, Exclusive, Untouched
  <2> QED
    BY <2>1, <2>2, <2>3 DEF Entitled, Asked
<1>3. ASSUME NEW p \in Process, Send(p)
      PROVE  Entitled'
  <2>1. \A q \in Process : q # p => job'[q] = job[q] /\ job[q].at = "idle"
    BY <1>0, <1>3, Alone DEF Send
  <2>2. job'[p].at = "waiting"
    BY <1>0, <1>3 DEF Send
  <2> QED
    BY <2>1, <2>2 DEF Entitled
<1>4. ASSUME NEW p \in Process, Ask(p)
      PROVE  Entitled'
  BY <1>0, <1>4 DEF Ask, Server, Entitled, Asked
<1>5. ASSUME NEW p \in Process, NEW status \in Status, ServeLookup(p, status)
      PROVE  Entitled'
  <2>1. \A q \in Process : q # p => job'[q] = job[q]
    BY <1>0, <1>5 DEF ServeLookup
  <2>2. job'[p].at = "told" /\ job'[p].mode = job[p].mode /\ job[p].at = "asked" /\ sent' = sent
    BY <1>0, <1>5 DEF ServeLookup
  <2> QED
    BY <2>1, <2>2 DEF Entitled, Asked
<1>6. ASSUME NEW p \in Process, Release(p), UNCHANGED Server
      PROVE  Entitled'
  <2>1. \A q \in Process : q # p => job'[q] = job[q]
    BY <1>0, <1>6 DEF Release
  <2>2. job'[p].at = "idle" /\ sent' = sent
    BY <1>0, <1>6 DEF Release, Idle, Server
  <2> QED
    BY <2>1, <2>2 DEF Entitled, Asked
<1>7. ASSUME NEW p \in Process, AcceptLookup(p)
      PROVE  Entitled'
  <2>1. CASE Release(p)
    BY <1>6, <1>7, <2>1 DEF AcceptLookup
  <2>2. CASE /\ job[p].mode = "retry" /\ job[p].answer = "absent"
             /\ job' = [job EXCEPT ![p].at = "send", ![p].loaded = record']
    <3>1. \A q \in Process : q # p => job'[q] = job[q]
      BY <1>0, <2>2
    <3>2. job'[p].at = "send" /\ job'[p].mode = job[p].mode /\ job'[p].answer = job[p].answer
      BY <1>0, <2>2
    <3>3. sent' = sent
      BY <1>7 DEF AcceptLookup, Server
    <3> QED
      BY <2>2, <3>1, <3>2, <3>3 DEF Entitled, Asked
  <2> QED
    BY <1>7, <2>1, <2>2 DEF AcceptLookup
<1>8. ASSUME NEW r \in wire, NEW status \in Status, ServeSubmit(r, status)
      PROVE  Entitled'
  <2>1. ASSUME NEW q \in Process
        PROVE  job'[q] = job[q] \/ job'[q].at = "answered"
    BY <1>0, <1>8 DEF ServeSubmit, Job
  <2>2. sent' = sent
    BY <1>8 DEF ServeSubmit
  <2> QED
    BY <2>1, <2>2 DEF Entitled, Asked
<1>9. ASSUME UNCHANGED <<job, sent>>
      PROVE  Entitled'
  BY <1>9 DEF Entitled, Asked
<1>10. ASSUME NEW p \in Process, Step(p)
       PROVE  Entitled'
  BY <1>1, <1>2, <1>3, <1>4, <1>5, <1>6, <1>7, <1>9, <1>10
     DEF Step, Prepare, AcceptSend, Stop, Server
<1>11. CASE ClockMoves \/ UNCHANGED vars
  BY <1>9, <1>11 DEF ClockMoves, vars
<1>12. ASSUME NEW r \in wire, LoseRequest(r)
       PROVE  Entitled'
  BY <1>9, <1>12 DEF LoseRequest
<1> QED
  BY <1>8, <1>10, <1>11, <1>12 DEF Next

(* An operation is sent again only when the server was asked for it in the  *)
(* same call and answered that it knows nothing of it (retry_state).        *)
THEOREM ResendIsAsked == Spec => ResendFollowsAbsence
<1>1. Init => Entitled
  BY DEF Init, Entitled, Idle
<1>2. ASSUME Inv, Entitled, [Next]_vars, NEW p \in Process,
             sent > 0, job[p].at = "marked", job'[p].at = "waiting"
      PROVE  job[p].mode = "retry" /\ job[p].answer = "absent"
  <2>1. sent # 0
    BY <1>2 DEF Inv, TypeOK
  <2> QED
    BY <1>2, <2>1 DEF Entitled, Asked
<1>3. Inv /\ Entitled /\ [Next]_vars =>
        [\A p \in Process :
           sent > 0 /\ job[p].at = "marked" /\ job'[p].at = "waiting"
             => job[p].mode = "retry" /\ job[p].answer = "absent"]_vars
  BY <1>2
<1> QED
  BY <1>1, <1>3, Invariant, EntitledStep, PTL DEF Spec, ResendFollowsAbsence


-----------------------------------------------------------------------------
(* The credentials of a generation connection.                              *)
(* Where a process may stand, and where it holds the lock.                  *)
Places == {"idle", "asked", "begin", "pend", "exchange", "sent", "restore", "restored",
           "uncertain", "clear", "receive", "receive_again", "verify_begin", "worker_begin",
           "verify", "worker_verify", "unverified", "keep", "finish",
           "signing", "signed", "login_begin", "login_write", "login_finish", "login_failed",
           "logout", "logout_finish"}
Locked == Places \ {"idle", "asked", "signing", "signed"}

(* Where a received token is verified; where the record that was read may be*)
(* written again; where a login holds a token nobody else has.              *)
Verifying == {"receive_again", "verify_begin", "worker_begin", "verify", "worker_verify",
              "unverified", "keep", "finish"}
Renewing == {"begin", "pend", "exchange", "restore"} \cup Verifying
Private == {"signed", "login_begin", "login_write"}

Records == [state : {"none", "active", "logged_out", "pending", "received"}, tok : Nat, rev : Nat]
Memories == [rec : Records, tok : Nat, rev : Nat, late : BOOLEAN]

CTypes ==
  /\ rec \in Records /\ settled[1] \in Records
  /\ holder \in Users \cup {NoUser}
  /\ pc \in [Users -> Places] /\ mem \in [Users -> Memories]
  /\ revs \in Nat /\ issued \in Nat /\ spent \subseteq 1..issued

OneHolder == \A u \in Users : pc[u] \in Locked => holder = u

(* A record whose token was issued and is still good.                       *)
Clean(r, sp, iss, rv) ==
  /\ r.tok \notin sp /\ r.tok <= iss /\ r.rev <= rv
  /\ r.state \in {"active", "received"} => r.tok # 0

(* What a process at s holds in m, over the record r and the settled one st.*)
Fits(s, m, r, st, sp) ==
  /\ s \in {"begin", "pend"} => m.rec = r /\ r.state = "active"
  /\ s = "exchange" => m.rec.state = "active" /\ r.tok = 0 /\ st.tok = 0
  /\ s \in Verifying => m.rec.state = "received" /\ m.rec.tok = m.tok
  /\ s \in {"exchange", "restore"} \cup Verifying => m.rec.tok # 0 /\ m.rec.tok \notin sp
  /\ s \in {"receive"} \cup Private => m.tok # 0 /\ m.tok \notin sp
  /\ s \in {"login_begin", "login_write"} => ~m.late

(* A memory nobody's login conflicts with.                                  *)
Known(m, iss, rv) == m.tok <= iss /\ m.rec.tok <= iss /\ m.rev <= rv /\ m.rec.rev <= rv

(* The token of a login under way is nobody else's.                         *)
Own(u) ==
  pc[u] \in Private =>
    /\ mem[u].tok # rec.tok
    /\ \A v \in Users \ {u} : mem[u].tok \notin {mem[v].tok, mem[v].rec.tok}

(* A login that a logout overtook knows an older revision than any record   *)
(* that may still be written back.                                          *)
Overtaken(u) ==
  pc[u] \in {"signing", "signed"} /\ mem[u].late =>
    /\ mem[u].rev < rec.rev
    /\ \A v \in Users : pc[v] \in Renewing => mem[u].rev < mem[v].rec.rev

CInv ==
  /\ CTypes /\ OneHolder
  /\ Clean(rec, spent, issued, revs) /\ Clean(settled[1], spent, issued, revs)
  /\ \A u \in Users : Known(mem[u], issued, revs)
                      /\ Fits(pc[u], mem[u], rec, settled[1], spent)
  /\ \A u \in Users : Own(u) /\ Overtaken(u)
  /\ ~replayed /\ ~revived

(* While nothing was sent and nothing failed: the steps a process can be    *)
(* at, and what stands in the file.                                         *)
Early(s, m, r) ==
  /\ s \in {"begin", "pend", "exchange", "restore", "restored", "login_begin", "login_write",
            "login_finish", "logout", "logout_finish"}
  /\ s \in {"begin", "pend", "exchange", "restore"} => m.rec.state = "active"
  /\ s \in {"restored", "login_finish"} => r.state = "active"
  /\ s = "logout_finish" => r.state = "logged_out"

UnsentInv ==
  ~unsure =>
    /\ holder = NoUser => rec.state = "logged_out" \/ Usable
    /\ \A u \in Users : pc[u] \in Locked => Early(pc[u], mem[u], rec)

-----------------------------------------------------------------------------
(* What one step needs of what it writes and of what its process remembers. *)
Writable(u, w, iss, rv) ==
  /\ Clean(w, spent, iss, rv)
  /\ \A v \in Users \ {u} :
       /\ pc[v] \in Private => mem[v].tok # w.tok
       /\ pc[v] \in {"signing", "signed"} /\ mem[v].late => mem[v].rev < w.rev

Bearable(u, s, m, iss, rv) ==
  /\ Known(m, iss, rv)
  /\ \A v \in Users \ {u} :
       /\ pc[v] \in Private => mem[v].tok \notin {m.tok, m.rec.tok}
       /\ pc[v] \in {"signing", "signed"} /\ mem[v].late /\ s \in Renewing
            => mem[v].rev < m.rec.rev

LEMMA RecIsWritable ==
  ASSUME CInv, NEW u \in Users, NEW iss \in Nat, NEW rv \in Nat, iss >= issued, rv >= revs
  PROVE  Writable(u, rec, iss, rv)
BY DEF CInv, CTypes, Records, Clean, Writable, Own, Overtaken, Memories

LEMMA MineIsWritable ==
  ASSUME CInv, NEW u \in Users, pc[u] \in {"restore"} \cup Verifying
  PROVE  Writable(u, mem[u].rec, issued, revs)
BY DEF CInv, CTypes, Records, Memories, Clean, Known, Fits, Writable, Own, Overtaken, Renewing

LEMMA MineIsBearable ==
  ASSUME CInv, NEW u \in Users, NEW s, s \in Renewing => pc[u] \in Renewing,
         NEW iss \in Nat, NEW rv \in Nat, iss >= issued, rv >= revs
  PROVE  Bearable(u, s, mem[u], iss, rv)
BY DEF CInv, CTypes, Records, Memories, Known, Bearable, Own, Overtaken

(* One process moves to s and remembers m; the record stays or becomes w.   *)
LEMMA Moves ==
  ASSUME CInv, NEW u \in Users, NEW s \in Places, NEW m \in Memories, NEW w \in Records,
         pc' = [pc EXCEPT ![u] = s], mem' = [mem EXCEPT ![u] = m],
         rec' \in {rec, w}, settled'[1] \in {settled[1], rec, w},
         \/ holder \in {NoUser, u} /\ holder' = IF s \in Locked THEN u ELSE NoUser
         \/ /\ s \notin Locked /\ holder' = holder
            /\ rec' = rec /\ settled'[1] = settled[1],
         issued' \in Nat, revs' \in Nat, issued' >= issued, revs' >= revs,
         spent' = spent, replayed' = replayed, ~revived',
         Writable(u, w, issued', revs'), Bearable(u, s, m, issued', revs'),
         Fits(s, m, rec', settled'[1], spent),
         s \in Private =>
           /\ m.tok \notin {rec.tok, w.tok}
           /\ \A v \in Users \ {u} : m.tok \notin {mem[v].tok, mem[v].rec.tok},
         s \in {"signing", "signed"} /\ m.late =>
           /\ pc[u] \in {"signing", "signed"} /\ mem[u].late /\ m.rev = mem[u].rev
           /\ w = rec
  PROVE  CInv'
<1>1. CTypes'
  BY DEF CInv, CTypes
<1>2. OneHolder'
  BY UsersAssumption DEF CInv, CTypes, OneHolder
<1>3. PICK r, st : r = rec' /\ st = settled'[1]
  OBVIOUS
<1>4. Clean(r, spent, issued', revs') /\ Clean(st, spent, issued', revs')
  BY <1>3 DEF CInv, CTypes, Clean, Writable, Records
<1>5. ASSUME NEW v \in Users \ {u}
      PROVE  /\ pc'[v] = pc[v] /\ mem'[v] = mem[v] /\ mem[v] \in Memories
             /\ pc[v] \in Places
             /\ pc[v] \notin Locked \/ (r = rec /\ st = settled[1])
  BY <1>3, UsersAssumption DEF CInv, CTypes, OneHolder
<1>6. pc'[u] = s /\ mem'[u] = m
  BY DEF CInv, CTypes
<1>7. ASSUME NEW v \in Users
      PROVE  Known(mem'[v], issued', revs') /\ Fits(pc'[v], mem'[v], r, st, spent)
  <2>1. CASE v = u
    BY <1>3, <1>6, <2>1 DEF Bearable
  <2>2. CASE v # u
    <3>1. Known(mem[v], issued, revs) /\ Fits(pc[v], mem[v], rec, settled[1], spent)
      BY DEF CInv
    <3>2. Known(mem[v], issued', revs')
      BY <3>1, <1>5, <2>2 DEF CInv, CTypes, Known, Memories, Records
    <3>3. Fits(pc[v], mem[v], r, st, spent)
      BY <3>1, <1>5, <2>2 DEF Fits, Locked, Verifying, Private, Places
    <3> QED
      BY <3>2, <3>3, <1>5, <2>2
  <2> QED
    BY <2>1, <2>2
<1>8. ASSUME NEW v \in Users PROVE Own(v)'
  <2>1. CASE v = u
    BY <1>5, <1>6, <2>1 DEF Own
  <2>2. CASE v # u
    BY <1>5, <1>6, <2>2 DEF CInv, Own, Writable, Bearable
  <2> QED
    BY <2>1, <2>2
<1>9. ASSUME NEW v \in Users PROVE Overtaken(v)'
  <2>1. CASE v = u
    <3>1. SUFFICES ASSUME s \in {"signing", "signed"}, m.late
                   PROVE  /\ m.rev < r.rev
                          /\ \A x \in Users : pc'[x] \in Renewing => m.rev < mem'[x].rec.rev
      BY <1>3, <1>6, <2>1 DEF Overtaken
    <3>2. s \notin Renewing
      BY <3>1 DEF Renewing, Verifying
    <3> QED
      BY <1>3, <1>5, <1>6, <3>1, <3>2 DEF CInv, Overtaken
  <2>2. CASE v # u
    BY <1>3, <1>5, <1>6, <2>2 DEF CInv, Overtaken, Writable, Bearable
  <2> QED
    BY <2>1, <2>2
<1>10. ~replayed' /\ ~revived'
  BY DEF CInv
<1> QED
  BY <1>1, <1>2, <1>3, <1>4, <1>7, <1>8, <1>9, <1>10 DEF CInv

-----------------------------------------------------------------------------
(* What the file operations leave behind.                                   *)
LEMMA WriteEffect ==
  ASSUME CInv, NEW u \in Users, NEW w \in Records, NEW next \in Places, NEW caught \in Places,
         Write(u, w, next, caught)
  PROVE  /\ rec' \in {rec, w}
         /\ \/ Goto(u, next) /\ rec' = w /\ settled'[1] = w
            \/ Goto(u, caught) /\ settled'[1] = settled[1]
BY DEF CInv, CTypes, Write

LEMMA MarkerEffect ==
  ASSUME CInv, NEW u \in Users, NEW next \in Places, NEW caught \in Places,
         PlaceMarker(u, next, caught) \/ RemoveMarker(u, next, caught)
  PROVE  /\ rec' = rec /\ settled'[1] \in {settled[1], rec}
         /\ Goto(u, next) \/ Goto(u, caught)
<1>1. /\ rec' = rec
      /\ settled' = settled \/ settled' = <<rec, TRUE>> \/ settled' = <<rec, FALSE>>
      /\ Goto(u, next) \/ Goto(u, caught)
  <2>1. CASE PlaceMarker(u, next, caught)
    BY <2>1, Zenon DEF PlaceMarker, file
  <2>2. CASE RemoveMarker(u, next, caught)
    BY <2>2, Zenon DEF RemoveMarker
  <2> QED
    BY <2>1, <2>2
<1>2. settled'[1] \in {settled[1], rec}
  <2>1. <<rec, TRUE>>[1] = rec /\ <<rec, FALSE>>[1] = rec
    OBVIOUS
  <2> QED
    BY <1>1, <2>1, Zenon
<1> QED
  BY <1>1, <1>2, Zenon

(* A step that leaves the record and the memories alone.                    *)
LEMMA Quiet ==
  ASSUME CInv, NEW u \in Users, NEW s \in Places, pc[u] \in Locked,
         pc' = [pc EXCEPT ![u] = s], holder' = IF s \in Locked THEN u ELSE NoUser,
         mem' = mem, rec' = rec, settled'[1] \in {settled[1], rec},
         UNCHANGED <<revs, issued, spent, replayed, revived>>,
         s \notin {"signing", "signed"}, s \in Renewing => pc[u] \in Renewing,
         s \in Private => pc[u] \in Private,
         Fits(s, mem[u], rec, settled'[1], spent)
  PROVE  CInv'
<1>1. PICK m : m = mem[u]
  OBVIOUS
<1>2. m \in Memories /\ rec \in Records /\ mem' = [mem EXCEPT ![u] = m] /\ issued \in Nat
      /\ revs \in Nat /\ ~revived
  BY <1>1 DEF CInv, CTypes
<1>3. holder = u
  BY DEF CInv, OneHolder
<1>4. Writable(u, rec, issued', revs') /\ Bearable(u, s, m, issued', revs')
  BY <1>1, <1>2, RecIsWritable, MineIsBearable
<1>5. s \in Private => /\ m.tok # rec.tok
                       /\ \A v \in Users \ {u} : m.tok \notin {mem[v].tok, mem[v].rec.tok}
  BY <1>1 DEF CInv, Own
<1>6. Fits(s, m, rec', settled'[1], spent)
  BY <1>1
<1>7. /\ issued' \in Nat /\ issued' >= issued /\ spent' = spent /\ replayed' = replayed
      /\ revs' \in Nat /\ revs' >= revs /\ ~revived'
  BY <1>2
<1> QED
  BY <1>2, <1>3, <1>4, <1>5, <1>6, <1>7, Moves

(* A process that has the lock writes w, or fails to.                       *)
LEMMA Writes ==
  ASSUME CInv, NEW u \in Users, NEW s \in Places, NEW m \in Memories, NEW w \in Records,
         pc[u] \in Locked, s \notin {"signing", "signed"}, s \notin Private,
         pc' = [pc EXCEPT ![u] = s], holder' = IF s \in Locked THEN u ELSE NoUser,
         mem' = [mem EXCEPT ![u] = m],
         rec' \in {rec, w}, settled'[1] \in {settled[1], rec, w},
         UNCHANGED <<issued, spent, replayed>>, ~revived', revs' \in Nat, revs' >= revs,
         Writable(u, w, issued, revs'), Bearable(u, s, m, issued, revs'),
         Fits(s, m, rec', settled'[1], spent)
  PROVE  CInv'
<1>1. holder = u /\ issued \in Nat
  BY DEF CInv, CTypes, OneHolder
<1>2. issued' \in Nat /\ issued' >= issued /\ spent' = spent /\ replayed' = replayed
  BY <1>1
<1>3. Writable(u, w, issued', revs') /\ Bearable(u, s, m, issued', revs')
  OBVIOUS
<1> QED
  BY <1>1, <1>2, <1>3, Moves

(* A record with a new revision and no token, or with one of a process's    *)
(* own.                                                                     *)
LEMMA NewIsWritable ==
  ASSUME CInv, NEW u \in Users, NEW rv \in Nat, rv = revs + 1, NEW w \in Records, w.rev = rv,
         \/ w.tok = 0 /\ w.state \notin {"active", "received"}
         \/ w.tok = mem[u].tok /\ w.tok # 0 /\ w.tok \notin spent
  PROVE  Writable(u, w, issued, rv)
<1>1. Clean(w, spent, issued, rv)
  BY DEF CInv, CTypes, Known, Clean, Records, Memories
<1>2. ASSUME NEW v \in Users \ {u}, pc[v] \in Private PROVE mem[v].tok # w.tok
  BY <1>2 DEF CInv, Fits, Own
<1>3. ASSUME NEW v \in Users \ {u} PROVE mem[v].rev < w.rev
  BY DEF CInv, CTypes, Known, Memories
<1> QED
  BY <1>1, <1>2, <1>3 DEF Writable

-----------------------------------------------------------------------------
(* Steps that place or remove the marker.                                   *)
LEMMA Marking ==
  ASSUME CInv, NEW u \in Users,
         BeginRenewal(u) \/ ConfirmMarker(u) \/ VerifyBegin(u) \/ BlockAgain(u)
           \/ LoginBegin(u) \/ LoginFailed(u)
           \/ Restored(u) \/ FinishRenewal(u) \/ LoginFinish(u) \/ LogoutFinish(u)
  PROVE  CInv'
<1>1. mem' = mem /\ UNCHANGED <<revs, issued, spent, replayed, revived>>
  BY DEF BeginRenewal, ConfirmMarker, VerifyBegin, BlockAgain, LoginBegin, LoginFailed, Restored,
         FinishRenewal, LoginFinish, LogoutFinish, Keep, provider
<1>2. PICK next \in Places, caught \in Places :
         /\ PlaceMarker(u, next, caught) \/ RemoveMarker(u, next, caught)
         /\ \/ pc[u] = "begin" /\ next = "pend" /\ caught = "idle"
            \/ pc[u] = "uncertain" /\ next = "clear" /\ caught = "idle"
            \/ pc[u] = "verify_begin" /\ next = "verify" /\ caught = "idle"
            \/ pc[u] = "worker_begin" /\ next = "worker_verify" /\ caught = "idle"
            \/ pc[u] = "unverified" /\ next = "keep" /\ caught = "idle"
            \/ pc[u] = "login_begin" /\ next = "login_write" /\ caught = "idle"
            \/ pc[u] = "login_failed" /\ next = "idle" /\ caught = "idle"
            \/ pc[u] = "restored" /\ next = "idle" /\ caught = "idle"
            \/ pc[u] = "finish" /\ next = "idle" /\ caught = "unverified"
            \/ pc[u] = "login_finish" /\ next = "idle" /\ caught = "login_failed"
            \/ pc[u] = "logout_finish" /\ next = "idle" /\ caught = "idle"
  BY DEF BeginRenewal, ConfirmMarker, VerifyBegin, BlockAgain, LoginBegin, LoginFailed, Restored,
         FinishRenewal, LoginFinish, LogoutFinish, Places
<1>3. rec' = rec /\ settled'[1] \in {settled[1], rec}
  BY <1>2, MarkerEffect
<1>4. PICK s \in {next, caught} : Goto(u, s)
  BY <1>2, MarkerEffect
<1>5. pc' = [pc EXCEPT ![u] = s]
      /\ holder' = IF s \in {"idle", "asked", "signing"} THEN NoUser ELSE u
  BY <1>4 DEF Goto
<1>6. pc[u] \in Locked /\ s \in Places /\ s \notin {"signing", "signed", "asked"}
      /\ (s \in Renewing => pc[u] \in Renewing) /\ (s \in Private => pc[u] \in Private)
  BY <1>2 DEF Places, Locked, Renewing, Verifying, Private
<1>7. holder' = IF s \in Locked THEN u ELSE NoUser
  BY <1>5, <1>6 DEF Locked
<1>8. Fits(s, mem[u], rec, settled'[1], spent)
  BY <1>2 DEF CInv, Fits, Verifying, Private
<1> QED
  BY <1>1, <1>3, <1>5, <1>6, <1>7, <1>8, Quiet

(* An exchange or a verification that ends without an answer.               *)
LEMMA Ending ==
  ASSUME CInv, NEW u \in Users, NotSent(u) \/ Uncertain(u) \/ VerificationFails(u)
  PROVE  CInv'
<1>1. /\ mem' = mem /\ UNCHANGED <<revs, issued, spent, replayed, revived>>
      /\ rec' = rec /\ settled' = settled /\ holder' = holder
  BY DEF NotSent, Uncertain, VerificationFails, file, provider
<1>2. PICK s \in Places :
        /\ pc' = [pc EXCEPT ![u] = s]
        /\ \/ pc[u] \in {"exchange", "worker_verify"} /\ s = "restore"
           \/ pc[u] = "sent" /\ s = "uncertain"
           \/ pc[u] \in {"verify", "worker_verify"} /\ s = "unverified"
  BY DEF NotSent, Uncertain, VerificationFails, Places
<1>3. pc[u] \in Locked /\ s \in Locked /\ s \notin {"signing", "signed"}
      /\ (s \in Renewing => pc[u] \in Renewing) /\ s \notin Private
  BY <1>2 DEF Places, Locked, Renewing, Verifying, Private
<1>4. holder' = u
  BY <1>1, <1>3 DEF CInv, OneHolder
<1>5. Fits(s, mem[u], rec, settled'[1], spent)
  BY <1>1, <1>2 DEF CInv, Fits, Verifying, Private
<1> QED
  BY <1>1, <1>2, <1>3, <1>4, <1>5, Quiet

-----------------------------------------------------------------------------
(* Steps that write the record.                                             *)
Onward == Places \ (Private \cup {"signing", "asked"})
Settling == Onward \ {"begin", "pend", "exchange"}

LEMMA Wrote ==
  ASSUME CInv, NEW u \in Users, NEW next \in Onward, NEW caught \in Settling, NEW w \in Records,
         NEW m \in Memories, NEW rv \in Nat, rv >= revs, Write(u, w, next, caught),
         pc[u] \in Locked, mem' = [mem EXCEPT ![u] = m], revs' = rv,
         UNCHANGED <<issued, spent, replayed>>, ~revived', Writable(u, w, issued, rv),
         Bearable(u, next, m, issued, rv), Bearable(u, caught, m, issued, rv),
         Fits(next, m, w, w, spent), Fits(caught, m, w, w, spent)
  PROVE  CInv'
<1>1. /\ rec' \in {rec, w}
      /\ \/ Goto(u, next) /\ rec' = w /\ settled'[1] = w
         \/ Goto(u, caught) /\ settled'[1] = settled[1]
  BY WriteEffect DEF Onward, Settling
<1>2. PICK s \in {next, caught} :
        /\ Goto(u, s) /\ settled'[1] \in {settled[1], rec, w}
        /\ (s = next /\ rec' = w /\ settled'[1] = w) \/ s = caught
  BY <1>1
<1>3. /\ s \in Places /\ s \notin {"signing", "signed", "asked"} /\ s \notin Private
      /\ Bearable(u, s, m, issued, revs')
  BY <1>2 DEF Onward, Settling, Private
<1>4. pc' = [pc EXCEPT ![u] = s] /\ holder' = IF s \in Locked THEN u ELSE NoUser
  BY <1>2, <1>3 DEF Goto, Locked
<1>5. Fits(s, m, rec', settled'[1], spent)
  <2>1. CASE s = next /\ rec' = w /\ settled'[1] = w
    BY <2>1
  <2>2. CASE s = caught
    BY <2>2 DEF Fits, Settling
  <2> QED
    BY <1>2, <2>1, <2>2
<1>6. Writable(u, w, issued, revs') /\ revs' \in Nat /\ revs' >= revs
  OBVIOUS
<1> QED
  BY <1>1, <1>2, <1>3, <1>4, <1>5, <1>6, Writes

LEMMA Withdrawing ==
  ASSUME CInv, NEW u \in Users, Withdraw(u)
  PROVE  CInv'
<1>1. PICK m, rv : m = mem[u] /\ rv = revs + 1
  OBVIOUS
<1>2. m \in Memories /\ rv \in Nat /\ rv >= revs /\ mem' = [mem EXCEPT ![u] = m] /\ revs' = rv
      /\ pc[u] = "pend" /\ UNCHANGED <<issued, spent, replayed>> /\ ~revived'
  BY <1>1 DEF CInv, CTypes, Withdraw, NewRev, Keep, provider
<1> DEFINE w == Record("pending", 0, rv)
<1>3. Write(u, w, "exchange", "idle")
  BY <1>2 DEF Withdraw
<1>4. w \in Records /\ w.rev = rv /\ w.tok = 0 /\ w.state = "pending"
  BY <1>2 DEF Record, Records
<1> HIDE DEF w
<1>5. Writable(u, w, issued, rv)
  BY <1>1, <1>2, <1>4, NewIsWritable
<1>6. Bearable(u, "exchange", m, issued, rv) /\ Bearable(u, "idle", m, issued, rv)
  BY <1>1, <1>2, MineIsBearable DEF CInv, CTypes, Renewing, Verifying
<1>7. Fits("exchange", m, w, w, spent) /\ Fits("idle", m, w, w, spent)
  BY <1>1, <1>2, <1>4 DEF CInv, Fits, Clean, Verifying, Private
<1>8. pc[u] \in Locked  /\ "exchange" \in Onward /\ "idle" \in Settling
  BY <1>2 DEF Places, Locked, Private, Onward, Settling
<1> QED
  BY <1>2, <1>3, <1>4, <1>5, <1>6, <1>7, <1>8, Wrote

(* The record that was read, or received, is written again.                 *)
LEMMA WritingBack ==
  ASSUME CInv, NEW u \in Users, Restore(u) \/ ReceiveAgain(u) \/ KeepReceived(u)
  PROVE  CInv'
<1>1. PICK m, w, rv : m = mem[u] /\ w = mem[u].rec /\ rv = revs
  OBVIOUS
<1>2. m \in Memories /\ w \in Records /\ mem' = [mem EXCEPT ![u] = m] /\ revs' = rv
      /\ rv \in Nat /\ rv >= revs /\ UNCHANGED <<issued, spent, replayed>> /\ ~revived'
  BY <1>1 DEF CInv, CTypes, Memories, Restore, ReceiveAgain, KeepReceived, Keep, provider
<1>3. /\ Write(u, w, "restored", "idle") \/ Write(u, w, "idle", "idle")
      /\ pc[u] \in {"restore", "receive_again", "keep"}
  BY <1>1 DEF Restore, ReceiveAgain, KeepReceived
<1>4. Writable(u, w, issued, rv)
  BY <1>1, <1>3, MineIsWritable DEF Verifying
<1>5. ASSUME NEW s \in {"restored", "idle"}
      PROVE  Bearable(u, s, m, issued, rv) /\ Fits(s, m, w, w, spent)
  <2>1. s \notin Renewing
    BY DEF Renewing, Verifying
  <2> QED
    BY <1>1, <1>2, <2>1, MineIsBearable DEF CInv, CTypes, Fits, Verifying, Private
<1>6. pc[u] \in Locked  /\ "restored" \in Onward /\ "idle" \in Onward /\ "idle" \in Settling
  BY <1>3 DEF Places, Locked, Private, Onward, Settling
<1> QED
  BY <1>2, <1>3, <1>4, <1>5, <1>6, Wrote

LEMMA Clearing ==
  ASSUME CInv, NEW u \in Users, Clear(u)
  PROVE  CInv'
<1>1. PICK m, n, rv : m = mem[u] /\ n = rec.rev /\ rv = revs
  OBVIOUS
<1>2. m \in Memories /\ n \in Nat /\ mem' = [mem EXCEPT ![u] = m] /\ revs' = rv
      /\ rv \in Nat /\ rv >= revs /\ pc[u] = "clear" /\ UNCHANGED <<issued, spent, replayed>> /\ ~revived'
  BY <1>1 DEF CInv, CTypes, Records, Clear, Keep, provider
<1> DEFINE w == Record("pending", 0, n)
<1>3. Write(u, w, "idle", "idle")
  BY <1>1, <1>2 DEF Clear
<1>4. w \in Records /\ w.rev = n /\ w.tok = 0 /\ w.state = "pending"
  BY <1>2 DEF Record, Records
<1> HIDE DEF w
<1>5. Writable(u, w, issued, rv)
  <2>1. Clean(w, spent, issued, rv)
    BY <1>1, <1>4 DEF CInv, CTypes, Clean
  <2>2. ASSUME NEW v \in Users \ {u}
        PROVE  /\ pc[v] \in Private => mem[v].tok # w.tok
               /\ pc[v] \in {"signing", "signed"} /\ mem[v].late => mem[v].rev < w.rev
    BY <1>1, <1>4 DEF CInv, Fits, Overtaken
  <2> QED
    BY <2>1, <2>2 DEF Writable
<1>6. Bearable(u, "idle", m, issued, rv)
  BY <1>1, <1>2, MineIsBearable DEF CInv, CTypes, Renewing, Verifying
<1>7. Fits("idle", m, w, w, spent)
  BY DEF Fits, Verifying, Private
<1>8. pc[u] \in Locked  /\ "idle" \in Onward /\ "idle" \in Settling
  BY <1>2 DEF Places, Locked, Private, Onward, Settling
<1> QED
  BY <1>2, <1>3, <1>4, <1>5, <1>6, <1>7, <1>8, Wrote

LEMMA Receiving ==
  ASSUME CInv, NEW u \in Users, Receive(u)
  PROVE  CInv'
<1>1. PICK o, rv : o = mem[u] /\ rv = revs + 1
  OBVIOUS
<1>2. /\ o \in Memories /\ rv \in Nat /\ rv >= revs /\ revs' = rv /\ pc[u] = "receive"
      /\ UNCHANGED <<issued, spent, replayed>> /\ ~revived'
      /\ o.tok # 0 /\ o.tok \notin spent /\ Known(o, issued, revs) /\ Known(o, issued, rv)
  BY <1>1 DEF CInv, CTypes, Memories, Records, Known, Fits, Receive, NewRev, Keep, provider
<1>3. PICK w : w = Record("received", o.tok, rv)
  OBVIOUS
<1>4. w \in Records /\ w.rev = rv /\ w.tok = o.tok /\ w.state = "received"
  BY <1>2, <1>3 DEF Record, Records, Memories
<1>5. PICK m : m = [o EXCEPT !.rec = w]
  OBVIOUS
<1>6. m \in Memories /\ m.rec = w /\ m.tok = o.tok /\ m.rev = o.rev
  BY <1>2, <1>4, <1>5 DEF Memories
<1>7. mem' = [mem EXCEPT ![u] = m] /\ mem'[u].rec = w
  BY <1>1, <1>2, <1>3, <1>5, <1>6 DEF Receive, CInv, CTypes
<1>8. Write(u, w, "verify", "receive_again")
  BY <1>7 DEF Receive
<1>9. Writable(u, w, issued, rv)
  BY <1>1, <1>2, <1>4, NewIsWritable
<1>10. ASSUME NEW s \in {"verify", "receive_again"}
       PROVE  Bearable(u, s, m, issued, rv) /\ Fits(s, m, w, w, spent)
  <2>1. Known(m, issued, rv)
    BY <1>2, <1>4, <1>6 DEF Known
  <2>2. Bearable(u, s, m, issued, rv)
    BY <2>1, <1>1, <1>4, <1>6, <1>9 DEF CInv, Bearable, Writable, Own
  <2> QED
    BY <2>2, <1>2, <1>4, <1>6 DEF Fits, Verifying, Private
<1>11. pc[u] \in Locked  /\ "verify" \in Onward /\ "receive_again" \in Settling
  BY <1>2 DEF Places, Locked, Private, Onward, Settling
<1> QED
  BY <1>2, <1>4, <1>6, <1>7, <1>8, <1>9, <1>10, <1>11, Wrote

(* The verified or the new login is written.                                *)
LEMMA Activating ==
  ASSUME CInv, NEW u \in Users, Verified(u) \/ LoginWrite(u)
  PROVE  CInv'
<1>1. PICK m, rv : m = mem[u] /\ rv = revs + 1
  OBVIOUS
<1>2. m \in Memories /\ rv \in Nat /\ rv >= revs /\ mem' = [mem EXCEPT ![u] = m] /\ revs' = rv
      /\ UNCHANGED <<issued, spent, replayed>>
  BY <1>1 DEF CInv, CTypes, Verified, LoginWrite, NewRev, Keep, provider
<1>3. m.tok # 0 /\ m.tok \notin spent /\ pc[u] \in {"verify", "worker_verify", "login_write"}
      /\ (pc[u] = "login_write" => ~m.late)
      /\ (pc[u] # "login_write" => /\ m.rec.state = "received" /\ m.rec.tok = m.tok)
  BY <1>1 DEF CInv, Fits, Verified, LoginWrite, Verifying, Private
<1>4. ~revived'
  <2>1. CASE Verified(u)
    BY <2>1 DEF CInv, Verified, Keep
  <2>2. CASE LoginWrite(u)
    BY <1>1, <1>3, <2>2, Zenon DEF CInv, LoginWrite
  <2> QED
    BY <2>1, <2>2
<1> DEFINE w == Record("active", m.tok, rv)
<1>5. \/ pc[u] = "login_write" /\ Write(u, w, "login_finish", "login_failed")
      \/ pc[u] # "login_write" /\ Write(u, w, "finish", "unverified")
  BY <1>1, <1>2 DEF Verified, LoginWrite
<1>6. w \in Records /\ w.rev = rv /\ w.tok = m.tok /\ w.state = "active"
  BY <1>2 DEF Record, Records, Memories
<1> HIDE DEF w
<1>7. Writable(u, w, issued, rv)
  BY <1>1, <1>2, <1>3, <1>6, NewIsWritable
<1>10. /\ pc[u] \in Locked /\ "login_finish" \in Onward /\ "finish" \in Onward
       /\ "login_failed" \in Settling /\ "unverified" \in Settling
  BY <1>3 DEF Places, Locked, Private, Onward, Settling
<1>8. CASE pc[u] = "login_write"
  <2>1. ASSUME NEW s \in {"login_finish", "login_failed"}
        PROVE  Bearable(u, s, m, issued, rv) /\ Fits(s, m, w, w, spent)
    <3>1. s \notin Renewing
      BY DEF Renewing, Verifying
    <3> QED
      BY <1>1, <1>2, <3>1, MineIsBearable DEF CInv, CTypes, Fits, Verifying, Private
  <2> QED
    BY <1>2, <1>4, <1>5, <1>6, <1>7, <1>8, <1>10, <2>1, Wrote
<1>9. CASE pc[u] # "login_write"
  <2>1. ASSUME NEW s \in {"finish", "unverified"}
        PROVE  Bearable(u, s, m, issued, rv) /\ Fits(s, m, w, w, spent)
    <3>1. pc[u] \in Renewing
      BY <1>3, <1>9 DEF Renewing, Verifying
    <3>2. Bearable(u, s, m, issued, rv)
      <4>1. issued \in Nat /\ issued >= issued
        BY DEF CInv, CTypes
      <4> QED
        BY <1>1, <1>2, <3>1, <4>1, MineIsBearable
    <3> QED
      BY <1>3, <1>9, <3>2 DEF Fits, Verifying, Private
  <2> QED
    BY <1>2, <1>3, <1>4, <1>5, <1>6, <1>7, <1>9, <1>10, <2>1, Wrote
<1> QED
  BY <1>8, <1>9

-----------------------------------------------------------------------------
(* Steps that take the lock.                                                *)
LEMMA Takes ==
  ASSUME CInv, NEW u \in Users, NEW s \in Places, NEW m \in Memories, Take,
         pc' = [pc EXCEPT ![u] = s], mem' = [mem EXCEPT ![u] = m],
         holder' = IF s \in Locked THEN u ELSE NoUser,
         UNCHANGED <<rec, revs, issued, spent, replayed, revived>>,
         Bearable(u, s, m, issued, revs), Fits(s, m, rec, rec, spent),
         s \in Private => pc[u] \in Private /\ m.tok = mem[u].tok,
         s \in {"signing", "signed"} => ~m.late
  PROVE  CInv'
<1>1. /\ rec \in Records /\ issued \in Nat /\ revs \in Nat /\ ~revived
      /\ holder = NoUser /\ settled' = <<rec, marker>>
  BY DEF CInv, CTypes, Take
<1>2. rec' = rec /\ settled'[1] = rec
  BY <1>1
<1>3. /\ issued' \in Nat /\ issued' >= issued /\ spent' = spent /\ replayed' = replayed
      /\ revs' \in Nat /\ revs' >= revs /\ ~revived' /\ issued' = issued /\ revs' = revs
  BY <1>1
<1>4. Writable(u, rec, issued', revs') /\ Bearable(u, s, m, issued', revs')
  BY <1>1, <1>3, RecIsWritable
<1>5. s \in Private => /\ m.tok # rec.tok
                       /\ \A v \in Users \ {u} : m.tok \notin {mem[v].tok, mem[v].rec.tok}
  BY DEF CInv, Own
<1>6. Fits(s, m, rec', settled'[1], spent)
  BY <1>2
<1>7. PICK w : w = rec
  OBVIOUS
<1> QED
  BY <1>1, <1>2, <1>3, <1>4, <1>5, <1>6, <1>7, Moves

(* The record that is read under the lock.                                  *)
LEMMA ReadIsBearable ==
  ASSUME CInv, NEW u \in Users, NEW s, NEW m \in Memories, m.rec = rec, m.tok = rec.tok,
         m.rev <= revs
  PROVE  Bearable(u, s, m, issued, revs)
BY DEF CInv, CTypes, Clean, Known, Bearable, Own, Overtaken

LEMMA Opening ==
  ASSUME CInv, NEW u \in Users, Renew(u) \/ Refresh(u)
  PROVE  CInv'
<1>1. PICK o : o = mem[u]
  OBVIOUS
<1>2. o \in Memories /\ Known(o, issued, revs) /\ mem \in [Users -> Memories]
  BY <1>1 DEF CInv, CTypes
<1>3. Take /\ UNCHANGED <<rec, revs, issued, spent, replayed, revived>>
  BY DEF Renew, Refresh, provider, bounds
<1>4. PICK r : r = rec
  OBVIOUS
<1>5. r \in Records /\ Clean(r, spent, issued, revs)
  BY <1>4 DEF CInv, CTypes
<1>6. PICK s \in {"begin", "worker_begin", "verify_begin", "idle"} :
        /\ Goto(u, s)
        /\ \/ s = "idle" /\ mem' = [mem EXCEPT ![u] = o]
           \/ /\ mem' = [mem EXCEPT ![u] = [o EXCEPT !.rec = r, !.tok = r.tok]]
              /\ s = "begin" => r.state = "active"
              /\ s # "begin" => s # "idle" /\ r.state = "received"
  <2>1. CASE mem' = mem /\ Goto(u, "idle")
    <3>1. mem' = [mem EXCEPT ![u] = o]
      BY <1>1, <1>2, <2>1
    <3> QED
      BY <2>1, <3>1
  <2>2. CASE /\ mem' = [mem EXCEPT ![u].rec = rec, ![u].tok = rec.tok]
             /\ \/ NeedsVerification /\ (Goto(u, "worker_begin") \/ Goto(u, "verify_begin"))
                \/ ~NeedsVerification /\ ~Blocked /\ Goto(u, "begin")
    <3>1. mem' = [mem EXCEPT ![u] = [o EXCEPT !.rec = r, !.tok = r.tok]]
      BY <1>1, <1>2, <1>4, <2>2
    <3> QED
      BY <1>4, <2>2, <3>1 DEF NeedsVerification, Blocked
  <2>3. CASE Renew(u)
    BY <2>1, <2>2, <2>3 DEF Renew
  <2>4. CASE Refresh(u)
    BY <2>1, <2>2, <2>4 DEF Refresh
  <2> QED
    BY <2>3, <2>4
<1>7. PICK m : m = IF s = "idle" THEN o ELSE [o EXCEPT !.rec = r, !.tok = r.tok]
  OBVIOUS
<1>11. /\ m \in Memories /\ m.rev = o.rev /\ mem' = [mem EXCEPT ![u] = m]
       /\ s # "idle" => m.rec = r /\ m.tok = r.tok
       /\ s = "idle" => m = o
       /\ s = "begin" => r.state = "active"
       /\ s \notin {"begin", "idle"} => r.state = "received"
  <2>1. CASE s = "idle"
    BY <1>2, <1>6, <1>7, <2>1
  <2>2. CASE s # "idle"
    <3>1. m = [o EXCEPT !.rec = r, !.tok = r.tok]
      BY <1>7, <2>2
    <3>2. m \in Memories /\ m.rev = o.rev /\ m.rec = r /\ m.tok = r.tok
      BY <1>2, <1>5, <3>1 DEF Memories, Records
    <3> QED
      BY <1>6, <2>2, <3>1, <3>2
  <2> QED
    BY <2>1, <2>2
<1>8. Bearable(u, s, m, issued, revs)
  <2>1. CASE s = "idle"
    <3>1. issued \in Nat /\ revs \in Nat /\ "idle" \notin Renewing
      BY DEF CInv, CTypes, Renewing, Verifying
    <3> QED
      BY <1>1, <1>11, <2>1, <3>1, MineIsBearable
  <2>2. CASE s # "idle"
    BY <1>2, <1>4, <1>11, <2>2, ReadIsBearable DEF Known
  <2> QED
    BY <2>1, <2>2
<1>9. Fits(s, m, rec, rec, spent)
  BY <1>4, <1>5, <1>6, <1>11 DEF Fits, Clean, Verifying, Private
<1>10. /\ s \in Places /\ s \notin Private /\ s \notin {"signing", "signed"}
       /\ pc' = [pc EXCEPT ![u] = s] /\ holder' = IF s \in Locked THEN u ELSE NoUser
  BY <1>6 DEF Goto, Places, Private, Locked
<1> QED
  BY <1>3, <1>8, <1>9, <1>10, <1>11, Takes

LEMMA Asking ==
  ASSUME CInv, NEW u \in Users, Acquire(u) \/ StartLogin(u)
  PROVE  CInv'
<1>1. PICK o, n : o = mem[u] /\ n = rec.rev
  OBVIOUS
<1>2. o \in Memories /\ Known(o, issued, revs) /\ mem \in [Users -> Memories] /\ n \in Nat
      /\ n <= revs /\ pc[u] = "idle" /\ pc \in [Users -> Places]
  BY <1>1 DEF CInv, CTypes, Records, Clean, Acquire, StartLogin, Request
<1>3. Take /\ UNCHANGED <<rec, revs, issued, spent, replayed, revived>>
  BY DEF Acquire, StartLogin, provider
<1>4. PICK s \in {"idle", "asked", "signing"} :
        /\ pc' = [pc EXCEPT ![u] = s] /\ holder' = NoUser
        /\ s = "idle" => mem' = [mem EXCEPT ![u] = o]
        /\ s = "asked" => mem' = [mem EXCEPT ![u] = [o EXCEPT !.rev = n]]
        /\ s = "signing" => mem' = [mem EXCEPT ![u] = [o EXCEPT !.rev = n, !.late = FALSE]]
  <2>1. CASE Acquire(u) /\ pc' = pc /\ mem' = mem
    <3>1. mem' = [mem EXCEPT ![u] = o] /\ pc' = [pc EXCEPT ![u] = "idle"] /\ holder' = NoUser
      BY <1>1, <1>2, <2>1 DEF Acquire, Take
    <3> QED
      BY <3>1
  <2>2. CASE Acquire(u) /\ ~(pc' = pc /\ mem' = mem)
    <3>1. /\ mem' = [mem EXCEPT ![u] = [o EXCEPT !.rev = n]] /\ pc' = [pc EXCEPT ![u] = "asked"]
          /\ holder' = NoUser
      BY <1>1, <1>2, <2>2 DEF Acquire, Take
    <3> QED
      BY <3>1
  <2>3. CASE StartLogin(u)
    <3>1. /\ mem' = [mem EXCEPT ![u] = [o EXCEPT !.rev = n, !.late = FALSE]]
          /\ pc' = [pc EXCEPT ![u] = "signing"] /\ holder' = NoUser
      BY <1>1, <1>2, <2>3 DEF StartLogin, Goto
    <3> QED
      BY <3>1
  <2> QED
    BY <2>1, <2>2, <2>3
<1>9. PICK m : m = CASE s = "idle" -> o
                     [] s = "asked" -> [o EXCEPT !.rev = n]
                     [] s = "signing" -> [o EXCEPT !.rev = n, !.late = FALSE]
  OBVIOUS
<1>10. mem' = [mem EXCEPT ![u] = m]
  BY <1>4, <1>9
<1>5. m \in Memories /\ m.rec = o.rec /\ m.tok = o.tok /\ m.rev \in {o.rev, n}
      /\ (s = "signing" => m.late = FALSE)
  BY <1>2, <1>9 DEF Memories
<1>6. s \in Places /\ s \notin Locked /\ s \notin Private /\ s \notin Renewing /\ s # "signed"
  BY <1>4 DEF Places, Locked, Private, Renewing, Verifying
<1>7. Bearable(u, s, m, issued, revs)
  BY <1>1, <1>2, <1>5, <1>6 DEF CInv, Known, Bearable, Own
<1>8. Fits(s, m, rec, rec, spent)
  BY <1>4 DEF Fits, Verifying, Private
<1> QED
  BY <1>3, <1>4, <1>5, <1>6, <1>7, <1>8, <1>10, Takes

LEMMA Storing ==
  ASSUME CInv, NEW u \in Users, StoreLogin(u) \/ StartLogout(u)
  PROVE  CInv'
<1>1. PICK m : m = mem[u]
  OBVIOUS
<1>2. m \in Memories /\ mem' = [mem EXCEPT ![u] = m] /\ issued \in Nat /\ revs \in Nat
      /\ rec \in Records
  BY <1>1 DEF CInv, CTypes, StoreLogin, StartLogout
<1>3. Take /\ UNCHANGED <<rec, revs, issued, spent, replayed, revived>>
  BY DEF StoreLogin, StartLogout, provider
<1>4. PICK s \in {"login_begin", "idle", "logout"} :
        Goto(u, s) /\ (s = "login_begin" => pc[u] = "signed" /\ rec.rev = m.rev)
  BY <1>1 DEF StoreLogin, StartLogout
<1>5. /\ s \in Places /\ s \notin {"signing", "signed"} /\ s \notin Renewing
      /\ (s \in Private => s = "login_begin") /\ "signed" \in Private
      /\ pc' = [pc EXCEPT ![u] = s] /\ holder' = IF s \in Locked THEN u ELSE NoUser
  BY <1>4 DEF Goto, Places, Private, Renewing, Verifying, Locked
<1>6. Bearable(u, s, m, issued, revs)
  BY <1>1, <1>2, <1>5, MineIsBearable
<1>7. Fits(s, m, rec, rec, spent)
  BY <1>1, <1>2, <1>4 DEF CInv, Fits, Overtaken, Verifying, Private, Memories, Records
<1> QED
  BY <1>1, <1>2, <1>3, <1>4, <1>5, <1>6, <1>7, Takes

-----------------------------------------------------------------------------
(* Steps without the lock, and the provider's answers.                      *)
LEMMA Issued ==
  ASSUME CInv, NEW u \in Users, SignIn(u) \/ Answer(u)
  PROVE  CInv'
<1>1. PICK o, t : o = mem[u] /\ t = issued + 1
  OBVIOUS
<1>2. /\ o \in Memories /\ Known(o, issued, revs) /\ mem \in [Users -> Memories]
      /\ issued \in Nat /\ revs \in Nat /\ spent \subseteq 1..issued /\ rec \in Records
      /\ Clean(rec, spent, issued, revs) /\ ~revived
  BY <1>1 DEF CInv, CTypes
<1>3. PICK m : m = [o EXCEPT !.tok = t]
  OBVIOUS
<1>4. m \in Memories /\ m.tok = t /\ m.rec = o.rec /\ m.rev = o.rev /\ m.late = o.late
  BY <1>1, <1>2, <1>3 DEF Memories
<1>5. /\ issued' = t /\ mem' = [mem EXCEPT ![u] = m] /\ UNCHANGED <<revs, spent, replayed, revived>>
      /\ rec' = rec /\ settled' = settled /\ holder' = holder
  BY <1>1, <1>3 DEF SignIn, Answer, file
<1>6. PICK s \in {"signed", "idle", "receive"} :
        /\ pc' = [pc EXCEPT ![u] = s]
        /\ s = "receive" => pc[u] = "sent"
        /\ s # "receive" => pc[u] = "signing"
  BY DEF SignIn, Answer
<1>7. /\ s \in Places /\ s \notin Renewing /\ s \notin Verifying
      /\ (s \in Locked => s = "receive") /\ "sent" \in Locked
  BY <1>6 DEF Places, Locked, Renewing, Verifying
<1>8. \/ holder \in {NoUser, u} /\ holder' = IF s \in Locked THEN u ELSE NoUser
      \/ s \notin Locked /\ holder' = holder /\ rec' = rec /\ settled'[1] = settled[1]
  BY <1>5, <1>6, <1>7 DEF CInv, OneHolder, Locked
<1>9. /\ issued' \in Nat /\ issued' >= issued /\ revs' \in Nat /\ revs' >= revs
      /\ spent' = spent /\ replayed' = replayed /\ ~revived'
  BY <1>1, <1>2, <1>5
<1>10. ASSUME NEW v \in Users PROVE mem[v].tok < t /\ mem[v].rec.tok < t
  BY <1>1, <1>2 DEF CInv, CTypes, Known, Memories, Records
<1>11. rec.tok < t /\ t # 0 /\ t \notin spent
  BY <1>1, <1>2 DEF Clean, Records
<1>12. Writable(u, rec, issued', revs')
  BY <1>2, <1>9, RecIsWritable
<1>13. Bearable(u, s, m, issued', revs')
  <2>1. Known(m, issued', revs')
    BY <1>1, <1>2, <1>4, <1>5 DEF Known, Memories, Records
  <2>2. ASSUME NEW v \in Users \ {u}, pc[v] \in Private
        PROVE  mem[v].tok \notin {m.tok, m.rec.tok}
    BY <1>1, <1>2, <1>4, <1>10, <2>2 DEF CInv, CTypes, Own, Memories
  <2> QED
    BY <1>7, <2>1, <2>2 DEF Bearable
<1>14. Fits(s, m, rec', settled'[1], spent)
  BY <1>4, <1>6, <1>7, <1>11 DEF Fits, Verifying, Private
<1>15. s \in Private =>
         /\ m.tok # rec.tok
         /\ \A v \in Users \ {u} : m.tok \notin {mem[v].tok, mem[v].rec.tok}
  BY <1>2, <1>4, <1>10, <1>11 DEF CTypes, CInv, Memories, Records
<1>16. s \in {"signing", "signed"} /\ m.late =>
         pc[u] \in {"signing", "signed"} /\ mem[u].late /\ m.rev = mem[u].rev
  BY <1>1, <1>4, <1>6
<1>17. rec' = rec /\ settled'[1] = settled[1]
  BY <1>5
<1>18. PICK w : w = rec
  OBVIOUS
<1> QED
  BY <1>2, <1>4, <1>5, <1>6, <1>7, <1>8, <1>9, <1>12, <1>13, <1>14, <1>15, <1>16, <1>17, <1>18, Moves

(* A process that stops, or is stopped.                                     *)
LEMMA Stopping ==
  ASSUME CInv, NEW u \in Users, SignInFails(u) \/ Busy(u) \/ Kill(u)
  PROVE  CInv'
<1>1. PICK m, s, w : m = mem[u] /\ s = "idle" /\ w = rec
  OBVIOUS
<1>2. /\ m \in Memories /\ mem' = [mem EXCEPT ![u] = m] /\ pc' = [pc EXCEPT ![u] = s]
      /\ issued \in Nat /\ revs \in Nat /\ rec \in Records /\ ~revived
  BY <1>1 DEF CInv, CTypes, SignInFails, Busy, Kill
<1>3. /\ rec' = rec /\ settled'[1] = settled[1]
      /\ UNCHANGED <<revs, issued, spent, replayed, revived>>
  BY DEF SignInFails, Busy, Kill, file, provider
<1>4. /\ issued' \in Nat /\ issued' >= issued /\ revs' \in Nat /\ revs' >= revs
      /\ spent' = spent /\ replayed' = replayed /\ ~revived'
  BY <1>2, <1>3
<1>5. s \in Places /\ s \notin Locked /\ s \notin Renewing /\ s \notin Private
      /\ s \notin {"signing", "signed"}
  BY <1>1 DEF Places, Locked, Renewing, Verifying, Private
<1>6. \/ holder \in {NoUser, u} /\ holder' = IF s \in Locked THEN u ELSE NoUser
      \/ s \notin Locked /\ holder' = holder /\ rec' = rec /\ settled'[1] = settled[1]
  BY <1>3, <1>5 DEF SignInFails, Busy, Kill
<1>7. Writable(u, rec, issued', revs') /\ Bearable(u, s, m, issued', revs')
  BY <1>1, <1>2, <1>4, <1>5, RecIsWritable, MineIsBearable
<1>8. Fits(s, m, rec', settled'[1], spent)
  BY <1>1 DEF Fits, Verifying, Private
<1> QED
  BY <1>1, <1>2, <1>3, <1>4, <1>5, <1>6, <1>7, <1>8, Moves

(* The token is presented: it left the file before, and no login has it.    *)
LEMMA Presenting ==
  ASSUME CInv, NEW u \in Users, Present(u)
  PROVE  CInv'
<1>1. PICK t : t = mem[u].rec.tok
  OBVIOUS
<1>2. /\ pc[u] = "exchange" /\ t # 0 /\ t \notin spent /\ rec.tok = 0 /\ settled[1].tok = 0
      /\ t <= issued /\ t \in Nat
  BY <1>1 DEF CInv, CTypes, Present, Fits, Known, Memories, Records
<1>3. /\ pc' = [pc EXCEPT ![u] = "sent"] /\ spent' \subseteq spent \cup {t}
      /\ UNCHANGED <<rec, settled, holder, mem, revs, issued, revived>>
  BY <1>1 DEF Present, file
<1>4. ~replayed'
  BY <1>1, <1>2, Zenon DEF Present, CInv
<1>5. holder = u /\ "sent" \in Places /\ u # NoUser
  BY <1>2, UsersAssumption DEF CInv, OneHolder, Locked, Places
<1>6. CTypes' /\ OneHolder'
  BY <1>2, <1>3, <1>5 DEF CInv, CTypes, OneHolder
<1>7. Clean(rec, spent', issued, revs) /\ Clean(settled[1], spent', issued, revs)
  BY <1>2, <1>3 DEF CInv, CTypes, Clean
<1>8. ASSUME NEW v \in Users
      PROVE  Fits(pc'[v], mem[v], rec, settled[1], spent')
  <2>1. CASE v = u
    BY <1>3, <2>1 DEF CInv, CTypes, Fits, Verifying, Private
  <2>2. CASE v # u
    <3>1. pc'[v] = pc[v] /\ pc[v] \in {"idle", "asked", "signing", "signed"}
      BY <1>3, <1>5, <2>2 DEF CInv, CTypes, OneHolder, Locked
    <3>2. pc[v] = "signed" => mem[v].tok # t /\ mem[v].tok # 0 /\ mem[v].tok \notin spent
      BY <1>1, <2>2 DEF CInv, Own, Fits, Private
    <3> QED
      BY <1>3, <3>1, <3>2 DEF Fits, Verifying, Private
  <2> QED
    BY <2>1, <2>2
<1>9. ASSUME NEW v \in Users PROVE Own(v)' /\ Overtaken(v)'
  <2>1. Own(v) /\ Overtaken(v) /\ (pc'[v] = pc[v] \/ pc'[v] = "sent")
    BY <1>3 DEF CInv, CTypes
  <2>2. \A x \in Users : pc'[x] \in Renewing => pc[x] \in Renewing
    BY <1>3 DEF CInv, CTypes, Renewing, Verifying
  <2>3. "sent" \notin Private
    BY DEF Private
  <2> QED
    BY <1>3, <2>1, <2>2, <2>3 DEF Own, Overtaken
<1> QED
  BY <1>3, <1>4, <1>6, <1>7, <1>8, <1>9 DEF CInv

(* A logout is written: every login under way is overtaken by a new         *)
(* revision.                                                                *)
LEMMA LoggingOut ==
  ASSUME CInv, NEW u \in Users, LogoutWrite(u)
  PROVE  CInv'
<1>1. PICK rv : rv = revs + 1
  OBVIOUS
<1>2. rv \in Nat /\ revs \in Nat /\ revs < rv /\ revs' = rv /\ pc[u] = "logout"
      /\ UNCHANGED <<issued, spent, replayed, revived>>
  BY <1>1 DEF CInv, CTypes, LogoutWrite, NewRev, Keep, provider
<1> DEFINE w == Record("logged_out", 0, rv)
<1>3. w \in Records /\ w.rev = rv /\ w.tok = 0 /\ w.state = "logged_out"
  BY <1>2 DEF Record, Records
<1>4. Write(u, w, "logout_finish", "idle")
  BY <1>2 DEF LogoutWrite
<1> HIDE DEF w
<1>5. /\ rec' \in {rec, w} /\ settled'[1] \in {settled[1], w}
  BY <1>3, <1>4, WriteEffect DEF Places
<1>6. PICK s \in {"logout_finish", "idle"} : Goto(u, s)
  BY <1>3, <1>4, WriteEffect DEF Places
<1>7. pc' = [pc EXCEPT ![u] = s] /\ (holder' = IF s \in Locked THEN u ELSE NoUser)
      /\ s \in Places /\ holder = u
  BY <1>2, <1>6 DEF Goto, Places, Locked, CInv, OneHolder
<1>8. ASSUME NEW v \in Users
      PROVE  /\ mem[v] \in Memories /\ mem'[v] \in Memories
             /\ mem'[v].tok = mem[v].tok /\ mem'[v].rec = mem[v].rec /\ mem'[v].rev = mem[v].rev
             /\ rec' = rec => mem'[v].late = mem[v].late
  <2>1. mem[v] \in Memories
    BY DEF CInv, CTypes
  <2>2. PICK b \in BOOLEAN : b = (rec' # rec)
    OBVIOUS
  <2>3. mem'[v] = [mem[v] EXCEPT !.late = @ \/ b]
    BY <2>2 DEF LogoutWrite
  <2>4. PICK o, l : o = mem[v] /\ l = (mem[v].late \/ b)
    OBVIOUS
  <2>5. l \in BOOLEAN /\ (b = FALSE => l = mem[v].late)
    BY <2>1, <2>4, Zenon DEF Memories
  <2>6. mem'[v] = [o EXCEPT !.late = l]
    BY <2>3, <2>4
  <2> QED
    BY <2>1, <2>2, <2>4, <2>5, <2>6 DEF Memories
<1>9. mem' \in [Users -> Memories]
  <2>1. mem' = [v \in Users |-> mem'[v]]
    BY Zenon DEF LogoutWrite
  <2> QED
    BY <1>8, <2>1
<1>10. CTypes' /\ OneHolder'
  BY <1>2, <1>3, <1>5, <1>7, <1>9, UsersAssumption DEF CInv, CTypes, OneHolder
<1>11. Clean(rec', spent, issued, rv) /\ Clean(settled'[1], spent, issued, rv)
  BY <1>2, <1>3, <1>5 DEF CInv, CTypes, Clean, Records
<1>12. ASSUME NEW v \in Users
       PROVE  \/ pc'[v] = pc[v] /\ pc[v] \in {"idle", "asked", "signing", "signed"}
              \/ pc'[v] = s
  BY <1>7, UsersAssumption DEF CInv, CTypes, OneHolder, Locked
<1>13. ASSUME NEW v \in Users
       PROVE  Known(mem'[v], issued, rv) /\ Fits(pc'[v], mem'[v], rec', settled'[1], spent)
  BY <1>2, <1>8, <1>12 DEF CInv, Known, Fits, Verifying, Private, Memories, Records
<1>14. ASSUME NEW v \in Users PROVE Own(v)'
  BY <1>3, <1>5, <1>8, <1>12 DEF CInv, Own, Fits, Private
<1>15. ASSUME NEW v \in Users PROVE Overtaken(v)'
  <2>1. \A x \in Users : pc'[x] \notin Renewing
    BY <1>12 DEF Renewing, Verifying
  <2>2. mem[v].rev < rv
    BY <1>2 DEF CInv, CTypes, Known, Memories
  <2> QED
    BY <1>3, <1>5, <1>8, <1>12, <2>1, <2>2 DEF CInv, Overtaken
<1> QED
  BY <1>2, <1>10, <1>11, <1>13, <1>14, <1>15 DEF CInv

(* Power losses, and what touches no credential.                            *)
LEMMA Passing ==
  ASSUME CInv, PowerLoss \/ (\E t \in Tokens : Age(t)) \/ PauseEnds \/ UNCHANGED cvars
  PROVE  CInv'
<1>1. CASE PowerLoss
  <2>1. /\ rec' \in {rec, settled[1]} /\ settled'[1] = rec' /\ holder' = NoUser
        /\ pc' = [u \in Users |-> "idle"]
        /\ UNCHANGED <<mem, revs, issued, spent, replayed, revived>>
    BY <1>1 DEF PowerLoss, provider
  <2>2. "idle" \in Places /\ "idle" \notin Locked /\ "idle" \notin Private
    BY DEF Places, Locked, Private
  <2>3. CTypes' /\ OneHolder'
    BY <2>1, <2>2 DEF CInv, CTypes, OneHolder
  <2>4. ASSUME NEW v \in Users
        PROVE  Fits("idle", mem[v], rec', settled'[1], spent) /\ Own(v)' /\ Overtaken(v)'
    BY <2>1, <2>2 DEF Fits, Own, Overtaken, Verifying, Private
  <2> QED
    BY <2>1, <2>3, <2>4 DEF CInv
<1>2. CASE ~PowerLoss
  <2>1. UNCHANGED <<rec, settled, holder, pc, mem, revs, issued, spent, replayed, revived>>
    BY <1>2 DEF Age, PauseEnds, cvars, file, provider
  <2> QED
    BY <2>1 DEF CInv, CTypes, OneHolder, Own, Overtaken
<1> QED
  BY <1>1, <1>2

LEMMA CStart == CInit => CInv
<1> SUFFICES ASSUME CInit PROVE CInv
  OBVIOUS
<1>1. PICK r : r = Record("active", 1, 0)
  OBVIOUS
<1>2. r \in Records /\ r.state = "active" /\ r.tok = 1 /\ r.rev = 0 /\ rec = r /\ settled[1] = r
  BY <1>1 DEF CInit, Record, Records
<1>3. /\ pc = [u \in Users |-> "idle"]
      /\ mem = [u \in Users |-> [rec |-> r, tok |-> 0, rev |-> 0, late |-> FALSE]]
      /\ holder = NoUser /\ revs = 0 /\ issued = 1 /\ spent = {} /\ ~replayed /\ ~revived
  BY <1>2 DEF CInit
<1>4. "idle" \in Places /\ "idle" \notin Locked /\ "idle" \notin Private
      /\ "idle" \notin {"signing", "signed"}
  BY DEF Places, Locked, Private
<1>5. CTypes /\ OneHolder
  BY <1>2, <1>3, <1>4 DEF CTypes, OneHolder, Memories
<1>6. Clean(r, spent, issued, revs)
  BY <1>2, <1>3 DEF Clean
<1>7. ASSUME NEW u \in Users
      PROVE  Known(mem[u], issued, revs) /\ Fits(pc[u], mem[u], rec, settled[1], spent)
  BY <1>2, <1>3 DEF Known, Fits, Verifying, Private
<1>8. ASSUME NEW u \in Users PROVE Own(u) /\ Overtaken(u)
  BY <1>3, <1>4 DEF Own, Overtaken
<1> QED
  BY <1>2, <1>3, <1>5, <1>6, <1>7, <1>8 DEF CInv

LEMMA CPreserved == CInv /\ [CNext]_cvars => CInv'
<1> SUFFICES ASSUME CInv, [CNext]_cvars PROVE CInv'
  OBVIOUS
<1>1. ASSUME NEW u \in Users, Work(u) PROVE CInv'
  BY <1>1, Marking, Ending, Withdrawing, WritingBack, Clearing, Receiving, Activating, Opening,
     Storing, Issued, Stopping, Presenting, LoggingOut DEF Work
<1>2. ASSUME NEW u \in Users, Kill(u) \/ Acquire(u) \/ Refresh(u) \/ StartLogin(u) \/ StartLogout(u)
      PROVE  CInv'
  BY <1>2, Stopping, Asking, Opening, Storing
<1> QED
  BY <1>1, <1>2, Passing DEF CNext

-----------------------------------------------------------------------------
(* Where nothing was sent and nothing failed the login is kept.             *)

(* A step of the process that has or takes the lock.                        *)
LEMMA EarlyMoves ==
  ASSUME CInv, UnsentInv, ~unsure, NEW u \in Users, NEW s \in Places, holder \in {NoUser, u},
         pc' = [pc EXCEPT ![u] = s], holder' = IF s \in Locked THEN u ELSE NoUser,
         s \in Locked => Early(s, mem'[u], rec'),
         s \notin Locked => rec'.state = "logged_out" \/ (rec'.state = "active" /\ ~marker')
  PROVE  UnsentInv'
<1>1. ASSUME NEW v \in Users, pc'[v] \in Locked PROVE v = u
  BY <1>1, UsersAssumption DEF CInv, CTypes, OneHolder
<1>2. pc'[u] = s
  BY DEF CInv, CTypes
<1>3. holder' = NoUser => rec'.state = "logged_out" \/ (rec'.state = "active" /\ ~marker')
  BY UsersAssumption
<1> QED
  BY <1>1, <1>2, <1>3, Zenon DEF UnsentInv, Usable

(* A step of a process that has not the lock and does not take it.          *)
LEMMA EarlyAside ==
  ASSUME CInv, UnsentInv, ~unsure, NEW u \in Users, NEW s \in Places \ Locked,
         pc' = [pc EXCEPT ![u] = s], UNCHANGED <<rec, marker, holder>>,
         \A v \in Users : mem'[v].rec = mem[v].rec
  PROVE  UnsentInv'
<1>1. ASSUME NEW v \in Users, pc'[v] \in Locked PROVE pc'[v] = pc[v]
  BY <1>1 DEF CInv, CTypes
<1>2. rec' = rec /\ marker' = marker /\ holder' = holder
  OBVIOUS
<1>3. ASSUME NEW v \in Users, pc'[v] \in Locked PROVE Early(pc'[v], mem'[v], rec')
  <2>1. Early(pc[v], mem[v], rec)
    BY <1>1, <1>3 DEF UnsentInv
  <2> QED
    BY <1>1, <1>2, <1>3, <2>1 DEF Early
<1>4. holder' = NoUser => rec'.state = "logged_out" \/ (rec'.state = "active" /\ ~marker')
  <2>1. holder = NoUser => rec.state = "logged_out" \/ (rec.state = "active" /\ ~marker)
    BY Zenon DEF UnsentInv, Usable
  <2>2. CASE marker
    BY <1>2, <2>1, <2>2
  <2>3. CASE ~marker
    <3>1. ~marker'
      BY <1>2, <2>3
    <3> QED
      BY <1>2, <2>1, <3>1
  <2> QED
    BY <2>2, <2>3
<1> QED
  BY <1>3, <1>4, Zenon DEF UnsentInv, Usable

(* File operations that do not fail.                                        *)
LEMMA Smooth ==
  ASSUME ~unsure', NEW u \in Users, NEW w, NEW next, NEW caught
  PROVE  /\ Write(u, w, next, caught) => Goto(u, next) /\ rec' = w
         /\ PlaceMarker(u, next, caught) => Goto(u, next) /\ rec' = rec
         /\ RemoveMarker(u, next, caught) => Goto(u, next) /\ rec' = rec /\ ~marker'
BY Zenon DEF Write, PlaceMarker, RemoveMarker, Mishap, file

LEMMA EarlyMarking ==
  ASSUME CInv, UnsentInv, ~unsure, ~unsure', NEW u \in Users,
         BeginRenewal(u) \/ ConfirmMarker(u) \/ VerifyBegin(u) \/ BlockAgain(u)
           \/ LoginBegin(u) \/ LoginFailed(u)
           \/ Restored(u) \/ FinishRenewal(u) \/ LoginFinish(u) \/ LogoutFinish(u)
  PROVE  UnsentInv'
<1>1. pc[u] \in Locked /\ mem' = mem
  BY DEF BeginRenewal, ConfirmMarker, VerifyBegin, BlockAgain, LoginBegin, LoginFailed, Restored,
         FinishRenewal, LoginFinish, LogoutFinish, Places, Locked
<1>2. Early(pc[u], mem[u], rec) /\ holder = u
  BY <1>1 DEF UnsentInv, CInv, OneHolder
<1>3. PICK s \in Places :
         /\ Goto(u, s) /\ rec' = rec /\ (s = "idle" => ~marker')
         /\ \/ pc[u] = "begin" /\ s = "pend"
            \/ pc[u] = "login_begin" /\ s = "login_write"
            \/ pc[u] \in {"restored", "login_finish", "logout_finish"} /\ s = "idle"
  <2>1. CASE BeginRenewal(u)
    BY <2>1, Smooth DEF BeginRenewal, Places
  <2>2. CASE LoginBegin(u)
    BY <2>2, Smooth DEF LoginBegin, Places
  <2>3. CASE Restored(u) \/ LoginFinish(u) \/ LogoutFinish(u)
    BY <2>3, Smooth DEF Restored, LoginFinish, LogoutFinish, Places
  <2>4. CASE ConfirmMarker(u) \/ VerifyBegin(u) \/ BlockAgain(u) \/ LoginFailed(u) \/ FinishRenewal(u)
    BY <1>2, <2>4 DEF ConfirmMarker, VerifyBegin, BlockAgain, LoginFailed, FinishRenewal, Early
  <2> QED
    BY <2>1, <2>2, <2>3, <2>4
<1>4. pc' = [pc EXCEPT ![u] = s] /\ holder' = IF s \in Locked THEN u ELSE NoUser
  BY <1>3 DEF Goto, Locked, Places
<1>5. s \in Locked => Early(s, mem'[u], rec')
  BY <1>1, <1>2, <1>3 DEF Early, Locked
<1>6. s \notin Locked => s = "idle" /\ rec'.state \in {"logged_out", "active"}
  BY <1>2, <1>3 DEF Early, Locked, Places
<1>7. s \notin Locked => rec'.state = "logged_out" \/ (rec'.state = "active" /\ ~marker')
  BY <1>3, <1>6
<1> QED
  BY <1>2, <1>4, <1>5, <1>7, EarlyMoves

LEMMA EarlyWriting ==
  ASSUME CInv, UnsentInv, ~unsure, ~unsure', NEW u \in Users,
         Withdraw(u) \/ Restore(u) \/ LoginWrite(u) \/ LogoutWrite(u)
  PROVE  UnsentInv'
<1>1. pc[u] \in Locked
  BY DEF Withdraw, Restore, LoginWrite, LogoutWrite, Places, Locked
<1>2. Early(pc[u], mem[u], rec) /\ holder = u
  BY <1>1 DEF UnsentInv, CInv, OneHolder
<1>3. PICK s \in {"exchange", "restored", "login_finish", "logout_finish"} :
         /\ Goto(u, s)
         /\ s = "exchange" => mem'[u].rec.state = "active"
         /\ s \in {"restored", "login_finish"} => rec'.state = "active"
         /\ s = "logout_finish" => rec'.state = "logged_out"
  <2>1. CASE Withdraw(u)
    <3>1. Goto(u, "exchange") /\ mem' = mem /\ pc[u] = "pend"
      BY <2>1, Smooth DEF Withdraw
    <3> QED
      BY <1>2, <3>1 DEF Early
  <2>2. CASE Restore(u)
    <3>1. Goto(u, "restored") /\ rec' = mem[u].rec /\ pc[u] = "restore"
      BY <2>2, Smooth DEF Restore
    <3> QED
      BY <1>2, <3>1 DEF Early
  <2>3. CASE LoginWrite(u)
    <3>1. Goto(u, "login_finish") /\ rec' = Record("active", mem[u].tok, revs')
      BY <2>3, Smooth DEF LoginWrite
    <3> QED
      BY <3>1 DEF Record
  <2>4. CASE LogoutWrite(u)
    <3>1. Goto(u, "logout_finish") /\ rec' = Record("logged_out", 0, revs')
      BY <2>4, Smooth DEF LogoutWrite
    <3> QED
      BY <3>1 DEF Record
  <2> QED
    BY <2>1, <2>2, <2>3, <2>4
<1>4. /\ s \in Places /\ s \in Locked
      /\ pc' = [pc EXCEPT ![u] = s] /\ holder' = IF s \in Locked THEN u ELSE NoUser
  BY <1>3 DEF Goto, Locked, Places
<1>5. Early(s, mem'[u], rec')
  BY <1>3 DEF Early
<1> QED
  BY <1>2, <1>4, <1>5, EarlyMoves

LEMMA EarlyTaking ==
  ASSUME CInv, UnsentInv, ~unsure, NEW u \in Users,
         Acquire(u) \/ Renew(u) \/ Refresh(u) \/ StartLogin(u) \/ StoreLogin(u) \/ StartLogout(u)
  PROVE  UnsentInv'
<1>1. holder = NoUser /\ rec' = rec /\ marker' = marker
  BY DEF Acquire, Renew, Refresh, StartLogin, StoreLogin, StartLogout, Take
<1>2. rec.state = "logged_out" \/ (rec.state = "active" /\ ~marker)
  BY <1>1, Zenon DEF UnsentInv, Usable
<1>3. ~NeedsVerification
  BY <1>2 DEF NeedsVerification
<1>4. PICK s \in {"idle", "asked", "begin", "signing", "login_begin", "logout"} :
         /\ pc' = [pc EXCEPT ![u] = s]
         /\ holder' = IF s \in {"idle", "asked", "signing"} THEN NoUser ELSE u
         /\ s = "begin" => mem'[u].rec = rec /\ rec.state = "active"
  <2>1. CASE Acquire(u)
    <3>1. holder' = NoUser /\ (pc' = pc \/ pc' = [pc EXCEPT ![u] = "asked"]) /\ pc[u] = "idle"
      BY <1>1, <2>1 DEF Acquire, Request
    <3>2. pc' = [pc EXCEPT ![u] = "idle"] \/ pc' = [pc EXCEPT ![u] = "asked"]
      BY <3>1 DEF CInv, CTypes
    <3> QED
      BY <3>1, <3>2
  <2>2. CASE Renew(u) \/ Refresh(u)
    <3>1. \/ Goto(u, "idle")
          \/ /\ Goto(u, "begin") /\ ~Blocked
             /\ mem' = [mem EXCEPT ![u].rec = rec, ![u].tok = rec.tok]
      BY <1>3, <2>2, Zenon DEF Renew, Refresh
    <3>2. CASE Goto(u, "idle")
      BY <3>2 DEF Goto
    <3>3. CASE /\ Goto(u, "begin") /\ ~Blocked
               /\ mem' = [mem EXCEPT ![u].rec = rec, ![u].tok = rec.tok]
      <4>1. PICK o, r : o = mem[u] /\ r = rec
        OBVIOUS
      <4>2. mem'[u] = [o EXCEPT !.rec = r, !.tok = r.tok] /\ o \in Memories
        BY <3>3, <4>1 DEF CInv, CTypes
      <4>3. mem'[u].rec = r
        BY <4>2 DEF Memories
      <4> QED
        BY <3>3, <4>1, <4>3 DEF Goto, Blocked
    <3> QED
      BY <3>1, <3>2, <3>3
  <2>3. CASE StartLogin(u) \/ StoreLogin(u) \/ StartLogout(u)
    <3>1. Goto(u, "signing") \/ Goto(u, "login_begin") \/ Goto(u, "idle") \/ Goto(u, "logout")
      BY <2>3 DEF StartLogin, StoreLogin, StartLogout
    <3> QED
      BY <3>1 DEF Goto
  <2> QED
    BY <2>1, <2>2, <2>3
<1>5. s \in Places /\ holder' = IF s \in Locked THEN u ELSE NoUser
  BY <1>4 DEF Places, Locked
<1>6. s \in Locked => Early(s, mem'[u], rec')
  BY <1>4 DEF Early, Locked
<1>7. rec'.state = "logged_out" \/ (rec'.state = "active" /\ ~marker')
  BY <1>1, <1>2, Zenon
<1> QED
  BY <1>1, <1>4, <1>5, <1>6, <1>7, EarlyMoves

LEMMA EarlySigning ==
  ASSUME CInv, UnsentInv, ~unsure, NEW u \in Users, SignIn(u) \/ SignInFails(u) \/ Busy(u)
  PROVE  UnsentInv'
<1>1. UNCHANGED <<rec, marker, holder>>
  BY DEF SignIn, SignInFails, Busy, file
<1>2. PICK s \in {"signed", "idle"} : pc' = [pc EXCEPT ![u] = s]
  BY DEF SignIn, SignInFails, Busy
<1>3. s \in Places \ Locked
  BY <1>2 DEF Places, Locked
<1>4. ASSUME NEW v \in Users PROVE mem'[v].rec = mem[v].rec
  <2>1. CASE mem' = mem
    BY <2>1
  <2>2. CASE SignIn(u)
    <3>1. PICK o, t : o = mem[v] /\ t = issued'
      OBVIOUS
    <3>2. o \in Memories /\ (mem'[v] = o \/ mem'[v] = [o EXCEPT !.tok = t])
      BY <2>2, <3>1 DEF SignIn, CInv, CTypes
    <3> QED
      BY <3>1, <3>2 DEF Memories
  <2> QED
    BY <2>1, <2>2 DEF SignInFails, Busy
<1> QED
  BY <1>1, <1>2, <1>3, <1>4, EarlyAside

LEMMA EarlyStart == CInit => UnsentInv
<1> SUFFICES ASSUME CInit PROVE UnsentInv
  OBVIOUS
<1>1. rec.state = "active" /\ ~marker
  BY DEF CInit, Record
<1>2. \A u \in Users : pc[u] \notin Locked
  BY DEF CInit, Locked
<1> QED
  BY <1>1, <1>2, Zenon DEF UnsentInv, Usable

(* What failed once is not forgotten.                                       *)
LEMMA StaysUnsure == unsure /\ [CNext]_cvars => unsure'
<1> SUFFICES ASSUME [CNext]_cvars PROVE unsure' = unsure \/ unsure' = TRUE
  BY Zenon
<1>1. ASSUME NEW u, NEW w, NEW next, NEW caught,
             Write(u, w, next, caught) \/ PlaceMarker(u, next, caught)
               \/ RemoveMarker(u, next, caught)
      PROVE  unsure' = unsure \/ unsure' = TRUE
  BY <1>1, Zenon DEF Write, PlaceMarker, RemoveMarker, Mishap
<1>2. ASSUME NEW u \in Users,
             \/ BeginRenewal(u) \/ ConfirmMarker(u) \/ VerifyBegin(u) \/ BlockAgain(u)
             \/ LoginBegin(u) \/ LoginFailed(u) \/ Restored(u) \/ FinishRenewal(u)
             \/ LoginFinish(u) \/ LogoutFinish(u)
      PROVE  unsure' = unsure \/ unsure' = TRUE
  BY <1>1, <1>2, Zenon DEF BeginRenewal, ConfirmMarker, VerifyBegin, BlockAgain, LoginBegin,
     LoginFailed, Restored, FinishRenewal, LoginFinish, LogoutFinish
<1>3. ASSUME NEW u \in Users,
             \/ Withdraw(u) \/ Restore(u) \/ Clear(u) \/ Receive(u) \/ ReceiveAgain(u)
             \/ Verified(u) \/ KeepReceived(u) \/ LoginWrite(u) \/ LogoutWrite(u)
      PROVE  unsure' = unsure \/ unsure' = TRUE
  BY <1>1, <1>3, Zenon DEF Withdraw, Restore, Clear, Receive, ReceiveAgain, Verified,
     KeepReceived, LoginWrite, LogoutWrite
<1>4. ASSUME NEW u \in Users,
             \/ Acquire(u) \/ Renew(u) \/ Refresh(u) \/ StartLogin(u) \/ StoreLogin(u)
             \/ StartLogout(u) \/ SignIn(u) \/ SignInFails(u) \/ Busy(u) \/ Present(u)
             \/ NotSent(u) \/ Answer(u) \/ Uncertain(u) \/ VerificationFails(u)
      PROVE  unsure' = unsure \/ unsure' = TRUE
  BY <1>4, Zenon DEF Acquire, Renew, Refresh, StartLogin, StoreLogin, StartLogout, SignIn,
     SignInFails, Busy, Present, NotSent, Answer, Uncertain, VerificationFails
<1>5. ASSUME (\E u \in Users : Kill(u)) \/ PowerLoss PROVE unsure' = unsure \/ unsure' = TRUE
  BY <1>5, Zenon DEF Kill, PowerLoss, Mishap
<1>6. ASSUME (\E t \in Tokens : Age(t)) \/ PauseEnds \/ UNCHANGED cvars
      PROVE  unsure' = unsure \/ unsure' = TRUE
  BY <1>6, Zenon DEF Age, PauseEnds, cvars
<1> QED
  BY <1>2, <1>3, <1>4, <1>5, <1>6, Zenon DEF CNext, Work

LEMMA EarlyPreserved == CInv /\ UnsentInv /\ [CNext]_cvars => UnsentInv'
<1> SUFFICES ASSUME CInv, UnsentInv, [CNext]_cvars, ~unsure' PROVE UnsentInv'
  BY DEF UnsentInv
<1>1. CASE UNCHANGED <<rec, marker, holder, pc, mem, unsure>>
  BY <1>1, Zenon DEF UnsentInv, Usable
<1>2. ASSUME NEW u \in Users, Work(u), ~unsure PROVE UnsentInv'
  <2>1. CASE \/ Present(u) \/ Clear(u) \/ Receive(u) \/ ReceiveAgain(u) \/ Verified(u)
             \/ KeepReceived(u) \/ Answer(u) \/ Uncertain(u) \/ VerificationFails(u)
    <3>1. pc[u] \in Locked /\ Early(pc[u], mem[u], rec) => ~(\/ Clear(u) \/ Receive(u) \/ ReceiveAgain(u)
             \/ Verified(u) \/ KeepReceived(u) \/ Answer(u) \/ Uncertain(u) \/ VerificationFails(u))
      BY DEF Early, Clear, Receive, ReceiveAgain, Verified, KeepReceived, Answer, Uncertain,
             VerificationFails
    <3>2. pc[u] \in Locked
      BY <2>1 DEF Present, Clear, Receive, ReceiveAgain, Verified, KeepReceived, Answer, Uncertain,
             VerificationFails, Locked, Places
    <3>3. Early(pc[u], mem[u], rec)
      BY <1>2, <3>2 DEF UnsentInv
    <3>4. ~Present(u)
      BY Zenon DEF Present
    <3> QED
      BY <2>1, <3>1, <3>2, <3>3, <3>4
  <2>2. CASE NotSent(u)
    <3>1. /\ pc[u] \in {"exchange", "worker_verify"} /\ pc' = [pc EXCEPT ![u] = "restore"]
          /\ mem' = mem /\ holder' = holder
      BY <2>2 DEF NotSent
    <3>2. pc[u] \in Locked /\ "restore" \in Places /\ "restore" \in Locked
      BY <3>1 DEF Locked, Places
    <3>3. Early(pc[u], mem[u], rec) /\ holder = u
      BY <1>2, <3>2 DEF UnsentInv, CInv, OneHolder
    <3>4. Early("restore", mem'[u], rec')
      BY <3>1, <3>3 DEF Early
    <3> QED
      BY <1>2, <3>1, <3>2, <3>3, <3>4, EarlyMoves
  <2> QED
    BY <1>2, <2>1, <2>2, EarlyMarking, EarlyWriting, EarlyTaking, EarlySigning DEF Work
<1>3. ASSUME NEW u \in Users, Acquire(u) \/ Refresh(u) \/ StartLogin(u) \/ StartLogout(u), ~unsure
      PROVE  UnsentInv'
  BY <1>3, EarlyTaking
<1>4. (\A u \in Users : ~Kill(u)) /\ ~PowerLoss
  BY Zenon DEF Kill, PowerLoss, Mishap
<1>5. CASE (\E t \in Tokens : Age(t)) \/ PauseEnds \/ UNCHANGED cvars
  BY <1>1, <1>5 DEF Age, PauseEnds, cvars, file
<1>6. ~unsure
  BY StaysUnsure, Zenon
<1> QED
  BY <1>2, <1>3, <1>4, <1>5, <1>6 DEF CNext

-----------------------------------------------------------------------------
(* The legacy tokens.                                                       *)

InTurn == {"elect", "exchange", "commit"}
Stands == {"idle", "stale", "retry"} \cup InTurn
Helds == [acc : Nat, ref : Nat, new : Nat, rot : Nat]

ATypes ==
  /\ auth \in [acc : Nat, ref : Nat]
  /\ turn \in [Processes -> Callers \cup {Nobody}]
  /\ at \in [Callers -> Stands] /\ held \in [Callers -> Helds]
  /\ lastId \in Ids /\ epoch \in Nat /\ lineage \in [Ids -> Nat]
  /\ replaced \in [Processes -> SUBSET (1..lastId)]

(* The stored pair is known, whole, of the current login and nowhere        *)
(* replaced.                                                                *)
Stored(a, rep, last) ==
  /\ a.acc <= last /\ a.ref <= last /\ (a.acc = 0 <=> a.ref = 0)
  /\ \A p \in Processes : a.ref \notin rep[p]

(* What a caller holds: until it is presented its token was replaced by     *)
(* none of its process; what came of it is of the same login and was never  *)
(* stored.                                                                  *)
Carries(c, s, h, a, rep, last, lin) ==
  /\ s \in {"exchange", "commit"} => h.ref \in 1..last
  /\ s = "exchange" => h.ref \notin rep[ProcessOf[c]]
  /\ s = "commit" => /\ h.new \in 1..last /\ h.rot \in {0, h.new} /\ lin[h.new] = lin[h.ref]
                     /\ h.new # a.ref /\ \A p \in Processes : h.new \notin rep[p]

OneTurn == \A c \in Callers : at[c] \in InTurn => turn[ProcessOf[c]] = c
OwnAnswers ==
  \A c, d \in Callers :
    at[c] = "commit" /\ at[d] = "commit" /\ held[c].new = held[d].new => c = d

AuthInv ==
  /\ ATypes /\ Stored(auth, replaced, lastId) /\ OnlyCurrentLogin /\ OneTurn /\ OwnAnswers
  /\ \A c \in Callers : Carries(c, at[c], held[c], auth, replaced, lastId, lineage)
  /\ ~repeated

LEMMA AStart == AInit => AuthInv
<1> SUFFICES ASSUME AInit PROVE AuthInv
  OBVIOUS
<1>1. /\ auth = [acc |-> 1, ref |-> 1] /\ lastId = 1 /\ epoch = 1
      /\ lineage = [n \in Ids |-> IF n = 1 THEN 1 ELSE 0]
      /\ replaced = [p \in Processes |-> {}] /\ at = [c \in Callers |-> "idle"]
      /\ held = [c \in Callers |-> Blank] /\ turn = [p \in Processes |-> Nobody]
  BY DEF AInit
<1>2. 1 \in Ids /\ Blank \in Helds
  BY IssuedAssumption DEF Ids, Blank, None, Helds
<1>3. ATypes
  BY <1>1, <1>2 DEF ATypes, Stands
<1>4. Stored(auth, replaced, lastId) /\ OnlyCurrentLogin
  BY <1>1, <1>2 DEF Stored, OnlyCurrentLogin
<1>5. OneTurn /\ OwnAnswers
  BY <1>1 DEF OneTurn, OwnAnswers, InTurn
<1>6. \A c \in Callers : Carries(c, at[c], held[c], auth, replaced, lastId, lineage)
  BY <1>1 DEF Carries
<1>7. ~repeated
  BY DEF AInit
<1> QED
  BY <1>3, <1>4, <1>5, <1>6, <1>7 DEF AuthInv

(* A caller goes on; what is stored and what the provider knows stays.      *)
LEMMA CallerMoves ==
  ASSUME AuthInv, NEW c \in Callers, NEW s \in Stands \ {"commit"}, NEW h \in Helds,
         at' = [at EXCEPT ![c] = s], held' = [held EXCEPT ![c] = h],
         turn' \in [Processes -> Callers \cup {Nobody}],
         \A d \in Callers \ {c} : at[d] \in InTurn => turn'[ProcessOf[d]] = d,
         s \in InTurn => turn'[ProcessOf[c]] = c,
         UNCHANGED <<auth, lastId, epoch, lineage, replaced>>, ~repeated',
         s = "exchange" => h.ref \in 1..lastId /\ h.ref \notin replaced[ProcessOf[c]]
  PROVE  AuthInv'
<1>1. ATypes'
  BY DEF AuthInv, ATypes
<1>2. Stored(auth, replaced, lastId)' /\ OnlyCurrentLogin'
  BY DEF AuthInv, Stored, OnlyCurrentLogin
<1>3. at'[c] = s /\ held'[c] = h
      /\ \A d \in Callers \ {c} : at'[d] = at[d] /\ held'[d] = held[d]
  BY DEF AuthInv, ATypes
<1>4. OneTurn'
  BY <1>3 DEF OneTurn
<1>5. OwnAnswers'
  BY <1>3 DEF AuthInv, OwnAnswers
<1>6. ASSUME NEW d \in Callers
      PROVE  Carries(d, at'[d], held'[d], auth, replaced, lastId, lineage)
  BY <1>3 DEF AuthInv, Carries
<1> QED
  BY <1>1, <1>2, <1>4, <1>5, <1>6 DEF AuthInv

(* Who gives up the turn, and who takes one that is free.                   *)
LEMMA Turning ==
  ASSUME AuthInv, NEW c \in Callers, NEW x \in {c, Nobody},
         turn' = [turn EXCEPT ![ProcessOf[c]] = x], turn[ProcessOf[c]] \in {c, Nobody}
  PROVE  /\ turn' \in [Processes -> Callers \cup {Nobody}] /\ turn'[ProcessOf[c]] = x
         /\ \A d \in Callers \ {c} : at[d] \in InTurn => turn'[ProcessOf[d]] = d
BY ProcessAssumption, CallersAssumption DEF AuthInv, ATypes, OneTurn

(* A caller leaves its place with nothing to present.                       *)
LEMMA StepsAside ==
  ASSUME AuthInv, NEW c \in Callers, NEW s \in {"idle", "stale", "retry"}, NEW h \in Helds,
         Move(c, s, h),
         turn' = turn \/ (LetGo(c) /\ at[c] \in InTurn),
         UNCHANGED <<auth, lastId, epoch, lineage, replaced>>, ~repeated'
  PROVE  AuthInv'
<1>1. PICK k \in Helds : held' = [held EXCEPT ![c] = k]
  BY DEF Move, Helds, Blank, None
<1>2. at' = [at EXCEPT ![c] = s] /\ s \in Stands \ {"commit"} /\ s \notin InTurn
  BY DEF Move, Stands, InTurn
<1>3. s # "exchange"
  OBVIOUS
<1>4. /\ turn' \in [Processes -> Callers \cup {Nobody}]
      /\ \A d \in Callers \ {c} : at[d] \in InTurn => turn'[ProcessOf[d]] = d
  <2>1. CASE turn' = turn
    BY <2>1 DEF AuthInv, ATypes, OneTurn
  <2>2. CASE LetGo(c) /\ at[c] \in InTurn
    <3>1. turn' = [turn EXCEPT ![ProcessOf[c]] = Nobody] /\ turn[ProcessOf[c]] = c
      BY <2>2 DEF LetGo, AuthInv, OneTurn
    <3> QED
      BY <3>1, Turning
  <2> QED
    BY <2>1, <2>2
<1>5. /\ auth' = auth /\ lastId' = lastId /\ epoch' = epoch /\ lineage' = lineage
      /\ replaced' = replaced
  OBVIOUS
<1> QED
  BY <1>1, <1>2, <1>3, <1>4, <1>5, CallerMoves

LEMMA Reading ==
  ASSUME AuthInv, NEW c \in Callers,
         Call(c) \/ TakeTurn(c) \/ GiveUp(c) \/ Elect(c) \/ Retry(c)
  PROVE  AuthInv'
<1>1. UNCHANGED <<auth, lastId, epoch, lineage, replaced, repeated>>
  BY DEF Call, TakeTurn, GiveUp, Elect, Retry, history, providerVars
<1>2. ~repeated'
  BY <1>1, Zenon DEF AuthInv
<1>3. PICK o, a : o = held[c] /\ a = auth
  OBVIOUS
<1>4. o \in Helds /\ Blank \in Helds /\ a \in [acc : Nat, ref : Nat]
  BY <1>3 DEF AuthInv, ATypes, Blank, None, Helds
<1>5. CASE Call(c)
  <2>1. PICK s : s = IF auth.acc \in lapsed THEN "stale" ELSE "idle"
    OBVIOUS
  <2>2. PICK h : h = [Blank EXCEPT !.acc = auth.acc]
    OBVIOUS
  <2>3. h \in Helds
    BY <1>3, <1>4, <2>2 DEF Helds
  <2>4. Move(c, s, h) /\ turn' = turn
    BY <1>5, <2>1, <2>2 DEF Call
  <2>5. s \in {"idle", "stale", "retry"}
    BY <2>1
  <2> QED
    BY <1>1, <1>2, <2>3, <2>4, <2>5, StepsAside
<1>6. CASE GiveUp(c)
  <2>1. Move(c, "idle", Blank) /\ (turn' = turn \/ (LetGo(c) /\ at[c] \in InTurn))
    BY <1>6 DEF GiveUp, InTurn
  <2> QED
    BY <1>1, <1>2, <1>4, <2>1, StepsAside
<1>7. CASE Retry(c)
  <2>1. Move(c, "idle", Blank) /\ turn' = turn
    BY <1>7 DEF Retry
  <2> QED
    BY <1>1, <1>2, <1>4, <2>1, StepsAside
<1>8. CASE TakeTurn(c)
  <2>1. /\ Move(c, "elect", o) /\ turn[ProcessOf[c]] = Nobody
        /\ turn' = [turn EXCEPT ![ProcessOf[c]] = c]
    BY <1>3, <1>8 DEF TakeTurn
  <2>2. at' = [at EXCEPT ![c] = "elect"] /\ held' = [held EXCEPT ![c] = o]
    BY <2>1 DEF Move
  <2>3. /\ turn' \in [Processes -> Callers \cup {Nobody}] /\ turn'[ProcessOf[c]] = c
        /\ \A d \in Callers \ {c} : at[d] \in InTurn => turn'[ProcessOf[d]] = d
    BY <2>1, Turning
  <2>4. "elect" \in Stands \ {"commit"} /\ "elect" # "exchange"
    BY DEF Stands, InTurn
  <2> QED
    BY <1>1, <1>2, <1>4, <2>2, <2>3, <2>4, CallerMoves
<1>9. CASE Elect(c)
  <2>1. CASE Move(c, "retry", Blank) /\ LetGo(c)
    <3>1. at[c] \in InTurn
      BY <1>9 DEF Elect, InTurn
    <3> QED
      BY <1>1, <1>2, <1>4, <2>1, <3>1, StepsAside
  <2>2. CASE Move(c, "idle", Blank) /\ LetGo(c)
    <3>1. at[c] \in InTurn
      BY <1>9 DEF Elect, InTurn
    <3> QED
      BY <1>1, <1>2, <1>4, <2>2, <3>1, StepsAside
  <2>3. CASE Move(c, "exchange", [held[c] EXCEPT !.ref = auth.ref]) /\ turn' = turn
             /\ auth.ref # None
    <3>1. PICK h : h = [o EXCEPT !.ref = a.ref]
      OBVIOUS
    <3>2. h \in Helds /\ h.ref = a.ref
      BY <1>4, <3>1 DEF Helds
    <3>3. at' = [at EXCEPT ![c] = "exchange"] /\ held' = [held EXCEPT ![c] = h]
      BY <1>3, <2>3, <3>1 DEF Move
    <3>4. h.ref \in 1..lastId /\ h.ref \notin replaced[ProcessOf[c]]
      BY <1>3, <1>4, <2>3, <3>2, ProcessAssumption DEF AuthInv, ATypes, Stored, Ids, None
    <3>5. /\ turn' \in [Processes -> Callers \cup {Nobody}] /\ turn'[ProcessOf[c]] = c
          /\ \A d \in Callers \ {c} : at[d] \in InTurn => turn'[ProcessOf[d]] = d
      BY <1>9, <2>3 DEF AuthInv, ATypes, OneTurn, Elect, InTurn
    <3>6. "exchange" \in Stands \ {"commit"}
      BY DEF Stands, InTurn
    <3> QED
      BY <1>1, <1>2, <3>2, <3>3, <3>4, <3>5, <3>6, CallerMoves
  <2> QED
    BY <1>9, <2>1, <2>2, <2>3 DEF Elect
<1> QED
  BY <1>5, <1>6, <1>7, <1>8, <1>9

(* The presented token was not replaced by its process; the answer is of    *)
(* its login.                                                               *)
LEMMA Exchanging ==
  ASSUME AuthInv, NEW c \in Callers, Exchange(c)
  PROVE  AuthInv'
<1>1. PICK o, n : o = held[c] /\ n = lastId + 1
  OBVIOUS
<1>2. /\ o \in Helds /\ at[c] = "exchange" /\ o.ref \in 1..lastId /\ o.ref \notin replaced[ProcessOf[c]]
      /\ Blank \in Helds /\ lastId \in Nat /\ n \in Nat
  <2>1. o \in Helds /\ lastId \in Nat /\ Blank \in Helds
    BY <1>1 DEF AuthInv, ATypes, Ids, Helds, Blank, None
  <2>2. at[c] = "exchange"
    BY DEF Exchange
  <2>3. Carries(c, at[c], o, auth, replaced, lastId, lineage)
    BY <1>1 DEF AuthInv
  <2> QED
    BY <1>1, <2>1, <2>2, <2>3 DEF Carries
<1>3. ~repeated'
  BY <1>1, <1>2, Zenon DEF AuthInv, Exchange
<1>4. UNCHANGED <<auth, epoch, replaced>>
  BY DEF Exchange
<1>5. CASE lastId' = lastId /\ lineage' = lineage /\ Move(c, "idle", Blank) /\ LetGo(c)
  <2>1. at[c] \in InTurn
    BY <1>2 DEF InTurn
  <2> QED
    BY <1>2, <1>3, <1>4, <1>5, <2>1, StepsAside
<1>6. CASE ~(lastId' = lastId /\ lineage' = lineage /\ Move(c, "idle", Blank) /\ LetGo(c))
  <2>1. PICK r \in {0, n} :
          /\ lastId < MaxIssued /\ lastId' = n /\ turn' = turn
          /\ lineage' = [lineage EXCEPT ![n] = lineage[o.ref]]
          /\ Move(c, "commit", [o EXCEPT !.new = n, !.rot = r])
    BY <1>1, <1>6 DEF Exchange, None
  <2>2. PICK h : h = [o EXCEPT !.new = n, !.rot = r]
    OBVIOUS
  <2>3. h \in Helds /\ h.new = n /\ h.rot = r /\ h.ref = o.ref
    <3>1. r \in Nat
      BY <1>2, <2>1
    <3> QED
      BY <1>2, <2>2, <3>1 DEF Helds
  <2>4. at' = [at EXCEPT ![c] = "commit"] /\ held' = [held EXCEPT ![c] = h]
    BY <2>1, <2>2 DEF Move
  <2>5. at'[c] = "commit" /\ held'[c] = h
        /\ \A d \in Callers \ {c} : at'[d] = at[d] /\ held'[d] = held[d]
    BY <2>4 DEF AuthInv, ATypes
  <2>6. n \in Ids /\ \A m \in 0..lastId : m \in Ids /\ m # n /\ lineage'[m] = lineage[m]
    BY <1>1, <1>2, <2>1, IssuedAssumption DEF AuthInv, ATypes, Ids
  <2>7. lineage'[n] = lineage[o.ref] /\ lineage' \in [Ids -> Nat]
    <3>1. o.ref \in Ids
      BY <1>2, <2>6
    <3> QED
      BY <2>1, <2>6, <3>1 DEF AuthInv, ATypes
  <2>8. \A p \in Processes : replaced[p] \subseteq 1..lastId
    BY DEF AuthInv, ATypes
  <2>9. ATypes'
    <3>1. replaced \in [Processes -> SUBSET (1..n)]
      BY <1>1, <1>2 DEF AuthInv, ATypes
    <3> QED
      BY <1>4, <2>1, <2>3, <2>4, <2>6, <2>7, <3>1 DEF AuthInv, ATypes, Stands, InTurn
  <2>10. Stored(auth, replaced, n)
    BY <1>1, <1>2 DEF AuthInv, ATypes, Stored
  <2>11. OnlyCurrentLogin'
    BY <1>4, <2>6 DEF AuthInv, ATypes, Stored, OnlyCurrentLogin
  <2>12. OneTurn'
    BY <1>2, <2>1, <2>5 DEF AuthInv, OneTurn, InTurn
  <2>13. \A d \in Callers \ {c} : at[d] = "commit" => held[d].new \in 1..lastId
    BY DEF AuthInv, Carries
  <2>14. OwnAnswers'
    BY <1>1, <1>2, <2>3, <2>5, <2>13 DEF AuthInv, OwnAnswers
  <2>15. ASSUME NEW d \in Callers
         PROVE  Carries(d, at'[d], held'[d], auth, replaced, n, lineage')
    <3>1. CASE d = c
      <4>1. n # auth.ref /\ n # o.ref /\ \A p \in Processes : n \notin replaced[p]
        BY <1>1, <1>2, <2>8 DEF AuthInv, ATypes, Stored
      <4>2. lineage'[o.ref] = lineage[o.ref] /\ o.ref \in 1..n /\ n \in 1..n
        BY <1>1, <1>2, <2>6
      <4> QED
        BY <2>1, <2>3, <2>5, <2>7, <3>1, <4>1, <4>2 DEF Carries
    <3>2. CASE d # c
      <4>1. Carries(d, at[d], held[d], auth, replaced, lastId, lineage)
        BY DEF AuthInv
      <4>2. \A m \in 1..lastId : m \in 1..n /\ lineage'[m] = lineage[m]
        BY <1>1, <1>2, <2>6
      <4> QED
        BY <2>5, <3>2, <4>1, <4>2 DEF Carries
    <3> QED
      BY <3>1, <3>2
  <2> QED
    BY <1>3, <1>4, <2>1, <2>9, <2>10, <2>11, <2>12, <2>14, <2>15 DEF AuthInv
<1> QED
  BY <1>5, <1>6

(* What is stored is the successor of the stored token, of the same login.  *)
LEMMA Committing ==
  ASSUME AuthInv, NEW c \in Callers, Commit(c)
  PROVE  AuthInv'
<1>1. PICK h, a : h = held[c] /\ a = auth
  OBVIOUS
<1>2. /\ h \in Helds /\ a \in [acc : Nat, ref : Nat] /\ Blank \in Helds /\ at[c] = "commit"
      /\ ProcessOf[c] \in Processes
  BY <1>1, ProcessAssumption DEF AuthInv, ATypes, Blank, None, Helds, Commit
<1>3. /\ h.ref \in 1..lastId /\ h.new \in 1..lastId /\ h.rot \in {0, h.new}
      /\ lineage[h.new] = lineage[h.ref] /\ h.new # a.ref
      /\ \A p \in Processes : h.new \notin replaced[p]
  <2>1. Carries(c, at[c], h, a, replaced, lastId, lineage)
    BY <1>1 DEF AuthInv
  <2> QED
    BY <1>2, <2>1 DEF Carries
<1>4. at[c] \in InTurn /\ LetGo(c)
  BY <1>2 DEF InTurn, Commit
<1>5. lastId' = lastId /\ epoch' = epoch /\ lineage' = lineage /\ lastId \in Nat
  BY DEF Commit, providerVars, history, AuthInv, ATypes, Ids
<1>6. ~repeated'
  BY Zenon DEF Commit, AuthInv
<1>7. CASE auth.ref # held[c].ref
  <2>1. PICK s : s = IF auth.acc = None THEN "idle" ELSE "retry"
    OBVIOUS
  <2>2. s \in {"idle", "stale", "retry"} /\ Move(c, s, Blank) /\ auth' = auth /\ replaced' = replaced
    BY <1>7, <2>1 DEF Commit
  <2> QED
    BY <1>2, <1>4, <1>5, <1>6, <2>2, StepsAside
<1>8. CASE auth.ref = held[c].ref
  <2>1. PICK r : r = IF h.rot = 0 THEN a.ref ELSE h.new
    OBVIOUS
  <2>2. /\ auth' = [acc |-> h.new, ref |-> r] /\ Move(c, "retry", Blank) /\ a.ref = h.ref
        /\ replaced' = IF h.rot = 0 THEN replaced
                       ELSE [replaced EXCEPT ![ProcessOf[c]] = @ \cup {h.ref}]
    BY <1>1, <1>3, <1>8, <2>1 DEF Commit, None
  <2>3. auth'.acc = h.new /\ auth'.ref = r /\ r \in 1..lastId
    BY <1>2, <1>3, <2>1, <2>2
  <2>4. \A p \in Processes :
          /\ replaced'[p] \subseteq replaced[p] \cup {h.ref}
          /\ p # ProcessOf[c] => replaced'[p] = replaced[p]
          /\ h.rot = 0 => replaced'[p] = replaced[p]
    BY <2>2 DEF AuthInv, ATypes
  <2>5. at'[c] = "retry" /\ \A d \in Callers \ {c} : at'[d] = at[d] /\ held'[d] = held[d]
    BY <2>2 DEF Move, AuthInv, ATypes
  <2>6. /\ turn' \in [Processes -> Callers \cup {Nobody}]
        /\ \A d \in Callers \ {c} : at[d] \in InTurn => turn'[ProcessOf[d]] = d
    <3>1. turn' = [turn EXCEPT ![ProcessOf[c]] = Nobody] /\ turn[ProcessOf[c]] = c
      BY <1>4 DEF LetGo, AuthInv, OneTurn
    <3> QED
      BY <3>1, Turning
  <2>7. ATypes'
    <3>1. replaced' \in [Processes -> SUBSET (1..lastId)]
      BY <1>3, <2>2 DEF AuthInv, ATypes
    <3>2. at' \in [Callers -> Stands] /\ held' \in [Callers -> Helds]
      BY <1>2, <2>2 DEF Move, AuthInv, ATypes, Stands
    <3>3. auth' \in [acc : Nat, ref : Nat]
      BY <1>2, <1>3, <2>2, <2>3
    <3> QED
      BY <1>5, <2>6, <3>1, <3>2, <3>3 DEF AuthInv, ATypes
  <2>8. Stored(auth', replaced', lastId)
    <3>1. ASSUME NEW p \in Processes PROVE r \notin replaced'[p]
      BY <1>1, <1>3, <2>1, <2>2, <2>4 DEF AuthInv, Stored
    <3> QED
      BY <1>3, <1>5, <2>3, <3>1 DEF Stored
  <2>9. OnlyCurrentLogin'
    <3>1. lineage[h.ref] = epoch
      BY <1>1, <1>2, <1>3, <2>2 DEF AuthInv, OnlyCurrentLogin, Stored, None
    <3> QED
      BY <1>3, <1>5, <2>1, <2>2, <2>3, <3>1 DEF OnlyCurrentLogin
  <2>10. OneTurn'
    BY <2>5, <2>6 DEF OneTurn, InTurn
  <2>11. OwnAnswers'
    BY <2>5 DEF AuthInv, OwnAnswers
  <2>12. ASSUME NEW d \in Callers
         PROVE  Carries(d, at'[d], held'[d], auth', replaced', lastId, lineage)
    <3>1. CASE d = c
      BY <2>5, <3>1 DEF Carries
    <3>2. CASE d # c
      <4>1. Carries(d, at[d], held[d], auth, replaced, lastId, lineage)
        BY DEF AuthInv
      <4>2. at[d] = "exchange" => ProcessOf[d] # ProcessOf[c]
        BY <1>4, <3>2 DEF AuthInv, OneTurn, InTurn
      <4>3. at[d] = "commit" => held[d].new # h.new
        BY <1>1, <1>2, <3>2 DEF AuthInv, OwnAnswers
      <4>4. ProcessOf[d] \in Processes
        BY ProcessAssumption
      <4>5. at[d] = "exchange" => replaced'[ProcessOf[d]] = replaced[ProcessOf[d]]
        BY <2>4, <4>2, <4>4
      <4>6. at[d] = "commit" => held[d].new # r
                             /\ \A p \in Processes : held[d].new \notin replaced'[p]
        BY <1>1, <2>1, <2>2, <2>4, <4>1, <4>3 DEF Carries
      <4> QED
        BY <2>3, <2>5, <3>2, <4>1, <4>5, <4>6 DEF Carries
    <3> QED
      BY <3>1, <3>2
  <2> QED
    BY <1>5, <1>6, <2>7, <2>8, <2>9, <2>10, <2>11, <2>12 DEF AuthInv
<1> QED
  BY <1>7, <1>8

LEMMA Dying ==
  ASSUME AuthInv, NEW p \in Processes, Die(p)
  PROVE  AuthInv'
<1>1. /\ auth' = auth /\ lastId' = lastId /\ epoch' = epoch /\ lineage' = lineage
      /\ turn' = [turn EXCEPT ![p] = Nobody] /\ replaced' = [replaced EXCEPT ![p] = {}]
  BY DEF Die, providerVars, history
<1>2. ~repeated'
  BY Zenon DEF Die, AuthInv
<1>3. \A c \in Callers : IF ProcessOf[c] = p THEN at'[c] = "idle" /\ held'[c] = Blank
                         ELSE at'[c] = at[c] /\ held'[c] = held[c]
  BY DEF Die
<1>4. ATypes'
  <2>1. Blank \in Helds
    BY DEF Blank, None, Helds
  <2>2. at' \in [Callers -> Stands] /\ held' \in [Callers -> Helds]
    BY <2>1 DEF Die, AuthInv, ATypes, Stands
  <2> QED
    BY <1>1, <2>2 DEF AuthInv, ATypes
<1>5. \A q \in Processes : replaced'[q] \subseteq replaced[q]
  BY <1>1 DEF AuthInv, ATypes
<1>6. Stored(auth', replaced', lastId) /\ OnlyCurrentLogin'
  BY <1>1, <1>5 DEF AuthInv, Stored, OnlyCurrentLogin
<1>7. OneTurn'
  BY <1>1, <1>3, ProcessAssumption DEF AuthInv, ATypes, OneTurn, InTurn
<1>8. OwnAnswers'
  BY <1>3 DEF AuthInv, OwnAnswers
<1>9. ASSUME NEW c \in Callers
      PROVE  Carries(c, at'[c], held'[c], auth, replaced', lastId, lineage)
  BY <1>3, <1>5, ProcessAssumption DEF AuthInv, Carries
<1> QED
  BY <1>1, <1>2, <1>4, <1>6, <1>7, <1>8, <1>9 DEF AuthInv

LEMMA SigningIn ==
  ASSUME AuthInv, Login
  PROVE  AuthInv'
<1>1. PICK n, e : n = lastId + 1 /\ e = epoch + 1
  OBVIOUS
<1>2. /\ auth' = [acc |-> n, ref |-> n] /\ lastId' = n /\ epoch' = e
      /\ lineage' = [lineage EXCEPT ![n] = e] /\ lastId < MaxIssued
      /\ turn' = turn /\ at' = at /\ held' = held /\ replaced' = replaced
  BY <1>1 DEF Login
<1>3. ~repeated'
  BY Zenon DEF Login, AuthInv
<1>4. lastId \in Nat /\ n \in Nat /\ n \in Ids /\ e \in Nat /\ auth'.acc = n /\ auth'.ref = n
  BY <1>1, <1>2, IssuedAssumption DEF AuthInv, ATypes, Ids
<1>5. /\ lineage'[n] = e /\ lineage' \in [Ids -> Nat]
      /\ \A m \in 0..lastId : lineage'[m] = lineage[m]
  BY <1>1, <1>2, <1>4, IssuedAssumption DEF AuthInv, ATypes, Ids
<1>6. ATypes'
  <2>1. replaced \in [Processes -> SUBSET (1..n)]
    BY <1>1, <1>4 DEF AuthInv, ATypes
  <2>2. auth' \in [acc : Nat, ref : Nat]
    BY <1>2, <1>4
  <2> QED
    BY <1>2, <1>4, <1>5, <2>1, <2>2 DEF AuthInv, ATypes
<1>7. \A p \in Processes : n \notin replaced[p]
  BY <1>1, <1>4 DEF AuthInv, ATypes
<1>8. Stored(auth', replaced, n) /\ OnlyCurrentLogin'
  BY <1>1, <1>2, <1>4, <1>5, <1>7 DEF Stored, OnlyCurrentLogin
<1>9. OneTurn' /\ OwnAnswers'
  BY <1>2 DEF AuthInv, OneTurn, OwnAnswers
<1>10. ASSUME NEW c \in Callers
       PROVE  Carries(c, at[c], held[c], auth', replaced, n, lineage')
  <2>1. Carries(c, at[c], held[c], auth, replaced, lastId, lineage)
    BY DEF AuthInv
  <2>2. \A m \in 1..lastId : m \in 1..n /\ m # n /\ lineage'[m] = lineage[m]
    BY <1>1, <1>4, <1>5
  <2> QED
    BY <1>4, <2>1, <2>2 DEF Carries
<1> QED
  BY <1>2, <1>3, <1>6, <1>8, <1>9, <1>10 DEF AuthInv

LEMMA SigningOut ==
  ASSUME AuthInv, Logout
  PROVE  AuthInv'
<1>1. /\ auth' = [acc |-> 0, ref |-> 0] /\ lastId' = lastId /\ epoch' = epoch + 1
      /\ lineage' = lineage /\ turn' = turn /\ at' = at /\ held' = held /\ replaced' = replaced
  BY DEF Logout, providerVars, None
<1>2. ~repeated'
  BY Zenon DEF Logout, AuthInv
<1>3. ATypes'
  BY <1>1 DEF AuthInv, ATypes
<1>4. lastId \in Nat /\ \A p \in Processes : 0 \notin replaced[p]
  BY DEF AuthInv, ATypes, Ids
<1>5. Stored(auth', replaced, lastId) /\ OnlyCurrentLogin'
  BY <1>1, <1>4 DEF Stored, OnlyCurrentLogin, None
<1>6. OneTurn' /\ OwnAnswers'
  BY <1>1 DEF AuthInv, OneTurn, OwnAnswers
<1>7. ASSUME NEW c \in Callers
      PROVE  Carries(c, at[c], held[c], auth', replaced, lastId, lineage)
  <2>1. Carries(c, at[c], held[c], auth, replaced, lastId, lineage)
    BY DEF AuthInv
  <2> QED
    BY <1>1, <1>4, <2>1 DEF Carries
<1> QED
  BY <1>1, <1>2, <1>3, <1>5, <1>6, <1>7 DEF AuthInv

LEMMA APreserved == AuthInv /\ [ANext]_avars => AuthInv'
<1> SUFFICES ASSUME AuthInv, [ANext]_avars PROVE AuthInv'
  OBVIOUS
<1>1. ASSUME NEW c \in Callers, Call(c) \/ Proceed(c) PROVE AuthInv'
  BY <1>1, Reading, Exchanging, Committing DEF Proceed
<1>2. ASSUME NEW p \in Processes, Die(p) PROVE AuthInv'
  BY <1>2, Dying
<1>3. CASE Lapse \/ UNCHANGED avars
  <2>1. /\ auth' = auth /\ lastId' = lastId /\ epoch' = epoch /\ lineage' = lineage
        /\ turn' = turn /\ at' = at /\ held' = held /\ replaced' = replaced
    BY <1>3 DEF Lapse, avars, history
  <2>2. ~repeated'
    BY <1>3, Zenon DEF Lapse, avars, AuthInv
  <2> QED
    BY <2>1, <2>2 DEF AuthInv, ATypes, Stored, OnlyCurrentLogin, OneTurn, OwnAnswers
<1> QED
  BY <1>1, <1>2, <1>3, SigningIn, SigningOut DEF ANext

-----------------------------------------------------------------------------
(* What the two invariants come to.                                         *)

LEMMA CredentialsHold == CInv /\ UnsentInv => CredentialsSound
<1> SUFFICES ASSUME CInv, UnsentInv PROVE CredentialsSound
  OBVIOUS
<1>1. NoReplay /\ LogoutWins
  BY Zenon DEF CInv, NoReplay, LogoutWins
<1>2. UsableIsUnspent
  BY DEF CInv, Clean, UsableIsUnspent
<1>3. UnsentKeepsLogin
  BY Zenon DEF UnsentInv, UnsentKeepsLogin
<1> QED
  BY <1>1, <1>2, <1>3, Zenon DEF CredentialsSound

LEMMA CallsHold == AuthInv => CallsSound
BY Zenon DEF AuthInv, CallsSound, SingleFlight

(* The credentials of a generation connection and the tokens of the legacy  *)
(* sync survive renewals, logins, logouts, kills and power losses in any    *)
(* order: a token the provider has accepted is neither presented again nor  *)
(* kept in use (begin and write come before the request), a login begun     *)
(* before a logout is not stored after it (the revision it read is no       *)
(* longer the file's), a token that was never sent goes back into the file, *)
(* and the commit of a late exchange refuses to clobber                     *)
(* (refresh_access_token).                                                  *)
THEOREM LoginsAreSound == CSpec /\ ASpec => []LoginsSound
<1>1. CInit => CInv /\ UnsentInv
  BY CStart, EarlyStart
<1>2. CInv /\ UnsentInv /\ [CNext]_cvars => (CInv /\ UnsentInv)'
  BY CPreserved, EarlyPreserved
<1>3. AInit => AuthInv
  BY AStart
<1>4. AuthInv /\ [ANext]_avars => AuthInv'
  BY APreserved
<1>5. CInv /\ UnsentInv /\ AuthInv => LoginsSound
  BY CredentialsHold, CallsHold, Zenon DEF LoginsSound
<1> QED
  BY <1>1, <1>2, <1>3, <1>4, <1>5, PTL DEF CSpec, ASpec
=============================================================================
