----------------------------- MODULE Submission -----------------------------
(***************************************************************************)
(* One saved write operation of a generation replica and its exchange with *)
(* the server (store/state_records.py, sync/state_submission.py and their  *)
(* question, stack and share copies; store/submission_records.py and       *)
(* sync/judgment_submission.py for judgments).                             *)
(*                                                                         *)
(* Every operation has its own record file and its own lock file, so one   *)
(* operation is the whole story.  A process that dies, loses its account,  *)
(* times out or fails a write stops where it is and its lock is released;  *)
(* the request it sent may still reach the server.                         *)
(***************************************************************************)
EXTENDS Naturals, FiniteSets

CONSTANTS
  Process,    \* the processes that may drive the saved operation
  MaxSends    \* bound: how many submit requests a behaviour sends

ASSUME SendsAssumption == MaxSends \in Nat \ {0}

Mode == {"submit", "recover", "retry"}

(* The statuses an answer can carry.  A refusal the server can only emit   *)
(* before it publishes anything (_PREPUBLICATION_REFUSALS) is told apart   *)
(* from one it may emit while it looks up the receipt of a finished write. *)
TypedStatus ==
  {"committed", "absent", "noop_observed", "revision_conflict_observed",
   "expired", "digest_conflict", "refused_early", "refused_late"}
JudgmentStatus ==
  {"committed", "absent", "pending", "stale", "expired", "disposed", "conflict"}
Status == TypedStatus \cup JudgmentStatus

Phase == {"none", "prepared", "uncertain", "resolved"}

NoResult == [status |-> "none", unresolved |-> TRUE]
Result == [status : Status, unresolved : BOOLEAN] \cup {NoResult}

(* What the record's own validator accepts: "resolved" is exactly an       *)
(* outcome that is not open, and "prepared" carries no outcome.            *)
Saved ==
  {r \in [phase : Phase,
          typed : BOOLEAN, result : Result] :
     /\ (r.phase = "resolved") = ~r.result.unresolved
     /\ r.phase \in {"none", "prepared"} => r.result = NoResult}

VARIABLES
  record,     \* the saved record; its phase is "none" until it is prepared
  lock,       \* who holds the record's lock: {} or a singleton
  job,        \* job[p]: the call process p is in
  sent,       \* how many submit requests were sent
  wire,       \* those on their way to the server, or in its hands
  applied,    \* the server carried the operation out
  window      \* the resend horizon: "open" within 24 hours of created_at

vars == <<record, lock, job, sent, wire, applied, window>>
Server == <<sent, wire, applied, window>>

(* A call: where it stands, which of the three it is, the record it read   *)
(* or wrote last, the phase its send started from, the request it waits    *)
(* for (0: none) and the status it was answered.                           *)
Job ==
  [at : {"idle", "ask", "asked", "told", "send", "marked", "waiting", "answered"},
   mode : Mode, loaded : Saved, before : Phase, mine : 0..MaxSends,
   answer : Status \cup {"none"}]

Unsaved == [phase |-> "none", typed |-> TRUE, result |-> NoResult]

Idle ==
  [at |-> "idle", mode |-> "submit", loaded |-> Unsaved, before |-> "none",
   mine |-> 0, answer |-> "none"]

Init ==
  /\ record = Unsaved
  /\ lock = {}
  /\ job = [p \in Process |-> Idle]
  /\ sent = 0
  /\ wire = {}
  /\ applied = FALSE
  /\ window = "open"

(* The record file is rewritten by the holder of its lock, who finds on    *)
(* disk the record it loaded.                                              *)
Save(p, new) ==
  /\ record = job[p].loaded
  /\ record' = new

Release(p) ==
  /\ lock' = {}
  /\ job' = [job EXCEPT ![p] = Idle]

-----------------------------------------------------------------------------
(* A new operation is written down before anything is sent.  The lock is   *)
(* taken and released within the step: nobody else knows the identity yet. *)
Prepare(p, typed) ==
  /\ record.phase = "none"
  /\ job[p].at = "idle"
  /\ record' = [phase |-> "prepared", typed |-> typed, result |-> NoResult]
  /\ UNCHANGED <<lock, job, Server>>

BeginUnlocked(p, m) ==
  /\ job[p].at = "idle"
  /\ record.phase \notin {"none", "resolved"}
  /\ m = "submit" => record.phase = "prepared"
  /\ lock' = {p}
  /\ job' = [job EXCEPT ![p] = [Idle EXCEPT !.at = IF m = "submit" THEN "send" ELSE "ask",
                                           !.mode = m, !.loaded = record]]
  /\ UNCHANGED <<record, Server>>

(* submit, recover and retry start alike: lock, load, and return the saved *)
(* outcome when there is one.  A submit refuses a record already sent.     *)
Begin(p, m) ==
  /\ job[p].at = "idle"
  /\ record.phase \notin {"none", "resolved"}
  /\ m = "submit" => record.phase = "prepared"
  /\ lock = {}
  /\ lock' = {p}
  /\ job' = [job EXCEPT ![p] = [Idle EXCEPT !.at = IF m = "submit" THEN "send" ELSE "ask",
                                           !.mode = m, !.loaded = record]]
  /\ UNCHANGED <<record, Server>>

MarkUncertainInMemory(p) ==
  /\ job[p].at = "send"
  /\ window = "open"
  /\ job' = [job EXCEPT ![p].at = "marked", ![p].before = record.phase]
  /\ UNCHANGED <<record, lock, Server>>

(* Send intent is durable before the request leaves.                       *)
MarkUncertain(p) ==
  /\ job[p].at = "send"
  /\ window = "open"
  /\ Save(p, [record EXCEPT !.phase = "uncertain"])
  /\ job' = [job EXCEPT ![p].at = "marked", ![p].loaded = record',
                        ![p].before = record.phase]
  /\ UNCHANGED <<lock, Server>>

(* The horizon is checked a second time, then the request leaves.          *)
Send(p) ==
  /\ job[p].at = "marked"
  /\ window = "open"
  /\ sent < MaxSends
  /\ sent' = sent + 1
  /\ wire' = wire \cup {sent'}
  /\ job' = [job EXCEPT ![p].at = "waiting", ![p].mine = sent']
  /\ UNCHANGED <<record, lock, applied, window>>

Ask(p) ==
  /\ job[p].at = "ask"
  /\ job' = [job EXCEPT ![p].at = "asked"]
  /\ UNCHANGED <<record, lock, Server>>

-----------------------------------------------------------------------------
(* The server, external.  It carries an operation out once, keyed by its   *)
(* operation_id, and answers a repeat with the first receipt.  What it may *)
(* say of an operation follows from the statuses the client accepts.       *)
Says(status) ==
  /\ status = "committed" => applied'
  /\ status \in {"absent", "pending", "noop_observed", "revision_conflict_observed"} => ~applied'

StatusesFor(lookup) ==
  IF record.typed
  THEN TypedStatus \ (IF lookup THEN {"noop_observed", "revision_conflict_observed", "refused_early"}
                      ELSE {"absent"})
  ELSE JudgmentStatus \ (IF lookup THEN {} ELSE {"absent"})

(* Only "committed", a late refusal and no answer at all can follow a      *)
(* write; a request answered "pending" is still being worked on.  The      *)
(* answer reaches the sender only if it still waits.                       *)
ServeSubmit(r, status) ==
  /\ r \in wire
  /\ status \in StatusesFor(FALSE)
  /\ wire' = IF status = "pending" THEN wire ELSE wire \ {r}
  /\ applied' \in (CASE status = "committed" -> {TRUE}
                     [] status = "refused_late" -> {applied, TRUE}
                     [] OTHER -> {applied})
  /\ Says(status)
  /\ job' = [p \in Process |->
               IF job[p].at = "waiting" /\ job[p].mine = r
               THEN [job[p] EXCEPT !.at = "answered", !.answer = status]
               ELSE job[p]]
  /\ UNCHANGED <<record, lock, sent, window>>

LoseRequest(r) ==
  /\ r \in wire
  /\ wire' = wire \ {r}
  /\ UNCHANGED <<record, lock, job, sent, applied, window>>

ServeLookup(p, status) ==
  /\ job[p].at = "asked"
  /\ status \in StatusesFor(TRUE)
  /\ UNCHANGED applied
  /\ Says(status)
  /\ job' = [job EXCEPT ![p].at = "told", ![p].answer = status]
  /\ UNCHANGED <<record, lock, sent, wire, window>>

-----------------------------------------------------------------------------
UnresolvedEarly(status, before) ==
  status \notin {"committed", "expired", "digest_conflict", "refused_early"}

(* What an answer leaves open.  A refusal closes an operation only when it *)
(* answers the operation's first request and precedes any publication.     *)
Unresolved(status, before) ==
  /\ status \notin {"committed", "expired", "digest_conflict"}
  /\ ~(status = "refused_early" /\ before = "prepared")

Outcome(r, phase, status, unresolved) ==
  [phase |-> phase, typed |-> r.typed, result |-> [status |-> status, unresolved |-> unresolved]]

RecordedByStatus(r, status, before) ==
  Outcome(r, IF status = "committed" THEN "resolved" ELSE "uncertain",
          status, Unresolved(status, before))

(* Typed families save every answer, also one that leaves the operation    *)
(* open; judgments save only an answer that settles it.                    *)
RecordedTyped(r, status, before) ==
  IF Unresolved(status, before)
  THEN Outcome(r, "uncertain", status, TRUE)
  ELSE Outcome(r, "resolved", status, FALSE)

RecordedJudgment(r, status) ==
  CASE status = "absent" -> r
    [] status = "pending" -> [r EXCEPT !.phase = "uncertain"]
    [] OTHER -> Outcome(r, "resolved", status, FALSE)

Recorded(r, status, before) ==
  IF r.typed THEN RecordedTyped(r, status, before) ELSE RecordedJudgment(r, status)

AcceptSend(p) ==
  /\ job[p].at = "answered"
  /\ Save(p, Recorded(record, job[p].answer, job[p].before))
  /\ Release(p)
  /\ UNCHANGED Server

AcceptLookupUnchecked(p) ==
  /\ job[p].at = "told"
  /\ Save(p, Recorded(record, job[p].answer, "none"))
  /\ IF job[p].mode = "retry" /\ record'.phase # "resolved"
     THEN /\ job' = [job EXCEPT ![p].at = "send", ![p].loaded = record']
          /\ UNCHANGED lock
     ELSE Release(p)
  /\ UNCHANGED Server

(* A lookup is saved; only a retry that was told "absent" goes on to send. *)
AcceptLookup(p) ==
  /\ job[p].at = "told"
  /\ Save(p, Recorded(record, job[p].answer, "none"))
  /\ IF job[p].mode = "retry" /\ job[p].answer = "absent"
     THEN /\ job' = [job EXCEPT ![p].at = "send", ![p].loaded = record']
          /\ UNCHANGED lock
     ELSE Release(p)
  /\ UNCHANGED Server

(* The process dies, an account check, the horizon or a write fails, or    *)
(* the transport gives up.                                                 *)
Stop(p) ==
  /\ job[p].at # "idle"
  /\ Release(p)
  /\ UNCHANGED <<record, Server>>

(* The wall clock leaves the horizon, or is set back into it.              *)
ClockMoves ==
  /\ window' = IF window = "open" THEN "closed" ELSE "open"
  /\ UNCHANGED <<record, lock, job, sent, wire, applied>>

Step(p) ==
  \/ \E typed \in BOOLEAN : Prepare(p, typed)
  \/ \E m \in Mode : Begin(p, m)
  \/ MarkUncertain(p)
  \/ Send(p)
  \/ Ask(p)
  \/ \E status \in Status : ServeLookup(p, status)
  \/ AcceptSend(p)
  \/ AcceptLookup(p)
  \/ Stop(p)

Next ==
  \/ \E p \in Process : Step(p)
  \/ \E r \in wire, status \in Status : ServeSubmit(r, status)
  \/ \E r \in wire : LoseRequest(r)
  \/ ClockMoves

Spec == Init /\ [][Next]_vars

-----------------------------------------------------------------------------
TypeOK ==
  /\ record \in Saved
  /\ lock \in {{}} \cup {{p} : p \in Process}
  /\ job \in [Process -> Job]
  /\ sent \in 0..MaxSends
  /\ wire \subseteq 1..sent
  /\ applied \in BOOLEAN
  /\ window \in {"open", "closed"}

(* Whoever finds the record "prepared" may send it as new: no request may  *)
(* be under way, or carried out, while the record still says so.           *)
SentIsOnRecord ==
  applied \/ wire # {} => record.phase \in {"uncertain", "resolved"}

(* "This attempt did not write" (sync/generation_writes.py _finish_write)  *)
(* is told of a refusal recorded as final, and the user then submits anew: *)
(* nothing was written, and nothing still under way can write it.          *)
RefusedNeverWrites ==
  record.phase = "resolved" /\ record.result.status = "refused_early"
    => ~applied /\ wire = {}

(* Once an outcome is recorded nobody changes it or sends the operation    *)
(* again, whatever the others had loaded before.                           *)
SettledIsFinal ==
  [][record.phase = "resolved" => UNCHANGED <<record, sent>>]_vars

(* The operation is sent a second time only by a retry whose own lookup    *)
(* was answered "absent" (sync/state_submission.py retry_state).           *)
ResendFollowsAbsence ==
  [][\A p \in Process :
        sent > 0 /\ job[p].at = "marked" /\ job'[p].at = "waiting"
          => job[p].mode = "retry" /\ job[p].answer = "absent"]_vars

=============================================================================
