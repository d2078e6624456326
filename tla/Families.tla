------------------------------ MODULE Families ------------------------------
(***************************************************************************)
(* The typed writes of a generation replica: states, stacks, shared briefs, *)
(* questions and their resolutions (store/{state,stack,share,question}_     *)
(* {contract,records}.py, sync/…_{submission,transport,writes}.py).         *)
(*                                                                          *)
(* Submission.tla follows one saved operation through its records and       *)
(* locks. Here are several, of different kinds, that meet on one server's   *)
(* documents, by people who log in and out and trust one server and then    *)
(* another: what an answer must carry to be taken as the outcome of an      *)
(* operation, and what each kind of refusal says about it. At most one call *)
(* works on an operation at a time, which is what its lock is for.          *)
(***************************************************************************)
EXTENDS Naturals, Sequences, FiniteSets

CONSTANTS
  Op,          \* the operations prepared on this machine
  Author,      \* the accounts that log in here
  MaxSends,    \* bound: submissions sent of one operation
  MaxShifts    \* bound: logins, reconnections, horizons passed, others' writes

ASSUME OpAssumption == 0 \notin Op

NoOne == "nobody"
Conn == {"here", "there"}
Kind == {"state", "stack", "share", "append", "resolve"}
Questions == {"append", "resolve"}
Revised == {"state", "stack"}

(* The outcome of an operation: observations of the server never close it.  *)
NoResult == [status |-> "none", unresolved |-> TRUE]

(* A refusal the server only emits before it publishes anything, and one it *)
(* may emit while it looks a receipt up (before_publication).               *)
Refusal == {"refused_early", "refused_late"}
Everywhere == {"committed", "absent", "expired"} \cup Refusal

VARIABLES
  login,     \* whose login is stored
  conn,      \* the connection that is trusted now
  saved,     \* saved[o]: the record of operation o
  attempt,   \* attempt[o]: the call that works on o
  wire,      \* submissions on their way to a server, or in its hands
  log,       \* log[c]: what server c carried out, in order
  aged,      \* the operations older than the resend horizon
  shifts

fvars == <<login, conn, saved, attempt, wire, log, aged, shifts>>
world == <<login, conn, aged, shifts>>

Unsaved == [kind |-> "none", user |-> NoOne, conn |-> "here", base |-> 0,
            phase |-> "none", result |-> NoResult]
NoAnswer == [status |-> "none", op |-> 0, base |-> 0, current |-> 0]
NoAttempt == [at |-> "idle", mode |-> "submit", actor |-> NoOne, conn |-> "here",
              before |-> "none", sent |-> 0, answer |-> NoAnswer]

FInit ==
  /\ login \in Author
  /\ conn = "here"
  /\ saved = [o \in Op |-> Unsaved]
  /\ attempt = [o \in Op |-> NoAttempt]
  /\ wire = {}
  /\ log = [c \in Conn |-> <<>>]
  /\ aged = {}
  /\ shifts = 0

(* At rest; the number of a later request differs from those of the earlier *)
(* ones.                                                                    *)
Rest(o) == [NoAttempt EXCEPT !.sent = attempt[o].sent]

Continue(o, changed) == attempt' = [attempt EXCEPT ![o] = changed]

-----------------------------------------------------------------------------
(* The documents of a server, as its log leaves them. Revision 1 is the     *)
(* first state and stack a project has.                                     *)
Entries(c, kind) == {i \in DOMAIN log[c] : log[c][i].kind = kind}
Revision(c, kind) == 1 + Cardinality(Entries(c, kind))
CarriedOut(c, o) == \E i \in DOMAIN log[c] : log[c][i].op = o

(* What its receipt says: whose operation, of what kind, over which         *)
(* revision.                                                                *)
Receipt(entry) ==
  [status |-> "committed", op |-> entry.op, base |-> entry.over, current |-> entry.over + 1]

Observed(o, status, base, current) ==
  [status |-> status, op |-> o, base |-> base, current |-> current]

-----------------------------------------------------------------------------
(* A receipt is of this operation, advances the generation, and replaced    *)
(* the revision the payload names, if it names one; a stack's is of its     *)
(* content.                                                                 *)
StateReceipt(o, a) ==
  a.op = o /\ a.current # a.base /\ (saved[o].base # 0 => a.base = saved[o].base)

StackReceipt(o, a) ==
  a.op = o /\ a.current # a.base /\ (saved[o].base # 0 => a.base = saved[o].base)

(* A brief's receipt is of the slug and content of the payload, which are   *)
(* this operation's; a question's of an entry or of a resolution, as was    *)
(* asked.                                                                   *)
ShareReceipt(o, a) == a.op = o /\ a.current # a.base
QuestionReceipt(o, a) == a.op = o

(* verify_state_response. The scope and the digest are the operation's;     *)
(* only a submission is told that nothing changed, or that the revision     *)
(* differs from the one it named.                                           *)
StateAccepts(o, a, lookup) ==
  /\ a.status \in Everywhere \cup {"noop_observed", "revision_conflict_observed"}
  /\ a.op = o
  /\ lookup => a.status \notin {"noop_observed", "revision_conflict_observed"}
  /\ a.status = "revision_conflict_observed" => a.base = saved[o].base /\ a.current # a.base
  /\ a.status = "committed" => StateReceipt(o, a)

StackAccepts(o, a, lookup) ==
  /\ a.status \in Everywhere \cup {"revision_conflict_observed"}
  /\ a.op = o
  /\ lookup => a.status # "revision_conflict_observed"
  /\ a.status = "revision_conflict_observed" => a.base = saved[o].base /\ a.current # a.base
  /\ a.status = "committed" => StackReceipt(o, a)

(* A lookup may be told that the slug is taken.                             *)
ShareAccepts(o, a, lookup) ==
  /\ a.status \in Everywhere \cup {"slug_conflict_observed"}
  /\ a.op = o
  /\ a.status = "committed" => ShareReceipt(o, a)

QuestionAccepts(o, a, lookup) ==
  /\ a.status \in Everywhere \cup {"no_change_observed"}
  /\ a.op = o
  /\ a.status = "no_change_observed" => saved[o].kind = "resolve" /\ ~lookup
  /\ a.status = "committed" => QuestionReceipt(o, a)

(* A refusal's body names no operation: it is taken to answer the request.  *)
Verifies(o, a, lookup) ==
  CASE saved[o].kind = "state" -> StateAccepts(o, a, lookup)
    [] saved[o].kind = "stack" -> StackAccepts(o, a, lookup)
    [] saved[o].kind = "share" -> ShareAccepts(o, a, lookup)
    [] OTHER -> QuestionAccepts(o, a, lookup)

-----------------------------------------------------------------------------
(* The records. What each family's validator admits: a final outcome is one *)
(* of the final statuses, a prepared record has none.                       *)
Agrees(r) ==
  /\ (r.phase = "resolved") = ~r.result.unresolved
  /\ r.phase = "prepared" => r.result = NoResult
  /\ ~r.result.unresolved => r.result.status \in {"committed", "expired", "refused_early"}
  /\ r.result.status \in {"committed", "expired"} => ~r.result.unresolved

StateSubmission(r) ==
  Agrees(r) /\ r.result.status \in
    Everywhere \cup {"none", "noop_observed", "revision_conflict_observed"}
StackSubmission(r) ==
  Agrees(r) /\ r.result.status \in Everywhere \cup {"none", "revision_conflict_observed"}
ShareSubmission(r) ==
  Agrees(r) /\ r.base = 0 /\ r.result.status \in Everywhere \cup {"none", "slug_conflict_observed"}
QuestionSubmission(r) ==
  Agrees(r) /\ r.base = 0 /\ r.result.status \in Everywhere \cup {"none", "no_change_observed"}

Valid(r) ==
  CASE r.kind = "state" -> StateSubmission(r)
    [] r.kind = "stack" -> StackSubmission(r)
    [] r.kind = "share" -> ShareSubmission(r)
    [] OTHER -> QuestionSubmission(r)

Save(o, r) == Valid(r) /\ saved' = [saved EXCEPT ![o] = r]

(* require_actor: the login is the one the attempt began with.              *)
Acting(o) == login = attempt[o].actor

(* Mutant: an operation is only matched with its project, not its           *)
(* connection.                                                              *)
BindsProject(o) == TRUE

(* The saved connection is the one this attempt opened (validate_binding,   *)
(* and the look at the saved record before it).                             *)
Binds(o) == saved[o].conn = attempt[o].conn

(* _request: this operation's connection, still the trusted one, and the    *)
(* account that saved the operation.                                        *)
MayRequest(o) == Binds(o) /\ conn = attempt[o].conn /\ Acting(o) /\ saved[o].user = login

-----------------------------------------------------------------------------
(* A submission is written down first. State and stack name the revision    *)
(* they replace, the installed one or one the caller read, or any for a     *)
(* caller that saved none.                                                  *)
Prepare(o, kind, base) ==
  /\ attempt[o].at = "idle" /\ saved[o].phase = "none" /\ login # NoOne
  /\ Save(o, [Unsaved EXCEPT !.kind = kind, !.user = login, !.conn = conn, !.base = base,
                             !.phase = "prepared"])
  /\ Continue(o, [NoAttempt EXCEPT !.at = "send", !.actor = login, !.conn = conn])
  /\ UNCHANGED <<wire, log, world>>

StateWrite(o) == \E base \in 0..Revision(conn, "state") : Prepare(o, "state", base)
StackWrite(o) == \E base \in 0..Revision(conn, "stack") : Prepare(o, "stack", base)
ShareWrite(o) == Prepare(o, "share", 0)
QuestionWrite(o) == \E kind \in Questions : Prepare(o, kind, 0)

(* Recover and retry name an operation this account saved over this         *)
(* connection. A settled one is answered from its record.                   *)
Resume(o, mode) ==
  /\ attempt[o].at = "idle" /\ saved[o].phase \in {"prepared", "uncertain"}
  /\ saved[o].user = login
  /\ Continue(o, [Rest(o) EXCEPT !.at = "ask", !.mode = mode, !.actor = login, !.conn = conn])
  /\ UNCHANGED <<saved, wire, log, world>>
  /\ Binds(o)'

(* The horizon is read, the binding checked, and the intent is on disk      *)
(* before anything leaves (_send).                                          *)
Mark(o) ==
  /\ attempt[o].at = "send"
  /\ o \notin aged /\ Binds(o) /\ Acting(o)
  /\ Save(o, [saved[o] EXCEPT !.phase = "uncertain"])
  /\ Continue(o, [attempt[o] EXCEPT !.at = "marked", !.before = saved[o].phase])
  /\ UNCHANGED <<wire, log, world>>

(* The request each transport builds.                                       *)
Request(o, route) ==
  [route |-> route, op |-> o, n |-> attempt[o].sent + 1, conn |-> attempt[o].conn,
   user |-> login, base |-> saved[o].base]

StateRequest(o) == saved[o].kind = "state" /\ wire' = wire \cup {Request(o, "/state/submit")}
StackRequest(o) == saved[o].kind = "stack" /\ wire' = wire \cup {Request(o, "/stack/submit")}
ShareRequest(o) == saved[o].kind = "share" /\ wire' = wire \cup {Request(o, "/share/submit")}
QuestionRequest(o) ==
  saved[o].kind \in Questions /\ wire' = wire \cup {Request(o, "/questions/submit")}

Send(o) ==
  /\ attempt[o].at = "marked"
  /\ o \notin aged /\ MayRequest(o)
  /\ attempt[o].sent < MaxSends
  /\ StateRequest(o) \/ StackRequest(o) \/ ShareRequest(o) \/ QuestionRequest(o)
  /\ Continue(o, [attempt[o] EXCEPT !.at = "waiting", !.sent = @ + 1])
  /\ UNCHANGED <<saved, log, world>>

-----------------------------------------------------------------------------
(* The service, external. It carries an operation out once and answers a    *)
(* repeat with its receipt; of one it has not carried out it says why not,  *)
(* by what its documents are at that moment.                                *)
Carry(r) ==
  log' = [log EXCEPT ![r.conn] = Append(@,
    [op |-> r.op, user |-> r.user, kind |-> saved[r.op].kind,
     over |-> Revision(r.conn, saved[r.op].kind)])]

Stale(r) == saved[r.op].kind \in Revised /\ r.base # 0
            /\ r.base # Revision(r.conn, saved[r.op].kind)

(* What it may say of an operation it does not carry out (now).             *)
Declines(r) ==
  LET kind == saved[r.op].kind
      now == Revision(r.conn, kind)
      Says(status) == Observed(r.op, status, r.base, now)
  IN  {Says("refused_early"), Says("refused_late")}
      \cup (IF r.op \in aged THEN {Says("expired")} ELSE {})
      \cup (IF Stale(r) THEN {Says("revision_conflict_observed")} ELSE {})
      \cup (IF kind = "state" /\ now > 1 /\ ~Stale(r) THEN {Says("noop_observed")} ELSE {})
      \cup (IF kind = "share" /\ now > 1 THEN {Says("slug_conflict_observed")} ELSE {})
      \cup (IF kind = "resolve" /\ now > 1 THEN {Says("no_change_observed")} ELSE {})

Possible(r) == ~Stale(r) /\ (saved[r.op].kind \in {"share", "resolve"} => Revision(r.conn, saved[r.op].kind) = 1)

ReceiptOf(c, o) == Receipt(log[c][CHOOSE i \in DOMAIN log[c] : log[c][i].op = o])

(* The answer reaches the attempt that still waits for this very request; a *)
(* fault of the service may hand it the receipt of another operation.       *)
Tell(r, a) ==
  attempt' = [attempt EXCEPT ![r.op] =
    IF @.at = "waiting" /\ @.sent = r.n /\ @.conn = r.conn
    THEN [@ EXCEPT !.at = "answered", !.answer = a] ELSE @]

ServeWrite(r) ==
  /\ r \in wire
  /\ wire' = wire \ {r}
  /\ \/ CarriedOut(r.conn, r.op) /\ UNCHANGED log
        /\ \E a \in {ReceiptOf(r.conn, r.op), Observed(r.op, "refused_early", 0, 0)} : Tell(r, a)
     \/ ~CarriedOut(r.conn, r.op) /\ Possible(r) /\ Carry(r)
        /\ \E a \in {Receipt(log'[r.conn][Len(log'[r.conn])]),
                     Observed(r.op, "refused_late", 0, 0)} : Tell(r, a)
     \/ ~CarriedOut(r.conn, r.op) /\ UNCHANGED log /\ \E a \in Declines(r) : Tell(r, a)
     \/ UNCHANGED log /\ \E i \in DOMAIN log[r.conn] : Tell(r, Receipt(log[r.conn][i]))
  /\ UNCHANGED <<saved, world>>

(* A lookup, answered by what is carried out by then.                       *)
Lookup(o) ==
  /\ attempt[o].at = "ask"
  /\ MayRequest(o)
  /\ \E a \in {Observed(o, "refused_late", 0, 0)}
              \cup {Receipt(log[attempt[o].conn][i]) : i \in DOMAIN log[attempt[o].conn]}
              \cup (IF CarriedOut(attempt[o].conn, o) THEN {}
                    ELSE {Observed(o, IF o \in aged THEN "expired" ELSE "absent", 0, 0)}) :
       Continue(o, [attempt[o] EXCEPT !.at = "told", !.answer = a])
  /\ UNCHANGED <<saved, wire, log, world>>

-----------------------------------------------------------------------------
(* What ends an operation: its receipt, its expiry, or a refusal that       *)
(* precedes any publication of its first request. An observation does not:  *)
(* an earlier request of the same operation may be the reason for it.       *)
Final(o, a) ==
  \/ a.status \in {"committed", "expired"}
  \/ a.status = "refused_early" /\ attempt[o].before = "prepared"

Recorded(o, a) ==
  [saved[o] EXCEPT !.phase = IF Final(o, a) THEN "resolved" ELSE "uncertain",
                   !.result = [status |-> a.status, unresolved |-> ~Final(o, a)]]

(* _accept, of a submission: the answer verifies again against the record.  *)
TakeAnswer(o) ==
  /\ attempt[o].at = "answered"
  /\ Acting(o)
  /\ Verifies(o, attempt[o].answer, FALSE) /\ attempt[o].answer.status # "absent"
  /\ Save(o, Recorded(o, attempt[o].answer))
  /\ Continue(o, Rest(o))
  /\ UNCHANGED <<wire, log, world>>

(* Of a lookup; a retry that was told "absent" goes on to send.             *)
TakeLookup(o) ==
  /\ attempt[o].at = "told"
  /\ Acting(o)
  /\ Verifies(o, attempt[o].answer, TRUE)
  /\ Save(o, Recorded(o, attempt[o].answer))
  /\ IF attempt[o].mode = "retry" /\ attempt[o].answer.status = "absent"
     THEN Continue(o, [attempt[o] EXCEPT !.at = "send", !.answer = NoAnswer])
     ELSE Continue(o, Rest(o))
  /\ UNCHANGED <<wire, log, world>>

(* The attempt ends: killed, refused, timed out, or the answer did not      *)
(* verify.                                                                  *)
StopAttempt(o) ==
  /\ attempt[o].at # "idle"
  /\ Continue(o, Rest(o))
  /\ UNCHANGED <<saved, wire, log, world>>

LoseSubmission(r) == r \in wire /\ wire' = wire \ {r} /\ UNCHANGED <<saved, attempt, log, world>>

(* The flow of submit, recover and retry, family by family.                 *)
Attempt(o) ==
  \/ \E mode \in {"recover", "retry"} : Resume(o, mode)
  \/ Mark(o) \/ Send(o) \/ Lookup(o) \/ TakeAnswer(o) \/ TakeLookup(o) \/ StopAttempt(o)

StateAttempt(o) == saved[o].kind = "state" /\ Attempt(o)
StackAttempt(o) == saved[o].kind = "stack" /\ Attempt(o)
ShareAttempt(o) == saved[o].kind = "share" /\ Attempt(o)
QuestionAttempt(o) == saved[o].kind \in Questions /\ Attempt(o)

-----------------------------------------------------------------------------
Shift ==
  /\ shifts < MaxShifts
  /\ shifts' = shifts + 1
  /\ UNCHANGED <<saved, attempt, wire>>

SignIn(u) == Shift /\ login # u /\ login' = u /\ UNCHANGED <<conn, log, aged>>
Reconnect == Shift /\ conn' \in Conn \ {conn} /\ UNCHANGED <<login, log, aged>>
Age(o) == Shift /\ o \notin aged /\ aged' = aged \cup {o} /\ UNCHANGED <<login, conn, log>>

(* Somebody else writes.                                                    *)
Elsewhere(c, kind) ==
  /\ Shift
  /\ log' = [log EXCEPT ![c] = Append(@,
       [op |-> 0, user |-> NoOne, kind |-> kind, over |-> Revision(c, kind)])]
  /\ UNCHANGED <<login, conn, aged>>

FNext ==
  \/ \E o \in Op :
       \/ StateWrite(o) \/ StackWrite(o) \/ ShareWrite(o) \/ QuestionWrite(o)
       \/ StateAttempt(o) \/ StackAttempt(o) \/ ShareAttempt(o) \/ QuestionAttempt(o)
       \/ Age(o)
  \/ \E r \in wire : ServeWrite(r) \/ LoseSubmission(r)
  \/ \E u \in Author \cup {NoOne} : SignIn(u)
  \/ Reconnect
  \/ \E kind \in Kind : Elsewhere("here", kind)

FSpec == FInit /\ [][FNext]_fvars

-----------------------------------------------------------------------------
(* Types: a record is one that its family's validator admits.               *)
FTypeOK ==
  /\ login \in Author \cup {NoOne}
  /\ conn \in Conn
  /\ \A o \in Op :
       /\ saved[o] = Unsaved \/ Valid(saved[o])
       /\ attempt[o].at \in {"idle", "send", "marked", "waiting", "answered", "ask", "told"}
       /\ attempt[o].sent \in 0..MaxSends
  /\ \A r \in wire : r.op \in Op /\ r.conn \in Conn /\ r.user \in Author
  /\ aged \subseteq Op
  /\ shifts \in 0..MaxShifts

Own(c, o) == {i \in DOMAIN log[c] : log[c][i].op = o}

(* Whatever was retried, by whom and wherever the project is connected by   *)
(* then, an operation is carried out at most once, on the server it was     *)
(* saved for and in the name of the account that saved it                   *)
(* (sync/generation_writes.py:26 "Retry ... resends the original payload"). *)
WrittenAsSaved ==
  \A o \in Op :
    /\ Cardinality(Own("here", o)) + Cardinality(Own("there", o)) <= 1
    /\ \A c \in Conn : \A i \in Own(c, o) : c = saved[o].conn /\ log[c][i].user = saved[o].user

(* What is recorded as the outcome is the outcome: a committed operation    *)
(* was carried out, over the revision it named, and one that is refused for *)
(* good was not and has no request left that could be. Nothing but these    *)
(* and an expiry settles one.                                               *)
OutcomesTruthful ==
  \A o \in Op : saved[o].phase = "resolved" =>
    LET mine == Own(saved[o].conn, o)
    IN  CASE saved[o].result.status = "committed" ->
               /\ mine # {}
               /\ saved[o].base # 0 => \A i \in mine : log[saved[o].conn][i].over = saved[o].base
          [] saved[o].result.status = "expired" -> TRUE
          [] OTHER -> mine = {} /\ \A r \in wire : r.op # o

(* What was retried was written as it was saved, and its outcome is what    *)
(* happened.                                                                *)
WritesAreSound == WrittenAsSaved /\ OutcomesTruthful
=============================================================================
