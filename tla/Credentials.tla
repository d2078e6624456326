----------------------------- MODULE Credentials -----------------------------
(***************************************************************************)
(* Login, renewal and logout of the credentials a generation connection or *)
(* a reference profile keeps in one owner-only file                        *)
(* (sync/reference_credentials.py, reference_auth.py, reference_oauth.py,   *)
(* generation_credentials.py, generation_renewal.py).                      *)
(*                                                                         *)
(* The identity provider rotates refresh tokens: one that was accepted     *)
(* once is spent, and presenting it again may end every login of the user. *)
(* The code therefore removes a token from the file before it presents it, *)
(* and puts it back only when it knows that nothing was sent.              *)
(***************************************************************************)
EXTENDS Naturals, FiniteSets

CONSTANTS Users,       \* processes that work on the one credential file
          MaxTokens,   \* bound: refresh tokens the provider issues
          MaxOps,      \* bound: logins, logouts, refreshes and acquisitions begun
          MaxMishaps   \* bound: failed file operations, kills and power losses

NoUser == "nobody"
ASSUME UsersAssumption == NoUser \notin Users

Tokens == 1 .. MaxTokens
Revisions == 0 .. 4 * MaxOps

VARIABLES
  rec,        \* the credential file: state, refresh token (0: none), revision
  marker,     \* the ".renewing" file exists
  settled,    \* what a power loss may bring back: <<file, marker>>
  holder,     \* who holds the credential lock
  pc,         \* where each process stands
  mem,        \* what each process read: the record, the received token, the revision
  paused,     \* an automatic renewal was claimed less than 30 s ago
  revs,       \* revisions drawn
  issued,     \* refresh tokens issued, the newest last
  spent,      \* refresh tokens the provider has accepted
  life,       \* of the access token issued with each refresh token
  replayed,   \* history: a spent token was presented again
  revived,    \* history: a login that began before a logout was stored after it
  unsure,     \* history: a token was presented, a file operation failed or a process died
  ops, mishaps

file == <<rec, marker, settled>>
provider == <<issued, spent, replayed>>
bounds == <<ops, mishaps>>
cvars == <<file, holder, pc, mem, paused, revs, provider, life, revived, unsure, bounds>>

(* CredentialRecord: "received" is the record of state renewal_in_progress   *)
(* that holds tokens not yet verified (needs_verification).                 *)
CredentialRecord == [state : {"none", "active", "logged_out", "pending", "received"},
                     tok : 0 .. MaxTokens, rev : Revisions]
Record(s, t, v) == [state |-> s, tok |-> t, rev |-> v]
NeedsVerification == rec.state = "received"

(* What a login_required refusal is about: no stored token may be used.      *)
Blocked == marker \/ rec.state # "active"

(* generation_credentials, profile_credentials: what a session may take.     *)
Usable == ~marker /\ rec.state = "active"

CInit ==
  /\ rec = Record("active", 1, 0)
  /\ marker = FALSE
  /\ settled = <<rec, marker>>
  /\ holder = NoUser
  /\ pc = [u \in Users |-> "idle"]
  /\ mem = [u \in Users |-> [rec |-> rec, tok |-> 0, rev |-> 0, late |-> FALSE]]
  /\ paused = FALSE
  /\ revs = 0
  /\ issued = 1 /\ spent = {} /\ replayed = FALSE
  /\ life = [t \in Tokens |-> "fresh"]
  /\ revived = FALSE /\ unsure = FALSE
  /\ ops = 0 /\ mishaps = 0

(***************************************************************************)
(* Steps. A process that quits gives up the lock: the flock ends with it.  *)
(***************************************************************************)
Goto(u, step) ==
  /\ pc' = [pc EXCEPT ![u] = step]
  /\ holder' = IF step \in {"idle", "asked", "signing"} THEN NoUser ELSE u

Mishap == /\ mishaps < MaxMishaps
          /\ mishaps' = mishaps + 1
          /\ unsure' = TRUE

(* write: a private temporary file, flushed, renamed, the directory flushed. *)
(* It can replace the file before its directory flush fails.                *)
Write(u, r, next, caught) ==
  \/ /\ rec' = r /\ settled' = <<r, marker>>
     /\ Goto(u, next)
     /\ UNCHANGED <<marker, unsure, mishaps>>
  \/ /\ Mishap
     /\ rec' \in {rec, r}
     /\ Goto(u, caught)
     /\ UNCHANGED <<marker, settled>>

(* begin: creates the marker, or finds it.                                  *)
PlaceMarker(u, next, caught) ==
  \/ /\ marker
     /\ Goto(u, next)
     /\ UNCHANGED <<file, unsure, mishaps>>
  \/ /\ ~marker
     /\ marker' = TRUE /\ settled' = <<rec, TRUE>>
     /\ Goto(u, next)
     /\ UNCHANGED <<rec, unsure, mishaps>>
  \/ /\ ~marker
     /\ Mishap
     /\ marker' \in BOOLEAN
     /\ Goto(u, caught)
     /\ UNCHANGED <<rec, settled>>

(* finish: unlinks the marker and flushes the directory.                    *)
RemoveMarker(u, next, caught) ==
  \/ /\ marker' = FALSE /\ settled' = <<rec, FALSE>>
     /\ Goto(u, next)
     /\ UNCHANGED <<rec, unsure, mishaps>>
  \/ /\ Mishap
     /\ marker' \in {marker, FALSE}
     /\ Goto(u, caught)
     /\ UNCHANGED <<rec, settled>>

(* locked: one process at a time; taking the lock flushes the directory, so  *)
(* a marker removal begun before is complete.                               *)
Take == /\ holder = NoUser
        /\ settled' = <<rec, marker>>

(* A wait for the lock that outlasts its timeout: nothing has been written. *)
Busy(u) ==
  /\ holder \notin {NoUser, u}
  /\ pc[u] \in {"asked", "signed"}
  /\ pc' = [pc EXCEPT ![u] = "idle"]
  /\ UNCHANGED <<file, holder, mem, paused, revs, provider, life, revived, unsure, bounds>>

NewRev == /\ revs' = revs + 1
Keep == UNCHANGED <<paused, provider, life, revived, ops>>

Request(u) == /\ ops < MaxOps
              /\ ops' = ops + 1
              /\ pc[u] = "idle"

(***************************************************************************)
(* Renewal.                                                                *)
(***************************************************************************)
(* acquire_generation_credentials, the part under the lock: credentials     *)
(* that last are returned, a blocked file is refused, anything else asks a  *)
(* worker to renew and remembers the revision it saw.                       *)
Acquire(u) ==
  /\ Request(u)
  /\ Take
  /\ IF \/ rec.state \in {"none", "logged_out"}
        \/ Usable /\ life[rec.tok] = "fresh"
        \/ ~NeedsVerification /\ Blocked
       THEN /\ pc' = pc /\ UNCHANGED mem
       ELSE /\ pc' = [pc EXCEPT ![u] = "asked"]
            /\ mem' = [mem EXCEPT ![u].rev = rec.rev]
  /\ UNCHANGED <<rec, marker, holder, paused, revs, provider, life, revived, unsure, mishaps>>

(* renew_requested_credentials' needed: the renewal of another process is    *)
(* reused while it lasts, and a claim younger than 30 s pauses this one.    *)
StillNeeded(u) ==
  ~ /\ Usable
    /\ \/ life[rec.tok] = "fresh"
       \/ life[rec.tok] = "due" /\ rec.rev # mem[u].rev

Renew(u) ==
  /\ pc[u] = "asked"
  /\ Take
  /\ IF /\ rec.state \notin {"none", "logged_out"}
        /\ StillNeeded(u)
        /\ NeedsVerification \/ ~Blocked
        /\ ~paused
       THEN /\ Goto(u, IF NeedsVerification THEN "worker_begin" ELSE "begin")
            /\ mem' = [mem EXCEPT ![u].rec = rec, ![u].tok = rec.tok]
            /\ paused' = TRUE
       ELSE /\ Goto(u, "idle")
            /\ UNCHANGED <<mem, paused>>
  /\ UNCHANGED <<rec, marker, revs, provider, life, revived, unsure, bounds>>

(* "nauro auth refresh": renew_credentials without a needed.                *)
Refresh(u) ==
  /\ Request(u)
  /\ Take
  /\ IF NeedsVerification \/ ~Blocked
       THEN /\ Goto(u, IF NeedsVerification THEN "verify_begin" ELSE "begin")
            /\ mem' = [mem EXCEPT ![u].rec = rec, ![u].tok = rec.tok]
       ELSE /\ Goto(u, "idle")
            /\ UNCHANGED mem
  /\ UNCHANGED <<rec, marker, paused, revs, provider, life, revived, unsure, mishaps>>

BeginRenewal(u) ==
  /\ pc[u] = "begin"
  /\ PlaceMarker(u, "pend", "idle")
  /\ Keep /\ UNCHANGED <<mem, revs>>

(* The token leaves the file before it is presented.                        *)
Withdraw(u) ==
  /\ pc[u] = "pend"
  /\ NewRev
  /\ Write(u, Record("pending", 0, revs'), "exchange", "idle")
  /\ Keep /\ UNCHANGED mem

(* The request leaves the machine: from here the token may be spent.        *)
Present(u) ==
  /\ pc[u] = "exchange"
  /\ pc' = [pc EXCEPT ![u] = "sent"]
  /\ replayed' = (replayed \/ mem[u].rec.tok \in spent)
  /\ spent' \in {spent, spent \union {mem[u].rec.tok}}
  /\ unsure' = TRUE
  /\ UNCHANGED <<file, holder, mem, paused, revs, issued, life, revived, bounds>>

(* Mutant: a timeout after the request left counts as unsent.                *)
NotSentLate(u) ==
  /\ pc[u] \in {"exchange", "sent", "worker_verify"}
  /\ pc' = [pc EXCEPT ![u] = "restore"]
  /\ UNCHANGED <<file, holder, mem, paused, revs, provider, life, revived, unsure, bounds>>

(* Mutant: an unsent renewal leaves the token withdrawn.                     *)
RestoreNothing(u) ==
  /\ pc[u] = "restore"
  /\ Goto(u, "restored")
  /\ Keep /\ UNCHANGED <<file, mem, revs, unsure, mishaps>>

(* ExchangeNotSentError: no connection, or the deadline passed before the    *)
(* headers were written. The watchdog of a worker does the same when the     *)
(* main thread hangs before it has sent anything, in a verification too.    *)
NotSent(u) ==
  /\ pc[u] \in {"exchange", "worker_verify"}
  /\ pc' = [pc EXCEPT ![u] = "restore"]
  /\ UNCHANGED <<file, holder, mem, paused, revs, provider, life, revived, unsure, bounds>>

Restore(u) ==
  /\ pc[u] = "restore"
  /\ Write(u, mem[u].rec, "restored", "idle")
  /\ Keep /\ UNCHANGED <<mem, revs>>

Restored(u) ==
  /\ pc[u] = "restored"
  /\ RemoveMarker(u, "idle", "idle")
  /\ Keep /\ UNCHANGED <<mem, revs>>

(* The provider answers with a new token if it accepted the old one.        *)
Answer(u) ==
  /\ pc[u] = "sent"
  /\ mem[u].rec.tok \in spent
  /\ issued < MaxTokens
  /\ issued' = issued + 1
  /\ mem' = [mem EXCEPT ![u].tok = issued']
  /\ pc' = [pc EXCEPT ![u] = "receive"]
  /\ UNCHANGED <<file, holder, paused, revs, spent, replayed, life, revived, unsure, bounds>>

(* Mutants: an answer that never comes puts the token back, or is awaited    *)
(* without a timeout.                                                       *)
UncertainRestores(u) ==
  /\ pc[u] = "sent"
  /\ pc' = [pc EXCEPT ![u] = "restore"]
  /\ UNCHANGED <<file, holder, mem, paused, revs, provider, life, revived, unsure, bounds>>

UncertainIfAnswered(u) ==
  /\ pc[u] = "sent" /\ mem[u].rec.tok \in spent
  /\ pc' = [pc EXCEPT ![u] = "uncertain"]
  /\ UNCHANGED <<file, holder, mem, paused, revs, provider, life, revived, unsure, bounds>>

(* No usable answer: the exchange is uncertain and the token stays withdrawn. *)
Uncertain(u) ==
  /\ pc[u] = "sent"
  /\ pc' = [pc EXCEPT ![u] = "uncertain"]
  /\ UNCHANGED <<file, holder, mem, paused, revs, provider, life, revived, unsure, bounds>>

ConfirmMarker(u) ==
  /\ pc[u] = "uncertain"
  /\ PlaceMarker(u, "clear", "idle")
  /\ Keep /\ UNCHANGED <<mem, revs>>

Clear(u) ==
  /\ pc[u] = "clear"
  /\ Write(u, Record("pending", 0, rec.rev), "idle", "idle")
  /\ Keep /\ UNCHANGED <<mem, revs>>

(* The received tokens are saved before they are verified; a failed save is  *)
(* tried once more.                                                         *)
Receive(u) ==
  /\ pc[u] = "receive"
  /\ NewRev
  /\ mem' = [mem EXCEPT ![u].rec = Record("received", mem[u].tok, revs')]
  /\ Write(u, mem'[u].rec, "verify", "receive_again")
  /\ Keep

ReceiveAgain(u) ==
  /\ pc[u] = "receive_again"
  /\ Write(u, mem[u].rec, "idle", "idle")
  /\ Keep /\ UNCHANGED <<mem, revs>>

(* A received record is verified without another exchange.                  *)
VerifyBegin(u) ==
  /\ \/ pc[u] = "verify_begin" /\ PlaceMarker(u, "verify", "idle")
     \/ pc[u] = "worker_begin" /\ PlaceMarker(u, "worker_verify", "idle")
  /\ Keep /\ UNCHANGED <<mem, revs>>

(* _complete_verification: the verified record replaces the received one,    *)
(* and only then the marker goes.                                           *)
Verified(u) ==
  /\ pc[u] \in {"verify", "worker_verify"}
  /\ NewRev
  /\ Write(u, Record("active", mem[u].tok, revs'), "finish", "unverified")
  /\ Keep /\ UNCHANGED mem

VerificationFails(u) ==
  /\ pc[u] \in {"verify", "worker_verify"}
  /\ pc' = [pc EXCEPT ![u] = "unverified"]
  /\ UNCHANGED <<file, holder, mem, paused, revs, provider, life, revived, unsure, bounds>>

FinishRenewal(u) ==
  /\ pc[u] = "finish"
  /\ RemoveMarker(u, "idle", "unverified")
  /\ Keep /\ UNCHANGED <<mem, revs>>

BlockAgain(u) ==
  /\ pc[u] = "unverified"
  /\ PlaceMarker(u, "keep", "idle")
  /\ Keep /\ UNCHANGED <<mem, revs>>

KeepReceived(u) ==
  /\ pc[u] = "keep"
  /\ Write(u, mem[u].rec, "idle", "idle")
  /\ Keep /\ UNCHANGED <<mem, revs>>

(***************************************************************************)
(* Login and logout.                                                       *)
(***************************************************************************)
StartLogin(u) ==
  /\ Request(u)
  /\ Take
  /\ Goto(u, "signing")
  /\ mem' = [mem EXCEPT ![u].rev = rec.rev, ![u].late = FALSE]
  /\ UNCHANGED <<rec, marker, paused, revs, provider, life, revived, unsure, mishaps>>

(* The browser, the code exchange and its verification, without the lock.   *)
SignIn(u) ==
  /\ pc[u] = "signing"
  /\ issued < MaxTokens
  /\ issued' = issued + 1
  /\ mem' = [mem EXCEPT ![u].tok = issued']
  /\ pc' \in {[pc EXCEPT ![u] = "signed"], [pc EXCEPT ![u] = "idle"]}
  /\ UNCHANGED <<file, holder, paused, revs, spent, replayed, life, revived, unsure, bounds>>

SignInFails(u) ==
  /\ pc[u] = "signing"
  /\ pc' = [pc EXCEPT ![u] = "idle"]
  /\ UNCHANGED <<file, holder, mem, paused, revs, provider, life, revived, unsure, bounds>>

(* Mutant: the login does not look at what is stored now.                    *)
StoreLoginAnyway(u) ==
  /\ pc[u] = "signed"
  /\ Take
  /\ Goto(u, "login_begin")
  /\ UNCHANGED <<rec, marker, mem, paused, revs, provider, life, revived, unsure, bounds>>

(* Credentials that changed during the login are kept.                      *)
StoreLogin(u) ==
  /\ pc[u] = "signed"
  /\ Take
  /\ Goto(u, IF rec.rev = mem[u].rev THEN "login_begin" ELSE "idle")
  /\ UNCHANGED <<rec, marker, mem, paused, revs, provider, life, revived, unsure, bounds>>

LoginBegin(u) ==
  /\ pc[u] = "login_begin"
  /\ PlaceMarker(u, "login_write", "idle")
  /\ Keep /\ UNCHANGED <<mem, revs>>

LoginWrite(u) ==
  /\ pc[u] = "login_write"
  /\ NewRev
  /\ Write(u, Record("active", mem[u].tok, revs'), "login_finish", "login_failed")
  /\ revived' = (revived \/ mem[u].late)
  /\ UNCHANGED <<mem, paused, provider, life, ops>>

LoginFinish(u) ==
  /\ pc[u] = "login_finish"
  /\ RemoveMarker(u, "idle", "login_failed")
  /\ Keep /\ UNCHANGED <<mem, revs>>

LoginFailed(u) ==
  /\ pc[u] = "login_failed"
  /\ PlaceMarker(u, "idle", "idle")
  /\ Keep /\ UNCHANGED <<mem, revs>>

StartLogout(u) ==
  /\ Request(u)
  /\ Take
  /\ Goto(u, "logout")
  /\ UNCHANGED <<rec, marker, mem, paused, revs, provider, life, revived, unsure, mishaps>>

LogoutWrite(u) ==
  /\ pc[u] = "logout"
  /\ NewRev
  /\ Write(u, Record("logged_out", 0, revs'), "logout_finish", "idle")
  /\ mem' = [v \in Users |-> [mem[v] EXCEPT !.late = @ \/ rec' # rec]]
  /\ Keep

LogoutFinish(u) ==
  /\ pc[u] = "logout_finish"
  /\ RemoveMarker(u, "idle", "idle")
  /\ Keep /\ UNCHANGED <<mem, revs>>

(***************************************************************************)
(* The clock, kills and power losses.                                      *)
(***************************************************************************)
Age(t) ==
  /\ life' = [life EXCEPT ![t] = IF @ = "fresh" THEN "due" ELSE "expired"]
  /\ life[t] # "expired" /\ t <= issued
  /\ UNCHANGED <<file, holder, pc, mem, paused, revs, provider, revived, unsure, bounds>>

PauseEnds ==
  /\ paused /\ paused' = FALSE
  /\ UNCHANGED <<file, holder, pc, mem, revs, provider, life, revived, unsure, bounds>>

(* The supervisor kills a worker that outlasts its budget; a person or the   *)
(* system may kill any process.                                             *)
Kill(u) ==
  /\ Mishap
  /\ pc[u] # "idle"
  /\ pc' = [pc EXCEPT ![u] = "idle"]
  /\ holder' = IF holder = u THEN NoUser ELSE holder
  /\ UNCHANGED <<file, mem, paused, revs, provider, life, revived, ops>>

PowerLoss ==
  /\ Mishap
  /\ rec' \in {rec, settled[1]}
  /\ marker' \in {marker, settled[2]}
  /\ settled' = <<rec', marker'>>
  /\ pc' = [u \in Users |-> "idle"]
  /\ holder' = NoUser
  /\ UNCHANGED <<mem, paused, revs, provider, life, revived, ops>>

Work(u) ==
  \/ Renew(u) \/ BeginRenewal(u) \/ Withdraw(u) \/ Present(u) \/ NotSent(u)
  \/ Restore(u) \/ Restored(u) \/ Answer(u) \/ Uncertain(u)
  \/ ConfirmMarker(u) \/ Clear(u) \/ Receive(u) \/ ReceiveAgain(u)
  \/ VerifyBegin(u) \/ Verified(u) \/ VerificationFails(u)
  \/ FinishRenewal(u) \/ BlockAgain(u) \/ KeepReceived(u)
  \/ SignIn(u) \/ SignInFails(u) \/ StoreLogin(u)
  \/ LoginBegin(u) \/ LoginWrite(u) \/ LoginFinish(u) \/ LoginFailed(u)
  \/ LogoutWrite(u) \/ LogoutFinish(u) \/ Busy(u)

CNext ==
  \/ \E u \in Users : \/ Work(u) \/ Kill(u)
                      \/ Acquire(u) \/ Refresh(u) \/ StartLogin(u) \/ StartLogout(u)
  \/ \E t \in Tokens : Age(t)
  \/ PauseEnds
  \/ PowerLoss

CSpec == CInit /\ [][CNext]_cvars

(* Every lock wait and every request has a timeout, so a process at work     *)
(* takes its next step; nobody is obliged to begin an operation.            *)
CFairness == \A u \in Users : WF_cvars(Work(u))

-----------------------------------------------------------------------------
(* Types of the credential file, the processes and the provider.            *)
CTypeOK ==
  /\ rec \in CredentialRecord
  /\ marker \in BOOLEAN
  /\ settled \in CredentialRecord \X BOOLEAN
  /\ holder \in Users \union {NoUser}
  /\ mem \in [Users -> [rec : CredentialRecord, tok : 0 .. MaxTokens,
                        rev : Revisions, late : BOOLEAN]]
  /\ issued \in Tokens /\ spent \subseteq Tokens
  /\ life \in [Tokens -> {"fresh", "due", "expired"}]

(* No refresh token is presented again after the provider accepted it, over  *)
(* kills, failed writes and power losses between any two steps of a renewal. *)
NoReplay == ~replayed

(* Credentials a session may take hold a refresh token that is still good:   *)
(* the file never claims to be active on a token that was given away.       *)
UsableIsUnspent == Usable => rec.tok \notin spent

(* A login that was in the browser while the person logged out does not      *)
(* bring the credentials back.                                              *)
LogoutWins == ~revived

(* A renewal that sent nothing, on a machine where nothing failed, leaves    *)
(* the person logged in: the withdrawn token is put back.                   *)
UnsentKeepsLogin ==
  ~unsure /\ holder = NoUser => rec.state = "logged_out" \/ Usable

(* Every operation ends, whoever holds the lock and whatever the network does. *)
OperationsEnd == \A u \in Users : pc[u] # "idle" ~> pc[u] = "idle"

(* The safety of a generation login, from sign-in to logout: all of the above. *)
CredentialsSound == NoReplay /\ UsableIsUnspent /\ LogoutWins /\ UnsentKeepsLogin
=============================================================================
