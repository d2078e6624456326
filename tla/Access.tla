------------------------------- MODULE Access -------------------------------
(***************************************************************************)
(* What an agent is told of a project and what it writes there             *)
(* (mcp/read_dispatch.py, mcp/generation_reads.py, sync/generation_session.py, *)
(* sync/generation_writes.py, sync/write_revision.py,                      *)
(* sync/generation_guidance.py, store/generation_{authority,read}.py).      *)
(*                                                                         *)
(* A project is read from its flat files, or from the generation that is    *)
(* installed for the account that is logged in. A call holds no lock from   *)
(* one step to the next: while it works the project is converted, bound to  *)
(* another server, refreshed by another process, somebody else logs in, and *)
(* the server moves on and changes what a user may see. Each call therefore *)
(* asks again for everything it relies on.                                  *)
(***************************************************************************)
EXTENDS Naturals, Sequences

CONSTANTS
  Process,     \* the processes that serve agents on this machine
  User,        \* the accounts that log in here
  MaxGen,      \* bound: generations the server publishes
  MaxChanges   \* bound: changes of login, binding, grants, and conversion steps

ASSUME AccessAssumption == MaxGen \in Nat \ {0} /\ MaxChanges \in Nat

Nobody == "nobody"
Scope == {"none", "viewer", "contributor"}
Gen == 0..MaxGen

(* An installed or a named projection; generation 0 when there is none.     *)
Projection == [user : User \cup {Nobody}, gen : Gen, scope : Scope]
Nothing == [user |-> Nobody, gen |-> 0, scope |-> "none"]

VARIABLES
  authority, \* what the store is: "flat", "admitted" to a conversion, "moved", "generation"
  place,     \* the binding and the connection it trusts, by version
  account,   \* whose login is stored
  docs,      \* docs[g]: the version of the document in generation g; Len(docs) is the head
  grant,     \* grant[u]: what the server lets u see and do
  replica,   \* replica[u]: the projection installed for u
  sound,     \* the users whose controls and root verify
  call,      \* call[p]: the call process p serves
  named,     \* named[p]: what the server would have answered since p's call began
  agentsMd,  \* the projection the guidance file was rendered from
  lastWrite, \* the latest write: the document it replaced, the one it was prepared on
  changes

avars == <<authority, place, account, docs, grant, replica, sound, call, named, agentsMd,
           lastWrite, changes>>
server == <<docs, grant, lastWrite>>
machine == <<authority, place, account>>
installed == <<replica, sound>>

Newest == Len(docs)

(* A call: where it stands, what it is for, the place and account of its     *)
(* session, the projection it captured or fetched, the installed one it      *)
(* started from, the revision its write is conditional on and the one the    *)
(* agent prepared it on.                                                    *)
Idle == [at |-> "idle", kind |-> "read", place |-> 0, actor |-> Nobody, got |-> Nothing,
         from |-> Nothing, base |-> 0, first |-> 0]

AInit ==
  /\ authority \in {"flat", "generation"}
  /\ place = 1
  /\ account \in User
  /\ docs = <<1>>
  /\ grant = [u \in User |-> "contributor"]
  /\ replica = [u \in User |->
       IF authority = "flat" THEN Nothing ELSE [user |-> u, gen |-> 1, scope |-> "contributor"]]
  /\ sound = IF authority = "flat" THEN {} ELSE User
  /\ call = [p \in Process |-> Idle]
  /\ named = [p \in Process |-> {}]
  /\ agentsMd = Nothing
  /\ lastWrite = [replaced |-> 0, preparedOn |-> 0]
  /\ changes = 0

-----------------------------------------------------------------------------
(* What a call asks again and again.                                        *)

(* observe_generation_marker: a store in between is refused by the admission  *)
(* of the migration, or because its controls are incomplete.                 *)
Marker == authority = "generation"
Flat == authority = "flat"

(* GenerationTransferSession.credentials: the same binding, marker and       *)
(* connection, and the login still the one the session began with.           *)
Credentials(p) == Marker /\ call[p].place = place /\ account = call[p].actor

(* The controls name a completed target and its root verifies.               *)
Installed(u) == u \in sound /\ replica[u].gen > 0

(* What the server names for u now (check_generation_projection).            *)
Current(u) == [user |-> u, gen |-> Newest, scope |-> grant[u]]

Set(p, changed) == call' = [call EXCEPT ![p] = changed]
To(p, at) == Set(p, [call[p] EXCEPT !.at = at])

-----------------------------------------------------------------------------
(* Reads (_read; read_generation_guidance without a snapshot), refreshes and   *)
(* writes start alike: the project is resolved, the marker is looked at and a  *)
(* session is opened with the login that is stored.                          *)
First == [read |-> "admit", refresh |-> "fetch", write |-> "prepare"]

Begin(p, kind) ==
  /\ call[p].at = "idle"
  /\ Marker /\ account # Nobody
  /\ Set(p, [Idle EXCEPT !.at = First[kind], !.kind = kind, !.place = place, !.actor = account])
  /\ named' = [named EXCEPT ![p] = {Current(account)}]
  /\ UNCHANGED <<machine, server, installed, agentsMd, changes>>

Same == UNCHANGED <<machine, server, installed, named, agentsMd, changes>>

(* admit_generation_store: under the control lock the installed target is     *)
(* captured whole.                                                          *)
Admit(p) ==
  /\ call[p].at = "admit"
  /\ Credentials(p) /\ Installed(call[p].actor)
  /\ Set(p, [call[p] EXCEPT !.at = "authorize", !.got = replica[call[p].actor]])
  /\ Same

(* Mutant: only the generation is compared, not what the user may see of it.  *)
AuthorizeGeneration(p) ==
  /\ call[p].at = "authorize"
  /\ Credentials(p)
  /\ Current(call[p].actor).gen = call[p].got.gen
  /\ To(p, "rendered")
  /\ Same

(* authorize_installed_target: before anything is disclosed the server must    *)
(* name what was captured, this generation in this user's scope.              *)
Authorize(p) ==
  /\ call[p].at = "authorize"
  /\ Credentials(p)
  /\ Current(call[p].actor) = call[p].got
  /\ To(p, "rendered")
  /\ Same

(* generation_response: the status line, the credentials once more and the     *)
(* marker once more.                                                        *)
Deliver(p) ==
  /\ call[p].at = "rendered" /\ call[p].kind = "read"
  /\ Credentials(p)
  /\ To(p, "answered")
  /\ Same

(* A flat store: its files are read, and the marker is looked at again. base    *)
(* is 1 when the files were all there.                                       *)
BeginFlat(p) ==
  /\ call[p].at = "idle"
  /\ Flat
  /\ Set(p, [Idle EXCEPT !.at = "open", !.kind = "flat"])
  /\ Same

ReadFlat(p) ==
  /\ call[p].at = "open"
  /\ Set(p, [call[p] EXCEPT !.at = "rendered",
                            !.base = IF authority \in {"flat", "admitted"} THEN 1 ELSE 0])
  /\ Same

DeliverFlat(p) ==
  /\ call[p].at = "rendered" /\ call[p].kind = "flat"
  /\ Flat
  /\ To(p, "answered")
  /\ Same

-----------------------------------------------------------------------------
(* A write of a document is conditional on a revision: the one an answer gave  *)
(* the agent, or else the one installed here (capture_write_revision).         *)
CaptureRevision(p) ==
  /\ call[p].at = "prepare"
  /\ Credentials(p) /\ Installed(call[p].actor)
  /\ LET revision == docs[replica[call[p].actor].gen]
     IN  Set(p, [call[p] EXCEPT !.at = "send", !.base = revision, !.first = revision])
  /\ Same

ExplicitRevision(p) ==
  /\ call[p].at = "prepare"
  /\ Credentials(p)
  /\ \E revision \in {docs[g] : g \in 1..Newest} :
       Set(p, [call[p] EXCEPT !.at = "send", !.base = revision, !.first = revision])
  /\ Same

(* What the server would have answered each call, after it changed.           *)
Renamed ==
  named' = [p \in Process |->
    IF call[p].at = "idle" \/ call[p].actor = Nobody THEN named[p]
    ELSE named[p] \cup {[user |-> call[p].actor, gen |-> Len(docs'),
                         scope |-> grant'[call[p].actor]]}]

(* The server, external: it replaces the document only if that is still at the *)
(* revision the write names. The answer may be lost.                         *)
Commit(p) ==
  /\ call[p].at = "send"
  /\ Credentials(p)
  /\ grant[call[p].actor] = "contributor"
  /\ Newest < MaxGen
  /\ docs[Newest] = call[p].base
  /\ docs' = Append(docs, Newest + 1)
  /\ lastWrite' = [replaced |-> docs[Newest], preparedOn |-> call[p].first]
  /\ \E told \in BOOLEAN : To(p, IF told THEN "committed" ELSE "applied")
  /\ UNCHANGED <<machine, grant, installed, agentsMd, changes>>
  /\ Renamed

(* Neither a conflict nor a refusal nor a lost request changes anything.       *)
NotCommitted(p) ==
  /\ call[p].at = "send"
  /\ To(p, "absent")
  /\ Same

(* The saved attempt is retried in this account and connection: looked up       *)
(* first and, when it is absent, sent again as it was saved.                  *)
Retry(p) ==
  /\ call[p].at \in {"applied", "absent"}
  /\ Credentials(p)
  /\ To(p, IF call[p].at = "applied" THEN "committed" ELSE "send")
  /\ Same

(* _refresh_committed: a committed write refreshes the replica, of the same     *)
(* account over the same connection.                                        *)
RefreshCommitted(p) ==
  /\ call[p].at = "committed"
  /\ Credentials(p)
  /\ Set(p, [call[p] EXCEPT !.at = "fetch", !.base = 0, !.first = 0])
  /\ Same

-----------------------------------------------------------------------------
(* A refresh, of which Refresh.tla has the steps: the target the server names   *)
(* is fetched and installed over the controls it was prepared from.           *)
Fetch(p) ==
  /\ call[p].at = "fetch"
  /\ Credentials(p)
  /\ replica[call[p].actor].gen > 0
  /\ grant[call[p].actor] # "none"
  /\ Set(p, [call[p] EXCEPT !.at = "install", !.got = Current(call[p].actor),
                            !.from = replica[call[p].actor]])
  /\ Same

Install(p) ==
  /\ call[p].at = "install"
  /\ Credentials(p)
  /\ replica[call[p].actor] = call[p].from
  /\ replica' = [replica EXCEPT ![call[p].actor] = call[p].got]
  /\ sound' = sound \cup {call[p].actor}
  /\ Set(p, [call[p] EXCEPT !.at = "confirm", !.from = Nothing])
  /\ UNCHANGED <<machine, server, named, agentsMd, changes>>

(* read_generation_guidance with the refreshed snapshot, in a session of its    *)
(* own: the completed pointer must still name the refreshed target.            *)
Confirm(p) ==
  /\ call[p].at = "confirm"
  /\ Marker /\ call[p].place = place
  /\ account # Nobody /\ Installed(account)
  /\ replica[account] = call[p].got
  /\ To(p, "rendered")
  /\ Same

(* The guidance file is written after the session ended, under no lock.        *)
WriteGuidance(p) ==
  /\ call[p].at = "rendered" /\ call[p].kind \in {"refresh", "write"}
  /\ agentsMd' = call[p].got
  /\ To(p, "answered")
  /\ UNCHANGED <<machine, server, installed, named, changes>>

(* An answered call is over. Any other may be refused: a lock is busy, a check  *)
(* fails, the network is down.                                              *)
End(p) ==
  /\ call[p].at # "idle"
  /\ Set(p, Idle)
  /\ named' = [named EXCEPT ![p] = {}]
  /\ UNCHANGED <<machine, server, installed, agentsMd, changes>>

-----------------------------------------------------------------------------
(* The world around the calls.                                             *)
Change == changes < MaxChanges /\ changes' = changes + 1 /\ UNCHANGED <<call, agentsMd>>

(* Another machine writes, the document or something else.                   *)
Advance ==
  /\ Change
  /\ Newest < MaxGen
  /\ \E d \in {docs[Newest], Newest + 1} : docs' = Append(docs, d)
  /\ UNCHANGED <<machine, grant, lastWrite, installed>>
  /\ Renamed

Regrant(u, s) ==
  /\ Change
  /\ grant[u] # s
  /\ grant' = [grant EXCEPT ![u] = s]
  /\ UNCHANGED docs
  /\ Renamed
  /\ UNCHANGED <<machine, lastWrite, installed>>

(* Somebody logs in or out.                                                 *)
Login(u) ==
  /\ Change
  /\ account # u
  /\ account' = u
  /\ UNCHANGED <<authority, place, server, installed, named>>

(* The project is bound anew, or trusted connections are configured anew.      *)
Rebind ==
  /\ Change
  /\ place = 1
  /\ place' = 2
  /\ UNCHANGED <<authority, account, server, installed, named>>

(* The steps of a conversion (Conversion.tla): until the files are moved it may *)
(* be given up, and at its end the replica of the account is installed.        *)
Convert ==
  /\ Change
  /\ \/ authority = "flat" /\ authority' = "admitted" /\ UNCHANGED installed
     \/ authority = "admitted" /\ authority' \in {"flat", "moved"} /\ UNCHANGED installed
     \/ /\ authority = "moved" /\ account # Nobody /\ grant[account] # "none"
        /\ authority' = "generation"
        /\ replica' = [replica EXCEPT ![account] = Current(account)]
        /\ sound' = sound \cup {account}
  /\ UNCHANGED <<place, account, server, named>>

(* A refresh stops between its two control files, or a root is damaged.        *)
Damage(u) ==
  /\ Change
  /\ u \in sound
  /\ sound' = sound \ {u}
  /\ UNCHANGED <<machine, server, replica, named>>

Step(p) ==
  \/ \E kind \in DOMAIN First : Begin(p, kind)
  \/ Admit(p) \/ Authorize(p) \/ Deliver(p)
  \/ BeginFlat(p) \/ ReadFlat(p) \/ DeliverFlat(p)
  \/ CaptureRevision(p) \/ ExplicitRevision(p) \/ Commit(p) \/ NotCommitted(p) \/ Retry(p)
  \/ RefreshCommitted(p) \/ Fetch(p) \/ Install(p) \/ Confirm(p) \/ WriteGuidance(p)
  \/ End(p)

ANext ==
  \/ \E p \in Process : Step(p)
  \/ Advance \/ Rebind \/ Convert
  \/ \E u \in User : Damage(u) \/ \E s \in Scope : Regrant(u, s)
  \/ \E u \in User \cup {Nobody} : Login(u)

ASpec == AInit /\ [][ANext]_avars

-----------------------------------------------------------------------------
ATypeOK ==
  /\ authority \in {"flat", "admitted", "moved", "generation"}
  /\ place \in 1..2
  /\ account \in User \cup {Nobody}
  /\ docs \in Seq(1..MaxGen) /\ Newest \in 1..MaxGen
  /\ grant \in [User -> Scope]
  /\ replica \in [User -> Projection]
  /\ sound \subseteq User
  /\ \A p \in Process :
       call[p].got \in Projection /\ call[p].from \in Projection /\ named[p] \subseteq Projection
  /\ agentsMd \in Projection
  /\ changes \in 0..MaxChanges

(* Whatever is rendered for an agent, an answer or guidance, is what the server  *)
(* named for the account of the call at some time since the call began: no      *)
(* generation older than the head was then (so an agent reads its own writes)    *)
(* and no scope the user had lost before. Between the capture and the answer      *)
(* nothing is locked (mcp/read_dispatch.py _read).                             *)
AnswersWereAuthorized ==
  \A p \in DOMAIN call :
    call[p].at \in {"rendered", "answered"} /\ call[p].kind # "flat" =>
      call[p].got \in named[p]

(* An answer read from flat files found all of them: none was taken away by a     *)
(* conversion between the two looks at the marker.                            *)
FlatAnswersAreWhole ==
  \A p \in DOMAIN call : call[p].at = "answered" /\ call[p].kind = "flat" => call[p].base = 1

(* A write replaces the document it was prepared on, however often it was sent    *)
(* ("retries keep the saved revision", sync/generation_writes.py:35).           *)
WritesReplaceWhatTheyWerePreparedOn == lastWrite.replaced = lastWrite.preparedOn

(* What a call tells and writes is so when it tells and writes it.            *)
CallsAreSound ==
  AnswersWereAuthorized /\ FlatAnswersAreWhole /\ WritesReplaceWhatTheyWerePreparedOn
=============================================================================
