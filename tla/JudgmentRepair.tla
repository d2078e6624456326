--------------------------- MODULE JudgmentRepair ---------------------------
(***************************************************************************)
(* `nauro repair --judgment`: a person resumes or abandons a hosted judgment   *)
(* whose worker is gone (cli/judgment_repair.py, store/recovery_actions.py,    *)
(* sync/recovery_transport.py).                                             *)
(*                                                                         *)
(* What was observed becomes an immutable action that names the state, the      *)
(* fence and the lease it is meant for. It is saved before it is sent, and      *)
(* sent again only byte for byte. Requests are delayed, commands are killed,    *)
(* others repair the same judgment, and its worker may still be at work.        *)
(***************************************************************************)
EXTENDS Naturals, FiniteSets

CONSTANTS
  Person,     \* the commands that are run
  MaxActions, \* bound: actions prepared
  MaxSteps    \* bound: steps of the judgment's workers, and windows that close

VARIABLES
  saga,     \* the judgment, external: its status, fence, lease, and if that ran out
  accepted, \* the actions the server accepted
  dispatched, \* actions on their way to the server, or in its hands
  disk,     \* the actions saved here
  minted,   \* how many actions were prepared
  closed,   \* the actions whose admission window is over
  session,  \* session[p]: the command p runs
  robbed,   \* a worker lost the judgment while its lease ran
  steps

jvars == <<saga, accepted, dispatched, disk, minted, closed, session, robbed, steps>>
service == <<saga, accepted, robbed>>

Dispositions == {"resume", "abandon"}
NoAction == [id |-> 0, disposition |-> "resume", status |-> "active", fence |-> 0, lease |-> 0]
NoSession == [at |-> "idle", action |-> NoAction, resend |-> FALSE]

JInit ==
  /\ saga = [status |-> "active", fence |-> 1, lease |-> 1, over |-> FALSE]
  /\ accepted = {} /\ dispatched = {} /\ disk = {} /\ closed = {}
  /\ minted = 0
  /\ session = [p \in Person |-> NoSession]
  /\ robbed = FALSE
  /\ steps = 0

Put(p, changed) == session' = [session EXCEPT ![p] = changed]
GoTo(p, at) == Put(p, [session[p] EXCEPT !.at = at])

(* require_window: within a day of its creation and, of a resumption, before the   *)
(* deadline of the judgment itself.                                          *)
InWindow(action) == action.id \notin closed

-----------------------------------------------------------------------------
(* Mutant: a judgment at work may be repaired whatever its lease says.           *)
EligibleAnyLease(seen) == seen.status \in {"active", "recovery_required"}

(* What may be repaired: a retained judgment whose worker, if it has one, let its  *)
(* lease run out.                                                            *)
Eligible(seen) ==
  \/ seen.status = "recovery_required"
  \/ seen.status = "active" /\ seen.over

(* Mutant: the identity of the action before is given again.                   *)
BindAgain(seen, disposition) ==
  [id |-> minted, disposition |-> disposition, status |-> seen.status, fence |-> seen.fence,
   lease |-> IF seen.status = "active" THEN seen.lease ELSE 0]

(* The binding is the observation: a judgment that waits for recovery has no lease. *)
Bind(seen, disposition) ==
  [id |-> minted + 1, disposition |-> disposition, status |-> seen.status, fence |-> seen.fence,
   lease |-> IF seen.status = "active" THEN seen.lease ELSE 0]

(* inspect and _prepare.                                                      *)
Inspect(p, disposition) ==
  /\ session[p].at = "idle" /\ minted < MaxActions
  /\ Eligible(saga)
  /\ Put(p, [at |-> "lookup", action |-> Bind(saga, disposition), resend |-> FALSE])
  /\ minted' = minted + 1
  /\ UNCHANGED <<service, dispatched, disk, closed, steps>>

(* --resend: the action is read from the disk, where every read flushes it again.  *)
Reload(p, action) ==
  /\ session[p].at = "idle"
  /\ action \in disk
  /\ Put(p, [at |-> "lookup", action |-> action, resend |-> TRUE])
  /\ UNCHANGED <<service, dispatched, disk, minted, closed, steps>>

(* Only an action the server knows nothing of goes on: any other answer is shown.   *)
LookUp(p) ==
  /\ session[p].at = "lookup"
  /\ IF session[p].action \in accepted \/ ~InWindow(session[p].action)
     THEN Put(p, NoSession) ELSE GoTo(p, "confirm")
  /\ UNCHANGED <<service, dispatched, disk, minted, closed, steps>>

(* The person saw the very action and agrees. A new one is linked under its own     *)
(* name, which nothing may hold yet.                                          *)
SaveConfirmed(p) ==
  LET action == session[p].action IN
  /\ session[p].at = "confirm" /\ InWindow(action)
  /\ session[p].resend \/ \A old \in disk : old.id # action.id
  /\ disk' = disk \cup {action}
  /\ GoTo(p, "dispatch")
  /\ UNCHANGED <<service, dispatched, minted, closed, steps>>

(* What is sent is what the disk holds.                                        *)
Dispatch(p) ==
  LET action == session[p].action IN
  /\ session[p].at = "dispatch" /\ InWindow(action)
  /\ dispatched' = dispatched \cup {action}
  /\ GoTo(p, "waiting")
  /\ UNCHANGED <<service, disk, minted, closed, steps>>

(* The person declines, the command is killed, or its answer is there or is not.    *)
Stop(p) ==
  /\ session[p].at # "idle"
  /\ Put(p, NoSession)
  /\ UNCHANGED <<service, dispatched, disk, minted, closed, steps>>

-----------------------------------------------------------------------------
(* The server, external: it takes an action once, in exactly the state, fence and    *)
(* lease it names. The receipt's fence is one more, except for a waiting judgment    *)
(* that is abandoned.                                                        *)
Matches(action) ==
  /\ saga.status = action.status /\ saga.fence = action.fence
  /\ saga.status = "active" => saga.lease = action.lease

Resulting(action) ==
  IF action.disposition = "resume" \/ action.status = "active" THEN action.fence + 1 ELSE action.fence

Serve(action) ==
  /\ action \in dispatched
  /\ dispatched' = dispatched \ {action}
  /\ IF Matches(action) /\ action \notin accepted
     THEN /\ saga' = [saga EXCEPT !.status = IF action.disposition = "resume" THEN "active"
                                             ELSE "abandoned",
                                  !.fence = Resulting(action), !.lease = @ + 1, !.over = FALSE]
          /\ accepted' = accepted \cup {action}
          /\ robbed' = (robbed \/ (saga.status = "active" /\ ~saga.over))
     ELSE UNCHANGED service
  /\ UNCHANGED <<disk, minted, closed, session, steps>>

LoseRequest(action) ==
  /\ action \in dispatched
  /\ dispatched' = dispatched \ {action}
  /\ UNCHANGED <<service, disk, minted, closed, session, steps>>

(* The worker of the current fence renews its lease, lets it run out, gives up for   *)
(* recovery, or finishes; after its lease ran out it may come back and do the same.   *)
WorkerSteps ==
  /\ saga.status = "active" /\ steps < MaxSteps
  /\ \/ saga' = [saga EXCEPT !.lease = @ + 1, !.over = FALSE]
     \/ ~saga.over /\ saga' = [saga EXCEPT !.over = TRUE]
     \/ saga' = [saga EXCEPT !.status = "recovery_required"]
     \/ saga' = [saga EXCEPT !.status = "committed"]
  /\ steps' = steps + 1
  /\ UNCHANGED <<accepted, robbed, dispatched, disk, minted, closed, session>>

WindowCloses(id) ==
  /\ steps < MaxSteps /\ id \notin closed
  /\ closed' = closed \cup {id}
  /\ steps' = steps + 1
  /\ UNCHANGED <<service, dispatched, disk, minted, session>>

JNext ==
  \/ \E p \in Person :
       \/ \E disposition \in Dispositions : Inspect(p, disposition)
       \/ \E action \in disk : Reload(p, action)
       \/ LookUp(p) \/ SaveConfirmed(p) \/ Dispatch(p) \/ Stop(p)
  \/ \E action \in dispatched : Serve(action) \/ LoseRequest(action)
  \/ WorkerSteps
  \/ \E id \in 1..minted : WindowCloses(id)

JSpec == JInit /\ [][JNext]_jvars

-----------------------------------------------------------------------------
JTypeOK ==
  /\ saga.status \in {"active", "recovery_required", "committed", "abandoned"}
  /\ saga.fence \in 1..(1 + MaxActions)
  /\ \A action \in accepted \cup dispatched \cup disk :
       action.id \in 1..minted /\ action.disposition \in Dispositions
  /\ closed \subseteq 1..minted
  /\ \A p \in Person :
       session[p].at \in {"idle", "lookup", "confirm", "dispatch", "waiting"}

(* Whatever is under way or was accepted can be looked up and sent again from here:    *)
(* its exact bytes are on disk, under a name no other action has.                 *)
SentIsSaved ==
  /\ accepted \cup dispatched \subseteq disk
  /\ \A one, other \in disk : one.id = other.id => one = other

(* No repair takes a judgment from a worker whose lease runs: what was observed to      *)
(* have run out must not have been renewed when the action arrives, however late.     *)
WorkerUndisturbed == ~robbed

(* One repair per fence: of two people who saw the same state one is refused.          *)
OneRepairPerState ==
  \A one, other \in accepted : one.fence = other.fence /\ one.status = other.status => one = other

RepairSound == SentIsSaved /\ WorkerUndisturbed /\ OneRepairPerState
=============================================================================
