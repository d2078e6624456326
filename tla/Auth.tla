-------------------------------- MODULE Auth --------------------------------
(***************************************************************************)
(* The access and refresh tokens of the legacy sync, kept under "auth" in  *)
(* config.json, and the refresh every cloud call may start (auth.py).       *)
(*                                                                         *)
(* A refresh elects under the config lock, exchanges without it, and       *)
(* commits under it again only if the token it exchanged is still the      *)
(* stored one. Threads of one process take turns; processes do not.        *)
(***************************************************************************)
EXTENDS Naturals

CONSTANTS Callers,     \* threads that make cloud calls
          Processes,
          ProcessOf,   \* the process of each caller
          MaxIssued,   \* bound: tokens the provider issues
          MaxEpochs    \* bound: logins and logouts

ASSUME IssuedAssumption == MaxIssued \in Nat \ {0}
ASSUME ProcessAssumption == ProcessOf \in [Callers -> Processes]

Nobody == "nobody"
ASSUME CallersAssumption == Nobody \notin Callers

Ids == 0 .. MaxIssued
None == 0

VARIABLES
  auth,       \* the stored access and refresh token; None when logged out
  turn,       \* _REFRESH_LOCK of each process: the caller that holds it
  at,         \* where each caller stands
  held,       \* what each caller read: the stale access token, the refresh token, the answer
  lastId,     \* tokens issued so far
  used,       \* refresh tokens the provider accepted and rotated
  lapsed,     \* access tokens that answer 401
  epoch,      \* history: logins and logouts so far
  lineage,    \* history: the login each token descends from
  replaced,   \* history: refresh tokens a process stored the successor of
  repeated    \* history: a process presented a token it had replaced itself

avars == <<auth, turn, at, held, lastId, used, lapsed, epoch, lineage, replaced, repeated>>
history == <<epoch, lineage>>
providerVars == <<lastId, used, lapsed>>

Blank == [acc |-> None, ref |-> None, new |-> None, rot |-> None]

AInit ==
  /\ auth = [acc |-> 1, ref |-> 1]
  /\ turn = [p \in Processes |-> Nobody]
  /\ at = [c \in Callers |-> "idle"]
  /\ held = [c \in Callers |-> Blank]
  /\ lastId = 1 /\ used = {} /\ lapsed = {}
  /\ epoch = 1 /\ lineage = [n \in Ids |-> IF n = 1 THEN 1 ELSE 0]
  /\ replaced = [p \in Processes |-> {}]
  /\ repeated = FALSE

(* Going on with what was read; a caller that is done forgets it.            *)
Move(c, place, kept) ==
  /\ at' = [at EXCEPT ![c] = place]
  /\ held' = [held EXCEPT ![c] = IF place = "idle" THEN Blank ELSE kept]

(* The finally of refresh_access_token.                                     *)
LetGo(c) == turn' = [turn EXCEPT ![ProcessOf[c]] = Nobody]

(* Mutant: no lock between the threads of a process.                         *)
TakeTurnFree(c) ==
  /\ at[c] = "stale"
  /\ turn' = [turn EXCEPT ![ProcessOf[c]] = c]
  /\ Move(c, "elect", held[c])
  /\ UNCHANGED <<auth, providerVars, history, replaced, repeated>>

(* with_token_refresh: the first call. A token that has lapsed answers 401.  *)
Call(c) ==
  /\ at[c] = "idle"
  /\ auth.acc # None
  /\ Move(c, IF auth.acc \in lapsed THEN "stale" ELSE "idle",
          [Blank EXCEPT !.acc = auth.acc])
  /\ UNCHANGED <<auth, turn, providerVars, history, replaced, repeated>>

TakeTurn(c) ==
  /\ at[c] = "stale"
  /\ turn[ProcessOf[c]] = Nobody
  /\ turn' = [turn EXCEPT ![ProcessOf[c]] = c]
  /\ Move(c, "elect", held[c])
  /\ UNCHANGED <<auth, providerVars, history, replaced, repeated>>

(* Mutant: the wait for the turn has no bound.                               *)
GiveUpNever(c) ==
  /\ at[c] \in {"elect", "commit"} /\ LetGo(c)
  /\ Move(c, "idle", Blank)
  /\ UNCHANGED <<auth, providerVars, history, replaced, repeated>>

(* The bounded wait for the turn, or for the config lock, runs out.          *)
GiveUp(c) ==
  /\ \/ at[c] = "stale" /\ turn[ProcessOf[c]] # Nobody /\ UNCHANGED turn
     \/ at[c] \in {"elect", "commit"} /\ LetGo(c)
  /\ Move(c, "idle", Blank)
  /\ UNCHANGED <<auth, providerVars, history, replaced, repeated>>

(* ELECTION: a token another caller already replaced is returned at once.    *)
Elect(c) ==
  /\ at[c] = "elect"
  /\ IF auth.acc \notin {None, held[c].acc}
       THEN Move(c, "retry", Blank) /\ LetGo(c)
       ELSE IF auth.ref = None
              THEN Move(c, "idle", Blank) /\ LetGo(c)
              ELSE /\ Move(c, "exchange", [held[c] EXCEPT !.ref = auth.ref])
                   /\ UNCHANGED turn
  /\ UNCHANGED <<auth, providerVars, history, replaced, repeated>>

(* EXCHANGE, without the config lock. The provider rotates the token or not, *)
(* and its answer may be lost; a spent token is refused.                    *)
Exchange(c) ==
  /\ at[c] = "exchange"
  /\ repeated' = (repeated \/ held[c].ref \in replaced[ProcessOf[c]])
  /\ \/ /\ held[c].ref \notin used /\ lastId < MaxIssued
        /\ lastId' = lastId + 1
        /\ lineage' = [lineage EXCEPT ![lastId'] = lineage[held[c].ref]]
        /\ \E rotates \in BOOLEAN :
             /\ used' = IF rotates THEN used \union {held[c].ref} ELSE used
             /\ Move(c, "commit", [held[c] EXCEPT !.new = lastId',
                                    !.rot = IF rotates THEN lastId' ELSE None])
        /\ UNCHANGED turn
     \/ /\ Move(c, "idle", Blank) /\ LetGo(c)
        /\ used' \in {used, used \union {held[c].ref}}
        /\ UNCHANGED <<lastId, lineage>>
  /\ UNCHANGED <<auth, lapsed, epoch, replaced>>

(* Mutant: what was exchanged is stored over whatever is there.              *)
CommitAnyway(c) ==
  /\ at[c] = "commit"
  /\ auth' = [acc |-> held[c].new,
              ref |-> IF held[c].rot = None THEN auth.ref ELSE held[c].rot]
  /\ Move(c, "retry", Blank)
  /\ LetGo(c)
  /\ UNCHANGED <<providerVars, history, replaced, repeated>>

(* COMMIT: refuse to clobber. What is stored now wins over what was exchanged. *)
Commit(c) ==
  /\ at[c] = "commit"
  /\ IF auth.ref # held[c].ref
       THEN /\ Move(c, IF auth.acc = None THEN "idle" ELSE "retry", Blank)
            /\ UNCHANGED <<auth, replaced>>
       ELSE /\ auth' = [acc |-> held[c].new,
                        ref |-> IF held[c].rot = None THEN auth.ref ELSE held[c].rot]
            /\ replaced' = IF held[c].rot = None THEN replaced
                           ELSE [replaced EXCEPT ![ProcessOf[c]] = @ \union {held[c].ref}]
            /\ Move(c, "retry", Blank)
  /\ LetGo(c)
  /\ UNCHANGED <<providerVars, history, repeated>>

(* The one retry; a second 401 is the caller's answer.                       *)
Retry(c) ==
  /\ at[c] = "retry"
  /\ Move(c, "idle", Blank)
  /\ UNCHANGED <<auth, turn, providerVars, history, replaced, repeated>>

(* "nauro auth login" and "nauro auth logout": one config transaction each.  *)
Login ==
  /\ epoch < MaxEpochs /\ lastId < MaxIssued
  /\ epoch' = epoch + 1 /\ lastId' = lastId + 1
  /\ lineage' = [lineage EXCEPT ![lastId'] = epoch']
  /\ auth' = [acc |-> lastId', ref |-> lastId']
  /\ UNCHANGED <<turn, at, held, used, lapsed, replaced, repeated>>

Logout ==
  /\ epoch < MaxEpochs /\ auth.acc # None
  /\ epoch' = epoch + 1
  /\ auth' = [acc |-> None, ref |-> None]
  /\ UNCHANGED <<turn, at, held, providerVars, lineage, replaced, repeated>>

Lapse ==
  /\ auth.acc \notin lapsed \union {None}
  /\ lapsed' = lapsed \union {auth.acc}
  /\ UNCHANGED <<auth, turn, at, held, lastId, used, history, replaced, repeated>>

(* A process dies with the exchange or the commit still to come.             *)
Die(p) ==
  /\ turn[p] # Nobody
  /\ at' = [c \in Callers |-> IF ProcessOf[c] = p THEN "idle" ELSE at[c]]
  /\ held' = [c \in Callers |-> IF ProcessOf[c] = p THEN Blank ELSE held[c]]
  /\ turn' = [turn EXCEPT ![p] = Nobody]
  /\ replaced' = [replaced EXCEPT ![p] = {}]
  /\ UNCHANGED <<auth, providerVars, history, repeated>>

Proceed(c) == \/ TakeTurn(c) \/ GiveUp(c) \/ Elect(c) \/ Exchange(c)
              \/ Commit(c) \/ Retry(c)

ANext == \/ \E c \in Callers : Call(c) \/ Proceed(c)
         \/ \E p \in Processes : Die(p)
         \/ Login \/ Logout \/ Lapse

ASpec == AInit /\ [][ANext]_avars

(* Lock waits are bounded and requests time out.                             *)
AFairness == \A c \in Callers : WF_avars(Proceed(c))

-----------------------------------------------------------------------------
(* Types of the configuration, the callers and the provider.                *)
ATypeOK ==
  /\ auth \in [acc : Ids, ref : Ids]
  /\ turn \in [Processes -> Callers \union {Nobody}]
  /\ at \in [Callers -> {"idle", "stale", "elect", "exchange", "commit", "retry"}]
  /\ held \in [Callers -> [acc : Ids, ref : Ids, new : Ids, rot : Ids]]
  /\ lastId \in Ids /\ used \subseteq Ids /\ lapsed \subseteq Ids
  /\ epoch \in 1 .. MaxEpochs

(* The stored tokens descend from the newest login, and after a logout there *)
(* are none: a refresh in flight over a login or a logout changes nothing.  *)
OnlyCurrentLogin ==
  auth.acc # None => lineage[auth.acc] = epoch /\ lineage[auth.ref] = epoch

(* A process that stored the successor of a refresh token does not present   *)
(* the old one again, however many of its threads met the same 401.         *)
SingleFlight == ~repeated

(* Every cloud call ends.                                                    *)
CloudCallsEnd == \A c \in Callers : at[c] # "idle" ~> at[c] = "idle"

(* Late answers neither bring back an old login nor present a token twice.    *)
CallsSound == OnlyCurrentLogin /\ SingleFlight
=============================================================================
