-------------------------------- MODULE Upload --------------------------------
(***************************************************************************)
(* One presigned PUT, phase by phase, and the evidence the client keeps of   *)
(* it (sync/remote.py). A push decides by that evidence whether a file is on *)
(* the server, is not, or has to be reconciled.                             *)
(***************************************************************************)
EXTENDS TransferFaults

CONSTANTS Statuses,    \* answers of the object store, 200 among them
          MaxPuts      \* bound: PUTs of a session

VARIABLES
  phase,      \* "idle", "connecting", "sending", "waiting", "answered"
  stored,     \* the object store holds the uploaded bytes
  evidence,   \* WriteOutcome of the client, "none" before it has one
  tripped,    \* origins of this session that are not tried again
  puts        \* PUTs of this session so far

uvars == <<phase, stored, evidence, tripped, puts>>

Outcomes == {"none", "not-written", "ambiguous", "written-unverified", "verified"}

UInit == /\ phase = "idle" /\ stored = FALSE /\ evidence = "none"
         /\ tripped = {} /\ puts = 0

(* guard: a tripped origin is refused before anything is sent.               *)
StartPut ==
  /\ phase = "idle" /\ puts < MaxPuts
  /\ puts' = puts + 1
  /\ stored' = FALSE
  /\ IF "storage" \in tripped
       THEN phase' = "answered" /\ evidence' = "not-written"
       ELSE phase' = "connecting" /\ evidence' = "none"
  /\ UNCHANGED tripped

(* boundary_error: the exception is classified, and a certificate error      *)
(* trips the origin.                                                        *)
Broken(kinds) ==
  \E kind \in kinds :
    /\ phase' = "answered"
    /\ evidence' = ClassifyException(kind, "PUT").write
    /\ tripped' = IF AbortsOrigin(kind, ClassifyException(kind, "PUT").retry, "PUT")
                    THEN tripped \union {"storage"} ELSE tripped
    /\ UNCHANGED puts

Connect ==
  /\ phase = "connecting"
  /\ \/ phase' = "sending" /\ UNCHANGED <<stored, evidence, tripped, puts>>
     \/ Broken(BeforeSending) /\ UNCHANGED stored

(* The store may have the whole body when the client still thinks it writes. *)
Transmit ==
  /\ phase = "sending"
  /\ stored' \in BOOLEAN
  /\ \/ phase' = "waiting" /\ UNCHANGED <<evidence, tripped, puts>>
     \/ Broken(WhileSending)

(* A client error is decided before the store keeps anything; a success means *)
(* that it did; anything else may be the answer of a proxy.                 *)
AnswerPut ==
  /\ phase = "waiting"
  /\ \/ \E status \in Statuses, etag \in BOOLEAN :
          /\ status \in 200 .. 299 => stored
          /\ status \in 400 .. 499 => ~stored
          /\ phase' = "answered"
          /\ evidence' = IF status \in 200 .. 299 THEN AcceptedWrite(etag)
                         ELSE ClassifyStatus(status, "PUT").write
          /\ UNCHANGED <<tripped, puts>>
     \/ Broken(WhileWaiting)
  /\ UNCHANGED stored

NextPut == /\ phase = "answered" /\ phase' = "idle"
           /\ UNCHANGED <<stored, evidence, tripped, puts>>

UNext == StartPut \/ Connect \/ Transmit \/ AnswerPut \/ NextPut

USpec == UInit /\ [][UNext]_uvars

-----------------------------------------------------------------------------
(* Types of an upload.                                                       *)
UTypeOK == /\ phase \in {"idle", "connecting", "sending", "waiting", "answered"}
           /\ stored \in BOOLEAN /\ evidence \in Outcomes
           /\ tripped \subseteq {"api", "storage"} /\ puts \in 0 .. MaxPuts

(* The evidence never claims more than is so: "not written" only of bytes the *)
(* store does not hold, "written" only of bytes it does.                    *)
EvidenceTruthful ==
  phase = "answered" =>
    /\ evidence = "not-written" => ~stored
    /\ evidence \in {"written-unverified", "verified"} => stored
=============================================================================
