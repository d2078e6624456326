------------------------------ MODULE MC_Hosted ------------------------------
(***************************************************************************)
(* Five components of the hosted exchange that share no state, checked in    *)
(* one run: a behaviour chooses one of them and the others keep their first  *)
(* state. The conversion comes in two cases: one session after another, which  *)
(* must come to an end, and two at a time, without edits and trips, which may  *)
(* hinder each other for ever and must still keep the files.                  *)
(***************************************************************************)
EXTENDS Submission, Logins, Upload, Conversion, TLC

VARIABLE chosen

(* Two threads of one process and a process of its own.                      *)
ProcessOfCaller == [c \in Callers |-> IF c = "b1" THEN "B" ELSE "A"]

HInit ==
  /\ chosen \in {"submission", "credentials", "auth", "upload", "one session", "two sessions"}
  /\ Init /\ CInit /\ AInit /\ UInit /\ VInit

Submitting ==
  chosen = "submission" /\ Next /\ UNCHANGED <<chosen, cvars, avars, uvars, conversion>>
Renewing ==
  chosen = "credentials" /\ CNext /\ UNCHANGED <<chosen, vars, avars, uvars, conversion>>
Calling ==
  chosen = "auth" /\ ANext /\ UNCHANGED <<chosen, vars, cvars, uvars, conversion>>
Uploading ==
  chosen = "upload" /\ UNext /\ UNCHANGED <<chosen, vars, cvars, avars, conversion>>
Converting ==
  /\ chosen = "one session" /\ VNext /\ session'["t"] = session["t"]
  /\ UNCHANGED <<chosen, vars, cvars, avars, uvars>>
ConvertingTwice ==
  /\ chosen = "two sessions" /\ VNext /\ edits' = 0 /\ trips' = 0 /\ minted' <= 3
  /\ UNCHANGED <<chosen, vars, cvars, avars, uvars>>

HNext == Submitting \/ Renewing \/ Calling \/ Uploading \/ Converting \/ ConvertingTwice

(* The fairness of Credentials.tla, Auth.tla and Conversion.tla, of the       *)
(* component at work.                                                       *)
HSpec == /\ HInit
         /\ [][HNext]_<<chosen, vars, cvars, avars, uvars, conversion>>
         /\ \A u \in Users : WF_cvars(chosen = "credentials" /\ Work(u))
         /\ \A c \in Callers : WF_avars(chosen = "auth" /\ Proceed(c))
         /\ WF_conversion(chosen = "one session" /\ CarryOn("s"))

-----------------------------------------------------------------------------
(* Every component's variables have their types.                             *)
HTypeOK == TypeOK /\ CTypeOK /\ ATypeOK /\ UTypeOK /\ VTypeOK

(* Credentials.tla, Auth.tla and Conversion.tla: every login, logout, renewal   *)
(* and cloud call ends, answered or not, and so does a conversion a person     *)
(* keeps agreeing to.                                                       *)
HostedEnds ==
  /\ OperationsEnd
  /\ CloudCallsEnd
  /\ chosen = "one session" => ConversionEnds
=============================================================================
