------------------------------- MODULE Logins -------------------------------
(***************************************************************************)
(* The two logins of a machine: the one of a generation connection           *)
(* (Credentials) and the one of the legacy sync (Auth). Each has a file, a     *)
(* provider and callers of its own, and they share nothing.                   *)
(***************************************************************************)
EXTENDS Credentials, Auth

-----------------------------------------------------------------------------
(* No spent refresh token is presented again or kept in use, a login begun      *)
(* before a logout does not undo it, and what was never sent does not cost the  *)
(* login. The tokens of the legacy sync descend from the newest login, and a    *)
(* process does not present one it has replaced.                              *)
LoginsSound == CredentialsSound /\ CallsSound
=============================================================================
