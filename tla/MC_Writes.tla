------------------------------ MODULE MC_Writes ------------------------------
(***************************************************************************)
(* Two commands on a store, with a step that fails.                         *)
(***************************************************************************)
EXTENDS Writes

WSpec == WInit /\ [][WNext]_wvars
=============================================================================
