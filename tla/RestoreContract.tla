--------------------------- MODULE RestoreContract ---------------------------
(***************************************************************************)
(* What a restore promises the user: where nothing was, a whole store        *)
(* appears in one step, and nothing else is ever touched. Restore.tla         *)
(* implements it with a staging area, a ledger and a rename, across deaths,  *)
(* failed transfers and rival runs.                                         *)
(***************************************************************************)
EXTENDS Naturals

CONSTANTS Files,
          Usable,     \* the file sets that make a sound store
          NoFiles

VARIABLES remote,     \* the version of each file in the cloud record
          kind,       \* what stands at the destination: nothing, user, store
          body        \* the files of the store there

place == <<kind, body>>
Becomes(k, b) == kind' = k /\ body' = b

Init == kind = "nothing" /\ body = NoFiles

(* Every file of the new store is one the record has held.                   *)
Received(files) == \A f \in Files : files[f] <= remote[f]

Install ==
  /\ kind = "nothing" /\ \E files \in Usable : Received(files) /\ Becomes("store", files)
  /\ UNCHANGED remote

Edit == /\ \A f \in Files : remote'[f] >= remote[f]
        /\ UNCHANGED place

(* The user's own hand.                                                      *)
Put == kind = "nothing" /\ Becomes("user", NoFiles) /\ UNCHANGED remote
Take == kind # "nothing" /\ Becomes("nothing", NoFiles) /\ UNCHANGED remote

Next == Install \/ Edit \/ Put \/ Take

Spec == Init /\ [][Next]_<<remote, place>>
=============================================================================
