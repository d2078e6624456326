--------------------------- MODULE MC_Connections ---------------------------
(* One process that runs every command to its end, one after the other, on     *)
(* two repositories of which one lies inside the other.                        *)
EXTENDS Connections

Nested == [r \in {"top", "sub"} |-> IF r = "sub" THEN "top" ELSE "none"]
Everything ==
  [p \in Procs |-> {"init", "adopt", "add", "attach", "reconnect", "link", "unadopt", "rm"}]
=============================================================================
