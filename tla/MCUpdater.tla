------------------------------ MODULE MCUpdater ------------------------------
(* Small instances of Updater. *)
EXTENDS Updater

\* The second version adds a file between two it replaces.
Packages == [v \in 1 .. MaxVersion |-> IF v = 1 THEN {1, 3} ELSE {1, 2, 3}]
All      == {"self", "supervisor", "none"}
Careful  == {}
Slow     == {"slowRemovals"}
Stale    == {"staleClient"}
=============================================================================
