---------------------------- MODULE MCRetryChain ----------------------------
(* Small instances of RetryChain. *)
EXTENDS RetryChain
CONSTANTS c1, c2

Careful    == {"close"}
StopParked == {"stopParked"}
EmptyAtCap == {"close", "emptyAtCap"}
UndoAsleep == {"undoAsleep"}
=============================================================================
