------------------------------ MODULE MCTaskHub ------------------------------
(* Small instances of TaskHub. *)
EXTENDS TaskHub

Careful       == {"stop", "close"}
StopBusy      == {"stop", "stopBusy"}
CloseAsleep   == {"close", "closeAsleep"}
SteerAsleep   == {"steerAsleep"}
FailAfterTool == {"failAfterTool"}
=============================================================================
