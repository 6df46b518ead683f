------------------------ MODULE MCBackgroundCommands ------------------------
(* Small instances of BackgroundCommands. *)
EXTENDS BackgroundCommands

Careful        == {"outlive", "spawnFails", "spawnLeaks", "close"}
StartsTogether == {"startsTogether"}
KillLate       == {"killLate"}
KillTwice      == {"killTwice", "outlive"}
ProbeFails     == {"probeFails"}
=============================================================================
