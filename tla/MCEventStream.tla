---------------------------- MODULE MCEventStream ----------------------------
(* Small instances of EventStream. *)
EXTENDS EventStream

Careful    == {"steer", "checkpoint"}
PanelRace  == {"panelRace"}
Crossed    == {"crossed"}
UndoUnseen == {"undoUnseen"}
Behind     == {"behindAPage"}
ReadsFail  == {"readFails"}
UndoRead   == {"undoRead"}
UndoPage   == {"undoPage"}
SteerUnseen == {"steer", "steerUnseen"}
=============================================================================
