-------------------------- MODULE MCTranscriptRows --------------------------
(* Small instances of TranscriptRows. *)
EXTENDS TranscriptRows

Careful  == {"contexts", "routine", "crash", "rebuild"}
Unstored == {"undoUnstored"}
CutInTail     == {"tailCut"}
Queued   == {"undoQueued"}
Late     == {"lateSummary"}
Rebuilt  == {"rebuild", "rebuildUnstored"}
Meanwhile == {"rebuild", "rebuildInSummary"}
=============================================================================
