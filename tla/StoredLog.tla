------------------------------ MODULE StoredLog ------------------------------
(***************************************************************************)
(* What the stored transcript promises: a conversation is one log, and     *)
(* what the table holds is a beginning of it.  The log grows at its end, a *)
(* checkpoint is put between two stored messages, an undo removes an end,  *)
(* and a process that dies loses what was not stored yet, nothing else.    *)
(***************************************************************************)
EXTENDS Naturals, Sequences, SequencesExt

VARIABLES
    log,    \* the whole conversation
    stored  \* how many of its messages have a row

vars == <<log, stored>>

\* A conversation is opened with every message of it stored.
Init == stored = Len(log)

\* Messages are said; those said before may get their rows with them.
Say == /\ IsPrefix(log, log')
       /\ stored' \in stored..Len(log')

\* A checkpoint is put in front of a stored message, and has its row.
Condense ==
    /\ stored' = stored + 1
    /\ Len(log') > Len(log)
    /\ \E p \in 1..stored :
          IsPrefix(InsertAt(log, p, log'[p]), log')

\* An end of the conversation is removed, with its rows; what is left may get
\* its rows with it.
Undo == /\ IsPrefix(log', log)
        /\ stored' = Len(log') \/ stored' \in stored..Len(log')

\* The process dies: what has no row is lost.
Crash == /\ log' = SubSeq(log, 1, stored)
         /\ UNCHANGED stored

Next == Say \/ Condense \/ Undo \/ Crash

Spec == Init /\ [][Next]_vars
=============================================================================
