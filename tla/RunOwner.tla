------------------------------ MODULE RunOwner ------------------------------
(***************************************************************************)
(* What the agent runtime promises its callers (ai/agent.ts: prompt, abort,*)
(* waitForIdle and the comments on abandonedRunId and resolveRun): at most *)
(* one run owns the transcript; only the owner's entries, or the session's *)
(* own, are added to it; a run that ended or was stopped adds nothing ever *)
(* again; and whoever awaits a run is released once it no longer owns the  *)
(* transcript.                                                             *)
(***************************************************************************)
EXTENDS Naturals, Sequences

CONSTANT MaxRuns

VARIABLES
    owner,    \* the run that owns the transcript, 0 for none
    started,  \* the newest run
    waiting,  \* runs whose caller is not released yet
    log       \* the author of every transcript entry, 0 for the session

vars == <<owner, started, waiting, log>>

Init == owner = 0 /\ started = 0 /\ waiting = {} /\ log = <<>>

\* The log grows by entries whose authors are in who.
Grows(who) ==
    /\ Len(log) <= Len(log')
    /\ \A i \in DOMAIN log' : IF i <= Len(log) THEN log'[i] = log[i]
                                               ELSE log'[i] \in who

Start ==
    /\ owner = 0 /\ started < MaxRuns
    /\ started' = started + 1
    /\ owner' = started'
    /\ waiting' = waiting \cup {started'}
    /\ Grows({started'})

Write ==
    /\ owner # 0
    /\ Grows({owner, 0})
    /\ UNCHANGED <<owner, started, waiting>>

Publish ==
    /\ owner = 0
    /\ Grows({0})
    /\ UNCHANGED <<owner, started, waiting>>

Finish ==
    /\ owner # 0 /\ owner' = 0
    /\ UNCHANGED <<started, waiting, log>>

Stop ==
    /\ owner # 0 /\ owner' = 0
    /\ waiting' = waiting \ {owner}
    /\ Grows({owner})
    /\ UNCHANGED started

Release(r) ==
    /\ r \in waiting /\ r # owner
    /\ waiting' = waiting \ {r}
    /\ UNCHANGED <<owner, started, log>>

Cut ==
    /\ owner = 0
    /\ Len(log') <= Len(log)
    /\ \A i \in DOMAIN log' : log'[i] = log[i]
    /\ UNCHANGED <<owner, started, waiting>>

Next ==
    \/ Start \/ Write \/ Publish \/ Finish \/ Stop \/ Cut
    \/ \E r \in 1..MaxRuns : Release(r)

Spec == Init /\ [][Next]_vars
=============================================================================
