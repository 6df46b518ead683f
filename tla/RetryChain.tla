----------------------------- MODULE RetryChain -----------------------------
(***************************************************************************)
(* How a conversation goes on after a model call that failed:              *)
(*   packages/core/agent/retry-manager.ts (RetryManager), and its wiring   *)
(*   in agent/session-agent.ts (runPrompt, handleTurnEnd,                  *)
(*   resumeAfterErrorRun, abort, close) and agent/rewinder.ts.             *)
(*                                                                         *)
(* Every prompt is a caller that waits for its run and then for the        *)
(* restarts of it.  A failed turn parks a restart in fields the callers    *)
(* share; the caller whose run ended takes it, after a backoff or after    *)
(* condensing the history, while stops, undos and other prompts go on.     *)
(* The runtime (AgentRuntime) is here a run that is live or not, and       *)
(* whether something is queued into it.                                    *)
(***************************************************************************)
EXTENDS Naturals, FiniteSets

CONSTANTS
    Callers,         \* the prompts, each given once
    MaxEmpty,        \* MAX_EMPTY_RESPONSE_RETRIES
    MaxRateLimit,    \* MAX_RATE_LIMIT_RETRIES
    MaxOutputCap,    \* MAX_OUTPUT_CAP_RETRIES
    MaxOverflow,     \* MAX_OVERFLOW_RETRIES
    MaxCalls,        \* bound: turns that call tools
    MaxSteers,       \* bound: messages queued into a live run
    MaxStops,        \* bound: stops and undos
    Env              \* which optional behaviours happen

\* The optional behaviours.
Behaviours == {
    "close",      \* the conversation is closed
    "stopParked", \* a stop or an undo while a restart is parked
    "undoAsleep", \* an undo while a restart backs off
    "emptyAtCap"} \* an answer at the output cap with nothing visible

ASSUME BudgetAssumption ==
    /\ MaxEmpty \in Nat /\ MaxRateLimit \in Nat
    /\ MaxOutputCap \in Nat /\ MaxOverflow \in Nat
ASSUME BoundAssumption ==
    MaxCalls \in Nat /\ MaxSteers \in Nat /\ MaxStops \in Nat
ASSUME EnvAssumption == Env \subseteq Behaviours

Nobody == "nobody"
ASSUME CallersAssumption == Nobody \notin Callers

VARIABLES
    \* RetryManager
    empty,           \* emptyResponseRetries
    rateLimit,       \* rateLimitRetries
    interrupted,     \* interruptedRetries
    outputCap,       \* outputCapRetries
    overflow,        \* overflowRetries
    pendingOverflow,
    pendingError,    \* pendingErrorRetry is set
    pendingRate,     \* pendingRateLimitRetry is set
    \* the runtime
    live,            \* a run is streaming
    queued,          \* its steerQueue is not empty
    closed,
    \* the callers
    pc,              \* where each caller is
    fresh,           \* no abort() since it took its epoch
    owner,           \* the caller that waits for the live run
    \* history
    spent,           \* retries since the last progress
    stopped,         \* stopped, and nothing was asked since
    outcome,         \* what the newest turn left: output, nothing, failure
    told,            \* the user was told of a failure since the last output
    failing,         \* the newest turn is the failure that was parked
    calls, steers, stops

budgets == <<empty, rateLimit, interrupted, outputCap, overflow>>
parked == <<pendingOverflow, pendingError, pendingRate>>
runtime == <<live, queued, closed>>
callers == <<pc, fresh, owner>>
history == <<spent, stopped, outcome, told, failing>>
bounds == <<calls, steers, stops>>
vars == <<budgets, parked, runtime, callers, history, bounds>>

Places == {"new", "run", "settled", "compact", "again", "sleep", "restart",
           "done"}

Init ==
    /\ empty = 0 /\ rateLimit = 0 /\ interrupted = 0 /\ outputCap = 0
    /\ overflow = 0
    /\ pendingOverflow = FALSE /\ pendingError = FALSE /\ pendingRate = FALSE
    /\ live = FALSE /\ queued = FALSE /\ closed = FALSE
    /\ pc = [c \in Callers |-> "new"]
    /\ fresh = [c \in Callers |-> FALSE]
    /\ owner = Nobody
    /\ spent = 0 /\ stopped = FALSE /\ outcome = "output" /\ told = FALSE
    /\ failing = FALSE
    /\ calls = 0 /\ steers = 0 /\ stops = 0

\* A caller whose await is over goes on before anything else happens.
Settling == \E c \in Callers : pc[c] \in {"settled", "again"}

Parked == pendingError \/ pendingRate

(***************************************************************************)
(* Prompts.                                                                *)
(***************************************************************************)
\* RetryManager.reset.
Reset ==
    /\ empty' = 0 /\ rateLimit' = 0 /\ interrupted' = 0 /\ outputCap' = 0
    /\ overflow' = 0
    /\ pendingOverflow' = FALSE /\ pendingError' = FALSE
    /\ pendingRate' = FALSE

\* runPrompt up to its await: the retries start afresh; the message starts a
\* run, or is queued into the live one and the caller goes on at once.
Prompt(c) ==
    /\ pc[c] = "new" /\ ~ Settling /\ ~ closed
    /\ Reset
    /\ spent' = 0 /\ stopped' = FALSE /\ failing' = FALSE
    /\ outcome' = "output" /\ told' = FALSE
    /\ IF live
         THEN /\ queued' = TRUE
              /\ pc' = [pc EXCEPT ![c] = "settled"]
              /\ UNCHANGED <<live, owner>>
         ELSE /\ live' = TRUE /\ owner' = c
              /\ pc' = [pc EXCEPT ![c] = "run"]
              /\ UNCHANGED queued
    /\ UNCHANGED <<closed, fresh, bounds>>

\* promptWhileRunning into a live run: queued, nobody waits for it.
Steer ==
    /\ live /\ ~ Settling
    /\ steers < MaxSteers
    /\ steers' = steers + 1
    /\ queued' = TRUE
    /\ UNCHANGED <<budgets, parked, live, closed, callers, history, calls,
                   stops>>

(***************************************************************************)
(* Turns: handleTurnEnd and RetryManager.classify.                         *)
(***************************************************************************)
\* "length": cut at the output cap; "lengthEmpty": with nothing visible;
\* "cut": a transport failure after output; "refused": a permanent failure
\* after output; "vacant": an empty answer; "silent": a transport failure
\* without output; "rate": a 429; "overflow": the request exceeds the window;
\* "permanent": any other failure without output.
Progress == {"calls", "text", "refused"}
Kinds == Progress \cup {"length", "lengthEmpty", "cut", "vacant", "silent",
                        "rate", "overflow", "permanent"}
Visible == Progress \cup {"length", "cut"}

\* The retry a turn is granted, or none.  The order is the code's: an answer
\* at the output cap first, then a cut answer, then an overflow, then the
\* failures without output; with its own budget spent each falls through.
Granted(kind) ==
    CASE kind \in {"length", "lengthEmpty"} /\ outputCap < MaxOutputCap -> "outputCap"
      [] kind = "cut" /\ interrupted < MaxEmpty -> "interrupted"
      [] kind = "overflow" /\ overflow < MaxOverflow -> "overflow"
      [] kind \in {"vacant", "lengthEmpty"} /\ empty < MaxEmpty -> "vacant"
      [] kind = "silent" /\ empty < MaxEmpty -> "silent"
      [] kind = "rate" /\ rateLimit < MaxRateLimit -> "rate"
      [] OTHER -> "none"

\* Mutation: the continuation of a cut answer is not counted.
CountAllButInterrupted(kind, grant) ==
    LET progress == kind \in Visible /\ grant = "none"
        next(n, grants) == IF progress THEN 0
                           ELSE IF grant \in grants THEN n + 1 ELSE n
    IN  /\ empty' = next(empty, {"vacant", "silent"})
        /\ rateLimit' = next(rateLimit, {"rate"})
        /\ interrupted' = next(interrupted, {})
        /\ outputCap' = next(outputCap, {"outputCap"})
        /\ overflow' = IF grant = "overflow" THEN overflow + 1 ELSE overflow

\* Visible output that is granted nothing is progress: every budget but the
\* overflow's starts again.
Count(kind, grant) ==
    LET progress == kind \in Visible /\ grant = "none"
        next(n, grants) == IF progress THEN 0
                           ELSE IF grant \in grants THEN n + 1 ELSE n
    IN  /\ empty' = next(empty, {"vacant", "silent"})
        /\ rateLimit' = next(rateLimit, {"rate"})
        /\ interrupted' = next(interrupted, {"interrupted"})
        /\ outputCap' = next(outputCap, {"outputCap"})
        /\ overflow' = IF grant = "overflow" THEN overflow + 1 ELSE overflow

\* All but an empty answer, which is retried inside the run, park a restart.
Park(grant) ==
    /\ pendingRate' = (pendingRate \/ grant = "rate")
    /\ pendingError' =
          (pendingError \/ grant \in {"outputCap", "interrupted", "overflow",
                                      "silent"})
    /\ pendingOverflow' = (pendingOverflow \/ grant = "overflow")

\* A failed request is reported when its message lands; an exhausted budget
\* when the turn ends.
Tells(kind, grant) ==
    \/ kind \in {"silent", "rate", "overflow", "permanent"}
    \/ kind \in {"vacant", "lengthEmpty"} /\ grant = "none"

\* The caller whose run is over: runPrompt, or the loop of resumeOnce.
Released(c) == IF pc[c] = "run" THEN "settled" ELSE "again"

\* A turn ends.  One that called tools is followed by another; so is any other
\* while something is queued.  Else the run is over.
TurnEnds(kind) ==
    LET grant == Granted(kind)
        goesOn == kind = "calls" \/ queued \/ grant = "vacant"
    IN  /\ live /\ ~ Settling
        /\ kind = "lengthEmpty" => "emptyAtCap" \in Env
        /\ IF kind = "calls" THEN calls < MaxCalls /\ calls' = calls + 1
                             ELSE UNCHANGED calls
        /\ Count(kind, grant) /\ Park(grant)
        /\ spent' = IF grant # "none" THEN spent + 1
                    ELSE IF kind \in Visible THEN 0 ELSE spent
        /\ outcome' = IF kind \in Visible THEN "output" ELSE "nothing"
        /\ told' = (kind \notin Visible /\ (told \/ Tells(kind, grant)))
        /\ failing' = (grant \notin {"none", "vacant"} /\ ~ goesOn)
        /\ queued' = FALSE
        /\ IF goesOn
             THEN UNCHANGED <<live, pc, owner>>
             ELSE /\ live' = FALSE /\ owner' = Nobody
                  /\ pc' = [pc EXCEPT ![owner] = Released(owner)]
        /\ UNCHANGED <<closed, fresh, stopped, steers, stops>>

(***************************************************************************)
(* Restarts: resumeAfterErrorRun and RetryManager.resumeOnce.              *)
(***************************************************************************)
\* agent.prompt with the retry notification: it starts a run, or is queued
\* into the one that is live and returns at once.
Restart(c) ==
    IF live
      THEN /\ queued' = TRUE
           /\ pc' = [pc EXCEPT ![c] = "again"]
           /\ UNCHANGED <<live, owner, failing>>
      ELSE /\ live' = TRUE /\ owner' = c /\ failing' = FALSE
           /\ pc' = [pc EXCEPT ![c] = "restart"]
           /\ UNCHANGED queued

\* The condition of resumeOnce's loop.  "closed" was read before the loop; a
\* close since then changed the epoch.
GoesOn(c, epochKept) == Parked /\ epochKept

\* Mutation: a restart that backs off is left in its field.
TakeLate == /\ UNCHANGED pendingRate
            /\ pendingError' = (pendingError /\ pendingRate)
            /\ pendingOverflow' = FALSE

\* A rate-limit restart is taken first.
Take == /\ pendingRate' = FALSE
        /\ pendingError' = (pendingError /\ pendingRate)
        /\ pendingOverflow' = FALSE

\* One round of the loop, by a caller whose epoch is what "epochKept" says.
Round(c, epochKept) ==
    \/ /\ ~ GoesOn(c, epochKept)
       /\ pc' = [pc EXCEPT ![c] = "done"]
       /\ UNCHANGED <<parked, live, queued, owner, failing>>
    \/ /\ GoesOn(c, epochKept) /\ pendingRate
       /\ Take
       /\ pc' = [pc EXCEPT ![c] = "sleep"]
       /\ UNCHANGED <<live, queued, owner, failing>>
    \/ /\ GoesOn(c, epochKept) /\ ~ pendingRate
       /\ Take
       /\ Restart(c)

unmoved == <<budgets, closed, spent, stopped, outcome, told, bounds>>

\* resumeAfterErrorRun: an overflow is answered by condensing first.
Settled(c) ==
    /\ pc[c] = "settled"
    /\ IF pendingOverflow
         THEN /\ pc' = [pc EXCEPT ![c] = "compact"]
              /\ UNCHANGED <<parked, live, queued, fresh, owner, failing>>
         ELSE /\ fresh' = [fresh EXCEPT ![c] = TRUE]
              /\ Round(c, ~ closed)
    /\ UNCHANGED unmoved

\* The history was condensed: the restart goes out.
Condensed(c) ==
    /\ pc[c] = "compact" /\ ~ Settling
    /\ fresh' = [fresh EXCEPT ![c] = TRUE]
    /\ Round(c, ~ closed)
    /\ UNCHANGED unmoved

\* clearPendingRestart: nothing could be freed, the error stands.
NotCondensed(c) ==
    /\ pc[c] = "compact" /\ ~ Settling
    /\ pendingOverflow' = FALSE /\ pendingError' = FALSE
    /\ pendingRate' = FALSE
    /\ pc' = [pc EXCEPT ![c] = "done"]
    /\ UNCHANGED <<live, queued, fresh, owner, failing, unmoved>>

\* The restarted run is over: the loop looks again.
Again(c) ==
    /\ pc[c] = "again"
    /\ Round(c, fresh[c])
    /\ UNCHANGED <<fresh, unmoved>>

\* The backoff is over.  Whatever happened meanwhile but an abort, the restart
\* goes out.
Wakes(c) ==
    /\ pc[c] = "sleep" /\ ~ Settling
    /\ Restart(c)
    /\ UNCHANGED <<parked, fresh, unmoved>>

(***************************************************************************)
(* Stops, undos and the close.                                             *)
(***************************************************************************)
\* Mutation: a backoff sleeps through it.
AbortRunOnly ==
    /\ live' = FALSE /\ queued' = FALSE /\ owner' = Nobody
    /\ fresh' = [c \in Callers |-> FALSE]
    /\ pc' = [c \in Callers |-> IF c = owner THEN Released(c) ELSE pc[c]]

\* The live run is abandoned and its caller released; every backoff ends with
\* its caller giving up, every loop stands down.
Abort ==
    /\ live' = FALSE /\ queued' = FALSE /\ owner' = Nobody
    /\ fresh' = [c \in Callers |-> FALSE]
    /\ pc' = [c \in Callers |-> IF c = owner THEN Released(c)
                                ELSE IF pc[c] = "sleep" THEN "done" ELSE pc[c]]

\* SessionAgent.abort: what is parked stays parked, but for the overflow mark.
Stop ==
    /\ ~ Settling /\ ~ closed /\ stops < MaxStops
    /\ Parked => "stopParked" \in Env
    /\ stops' = stops + 1
    /\ Abort
    /\ pendingOverflow' = FALSE
    /\ stopped' = TRUE /\ failing' = FALSE
    /\ UNCHANGED <<budgets, pendingError, pendingRate, closed, spent, outcome,
                   told, calls, steers>>

\* A rewind: a live run is stopped; the retries and the queue are dropped.  A
\* restart that backs off is in nobody's field.
Undo ==
    /\ ~ Settling /\ ~ closed /\ stops < MaxStops
    /\ live /\ Parked => "stopParked" \in Env
    /\ ~ live /\ (\E c \in Callers : pc[c] = "sleep") => "undoAsleep" \in Env
    /\ stops' = stops + 1
    /\ IF live THEN Abort ELSE UNCHANGED <<live, queued, owner, fresh, pc>>
    /\ Reset
    /\ spent' = 0 /\ stopped' = TRUE /\ failing' = FALSE
    /\ UNCHANGED <<closed, outcome, told, calls, steers>>

\* SessionAgent.close, for ever.
Close ==
    /\ "close" \in Env /\ ~ closed /\ ~ Settling
    /\ closed' = TRUE
    /\ Abort
    /\ pendingOverflow' = FALSE
    /\ stopped' = TRUE /\ failing' = FALSE
    /\ UNCHANGED <<budgets, pendingError, pendingRate, spent, outcome, told,
                   bounds>>

Next ==
    \/ \E c \in Callers : Prompt(c)
    \/ Steer
    \/ \E kind \in Kinds : TurnEnds(kind)
    \/ \E c \in Callers : Settled(c)
    \/ \E c \in Callers : Condensed(c)
    \/ \E c \in Callers : NotCondensed(c)
    \/ \E c \in Callers : Again(c)
    \/ \E c \in Callers : Wakes(c)
    \/ Stop
    \/ Undo
    \/ Close

\* A turn ends (its request fails, at the latest by its timeout), a summary
\* returns, a backoff is over, a caller whose await is over goes on.
Fairness ==
    /\ WF_vars(\E kind \in Kinds : TurnEnds(kind))
    /\ \A c \in Callers : /\ WF_vars(Settled(c)) /\ WF_vars(Again(c))
                          /\ WF_vars(Wakes(c))
                          /\ WF_vars(Condensed(c) \/ NotCondensed(c))

Spec == Init /\ [][Next]_vars
FairSpec == Spec /\ Fairness

(***************************************************************************)
(* Properties.                                                             *)
(***************************************************************************)
\* Every variable has its type, and no counter passes its budget.
TypeOK ==
    /\ empty \in 0..MaxEmpty /\ rateLimit \in 0..MaxRateLimit
    /\ interrupted \in 0..MaxEmpty /\ outputCap \in 0..MaxOutputCap
    /\ overflow \in 0..MaxOverflow
    /\ pendingOverflow \in BOOLEAN /\ pendingError \in BOOLEAN
    /\ pendingRate \in BOOLEAN
    /\ live \in BOOLEAN /\ queued \in BOOLEAN /\ closed \in BOOLEAN
    /\ pc \in [Callers -> Places] /\ fresh \in [Callers -> BOOLEAN]
    /\ owner \in Callers \cup {Nobody}
    /\ spent \in Nat /\ stopped \in BOOLEAN
    /\ outcome \in {"output", "nothing"} /\ told \in BOOLEAN
    /\ failing \in BOOLEAN
    /\ calls \in 0..MaxCalls /\ steers \in 0..MaxSteers /\ stops \in 0..MaxStops

\* Five budgets, some reset by progress and some not, several callers: between
\* two pieces of progress no exchange asks the model again more often than the
\* budgets together allow.
RetriesAreBounded ==
    TypeOK /\ spent <= 2 * MaxEmpty + MaxRateLimit + MaxOutputCap + MaxOverflow

\* A live run has exactly the caller that waits for it, and a restart that is
\* parked or sent is somebody's: nobody reports an exchange finished while it
\* goes on, and no restart is left where no one takes it
\* (session-agent.ts:1429-1433).
SomebodyWaits ==
    /\ \A c \in Callers : pc[c] \in {"run", "restart"} <=> live /\ owner = c
    /\ live => owner # Nobody
    /\ Parked /\ ~ closed => \E c \in Callers : pc[c] \notin {"new", "done"}

\* Stopped, undone or closed, the conversation stays silent until somebody
\* asks again: no parked restart, backoff or compaction brings it back
\* (retry-manager.ts:108-111, 148-155; rewinder.ts:162-164).
StopStaysStopped == stopped => ~ live

\* An exchange that ends with nothing to show ends with the user told why: a
\* budget that is spent is not silence (retry-manager.ts:238-240).
NothingIsExplained ==
    (/\ outcome = "nothing" /\ ~ stopped /\ ~ live
     /\ \A c \in Callers : pc[c] \in {"new", "done"}) => told

\* A restart is always somebody's and never comes after a stop; when nobody
\* restarts any more, the user knows why.
RestartsAreOwned == SomebodyWaits /\ StopStaysStopped /\ NothingIsExplained

\* A restart is sent for the failure it was parked for, not into or behind a
\* run that somebody started since (retry-manager.ts:292-294, 325-328).
RestartsFollowTheirFailure ==
    [][ \A c \in Callers :
          (pc[c] = "sleep" /\ pc'[c] \in {"restart", "again"}) => failing ]_vars

\* Every prompt returns: however the model fails, the restarts come to an end.
PromptsReturn ==
    \A c \in Callers : (pc[c] # "new") ~> (pc[c] = "done")
=============================================================================
