------------------------------ MODULE GoalLoop ------------------------------
(***************************************************************************)
(* The goal of one conversation: packages/core/agent/goal-runner.ts (who   *)
(* starts and cancels the loop), packages/core/goal/loop.ts (the loop) and *)
(* the prompt path that calls them (session-agent.ts, runPrompt).          *)
(*                                                                         *)
(* One action is the code between two awaits.  What is awaited is a judge  *)
(* (30 s at most), an exchange of the conversation, or what runPrompt does *)
(* around it.  The conversation runs one exchange at a time; a prompt that *)
(* finds it running is queued into it and returns at once (AgentRuntime).  *)
(***************************************************************************)
EXTENDS Naturals, FiniteSets

CONSTANTS
    MaxPrompts,    \* bound: prompts the user sends
    MaxLoops,      \* bound: loops whose judge or turn is out at a time
    MaxIterations, \* DEFAULT_MAX_GOAL_ITERATIONS
    GoalEnv        \* which optional behaviours may happen

GoalBehaviours == {
    "wait",        \* a prompt waits for the MCP tools before it starts
    "meanwhile",   \* an exchange starts while a judge is out
    "replace",     \* a goal is declared while the judge of another is out
    "lateFailure", \* the judge of a cancelled loop fails
    "rebuild",     \* a configuration change replaces the idle agent
    "compact" }    \* the declaration moves behind a compaction checkpoint

ASSUME BoundsAssumption ==
    /\ MaxPrompts \in Nat /\ MaxLoops \in Nat
    /\ MaxIterations \in Nat \ {0}
ASSUME GoalEnvAssumption == GoalEnv \subseteq GoalBehaviours

Prompts == 1..MaxPrompts
Loops   == 1..MaxLoops

\* A goal is known by the prompt that declared it.
Goal   == [id : 0..MaxPrompts, iteration : 0..MaxIterations]
NoGoal == [id |-> 0, iteration |-> 0]

(***************************************************************************)
(* Where a prompt is.                                                      *)
(*   waiting   awaiting the MCP tools                                      *)
(*   running   awaiting the exchange it started                            *)
(*   settling  its exchange is over or took it in; awaiting what runPrompt *)
(*             does before it asks for the goal loop (a compaction, a      *)
(*             backoff)                                                    *)
(*   done      returned, or handed to the exchange that was going on       *)
(* "declares" tells a /goal prompt, "closed" that its agent was replaced.  *)
(***************************************************************************)
PromptState == [pc : {"none", "waiting", "running", "settling", "done"},
           declares : BOOLEAN, closed : BOOLEAN]

(***************************************************************************)
(* Where a loop is.                                                        *)
(*   judging   awaiting the judge's verdict on "goal", read before         *)
(*   turn      awaiting the exchange of the verdict's next prompt          *)
(*   settling  that exchange is over or took the prompt in                 *)
(* "cancelled" is what isCancelled() answers: the epoch moved on, or the   *)
(* agent is closed.  "closed": it runs in an agent that was replaced.      *)
(***************************************************************************)
Loop == [pc : {"free", "judging", "turn", "settling"}, goal : Goal,
         cancelled : BOOLEAN, closed : BOOLEAN]
Free == [pc |-> "free", goal |-> NoGoal, cancelled |-> FALSE, closed |-> FALSE]

Idle  == <<"idle", 0>>
Of(i) == <<"prompt", i>>
By(k) == <<"loop", k>>

VARIABLES
    goal,      \* the goal of the session's row
    place,     \* where its declaration is: in the view, behind it, nowhere
    prompt,
    loop,
    conv,      \* whose exchange the conversation runs
    completed, \* history: exchanges completed since the goal was declared
    orphaned   \* history: the goal lost its loop, or never got one

goalVars == <<goal, place, prompt, loop, conv, completed, orphaned>>

GoalInit ==
    /\ goal = NoGoal /\ place = "gone"
    /\ prompt = [i \in Prompts |->
                    [pc |-> "none", declares |-> FALSE, closed |-> FALSE]]
    /\ loop = [k \in Loops |-> Free]
    /\ conv = Idle
    /\ completed = 0 /\ orphaned = FALSE

-----------------------------------------------------------------------------
(* The loop: goal/loop.ts *)

\* loopRunning of the current agent.
Out == {k \in Loops : loop[k].pc # "free" /\ ~loop[k].closed}

\* finishGoal(): whatever goal the session has by now is cleared.
finishGoal == goal' = NoGoal /\ place' = "gone" /\ orphaned' = FALSE

Ends(k) == loop' = [loop EXCEPT ![k] = Free]

AtCap(g) == g.iteration >= MaxIterations

\* The top of the loop for a goal that is still there: the cap ends it, else
\* the judge is asked.
Judges(k) ==
    IF AtCap(goal)
    THEN finishGoal /\ Ends(k)
    ELSE /\ loop' = [loop EXCEPT ![k].pc = "judging", ![k].goal = goal]
         /\ orphaned' = FALSE
         /\ UNCHANGED <<goal, place>>

\* Mutation: a prompt's run never starts the loop.
MaybeRunNever == UNCHANGED <<goal, place, loop, orphaned>>

\* maybeRun(): a loop of this agent that is still out keeps a second one from
\* starting, also when it was cancelled and only awaits its judge.
MaybeRun ==
    IF goal = NoGoal \/ Out # {}
    THEN /\ orphaned' = (goal # NoGoal /\ \A k \in Out : loop[k].cancelled)
         /\ UNCHANGED <<goal, place, loop>>
    ELSE \E k \in Loops : loop[k].pc = "free" /\ Judges(k)

\* Mutation: the verdict is used without asking whether the loop was stopped.
HeedsNobody(k) == TRUE

Heeded(k) == ~loop[k].cancelled

\* The verdict "achieved", or one that cannot be parsed: the goal is over.
VerdictEndsGoal(k) ==
    /\ loop[k].pc = "judging" /\ Heeded(k)
    /\ finishGoal
    /\ Ends(k)
    /\ UNCHANGED <<prompt, conv, completed>>

\* Mutation: the iteration is not counted.
VerdictUncounted(k) ==
    /\ loop[k].pc = "judging" /\ Heeded(k)
    /\ conv = Idle
    /\ conv' = By(k) /\ loop' = [loop EXCEPT ![k].pc = "turn"]
    /\ UNCHANGED <<goal, place, prompt, completed, orphaned>>

\* The verdict "not yet": the iteration is counted on the stored goal and the
\* next prompt is run, or queued into the exchange that goes on meanwhile.
VerdictGoesOn(k) ==
    /\ loop[k].pc = "judging" /\ Heeded(k)
    /\ goal' = IF goal = NoGoal THEN NoGoal
               ELSE [goal EXCEPT !.iteration = loop[k].goal.iteration + 1]
    /\ IF conv = Idle
       THEN conv' = By(k) /\ loop' = [loop EXCEPT ![k].pc = "turn"]
       ELSE UNCHANGED conv /\ loop' = [loop EXCEPT ![k].pc = "settling"]
    /\ UNCHANGED <<place, prompt, completed, orphaned>>

VerdictUnheeded(k) ==
    /\ loop[k].pc = "judging" /\ loop[k].cancelled
    /\ Ends(k)
    /\ UNCHANGED <<goal, place, prompt, conv, completed, orphaned>>

\* The judge's request fails or times out: the goal is cleared, and this path
\* does not ask whether the loop was cancelled.
JudgeFails(k) ==
    /\ loop[k].pc = "judging"
    /\ loop[k].cancelled => "lateFailure" \in GoalEnv
    /\ finishGoal
    /\ Ends(k)
    /\ UNCHANGED <<prompt, conv, completed>>

\* An exchange is over.
Completed == completed' = IF completed < MaxIterations THEN completed + 1
                                                       ELSE completed

GoalTurnEnds(k) ==
    /\ loop[k].pc = "turn" /\ conv = By(k)
    /\ conv' = Idle
    /\ loop' = [loop EXCEPT ![k].pc = "settling"]
    /\ Completed
    /\ UNCHANGED <<goal, place, prompt, orphaned>>

\* runTurn() returned: the loop begins again.
NextRound(k) ==
    /\ loop[k].pc = "settling"
    /\ IF loop[k].cancelled \/ goal = NoGoal
       THEN Ends(k) /\ UNCHANGED <<goal, place, orphaned>>
       ELSE Judges(k)
    /\ UNCHANGED <<prompt, conv, completed>>

-----------------------------------------------------------------------------
(* The prompts: session-agent.ts *)

\* startGoalIfNeeded(): a /goal prompt replaces the session's goal.
StartsGoal(i, declares) ==
    IF declares
    THEN /\ "replace" \in GoalEnv \/ goal = NoGoal
            \/ \A k \in Loops : loop[k].pc # "judging" \/ loop[k].cancelled
         /\ goal' = [id |-> i, iteration |-> 0]
         /\ place' = "view" /\ completed' = 0 /\ orphaned' = FALSE
    ELSE UNCHANGED <<goal, place, completed, orphaned>>

\* runPrompt() from the announcement to the await of its exchange.
Runs(i, declares) ==
    /\ StartsGoal(i, declares)
    /\ \/ /\ conv = Idle
          /\ "meanwhile" \in GoalEnv \/ \A k \in Loops : loop[k].pc # "judging"
          /\ conv' = Of(i)
          /\ prompt' = [prompt EXCEPT ![i] = [pc |-> "running",
                              declares |-> declares, closed |-> FALSE]]
       \/ /\ conv # Idle
          /\ prompt' = [prompt EXCEPT ![i].pc = "settling"]
          /\ UNCHANGED conv
    /\ UNCHANGED loop

\* promptWhileRunning(): a running conversation takes the message, and a /goal
\* prompt it takes declares nothing.
Send(i, declares) ==
    /\ prompt[i].pc = "none"
    /\ \A j \in Prompts : j < i => prompt[j].pc # "none"
    /\ \/ /\ conv # Idle
          /\ prompt' = [prompt EXCEPT ![i].pc = "done"]
          /\ UNCHANGED <<goal, place, loop, conv, completed, orphaned>>
       \/ /\ conv = Idle
          /\ Runs(i, declares)
       \/ /\ conv = Idle /\ "wait" \in GoalEnv
          /\ prompt' = [prompt EXCEPT ![i] = [pc |-> "waiting",
                              declares |-> declares, closed |-> FALSE]]
          /\ UNCHANGED <<goal, place, loop, conv, completed, orphaned>>

Proceed(i) ==
    /\ prompt[i].pc = "waiting"
    /\ IF prompt[i].closed
       THEN /\ prompt' = [prompt EXCEPT ![i].pc = "done"]
            /\ UNCHANGED <<goal, place, loop, conv, completed, orphaned>>
       ELSE Runs(i, prompt[i].declares)

RunEnds(i) ==
    /\ conv = Of(i)
    /\ conv' = Idle
    /\ prompt' = [prompt EXCEPT ![i].pc = "settling"]
    /\ Completed
    /\ UNCHANGED <<goal, place, loop, orphaned>>

\* runPrompt() after resumeAfterErrorRun(): maybeRunGoalLoop().
PromptSettled(i) ==
    /\ prompt[i].pc = "settling"
    /\ prompt' = [prompt EXCEPT ![i].pc = "done"]
    /\ IF prompt[i].closed THEN UNCHANGED <<goal, place, loop, orphaned>>
                           ELSE MaybeRun
    /\ UNCHANGED <<conv, completed>>

-----------------------------------------------------------------------------
(* The user's other commands *)

\* cancel(): the epoch moves on, and the goal is cleared.
CancelGoal ==
    /\ loop' = [k \in Loops |->
                   IF k \in Out THEN [loop[k] EXCEPT !.cancelled = TRUE]
                                ELSE loop[k]]
    /\ finishGoal

Cancel ==
    /\ goal # NoGoal \/ Out # {}
    /\ CancelGoal
    /\ UNCHANGED <<prompt, conv, completed>>

\* abort(): the goal is cancelled, then the exchange is stopped and whoever
\* awaits it is released.
AbortGoal ==
    /\ conv # Idle
    /\ conv' = Idle
    /\ finishGoal
    /\ loop' = [k \in Loops |->
                   IF k \in Out
                   THEN [loop[k] EXCEPT !.cancelled = TRUE,
                            !.pc = IF conv = By(k) THEN "settling" ELSE @]
                   ELSE loop[k]]
    /\ prompt' = [i \in Prompts |->
                     IF conv = Of(i) THEN [prompt[i] EXCEPT !.pc = "settling"]
                                     ELSE prompt[i]]
    /\ UNCHANGED completed

\* A rewind takes the declaration away (a running conversation is stopped
\* first, see AbortGoal).  Inside the view it cancels the goal; the path that
\* rewinds behind the view does not look at the goal.
RewindGoal ==
    /\ conv = Idle /\ goal # NoGoal /\ place # "gone"
    /\ IF place = "view"
       THEN CancelGoal
       ELSE place' = "gone" /\ UNCHANGED <<goal, loop, orphaned>>
    /\ UNCHANGED <<prompt, conv, completed>>

\* A compaction puts its checkpoint behind the declaration.
Compact ==
    /\ "compact" \in GoalEnv
    /\ place = "view" /\ conv # Idle
    /\ place' = "behind"
    /\ UNCHANGED <<goal, prompt, loop, conv, completed, orphaned>>

\* pool.rebuild(): the idle agent is closed, the goal stays in its row.
Rebuild ==
    /\ "rebuild" \in GoalEnv /\ conv = Idle
    /\ loop' = [k \in Loops |->
                   IF k \in Out
                   THEN [loop[k] EXCEPT !.cancelled = TRUE, !.closed = TRUE]
                   ELSE loop[k]]
    /\ prompt' = [i \in Prompts |->
                     IF prompt[i].pc \in {"waiting", "settling"}
                     THEN [prompt[i] EXCEPT !.closed = TRUE] ELSE prompt[i]]
    /\ orphaned' = (goal # NoGoal)
    /\ UNCHANGED <<goal, place, conv, completed>>

LoopStep(k) ==
    \/ VerdictEndsGoal(k) \/ VerdictGoesOn(k) \/ VerdictUnheeded(k)
    \/ JudgeFails(k) \/ GoalTurnEnds(k) \/ NextRound(k)

PromptStep(i) == Proceed(i) \/ RunEnds(i) \/ PromptSettled(i)

UserStep ==
    \/ \E i \in Prompts, declares \in BOOLEAN : Send(i, declares)
    \/ Cancel \/ AbortGoal \/ RewindGoal \/ Compact \/ Rebuild

GoalNext == UserStep \/ \E k \in Loops : LoopStep(k) \/ \E i \in Prompts : PromptStep(i)

GoalSpec == GoalInit /\ [][GoalNext]_goalVars

\* The judge has a timeout, an exchange ends or is stopped (AgentRuntime), and
\* what is awaited around it returns.
GoalFairness ==
    /\ \A k \in Loops : WF_goalVars(LoopStep(k))
    /\ \A i \in Prompts : WF_goalVars(PromptStep(i))

GoalFairSpec == GoalSpec /\ GoalFairness

-----------------------------------------------------------------------------
(* Properties *)

GoalTypeOK ==
    /\ goal \in Goal /\ place \in {"view", "behind", "gone"}
    /\ prompt \in [Prompts -> PromptState]
    /\ loop \in [Loops -> Loop]
    /\ conv \in {Idle} \cup {Of(i) : i \in Prompts} \cup {By(k) : k \in Loops}
    /\ completed \in 0..MaxIterations /\ orphaned \in BOOLEAN

\* "Only one goal runs per session at a time" (shared/goal.ts 5-6): one loop at
\* most may still act, whoever prompts, cancels or rebuilds in between.
OneLoop == Cardinality({k \in Loops : loop[k].pc # "free" /\ ~loop[k].cancelled}) <= 1

\* A stop "stands the next judge/turn down" (goal-runner.ts 30-33): a loop that
\* was cancelled changes no goal, not even one declared since.
CancelledLoopsChangeNothing ==
    [][\A k \in Loops :
          loop[k].cancelled /\ loop[k].pc # "free" /\ loop'[k].pc = "free"
          => goal' = goal]_goalVars

\* A stored goal has somebody to bring it to its end: an exchange whose end
\* asks for the loop, or a loop.  Excepted is the goal a closed agent left in
\* its row, and the one whose exchange ended while a cancelled loop still
\* awaited its judge (goal-runner.ts 119-124).
GoalsAreDriven ==
    goal # NoGoal /\ ~orphaned =>
        \/ conv # Idle
        \/ \E i \in Prompts : prompt[i].pc \in {"waiting", "settling"}
                              /\ ~prompt[i].closed
        \/ \E k \in Loops : loop[k].pc # "free" /\ ~loop[k].cancelled

\* Every goal has somebody to end it, and never two who would: one loop at most
\* acts, and one always comes.
GoalsHaveOneDriver == GoalTypeOK /\ OneLoop /\ GoalsAreDriven

\* Such a goal ends: achieved, given up or cancelled.
GoalsEnd ==
    \A i \in Prompts : goal.id = i ~> goal.id # i \/ orphaned

\* "Completed main-agent runs for this goal" (shared/goal.ts 15): an iteration
\* is counted for a run.
IterationsAreRuns == goal # NoGoal => goal.iteration <= completed

\* "the declaration itself is gone, so the loop must not continue"
\* (rewinder.ts 163-165).
RewoundGoalsStop == goal # NoGoal => place # "gone"

=============================================================================
