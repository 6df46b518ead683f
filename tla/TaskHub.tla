------------------------------- MODULE TaskHub -------------------------------
(***************************************************************************)
(* The sub-agents of one session: packages/core/tools/task-hub.ts          *)
(* (TaskHub) and tools/subagent-registry.ts (SubagentRegistry), with the   *)
(* tools of tools/task.ts through which agents reach them.                 *)
(*                                                                         *)
(* The main agent and every sub-agent run at the same time.  A running     *)
(* agent may start sub-agents, wait for one and send messages; a sub-agent *)
(* that ends hands its result to the agent that started it, through the    *)
(* wait if that agent is waiting and as a notification otherwise.  A       *)
(* failed sub-agent backs off and tries again.  The runtime (AgentRuntime) *)
(* is here a run that is live or not, the messages queued into it, and how *)
(* each model turn ends.                                                   *)
(***************************************************************************)
EXTENDS Naturals, FiniteSets

CONSTANTS
    MaxTasks,        \* bound: sub-agents ever started
    MaxRunning,      \* MAX_SUBAGENTS
    MaxDepth,        \* MAX_SUBAGENT_DEPTH
    MaxKnown,        \* MAX_FINISHED_SUBAGENTS
    MaxRetries,      \* MAX_RATE_LIMIT_RETRIES
    MaxTalks,        \* bound: waits, and messages, which count for two
    Env              \* which optional behaviours happen

\* The optional behaviours.
Behaviours == {
    "stop",         \* the user stops the main agent
    "stopBusy",     \* ... also while a result is on its way into its run
    "close",        \* the session is closed
    "closeAsleep",  \* ... also while a sub-agent backs off
    "steerAsleep",  \* a message reaches a sub-agent that backs off
    "failAfterTool"} \* a model turn fails after a tool it called answered

ASSUME LimitAssumption ==
    /\ MaxRunning \in Nat /\ MaxDepth \in Nat \ {0} /\ MaxKnown \in Nat
    /\ MaxRetries \in Nat
ASSUME BoundAssumption ==
    MaxTasks \in Nat /\ MaxTalks \in Nat
ASSUME EnvAssumption == Env \subseteq Behaviours

Main   == 0
Tasks  == 1 .. MaxTasks
Agents == {Main} \cup Tasks

VARIABLES
    tasks,           \* the sub-agents: Subagent, and where its loop is
    agents,          \* the Agent of each, and what it has been told
    waiters,         \* <<sub-agent, caller>>: blocked task_output calls
    known,           \* the roster: ids that can be asked about
    counter,         \* sub-agents started so far
    closed,
    talks            \* waits and messages so far

vars == <<tasks, agents, waiters, known, counter, closed, talks>>

Statuses == {"none", "running", "finished", "failed", "aborted"}
Failures == {"limited", "cut", "error"}

NoTask == [status |-> "none", parent |-> Main, depth |-> 0,
           delegates |-> FALSE, pc |-> "none", next |-> "continue",
           rate |-> 0, cut |-> 0]

\* live: a run is going on; own: it is the one the sub-agent's loop awaits;
\* inbox: what is queued into it; landing: results the calls of the turn in
\* flight returned; acted: that turn called a tool; last: what the transcript
\* ends in; turn: how the newest model turn ended; notices, results: the
\* sub-agents whose result it has read, either way.
NoAgent == [live |-> FALSE, own |-> FALSE, acted |-> FALSE,
            last |-> "nothing", turn |-> "none",
            inbox |-> {}, landing |-> {}, notices |-> {}, results |-> {}]

Init ==
    /\ tasks = [t \in Tasks |-> NoTask]
    /\ agents = [a \in Agents |-> NoAgent]
    /\ waiters = {} /\ known = {} /\ counter = 0 /\ closed = FALSE
    /\ talks = 0

Running == {t \in Tasks : tasks[t].status = "running"}

\* The agent can still act on what it is told.
CanAct(a) == IF a = Main THEN ~ closed ELSE tasks[a].status = "running"

\* Whether an agent has the task tools.
CanDelegate(a) ==
    a # Main => tasks[a].delegates

Waiting(a) == \E w \in waiters : w[2] = a

\* A message for a sub-agent between two runs is an optional behaviour.
Reachable(a) == agents[a].live \/ a = Main \/ "steerAsleep" \in Env

(***************************************************************************)
(* Runs and messages, as functions of the agents.                          *)
(***************************************************************************)
\* A message n is a sub-agent's id (its result) or 0 (anything else).
ReadBy(agent, news) == [agent EXCEPT !.notices = @ \cup (news \ {0}),
                                     !.last = "prompt"]

\* Agent.startRun with a prompt.
Started(ag, a, own, n) ==
    [ag EXCEPT ![a] = ReadBy([@ EXCEPT !.live = TRUE, !.own = own], {n})]

\* Agent.steer and SessionAgent.injectNotification: a live run takes the
\* message at its next boundary, an idle agent starts a run with it.
Given(ag, a, n) ==
    IF ag[a].live THEN [ag EXCEPT ![a].inbox = @ \cup {n}]
                  ELSE Started(ag, a, FALSE, n)

\* Agent.abort: the run is over at once; its queue and the answers of its
\* turn are dropped.
Stopped(agent) == [agent EXCEPT !.live = FALSE, !.own = FALSE,
                                !.acted = FALSE, !.inbox = {},
                                !.landing = {}]

\* The Agent of a settled sub-agent is let go, and a run of it goes on alone.
Released(agent) == [NoAgent EXCEPT !.live = agent.live, !.turn = agent.turn]

(***************************************************************************)
(* The end of a sub-agent.                                                 *)
(***************************************************************************)
\* SubagentRegistry.evictFinished once t has settled: the oldest settled ones
\* go while the roster is too long.
Evict(k, t) ==
    LET settled == {x \in k : x = t \/ tasks[x].status # "running"} IN
    {x \in k : x \in settled =>
        Cardinality({y \in settled : y < x}) >= Cardinality(k) - MaxKnown}

\* Mutation: a parent that is itself a sub-agent is not notified.
NotifyMain(t) == <<t, tasks[t].parent>> \notin waiters
                 /\ tasks[t].parent = Main /\ CanAct(Main)

\* finalize: whether the spawning agent is notified.
Notify(t) == <<t, tasks[t].parent>> \notin waiters /\ CanAct(tasks[t].parent)

\* finalize: the waiters of t are settled.
WaitersLeft(t) == {w \in waiters : w[1] # t}

\* finalize, with ag the agents when it is called and attempts the task's
\* record: its waiters get the result, or the spawning agent a notification.
Finalize(t, status, ag, task) ==
    LET p == task.parent
        answered == IF <<t, p>> \in waiters
                      THEN [ag EXCEPT ![p].landing = @ \cup {t}] ELSE ag
        released == [answered EXCEPT ![t] = Released(@)]
    IN /\ tasks' = [tasks EXCEPT ![t] =
                      [task EXCEPT !.status = status, !.pc = "over"]]
       /\ Notify(t) => Reachable(p)
       /\ agents' = IF Notify(t) THEN Given(released, p, t) ELSE released
       /\ waiters' = WaitersLeft(t)
       /\ known' = Evict(known, t)

(***************************************************************************)
(* A sub-agent's loop.                                                     *)
(***************************************************************************)
\* The status a loop ends with: only an error at the transcript's end fails.
Verdict(agent) == IF agent.last \in Failures THEN "failed" ELSE "finished"

\* Mutation: the budget of a cut stream is not counted.
RetryUncounted(t, agent) ==
    IF agent.last = "limited"
      THEN [tasks[t] EXCEPT !.pc = "sleep", !.next = "continue",
                            !.rate = @ + 1]
      ELSE [tasks[t] EXCEPT !.pc = "sleep", !.next = "prompt"]

\* The loop backs off: a rate-limited turn is dropped and the transcript run
\* again, a cut one is continued with an instruction.
Retry(t, agent) ==
    IF agent.last = "limited"
      THEN [tasks[t] EXCEPT !.pc = "sleep", !.next = "continue",
                            !.rate = @ + 1]
      ELSE [tasks[t] EXCEPT !.pc = "sleep", !.next = "prompt",
                            !.cut = @ + 1]

\* The failures that are tried again, each within its budget.
Retries(t, last) ==
    \/ last = "limited" /\ tasks[t].rate < MaxRetries
    \/ last = "cut" /\ tasks[t].cut < MaxRetries

\* runSubagent from the await of its run on, with ag the agents then.
AwaitReturns(t, ag) ==
    LET last == ag[t].last
    IN IF Retries(t, last)
         THEN /\ tasks' = [tasks EXCEPT ![t] = Retry(t, ag[t])]
              /\ agents' = IF last = "limited"
                             THEN [ag EXCEPT ![t].last = "prompt"] ELSE ag
              /\ UNCHANGED <<waiters, known>>
         ELSE Finalize(t, Verdict(ag[t]), ag, tasks[t])

\* The backoff is over: continue() runs the transcript again, prompt() adds
\* the instruction.  Into a live run neither starts one, and both return.
Wake(t) ==
    /\ tasks[t].pc = "sleep"
    /\ IF agents[t].live
         THEN AwaitReturns(t, IF tasks[t].next = "prompt"
                                THEN Given(agents, t, 0) ELSE agents)
         ELSE /\ agents' = Started(agents, t, TRUE, 0)
              /\ tasks' = [tasks EXCEPT ![t].pc = "run",
                                        ![t].next = "continue"]
              /\ UNCHANGED <<waiters, known>>
    /\ UNCHANGED <<counter, closed, talks>>

(***************************************************************************)
(* What an agent does in a turn.                                           *)
(***************************************************************************)

\* The task tool: spawn.  Below the depth limit the agent chooses whether the
\* sub-agent is a general one, which may start sub-agents itself.
Spawn(a) ==
    LET t == counter + 1
        depth == IF a = Main THEN 1 ELSE tasks[a].depth + 1
    IN
    /\ agents[a].live /\ CanAct(a) /\ CanDelegate(a)
    /\ counter < MaxTasks
    /\ Cardinality(Running) < MaxRunning
    /\ \E delegates \in {FALSE} \cup {depth < MaxDepth} :
         tasks' = [tasks EXCEPT ![t] =
           [NoTask EXCEPT !.status = "running", !.parent = a, !.pc = "run",
                          !.depth = depth, !.delegates = delegates]]
    /\ agents' = Started([agents EXCEPT ![a].acted = TRUE], t, TRUE, 0)
    /\ known' = known \cup {t}
    /\ counter' = t
    /\ UNCHANGED <<waiters, closed, talks>>

\* task_output with wait: blocks on a running sub-agent, answers at once for a
\* settled one.
Wait(a) ==
    /\ agents[a].live /\ CanAct(a) /\ CanDelegate(a)
    /\ talks < MaxTalks
    /\ talks' = talks + 1
    /\ \E t \in known :
         waiters' = IF t \in Running THEN waiters \cup {<<t, a>>} ELSE waiters
    /\ agents' = [agents EXCEPT ![a].acted = TRUE]
    /\ UNCHANGED <<tasks, known, counter, closed>>

\* The timeout of a wait: the tool answers with the present state.
Timeout(w) ==
    /\ w \in waiters
    /\ waiters' = waiters \ {w}
    /\ UNCHANGED <<tasks, agents, known, counter, closed, talks>>

\* send_message: to the main agent or to a running sub-agent.
Send(a) ==
    /\ agents[a].live /\ CanAct(a)
    /\ talks + 2 <= MaxTalks
    /\ talks' = talks + 2
    /\ \E b \in {Main} \cup Running :
         /\ CanAct(b) /\ Reachable(b)
         /\ agents' = Given([agents EXCEPT ![a].acted = TRUE], b, 0)
    /\ UNCHANGED <<tasks, waiters, known, counter, closed>>

\* What a turn leaves in the transcript: the answers of its tools, and what
\* was queued meanwhile.
Landed(agent) ==
    [ReadBy(agent, agent.inbox) EXCEPT !.results = @ \cup agent.landing,
       !.landing = {}, !.inbox = {}, !.acted = FALSE]

\* A model turn ends.  The tools it called have answered; the run goes on
\* after tool calls and for what was queued, also after a failed turn.
TurnKinds(a) ==
    (IF agents[a].acted THEN {"calls"} ELSE {"ok"}) \cup
    (IF a = Main \/ (agents[a].acted /\ "failAfterTool" \notin Env)
       THEN {} ELSE Failures)

TurnEnds(a) ==
    /\ agents[a].live /\ ~ Waiting(a)
    /\ \E kind \in TurnKinds(a) :
         LET landed == [Landed(agents[a]) EXCEPT !.turn = kind]
             end    == IF agents[a].acted THEN "result" ELSE kind
             over   == [landed EXCEPT !.live = FALSE, !.own = FALSE,
                                      !.last = end]
         IN CASE kind = "calls" \/ agents[a].inbox # {} ->
                   /\ agents' = [agents EXCEPT ![a] = landed]
                   /\ UNCHANGED <<tasks, waiters, known>>
              [] OTHER ->
                   IF agents[a].own
                     THEN AwaitReturns(a, [agents EXCEPT ![a] = over])
                     ELSE /\ agents' = [agents EXCEPT ![a] = over]
                          /\ UNCHANGED <<tasks, waiters, known>>
    /\ UNCHANGED <<counter, closed, talks>>

(***************************************************************************)
(* The user.                                                               *)
(***************************************************************************)
\* A prompt for the idle main agent.
Prompt ==
    /\ ~ closed /\ ~ agents[Main].live
    /\ agents' = Started(agents, Main, FALSE, 0)
    /\ UNCHANGED <<tasks, waiters, known, counter, closed, talks>>

\* The abort signal of a's run cancels its waits.
Cancel(a) == {w \in waiters : w[2] # a}

\* SessionAgent.abort: the main agent's run ends, the sub-agents go on.
Stop ==
    /\ "stop" \in Env
    /\ agents[Main].live
    /\ "stopBusy" \in Env \/
         (agents[Main].inbox \subseteq {0} /\ agents[Main].landing = {})
    /\ agents' = [agents EXCEPT ![Main] = Stopped(@)]
    /\ waiters' = Cancel(Main)
    /\ UNCHANGED <<tasks, known, counter, closed, talks>>

\* close for one running sub-agent.  Its loop sees that the agent is gone and
\* returns; one whose backoff was aborted reads the agent's error first, and
\* there is no agent any more.
ClosedTask(task) ==
    [task EXCEPT !.status = "aborted",
                 !.pc = IF task.pc = "sleep" THEN "threw" ELSE "over"]

\* Mutation: the runs of the sub-agents are not aborted.
ClosedAgentMain(a) == IF a = Main THEN Stopped(agents[a]) ELSE agents[a]

\* close: every run is aborted.
ClosedAgent(a) ==
    IF a \in Running \cup {Main} THEN Stopped(agents[a]) ELSE agents[a]

\* SessionPool.close: the main agent closes, then the hub, and the pool
\* forgets both.
Close ==
    /\ "close" \in Env /\ ~ closed
    /\ "closeAsleep" \in Env \/ \A t \in Tasks : tasks[t].pc # "sleep"
    /\ closed' = TRUE
    /\ tasks' = [t \in Tasks |-> IF t \in Running THEN ClosedTask(tasks[t])
                                                  ELSE tasks[t]]
    /\ agents' = [a \in Agents |-> ClosedAgent(a)]
    /\ waiters' = {w \in waiters : w[1] \notin Running /\ w[2] # Main}
    /\ known' = {}
    /\ UNCHANGED <<counter, talks>>

Next ==
    \/ \E a \in Agents : Spawn(a) \/ Wait(a) \/ Send(a) \/ TurnEnds(a)
    \/ \E t \in Tasks : Wake(t)
    \/ \E w \in waiters : Timeout(w)
    \/ Prompt \/ Stop \/ Close

Spec == Init /\ [][Next]_vars

\* Model calls end (the transport has its own timeouts), backoffs and waits
\* are timers.  The sub-agents can only take so many of these steps, so it is
\* enough that some of them is taken while one can be.
Progress ==
    \/ \E t \in Tasks : TurnEnds(t) \/ Wake(t)
    \/ \E w \in waiters : Timeout(w)

Fairness == WF_vars(Progress)

FairSpec == Spec /\ Fairness

(***************************************************************************)
(* Properties.                                                             *)
(***************************************************************************)
TypeOK ==
    /\ tasks \in [Tasks -> [status : Statuses, parent : Agents,
                            depth : 0 .. MaxDepth, delegates : BOOLEAN,
                            pc : {"none", "run", "sleep", "over", "threw"},
                            next : {"prompt", "continue"},
                            rate : 0 .. MaxRetries, cut : 0 .. MaxRetries]]
    /\ agents \in [Agents ->
         [live : BOOLEAN, own : BOOLEAN, acted : BOOLEAN,
          last : {"nothing", "prompt", "ok", "result"} \cup Failures,
          turn : {"none", "calls", "ok"} \cup Failures,
          inbox : SUBSET Agents, landing : SUBSET Tasks,
          notices : SUBSET Tasks, results : SUBSET Tasks]]
    /\ waiters \subseteq Tasks \X Agents
    /\ known \subseteq Tasks
    /\ counter \in 0 .. MaxTasks /\ closed \in BOOLEAN
    /\ talks \in 0 .. MaxTalks

\* A sub-agent that is reported settled does nothing any more: no run of it
\* is live (finalize releases the agent; the report is final).
SettledIsDone == \A t \in Tasks : agents[t].live => t \in Running

\* The status that is reported is what became of the work: "finished" when the
\* last model turn answered, "failed" when it failed and could not be tried
\* again (task-hub.ts, runSubagent).
StatusTellsTheTruth ==
    \A t \in Tasks :
      LET task == tasks[t]  turn == agents[t].turn IN
      /\ task.status = "finished" => turn = "ok"
      /\ task.status = "failed" =>
           \/ turn = "error"
           \/ turn = "limited" /\ task.rate = MaxRetries
           \/ turn = "cut" /\ task.cut = MaxRetries

\* The result of a sub-agent reaches the agent that started it as long as that
\* agent can act: it is on its way into the run or in the transcript.
NoResultLost ==
    \A t \in Tasks :
      LET p == agents[tasks[t].parent] IN
      tasks[t].status \in {"finished", "failed"} /\ CanAct(tasks[t].parent) =>
        t \in p.inbox \cup p.landing \cup p.notices \cup p.results

\* An agent that waits for a result gets it from its wait and not again as a
\* notification (finalize, parentWaiting).
ToldOnce ==
    \A a \in Agents :
      (agents[a].inbox \cup agents[a].notices) \cap
      (agents[a].landing \cup agents[a].results) = {}

\* A wait is always for a sub-agent that still runs, by a run that is still
\* live: a torn-down run leaves no tool hanging (subagent-registry.ts, wait).
NobodyWaitsForNothing ==
    \A w \in waiters : w[1] \in Running /\ agents[w[2]].live /\ CanAct(w[2])

\* Every result arrives, once, and only at agents that can still take it.
ResultsArriveOnce == NoResultLost /\ ToldOnce /\ NobodyWaitsForNothing

\* The roster stays bounded however long the session is, and a running
\* sub-agent is never dropped from it (evictFinished).
RosterIsBounded ==
    /\ Running \subseteq known
    /\ Cardinality(known) <= MaxKnown + Cardinality(Running)

\* The roster can be believed: it names every sub-agent that runs, no settled
\* one runs, and what it says of a settled one is what became of its work.
RosterIsTrue ==
    TypeOK /\ SettledIsDone /\ StatusTellsTheTruth /\ RosterIsBounded

\* The loop of a sub-agent settles it or returns; it never dies of an
\* exception (backoff: "so the caller settles instead of retrying").
LoopsReturn == \A t \in Tasks : tasks[t].pc # "threw"

\* The sub-agents that were started end, also when they wait for each other or
\* for themselves, and with them everything that waits for them (subagent-
\* registry.ts, wait; task-hub.ts, runSubagent).
EveryTaskEnds == Running # {} ~> Running = {}
=============================================================================
