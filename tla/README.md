# Lumisca agent: formal models

TLA+ models of the concurrent core of the Lumisca agent (`src/packages/core`)
and of what surrounds it on the server: the runtime that drives one conversation,
its transcript and its retries; what starts or continues conversations (routines,
goals, sub-agents); what they use (background commands, MCP servers); how clients
follow them; and how the server updates itself. TLC checks every module on a small
instance; TLAPS proves the safety properties of nine of the ten components for
every value of the constants.

All paths below are relative to `src/packages/core` unless they start with
`src/`.

## Reading order

| Module | Models | Checked by |
| --- | --- | --- |
| `RunOwner.tla` | what the runtime promises: one run owns the transcript | implemented by `AgentRuntime` (`agent_core`) |
| `AgentRuntime.tla` | `ai/agent.ts`, class `Agent` | `agent_core`, `agent_repeat` |
| `AgentRuntime_proofs.tla` | theorems about `AgentRuntime` | TLAPS |
| `RoutineScheduler.tla` | `routine/scheduler.ts`, its rows, runner and prompt path | `routine_core`, `routine_changes` |
| `RoutineScheduler_proofs.tla` | theorems about `RoutineScheduler` | TLAPS |
| `GoalLoop.tla` | `agent/goal-runner.ts`, `goal/loop.ts` | `goal_core` |
| `StoredLog.tla` | what the stored transcript promises | implemented by `TranscriptRows` (`rows_core`) |
| `TranscriptRows.tla` | `agent/transcript.ts`, `agent/rewinder.ts`, `ai/compaction-span.ts` and the paths of `agent/session-agent.ts` that write history | `rows_core` |
| `TranscriptRows_proofs.tla` | theorems about `TranscriptRows` | TLAPS |
| `RetryChain.tla` | `agent/retry-manager.ts` and the callers of `agent/session-agent.ts` | `retry_core` |
| `FollowingTurns_proofs.tla` | theorems about `RetryChain` and `GoalLoop` | TLAPS |
| `TaskHub.tla` | `tools/task-hub.ts`, `tools/subagent-registry.ts` | `tasks_core` |
| `TaskHub_proofs.tla` | theorems about `TaskHub` | TLAPS |
| `BackgroundCommands.tla` | `tools/background.ts`, the processes and the close of a session | `background_core` |
| `EventStream.tla` | `emit` of `core.ts`, the socket of `src/packages/server`, the view of `src/packages/web` | `events_core` |
| `EventStream_proofs.tla` | theorems about `EventStream` | TLAPS |
| `McpAttachments.tla` | `mcp/manager.ts`, `mcp/attachment.ts`, `agent/mcp-host.ts`, the tools' registries, and the paths of the pool, the service and the sign-in that replace or close them | `mcp_core` |
| `SessionProcesses_proofs.tla` | theorems about `BackgroundCommands` and `McpAttachments` | TLAPS |
| `Updater.tla` | `src/packages/server/update`: `service.ts`, `stage.ts`, `install.ts` | `updater_core` |
| `Updater_proofs.tla` | theorems about `Updater` | TLAPS |
| `MC*.tla` | the small instances | |

The program is single threaded. Everywhere below *one action is the code that
runs between two awaits*; all interleavings of such pieces are explored.

## The system

A server holds conversations ("sessions"). Each open session has a session
agent, which wraps an agent runtime, and everything else either prompts it,
stops it, feeds it tool results or watches its events.

| Component | State it keeps | Operations | Talks to |
| --- | --- | --- | --- |
| Agent runtime (`ai/agent.ts`) | run counter, running flags, steer queue, transcript, waiter, abandoned run, repeat guard | prompt, continue, steer, abort, close, waitForIdle; the run's turn and tool loop | model stream, tools, hooks of the session agent |
| Session agent (`agent/session-agent.ts`) | closed flag, active routine, publication of contexts, deliveries | prompt, promptWhileRunning, notifications, abort, rewind, close | runtime, transcript rows, retries, goal loop, rewinder, compaction, task hub |
| Transcript rows (`agent/transcript.ts`) | base position and count of the stored rows behind the view | persist, insertAt, forgetFrom, truncateFrom, reload | database, rewinder, compaction |
| Rewinder (`agent/rewinder.ts`) | the rewind in flight | rewind, settle | runtime, rows, retries, goal loop |
| Retries (`agent/retry-manager.ts`) | one budget per kind of failure, a parked restart, an abort epoch | classify, resumeOnce, reset, abort | runtime |
| Goal loop (`agent/goal-runner.ts`, `goal/`) | epoch, loopRunning, the goal's row | start, cancel, cancelWhenRewound, maybeRun; judge and turn | session agent, judge model, session row |
| Compaction (`ai/context-compaction.ts`, `ai/compaction-span.ts`) | none (a span is computed from the transcript) | choose a span, summarise, insert a checkpoint | summary model, rows |
| Session pool (`agent/pool.ts`) | open sessions and their agents | open, close, rebuild, change model or workspace | session agents, MCP, background commands |
| Routines (`routine/`) | rows, runs in flight, stop requests, timers | tick, runNow, stop, update, delete; checks of watches | pool and session agents through `core.ts` |
| Sub-agents (`tools/task-hub.ts`) | tasks, waiters, slots | spawn, wait, stop, resume, deliver | child runtimes, the parent's notifications |
| Background commands (`tools/background.ts`) | slots, processes, tails | start, read, kill, close | processes, notifications |
| Questions and hand-overs (`tools/ask.ts`, `vm/handover.ts`) | the open question | ask, answer, reject | the user's client |
| MCP (`mcp/`, `agent/mcp-host.ts`) | connections and discovered tools of a manager, the attachment in force, OAuth state | attach, discover, call, reconnect, replace, close | server processes, session agent, sign-in |
| ChatGPT sign-in (`models/chatgpt/`) | credential, refresh in flight | sign in, refresh, sign out | token endpoint |
| Event stream (`src/packages/server/routes/ws-stream.ts`, `src/packages/web/src`) | revision per session, batches, the client's view | publish, flush, snapshot, merge | browsers, peers |
| Updater (`src/packages/server/update`) | staged package, marker files, installed files, a restart | check, download, apply, restart | the file system, the supervisor |
| Storage, settings, providers, tools, browser, notifications, web, desktop | configuration or rows without concurrency of their own | | |

`PROJECT.json` lists every component with its sources, and the reason where it
is not modelled.

What is hard here:

* **Interleaving.** A stop does not wait: `abort()` settles the caller and the
  flags at once and lets the turn it stopped return whenever its stream or tool
  does, into a conversation another run owns by then.
* **Stale reads.** The scheduler, the goal loop, the rewinder and the retries
  all read a row or a flag, await seconds or minutes, and act on it.
* **Requests remembered.** Stop requests, queued messages, parked restarts and
  abandoned runs are remembered in single fields or sets and outlive what they
  were meant for.
* **Joined prompts.** A prompt to a running conversation is queued into the
  exchange and returns at once: whoever awaited it to learn of an outcome
  (a routine, the goal loop) learns nothing.

What makes each modelled component correct:

* runtime: one run owns the transcript; what was stopped writes nothing; every
  caller is released; nothing queued is lost; every request has its results;
* routines: one exchange per conversation; a due routine runs; a stop reaches
  its own run and only that; the row tells what happened;
* goal loop: one loop per session; a cancelled loop changes nothing; a goal is
  driven to its end; iterations count runs;
* transcript rows: positions match the table; cuts keep calls with their results;
  a checkpoint stands for what it replaces; an undo takes an end and only that;
* retries: budgets hold; a parked restart has one caller; a stop stays a stop;
* sub-agents: a result reaches its parent once; the roster is true; all end;
* background commands: a process has a record; its end is told once, with its
  cause; a close leaves nothing running unsignalled;
* event stream: nothing twice, out of order or after its undo; a client that
  waits for nothing shows the session as it is;
* MCP: no connection outlives its manager; the tools of an agent are those of the
  attachment in force; nobody waits for ever;
* updater: one whole version is installed; the status is true; a restart brings
  what it promised; the newest release arrives.

## AgentRuntime

**State.** One variable per field of `Agent` that its control flow reads
(`runId`, `abandonedRunId`, `runningInner`, `isStreaming`, `abortRequested`,
`closed`, `steerQueue`, `resolveRun`, `running`, `messages`,
`repeatSignature`, `repeatCount`), and for every run the place where its
continuation is parked (`pc`) with the tool calls of its turn (`turn`).
`waiting` is the callers' side of the run's promise. `abandoned` and `unseen`
are history variables, read by properties only. A message is an id and a role,
a tool call an id and a signature; texts, timestamps and events are left out.

**Actions.** Callers: `Prompt`, `Steer`, `Continue`, `AppendMessage`, `Abort`,
`Close`, `Rewind` (the cut the rewinder makes in the live transcript of an idle
agent). A run: `BeforeStepReturns`, `TurnReturns`/`TurnFails`/`TurnThrows` (the
stream), `TurnEnds`/`TextTurnEnds` (`exchangeLoop` resumes), `ToolReturns`,
`ToolsDone` (`executeTools`), `DrainNext`, `RunEnds`, `Settle` (`__run` and its
`.finally`). A continuation that is already queued (`Queued`) runs before the
next I/O result is delivered; a caller's own continuation may still come first.

**Env** switches on what the environment may do, so that a run can ask its
question with and without it: the stream leaves tool calls to `executeTools`
(`fallback`), fails after it ran tools (`midTurnError`) or rejects (`throw`); a
caller starts a run after the `finally` of the last one and before the settlement
that releases that one's caller (`settleGap`), or queues while a stopped run's turn
is out (`lateSteer`); a rewind cuts the live array (`cutInView`). `MaxLate` bounds the stopped runs whose turn is out at a time.

**Runs.**

| Run | Question | Instance |
| --- | --- | --- |
| `agent_core` | Does one run own the transcript (`RunIsOwned`, with types, the live run, the waiter, `waitForIdle` and the effect of a stop), does a stopped run write nothing, is nothing queued lost, does every request carry a result for every call, do results stay behind the message of their turn and answer a call once (`ResultsStayInTheirTurn`), does everybody return (fairness), and is `RunOwner` implemented? | 2 runs, 2 messages, 2 calls, 1 late turn; tools run by the stream or the runtime, failing streams, rewinds in the view |
| `agent_repeat` | Is a reminder earned? | 2 runs, 3 calls of 2 signatures (symmetric), reminder at 2, a context snapshot, rejecting streams |

Two runs are what a stop needs to have a successor (the theorems below hold for
any number); two calls are a batch with one answered and one not, three calls of
two signatures a repetition that is interrupted and taken up again.

**Fairness.** The newest run moves or is stopped: the runtime has no timeout of
its own, so a stream or tool that never returns is ended by the user's
`abort()`. What the event loop has queued runs. Nothing is assumed of the turn
of a stopped run: it may never come back.

## RoutineScheduler

**State.** The clock, the routines' rows, the calls of `run()` in flight (`act`,
at most `MaxSlots` per routine), watches being checked, the two sets of stop
requests, and of each conversation whose exchange it streams and the routine it
names (`activeRoutineId`). A schedule is a kind with a period, what a watch
observes a counter.

**Actions.** `Tick`, `RunNow`, `Poll` (the wait for a busy conversation),
`CheckReturns`, `Deliver` (open, attach, prompt), `ModelFails`, `RunEnds`,
`Resume`, `ResumedEnds` (one retry), `Stop`, and the environment: `UserPrompt`,
`UserRunEnds`, `Rebuild`, `Toggle`, `Edit`, `Delete`, `SourceChanges`.

| Run | Question | Instance |
| --- | --- | --- |
| `routine_core` | Two routines of one conversation and its user: one exchange at a time, whose routine the conversation names (`ExchangesAgree`); no stop cuts a run of the user's; every run ends? (fairness) | 2 timed routines, a user's run, a manual run, stops, failures, retries, rebuilds |
| `routine_changes` | Does no stop request outlive the runs it was for, and no result make a slot due again (`RunsLeaveNothing`)? | 1 watch, 2 slots, everything but an edit during a check |

One routine with two slots gives a run that waits while the other is out; two
routines of one conversation give the competition for it. Four ticks of the
clock are two periods of the timed schedule.

**Fairness.** Timers fire, opening and prompting answer, an exchange ends (or is
stopped, see the runtime), a check answers (its shell command has a timeout).

## GoalLoop

**State.** The goal of the session's row (the prompt that declared it and its
iteration), where its declaration is, the prompts of the user and the loops with
the await each is at, and whose exchange the conversation runs. A loop that was
cancelled, or whose agent was replaced, may still await its judge. `completed`
and `orphaned` are history.

**Actions.** The loop: `VerdictEndsGoal`, `VerdictGoesOn`, `VerdictUnheeded`,
`JudgeFails`, `GoalTurnEnds`, `NextRound`. The prompt path: `Send`, `Proceed`,
`RunEnds`, `PromptSettled` (which asks for the loop). The user and the
configuration: `Cancel`, `AbortGoal`, `RewindGoal`, `Compact`, `Rebuild`.

| Run | Question | Instance |
| --- | --- | --- |
| `goal_core` | Is a goal driven by one loop and never by nobody (`GoalsHaveOneDriver`), does a cancelled loop change nothing, does every goal end? (fairness) | 3 prompts, 2 loops, 2 iterations; every optional behaviour but `replace` and `lateFailure` |

Two loops are one that was cancelled and still awaits its judge, and its
successor; three prompts are a declaration, one that joins or interrupts, and a
second declaration. The cap of 10 is 2 here: it is only compared and counted to.

**Fairness.** The judge answers or times out after 30 s (`goal/judge.ts`), an
exchange ends or is stopped, what `runPrompt` awaits around it returns.

## TranscriptRows and StoredLog

**State.** The table's rows, the agent's view, `base` and `count` of
`TranscriptStore`, where the live run is, the queue of steered prompts, the
summary being written (`summary`, with the numbers its caller keeps across the
await) and what a connected client was shown. A message is a stamp, a role and,
for a checkpoint, the messages it stands for. `undone` and `silenced` are
history.

**Actions.** `Prompt`, `Steer`, `Drain`, `GoOn`, `TurnLands` (with the rows it
writes), `Stop`, `BeginSummary` (by the step, by hand or by the idle timer),
`SummaryReturns`, `SummaryFails`, `Undo` in its four cases (behind the view, in
it, queued, nowhere), `Crash` (the process dies; the view is read anew) and
`Rebuild`. Where a compaction may cut is `CutPoints`; the weight of the
messages, which picks among them, is a free choice.

`StoredLog` is what the whole promises: one log, a beginning of which is
stored; a crash loses an end that was not stored and nothing else. The
refinement maps the log to the rows behind the view followed by the view.

| Run | Question | Instance |
| --- | --- | --- |
| `rows_core` | Do count and base stay true to the table (`ViewAndRowsAgree`), does every cut keep calls and results together, does a checkpoint stand for exactly what is in front of it, does an undo take exactly an end from memory, table and client, and is `StoredLog` implemented? | a fresh and a once condensed conversation, 4 new messages, a view of 6, contexts, silent routine runs, crashes, rebuilds |

Four new messages on top of a condensed conversation are a prompt, an answer
with a call and its result, and a summary that returns late; six in the view
let a cut fall in front of, into and behind what has rows.

## RetryChain

**State.** The five counters of `RetryManager` and its three parked fields, the
runtime reduced to "a run is live" and "something is queued", and for every
prompt (`Callers`) the await it is at and whether `abort()` came since it took
its epoch. `spent`, `stopped`, `outcome`, `told` and `failing` are history.

**Actions.** `Prompt`, `Steer`, `TurnEnds` with every kind of outcome
(`handleTurnEnd` and `classify`), `Settled` (the caller's run is over),
`Condensed`/`NotCondensed` (overflow), `Again`, `Wakes` (the backoff), `Stop`,
`Undo`, `Close`.

| Run | Question | Instance |
| --- | --- | --- |
| `retry_core` | Are retries bounded, is a restart always somebody's and never one of a stopped conversation (`RestartsAreOwned`), is the user told of an exchange that failed, does every prompt return? (fairness) | 2 prompts, every budget 1, a turn with tools, a steer, 2 stops or undos, a close |

Budgets are only compared and counted to, so 1 shows the last retry and the
refusal. **Fairness:** a request ends, at the latest by its timeout; a backoff
is a timer; a summary returns or fails; a caller whose await is over goes on.

## TaskHub

**State.** For every sub-agent its record (status, parent, depth, counters) and
where its loop is; for every agent the run it has and what it has been told,
by which way; the blocked `task_output` calls; the roster.

**Actions.** `Spawn`, `Wait`, `Send` (the tools, called by any agent that can
act), `TurnEnds` (a model turn and what the loop of a sub-agent does with it,
`finalize` included), `Wake` (a backoff), `Timeout` (of a wait), and the
session's `Prompt`, `Stop`, `Close`.

| Run | Question | Instance |
| --- | --- | --- |
| `tasks_core` | Does a result reach its parent once and by one way, with no wait orphaned (`ResultsArriveOnce`), is a settled sub-agent done, its status true and the roster bounded (`RosterIsTrue`), does every sub-agent end? (fairness) | 2 sub-agents nested or side by side, 1 retry, 2 waits or 1 message, a roster of 1, stop and close |

Two sub-agents are a chain (child and grandchild; the grandchild is at the depth
limit and has no `task_output`, so it waits for nobody) or siblings that compete for
the roster and may both be general ones: two waits are enough for the main agent to
wait for one that waits for another, for two siblings to wait for each other, and
for one to wait for itself, which the tool allows and only the wait's timeout ends.
A message is not combined with a wait in one behaviour. With two sub-agents the limit of two
that run at a time never refuses one: `Spawn`'s guard on it is there and not
exercised. **Fairness:** model calls have timeouts of their own, backoffs and waits
are timers.

## BackgroundCommands

**State.** For every command the place of its start or record, the process
itself, its timer and the two killed flags, the kill tool's call, what really
ended the process (`cause`), what the agent was told (`told`) and what was
recorded behind the close (`late`, all history); the completed list; the
session's close.

**Actions.** `Start`, `ProcessStarts` (a process runs before its start is
answered), `Spawned` (its record), `SpawnFails` (with the process running or not),
`Exit` (the process), `ExitSeen`,
`Finalize`, `Told` (flush, decode and settle, in that order), `TimerFires`,
`Kill`, `KillSignalled`, `KillReturns`, `CloseCommands`, `CloseSignalled`,
`CloseReturns`.

| Run | Question | Instance |
| --- | --- | --- |
| `background_core` | Are recorded processes limited, known and closed (`ProcessesAreAccountedFor`), is an end told once with its cause, is a kill or a close that reports success one (`EndsAreTold`), does everything settle? (fairness) | 3 commands, 2 slots, 1 completed record, processes that outlive the signal, starts that fail with and without a process, a close and starts behind it |

Three commands for two slots use a slot twice. A process without a record, of a
start on its way or one that failed, is limited, listed and killed by nobody, and
the properties say so (`Unrecorded`, `late`); what the comments promise beyond that
is a divergence (below). **Fairness:** spawns, callbacks, flushes and the waits of
a kill are bounded by timers; a process need not end by itself.

## EventStream

**State.** The server's session (messages, run, the answer being written,
steered prompts, one sub-agent standing for the panels), the revision, the
socket with the frames on it and the text in its batcher, the client's view,
the text waiting for an animation frame and the client's revision marker, the
snapshots being read (each at one of its requests) and the probe. Messages are
numbers in the order of their stamps. `undone`, `told` and `steered` are history.

**Actions.** The session: `StartRun`, `Begin`, `Type`, `Answer`, `Add`, `Steer`,
`EndRun`, `Checkpoint`, `Undo`, `TaskMoves`, each with the event it emits. The
wire: `Flush`, `Deliver` (`handleEvent` and the reducer), `Paint`, `Drop` (a
socket dies in silence), `Noticed`, `Open`, `Opened`. Snapshots: `Refresh`,
`ReadSnapshot`, `ReadPanels`, `ReadFails`, `Apply`. The probe: `ProbeReads`,
`ProbeAnswers`. `Merged` is the folding of a page into the view, one message
(`Placed`) after the other.

| Run | Question | Instance |
| --- | --- | --- |
| `events_core` | Is nothing shown twice or after its undo and text never left beneath its answer (`ViewIsSound`), is what is shown in order and, when nothing is on its way, all there is (`ViewIsTrue`), and does a client that lost frames come to show the session as it is? (fairness) | 4 events, 3 messages, pages of 2, one dead socket, one snapshot at a time, steers and checkpoints |

Four events are a whole answer (start, begin, text, end) or a steered one; a
page of two with three messages is one the transcript outgrows. With
`MaxSyncs = 2` snapshots overlap, which is a divergence (below). **Fairness:**
frames and answers arrive, the watchdog and the probe are timers; the client
need not be refreshed and the batch need not be flushed by its timer.

## McpAttachments

**State.** The managers of one session (one per attachment: their connections,
what they discovered, whether they close), every connection with the calls on it,
the attachment in force and the next one, the tools in the agent's registry, the
prompt that waits for a discovery, the sign-in, and the session. `called`, `undue`
and `hushed` are history: calls sent, failures that were not the server's, grants
stored for a sign-in that was cancelled.

**Actions.** A connection: `Connected`, `Refused`, `Listed`, `ListFails`, `Lost`,
`Closed`. A call: `CallTool`, `Answered`, `ProtocolError`, `Gone` and its second
attempt. The close of a manager: `SweepNext`, `SweepEnds` (which waits for
connections on their way) and the sweep after it. The session: `Prompt`, `Woken`,
`RunEnds`, `Stop`, `ChangeConfig`, `Swap`, `Rebuild`, `Close` and what it awaits.
The sign-in: `BeginSignIn`, `CancelSignIn`, `Exchanged`, `ExchangeFails`,
`SignedIn`.

| Run | Question | Instance |
| --- | --- | --- |
| `mcp_core` | Does no connection outlive its manager, does an agent find the tools in force and no others, has a server one connection at a time and no call on one that nobody answers on (`OneConnectionPerServer`), is everybody answered? (fairness) | 2 servers, one behind a sign-in; 2 calls at once, 1 prompt, 1 lost connection, 1 edit, rebuild or sign-in; a close at any moment |

Two managers are one that is replaced and its successor; two calls are what a
lost connection needs to be dropped twice. A connection is begun, and a manager made,
only while there is a number for it (`RoomFor`, `Swap`); the instance has enough of
both that neither guard is ever what stops a step. **Fairness:** connections, listings and
exchanges have timeouts, a call answers or its connection is lost or it is
stopped.

## Updater

**State.** What is on disk (`disk`: the files under their name, under `.new` and
as backups, the staged archive, its record and the applied marker) outlives the
process; `status` (with `#manifest` and `#staged`), the action that is under way
(`job`, the await it is at and what its rollback would undo) and the removals
nobody awaits do not. A version is a number, a file the version it belongs to.
`torn` is history: a process died while it replaced files, or could not put them
back; so is `status.unmarked`, a version whose files are in place and whose marker
could not be written.

**Actions.** `Tick` and the clicks start `check`, `download`, `apply` and
`restart`; `FetchAnswers`, `DropsStale`, `Stages`, `Staged`, `Unpacks`, `Prepares`,
`MovesAside`, `MovesIn`, `DropsPackage`, `Applied` are the pieces between the file
operations. `FetchFails`, `DownloadFails` (the download, the rename and the record
behind it), `UnpackFails`, `PrepareFails`, `SwapFails` (which starts `Restores` and
`RolledBack`), `RestoreFails` and `MarkFails` are their failures; a removal that fails
is not modelled. `HandsOver`, `HandOverFails`, `Crash`, `Stop` end the process;
`SuccessorStarts` and `OperatorStarts` begin one (`#reconcile`).

| Run | Question | Instance |
| --- | --- | --- |
| `updater_core` | Is what is installed always one version, does the status promise what is on disk, does a restart happen once and bring the version it promised, does the newest release arrive whatever was staged or failed before? (fairness) | 3 releases, the second adds a file in the middle; any restart mode and settings; 2 failures, 1 crash, 2 clicks |

Three releases are one that runs, one that is staged or installed and one that
overtakes it. A file that is added between two that are replaced is what a
rollback can forget. The version that should be installed (`Base`) is the one that
runs, unless the marker of a newer one could not be written: `MarkFails` leaves that
one installed, its package gone, and a status that still calls it ready. The
properties except that state by name, and the divergences below say what the code
promises of it. **Fairness:** requests have timeouts, file operations return,
the timer fires again, a shutdown has a budget (`shutdown.ts`), and what is
started starts. `Careful` leaves out a removal that is still under way when a later
network answer comes in (`slowRemovals`) and a page that offers the download of
what is installed already (`staleClient`).

## What the code does otherwise

What follows was found with the same modules. Each item is reproduced by giving
the constants named the values named and checking the property named; the passing
runs leave exactly that behaviour out (`Env`), and say so by its name, or do not
check the property named, which is defined in the module.

**Runtime**

* `AbandonedRunsWriteNothing` with `MaxRuns = 3`, `MaxLate = 2`:
  `abandonedRunId` is one id. Two stops with both turns out make the first run
  "not stale" again: its turn enters the transcript and its end clears the flags
  of the live run.
* `NoPromptUnread` with `lateSteer`: `__run`'s drain loop does not ask whether
  the run is stale; a late run takes the messages queued for its successor, and
  no turn answers them.
* `CallersAreHeld`, `CallersReturn` with `settleGap`: a run that is started between
  the `finally` of another and its settlement (one microtask, `agent.ts:386-393`)
  replaces the waiter; the settlement then finds a waiter that is not its run's and
  releases nobody, and the caller of the run that ended waits for ever. The flags
  (`OneLiveRun`), `IdleIsAwaitable` and `AbortEndsTheRun` are not touched.
* `ResultsFollowTheirCalls` (`ResultsStayInTheirTurn` without the exception for
  errors) with `midTurnError`: a stream that fails after it
  ran tools leaves their results behind an error message without the calls.
* `NoStrandedSteer` with `throw`: a rejecting stream ends the run past its drain
  loop; what was queued waits for the next run.
* `AbandonedRunsWriteNothing` with `fallback` and a reminder count: the repeat
  guard runs before the staleness check, so a stopped run appends a reminder.
* `ReminderEarned` with `cutInView`: a rewind inside the view keeps the repeat
  count of the calls it removed.

**Routines**

* `ChangesStartRuns` without `seam`: a watch is compared with a state looked up by
  object identity in rows parsed anew (`core.ts:838`), so every check is a first
  one and no watch ever starts a run; `vm/watch.ts:7-9` and the tests of the
  scheduler, whose runner answers by itself, expect that a change does.
* `DueRoutinesRun` with `stop`: stopping a running routine leaves its id among
  `cancelled`; the next scheduled run is dropped before it starts.
* `DisabledNeverStarts` with `toggle`: a routine switched off while its run
  waits for the conversation runs.
* `OkMeansItRan`: two routines together, or an agent rebuilt before the prompt,
  give an "ok" row although nothing ran.
* `FailureIsRecorded` with `modelFails`: `agent.prompt()` never rejects, so a
  failed exchange is recorded as ok.
* `StoppedRunsAreOver` with `stop`: a stop that arrives while the run opens its
  conversation finds nothing to interrupt, and the exchange starts afterwards.
* `DueFollowsTheSchedule` with `editInCheck`: a check that returns after its
  routine was edited writes the next run of the old schedule.

**Goal loop**

* `IterationsAreRuns`: the loop's next prompt joins the exchange the user
  started meanwhile and returns at once; the judge is asked again and again, and
  iterations are used up without a run. With `replace`, a verdict on one goal is
  applied to the goal declared since.
* `CancelledLoopsChangeNothing` with `lateFailure`: the judge's failure path
  does not ask whether the loop was cancelled and clears a newer goal.
* `RewoundGoalsStop` with `compact`: a rewind behind the model's view removes
  the goal's declaration and does not cancel it.
* `GoalsAreDriven` and `GoalsEnd` except goals marked `orphaned`: one whose
  exchange ended while a cancelled loop of the same agent still awaited its
  judge is looked at by nobody until the next prompt, and a closed agent leaves
  its goal in the row on purpose.

**Transcript rows**

* `RowsAreTheView` with `undoUnstored`: a prompt stopped before anything landed
  has no row; `forgetFrom` counts it as stored when the prompt after it is
  undone (`agent/transcript.ts:100`), so it never gets one and every later
  position is off. With `tailCut`, a checkpoint inserted at or behind `count`
  gets a second row (`agent/transcript.ts:89`). With `rebuildUnstored`, a
  rebuild takes the end without rows as stored; with `rebuildInSummary`, a
  summary in flight leaves the new store's count one short.
* `ClientsShowTheLog` with `undoUnstored`: an undo behind the view does not tell
  clients of messages without rows (`agent/rewinder.ts:119`).
* `UndoneStaysGone` with `lateSummary`: a summary asked for by a step or by hand
  is committed without a second look, so after an undo it brings a checkpoint of
  what was undone.
* `UndoKeepsWhatCameBefore` with `undoQueued`: the undo of a prompt that is
  nowhere cuts at the first message stamped later, which may belong to an older
  exchange (`agent/rewinder.ts:149`).
* `silenced`: the removal of a silent routine run is announced to nobody
  (`agent/session-agent.ts:805`).

**Retries**

* `StopStaysStopped` with `stopParked`: `abort()` leaves what is parked; a
  failed turn with a message queued goes on with its restart parked, and a stop
  of the next turn ends with the stopped prompt's caller sending it. With
  `undoAsleep`, an undo while a restart backs off does not end the backoff.
* `RestartsFollowTheirFailure`: a backoff that wakes after another prompt was
  queued sends its restart into or behind that run
  (`agent/retry-manager.ts:292`, `325`).
* `NothingIsExplained` with `emptyAtCap`: an answer at the output cap with
  nothing visible spends its budget and ends in silence.

**Sub-agents**

* `NoResultLost` with `stopBusy`: a result queued into a run that is then
  stopped is cleared with the queue.
* `LoopsReturn` with `closeAsleep`: a sub-agent that backs off while its session
  closes wakes to `sub.agent.state` of an agent that was released
  (`tools/task-hub.ts:628`) and dies of a `TypeError`.
* `SettledIsDone`, `StatusTellsTheTruth` with `steerAsleep`: a message to a
  sub-agent that backs off starts a run its loop does not know of.
* `StatusTellsTheTruth` with `failAfterTool`: a turn that fails after a tool
  answered leaves a result as the transcript's end, and the sub-agent is
  reported as finished.

**Background commands**

* `CloseStopsCommands`, in the run's own instance: `start` does not ask whether
  the session is open, and `killAll` takes what is recorded when it looks. A start
  on its way gets its record afterwards and is killed by nobody, although the
  commands are "guaranteed dead" once `close` resolves (`agent/pool.ts:115`) and
  "no command is reported as running" (`tools/background.ts:350`).
* `FailedStartsAreClean`, likewise: the start inside a machine throws when its
  answer is late or names no process, and the process it started runs on without a
  record (`vm/shell.ts:119`).
* `EveryEndIsHeard`, likewise: a kill that did not settle in time is reported as
  such, the end that follows is suppressed as a killed one's, and the agent never
  hears of it, although `agent/session-agent.ts:1008` says that the tool's own
  result reports the kill.
* `ProcessesAreLimited` with `startsTogether`: the slots are counted before the
  spawn is awaited (`tools/background.ts:225`).
* `ReasonIsTheCause` with `killLate`: a kill or timeout between a process's end
  and its settling is blamed for it.
* `EndIsToldOnce` with `killTwice` and `outlive`: a kill of a command whose
  timeout fired gives two ends, or none.
* `ProcessesAreKnown`, `ProcessesAreLimited` with `probeFails`: a machine that
  does not answer makes a live process look gone (`vm/shell.ts:141`).

**Event stream**

* `GapMeansLoss` (under `Spec`, no drop): `handleEvent` returns for a frame of
  text before it moves the marker, so the first other frame after any text is
  read as a gap and the snapshot is read again, although `events/equality.ts:47`
  and the comment at `useSessionEvents.ts:435` say that batched text is not.
* `ViewIsTrue` (`ShownInOrder`) with `steeredSummary`: a compaction puts its
  summary in front of a steered prompt, which is stored behind the answer and was
  shown before it; the client puts the summary in front of the prompt where it
  shows it (`events/reducer.ts`), and so before an answer that it comes after.
  Five events are needed. With `MaxSyncs = 2`, and no optional behaviour at all: a
  page that was read before an undo is folded in after the undo and a newer message
  have arrived; the message it would have stood in front of is gone, and it is
  appended behind newer ones (`events/merge.ts:108`).
* `ViewIsTrue` (`QuietViewIsTrue`) with `panelRace`: panels of a snapshot overwrite what an
  event changed while it was read (only run state, questions, error and title
  are compared, `events/snapshot.ts:37`). With `MaxSyncs = 2` or `crossed`, a
  snapshot whose run state changed by the application of another one counts as
  overtaken by an event, and a run that ended unseen stays shown as running.
* `QuietViewIsTrue`, with `undoUnseen`: an undo the client missed stays on the
  screen, since merging never deletes; with `undoRead` a page read before an
  undo replaces a view it shares nothing with; with `undoPage` an undo of all
  that is loaded leaves the view empty and its cursor null, so that older
  history cannot be reached.
* `QuietViewIsTrue`, with `steerUnseen`: a steered prompt announced while the
  socket was down is in no snapshot until it is stored, and storing it is no
  event.
* `QuietViewIsTrue`, with `behindAPage`: a live message that arrives before the
  snapshot makes a page overlap that would have replaced the view, and a hole
  stays in it (`events/merge.ts:23`). The same hole appears without that option
  from eight events and two dead sockets on: a client that missed two summaries
  put in front of one message and the message after them reads a page that holds
  that message, overlaps the view and ends behind the second summary.
* `ViewIsTrue`, with steers and checkpoints together and nine events: a steered
  prompt whose place was moved by a lost frame stands in front of messages the
  page puts before it. Both were found by simulation of larger instances.
* `QuietViewIsTrue`, with `readFails`: the marker moves although a part of the
  snapshot could not be read, so nobody asks again.

**MCP**

* `CallsDoNotFailOthers`: a call whose connection was lost connects again and
  repeats; another call that failed on the old connection drops the new one
  (`mcp/manager.ts:173`), and the first call's second attempt fails with it.
* `PromptsAreDelivered`: a prompt that waits for the discovery is dropped in
  silence when the idle session is rebuilt meanwhile.
* `ClosedMeansDead`: the close of a connection that was dropped before is awaited
  by nobody, so a server process may outlive the close of its session although
  `agent/pool.ts:113-115` says it is dead by then.
* `hushed`: a sign-in cancelled while its code is exchanged stores the grant all
  the same, and no session is told to use it.

**Updater**

* `StagedIsApplied`: in automatic mode a package that was staged and failed to
  install, or was staged by hand, is not installed by later checks: `check`
  returns for a staged package that is the newest (`service.ts:385`), although
  its comment says "downloaded and applied right away".
* `TearsMend`: a crash between the renames leaves files of two versions, or no
  binary, and the next start removes the backups and `.new` files that could
  mend it (`install.ts:384`), although `install.ts:209-211` calls the first case
  recoverable.
* `FailedAppliesRestore`, `ReadyCanBeRetried`: "on any failure the previous files are
  restored ... the staged package is kept, so a retry is possible"
  (`install.ts:138-141`). When the applied marker cannot be written
  (`install.ts:281`), the new files stay in place, the package is gone, and the
  service reports a failed installation of a package that is ready
  (`service.ts:496-498`); each retry fails to unpack it, until the server is
  restarted or a newer release comes.
* `RollbacksRestore`: a file that cannot be moved back stays a backup
  (`install.ts:257` ignores the error), and the error the user is shown says that the
  previous files were restored (`install.ts:268-270`).
* `StopIsFinal`: a restart that was scheduled, or an update that ends with
  automatic restart, during the drain of a stopped server starts a successor.
* `StatusIsTrue` with `slowRemovals`: the unawaited removals of `#reconcile` and
  `check` (`service.ts:256`, `273`, `382`) take the record of a package staged
  since. With `staleClient`, a download while a restart is scheduled that fails
  resets `restarting`, and a second restart can be scheduled.

## What is proved

Every theorem holds for every value of the constants that the module's assumption
allows: any number of runs, messages, calls, prompts, loops, commands, sub-agents,
routines, versions, failures and crashes. A hypothesis `x ∉ Env` leaves one
behaviour of the environment out. Nearly all of these hypotheses are boundaries:
with the one behaviour put back into the instance of the run, TLC finds the property
violated. They are not where the proof's invariant is lost although the property
holds on the instance: `steerAsleep` for `ResultsAlwaysArrive`, both of
`PromisesStand`, `tailCut`, `undoUnstored`, `undoQueued` and `rebuildInSummary` for
`TurnsStayWhole`, `undoQueued` for `ViewAndRowsAlwaysAgree` and `TheLogIsStored`,
and `rebuildInSummary` for `CheckpointsAreTrue`. All proofs have the same shape: an
inductive invariant holds at first (`...Init`), every action keeps it (one lemma per
action or group of actions that do the same), and it implies the property. TLC
checked each inductive invariant on the small instance before it was proved.

**Runtime** (`AgentRuntime_proofs.tla`)

| Theorem | Hypotheses | Property |
| --- | --- | --- |
| `TypeCorrect` | none | `TypeOK` |
| `RunsAreOwned` | `MaxLate <= 1`, no `settleGap` | `RunIsOwned` |
| `StoppedRunsWriteNothing` | `MaxLate <= 1`, no `lateSteer`, no `fallback` or no reminder | `AbandonedRunsWriteNothing` |
| `RuntimeImplementsRunOwner` | the same | `ImplementsRunOwner` |
| `NothingSaidIsLost` | `MaxLate <= 1`, no `lateSteer`, no `throw` | `NothingQueuedIsLost` |
| `RequestsAreWhole` | `LeftOversAreAlone` | `CallsAnsweredAtRequest` |
| `ResultsStayWithTurns` | `LeftOversAreAlone` | `ResultsStayInTheirTurn` |
| `RemindersAreEarned` | `MaxLate <= 1`, no `fallback`, no `cutInView` | `ReminderEarned` |

`RunsAreOwned` joins five theorems, one per conjunct of the property;
only `CallersAreHeld` and `IdleIsAwaitable` are proved with the hypothesis on
`settleGap`, and TLC finds the second to hold without it.
`LeftOversAreAlone` asks nothing of a transport that runs every tool itself. With
one that leaves calls for `executeTools`, it asks that stops come one at a time,
that nobody queues while a stopped turn is out, and that neither context nor
reminders are written in between.

* `TypeInv` adds to the types that a turn with calls out has calls (the repeat
  guard reads the last one) and that a run in flight is numbered.
* `OwnerInv` adds that runs beyond `runId` have not started and that the one
  abandoned run still in flight is the one `abandonedRunId` names. This is what
  makes `isStaleRun` mean "stopped", and it is the fact a second late turn
  destroys; `OneLiveRun` alone is not inductive.
* `HeldInv` adds that whoever waits has the runtime's waiter; `CleanInv` adds
  that nothing is queued or left to answer for a late run, so that its return
  has nothing to write. The refinement maps the owner to the newest run while
  the flags say it runs; each action then is one action of `RunOwner` or a
  stutter.
* `QuietInv` adds to `CleanInv` that a closed runtime runs nothing and that a run
  past its request has sent all it was told. A stream that rejects (`throw`) ends a
  run without another look at its queue, which is why it is excluded.
* `AnswersInv` is about the transcript alone (`Sound`): ids are counted, the calls
  of two messages are apart, each is answered at most once and right behind
  its message, an answer nobody calls for stands behind an error, and the calls a
  turn still owes come last. It says nothing of runs, so the
  proof asks of each step only how it extends or cuts the transcript.
* `EarnInv` is about the transcript and the repeat guard. Every reminder is earned
  (`AllEarned`), and so is the count the next one will come from (`CountIsBacked`):
  that many calls of its signature stand in a row, with nothing between them but what
  stopped runs left uncounted, and behind them only the batch that landed and waits
  for its count, which is the last one (`BatchIsLast`). The transcript must not lose
  the row without the count, hence no `cutInView`; the calls must be counted by the
  run that made them and before another's, hence the hypotheses that make a stopped
  run write nothing. A row and its reminder outlive every step because a step only
  appends or cuts the end (`Follows`).

**Routines** (`RoutineScheduler_proofs.tla`)

| Theorem | Hypotheses | Property |
| --- | --- | --- |
| `ExchangesAlwaysAgree` | none | `ExchangesAgree` |
| `UserRunsGoOn` | none | `UserRunsAreNotCut` |
| `RunsLeaveNothingBehind` | no `editInCheck` | `RunsLeaveNothing` |

`ExchangeInv` adds to the property that a run awaits a conversation of its own row.
The second theorem is an action property from it: `stop` looks at nothing but the
routine the conversation names (`core.ts:812`), so it rests on `ActiveIsStreaming`,
that the name never outlives the run that set it. `LegacyInv` adds that a stop
request is spent with its run, that the next slot of an enabled routine lies within
one period, and that what is checked is a watch; an edit while the check is out
breaks the second.

**Goal loop** (`FollowingTurns_proofs.tla`, second part)

| Theorem | Hypotheses | Property |
| --- | --- | --- |
| `GoalTypes` | none | `GoalTypeOK` |
| `OneLoopActs` | none | `OneLoop` |
| `EveryGoalIsDriven` | none | `GoalsAreDriven` |
| `OneDriverAtATime` | none | `GoalsHaveOneDriver`, the three above together |
| `CancelledLoopsLeaveQuietly` | no `lateFailure` | `CancelledLoopsChangeNothing` |

`LoopInv` adds to the types that a free loop carries no cancellation over, that
a loop of a closed agent is cancelled, that the judge is only asked below the
cap and that the prompt whose exchange runs belongs to an open agent. `OneLoop`
follows from a stronger form (any two loops that may act are the same), since a
second loop only starts when none of the current agent is out. `GoalsAreDriven`
is not inductive: an exchange that runs may be the turn of a cancelled loop,
which asks nobody. `Driven` counts a prompt's exchange only, and a loop's turn
through the loop.

**Transcript rows** (`TranscriptRows_proofs.tla`), all under `Tame`: none of
`tailCut`, `undoUnstored`, `undoQueued`, `rebuildUnstored`, `rebuildInSummary`,
`lateSummary`

| Theorem | Property |
| --- | --- |
| `ViewAndRowsAlwaysAgree` | `ViewAndRowsAgree` |
| `TurnsStayWhole` | `CallsStayTogether` |
| `CheckpointsAreTrue` | `CheckpointsDescribeTheirPast` |
| `UndosAreAlwaysExact` | `UndosAreExact` |
| `TheLogIsStored` | `ImplementsStoredLog` |

`RowsInv` is stated over the log, the conversation from its first message on, and
says how table, view and a summary that is out lie in it (`Laid`, `Stands`). What
must survive every cut and insertion is a property of the log alone (`Sound`: each
id once, results behind their calls, a checkpoint for what is in front of it, a
view that starts at one). A summary is the hard part: it was computed from a view
that may have moved since. `Stands` says that it still fits, or that the message
that was the newest then is gone for good, in which case the commit of the idle
compaction, which looks for that message, drops it; one that is committed without
that look (`lateSummary`) has neither. The lemmas show once that a step which
appends (`Says`), cuts an end (`Cuts`) or puts one checkpoint in (`Condenses`)
keeps the invariant; each action then is one of the three or leaves the log
alone, and the same three are the actions of `StoredLog`.

**Retries** (`FollowingTurns_proofs.tla`, first part)

| Theorem | Hypotheses | Property |
| --- | --- | --- |
| `BudgetsBoundRetries` | none | `RetriesAreBounded` |
| `RestartsHaveOwners` | no `stopParked`, `undoAsleep`, `emptyAtCap` | `RestartsAreOwned` |

The first relates what was spent to the counters, which prompts share. `OwnersInv`
adds whose the live run is, that a parked restart has a prompt that is not done yet,
and that a caller which sleeps has seen no abort: whoever looks again after one finds
nothing parked, or a closed conversation.

**Sub-agents** (`TaskHub_proofs.tla`)

| Theorem | Hypotheses | Property |
| --- | --- | --- |
| `RosterCanBeBelieved` | no `steerAsleep`, no `failAfterTool` | `RosterIsTrue` |
| `ResultsAlwaysArrive` | no `steerAsleep`, no `stopBusy` | `ResultsArriveOnce` |

`LoopInv` says that the loop of a sub-agent and its run go together (no run outside
the loop's await, none while it backs off, no loop once it is settled), that
sub-agents are numbered as they are started, and that who may delegate is above the
depth limit. `RosterInv` adds what a status means and the bound of the roster;
`ResultsInv` adds that news is of settled sub-agents only.

**Event stream** (`EventStream_proofs.tla`)

| Theorem | Hypotheses | Property |
| --- | --- | --- |
| `ViewStaysSound` | none | `ViewIsSound` |

No optional behaviour is excluded and no number is bounded: snapshots may cross,
pages may be read before an undo and applied after it, sockets may die at any time.
Three parts of `StreamInv` carry the proof. `StoredOnce`: a message is in the
transcript or among the steered prompts once, hence once in every page. `UndoneIsKnown`:
the view has a tombstone for all it heard undone, and no frame behind the frame of an
undo brings back what the undo removed, nor does one on the wire bring what has a
tombstone already. `TextIsAhead`: text that waits, on the wire, in the batcher or for
an animation frame, is of an answer whose end has not been put in front of it. The
first needs that `Merged`, which folds a page, yields nothing twice: `PlacedWell` says
after each message of the page that what is placed is the view up to a place, with new
messages of the page between, and what waits is new. Folds and filters are written as
functions over `0 .. Len`, and the lemma `UpTo` carries a set of positions from one to
the next (by the least position that is missing, not by an induction scheme).

**Background commands** (`SessionProcesses_proofs.tla`, first part)

| Theorem | Hypotheses | Property |
| --- | --- | --- |
| `RecordsMatchProcesses` | no `probeFails`, `startsTogether` | `ProcessesAreAccountedFor` |
| `EveryEndIsTold` | no `probeFails`, `killLate`, `killTwice` | `EndsAreTold` |

`PlaceInv` says for each place of a record what its process may be and what may
have ended it; both theorems rest on it. `AccountInv` adds that slots are counted, that
kills are settled and that a close takes every record but those made behind it,
`EndsInv` that the marks of kill and
timeout are true, and that the agent was told once and the truth.

**MCP** (`SessionProcesses_proofs.tla`, second part)

| Theorem | Hypotheses | Property |
| --- | --- | --- |
| `McpInvariant` | none | the inductive invariant `McpInv` |
| `NothingOutlives` | none | `NothingOutlivesItsManager` |
| `ToolsAreCurrent` | none | `ToolsAreTheCurrentOnes` |
| `OneAtATime` | none | `OneConnectionPerServer` |

The processes of a session, background commands and MCP servers, share a module of
proofs, which is why `BackgroundCommands` names its parts `CommandsInit`,
`CommandsNext` and so on. `McpInv` has three layers.
The wires (`Wires`): a connection from begun to closed is the one its manager holds for
that server, and what a manager holds is there. Above them the calls (`CallInv`: a call
waits for a connection on its way, or for an answer on one that is open or being given
up, of a manager whose discovery is over) and the discovery (`DiscoveryInv`: a manager goes through its servers
once, in turn, and holds nothing for those it has not come to). Above these the session:
one manager is open, the adopted one (`OpenInv`); the tools found are its own
(`ToolInv`), a server that asks for a sign-in has a reason (`AuthInv`), and who waits has
something that wakes it (`PromptInv`). Most actions of the code end in the same few steps
on the wires (begin a connection, drop, cut, end, mark one; make or close a manager), so
there is one lemma for each of those steps, and the lemma of an action names the ones it
is made of. `CallsFailForCause` is a conjunct of its own: a call's second attempt is
only begun on a manager that has not closed.

**Updater** (`Updater_proofs.tla`)

| Theorem | Hypotheses | Property |
| --- | --- | --- |
| `InstallationStaysWhole` | no `slowRemovals` | `InstallationIsWhole` |
| `StatusStaysTrue` | no `slowRemovals`, no `staleClient` | `StatusIsTrue` |
| `PromisesStand` | the same | `PromisesAreKept`, the safety half of `RestartsHandOver` |

`InstallInv` says where each file is at each step of the swap, read forwards
(`Forward`: files before `f` are of the new version, the others wait under `.new`)
and backwards (`Back`: what was moved aside and what was added are what undoes the
swap), what is installed at rest (`Rest`), and what the applied marker means.
Versions that can still come have a place for every file that is there
(`NextFits`), which is where `UpdaterAssumption`, packages that only grow, is used.
`StatusInv` adds that a package that is ready stays on disk (`PackageStays`) and
until it is installed, and that a restart is for what is installed (`RestartIsDue`);
`Promises` that this is what a process that goes leaves to its successor. `Back`,
`Rest` and `PackageStays` speak of `Base` and of `status.unmarked`, because an
installation that could not be recorded is whole and no longer the version that runs.

**Only model-checked** are

* liveness: `EverythingReturns`, `RunsEnd`, `GoalsEnd`, `PromptsReturn`,
  `EveryTaskEnds`, `EverythingSettles`, `ViewCatchesUp`, `EverythingAnswers`,
  `UpdatesArrive` and the leads-to half of `RestartsHandOver`. They rest on
  fairness, hence on `ENABLED`, which is outside what the prover handles;
* `ViewIsTrue` of `EventStream`, order and completeness at rest. It is true of
  the instance of `events_core` and not of every value of the constants: more
  events, with summaries, or summaries and steers, under lost frames, violate it,
  and so do overlapping snapshots (the divergences above), so no theorem can
  state it. Without summaries, simulation of instances of eight and nine events
  found no violation of either, and without steers none of order; these
  simulations are no part of the runs.

## Plan

Done: the runtime with its abstract specification, routines, the goal loop, the
transcript rows with theirs, retries, sub-agents, background commands, the event
stream, MCP, the updater; proofs of both refinements and of every safety property but
`ViewIsTrue`.

Left, in this order:

1. The ChatGPT sign-in (one token refresh for concurrent callers) and the
   questions (one answer each, none left by a stopped run), both small.
2. One module of the session agent's paths together (prompt, stop, undo, retry,
   goal, notification), over the promises of the modules above.

Runs stay few: one per component and question.

## Not modelled

Model providers and their protocols (their outcomes are choices of the models
above), the tools' own effects, the machines' container engine, the browser and
desktop drivers, push delivery, HTTP routing, rendering, configuration lookups:
pure I/O or without concurrency of their own. Of the modelled components the
request fingerprint and message timestamps of the runtime, the calendar
arithmetic and input validation of routines, and the wording of prompts and
verdicts are left out. Of MCP, a sign-in before the browser comes back, two sign-ins
that share a code verifier, a session that is opened again while it closes and a
rebuild behind a sign-in that throws once the old manager is closed
(`agent/pool.ts:307-314`); of
the updater, removals that fail (`removeQuietly` and `.catch` ignore it), records
written in part, and the new release's assets served by the old server before its
restart (`install.ts` replaces them in place), files that a newer package drops
(none is ever removed; `UpdaterAssumption` says that packages only grow) and a
successor that does not get its port (`mod.ts`). The ChatGPT sign-in and the questions
are small and come next in the plan.

## Running

`tlc -workers 2 -config AgentRuntime_core.cfg MCAgentRuntime.tla` and so on for
each run of `PROJECT.json`; `tlapm AgentRuntime_proofs.tla` and so on for the
proofs, of which that of `TranscriptRows` takes longest.
Every mutant of `PROJECT.json` replaces one definition by the operator above it
whose comment begins with "Mutation:"; those operators are used nowhere else.
