---------------------------- MODULE AgentRuntime ----------------------------
(***************************************************************************)
(* One live agent: packages/core/ai/agent.ts, class Agent.                 *)
(*                                                                         *)
(* The runtime is single threaded: an action is the code that runs between *)
(* two awaits.  A run (startRun/__run) may be abandoned by abort() while   *)
(* its turn is still in flight; the turn then returns at any later time,   *)
(* or never, while a newer run already owns the transcript.                *)
(***************************************************************************)
EXTENDS Naturals, Sequences, FiniteSets

CONSTANTS
    MaxRuns,     \* bound: runs started (runId)
    MaxMsgs,     \* bound: prompts, steers and follow-ups
    MaxContexts, \* bound: context snapshots
    PromptRoles, \* roles a prompt or steer may have
    MaxCalls,    \* bound: tool calls issued by the model
    MaxBatch,    \* bound: tool calls in one turn
    Signatures,  \* tool name + arguments, as the repeat guard tells calls apart
    RemindAt,    \* REPEAT_REMINDER_AT
    MaxLate,     \* abandoned turns that may be out at the same time
    Env          \* which optional behaviours of the environment may happen

\* The optional behaviours.
Behaviours == {
    "fallback",      \* the stream leaves tool calls for executeTools to run
    "midTurnError",  \* the stream fails after it delivered tool results
    "throw",         \* the stream generator rejects (credential lookup)
    "settleGap",     \* a prompt lands between a run's end and its settlement
    "lateSteer",     \* a message is queued while an abandoned turn is out
    "cutInView" }    \* a rewind cuts the live transcript instead of re-reading it

ASSUME BoundsAssumption ==
    /\ MaxRuns \in Nat /\ MaxMsgs \in Nat /\ MaxCalls \in Nat
    /\ MaxBatch \in Nat /\ MaxLate \in Nat /\ MaxContexts \in Nat
ASSUME DataAssumption ==
    /\ RemindAt \subseteq Nat
    /\ "none" \notin Signatures
    /\ PromptRoles \subseteq {"user", "notification"}
ASSUME EnvAssumption == Env \subseteq Behaviours

Runs  == 1..MaxRuns
Roles == {"user", "notification", "context"}
Msg   == [id : Nat, role : Roles]
Call  == [id : Nat, sig : Signatures]

\* A transcript entry; "run" is the run that wrote it, 0 for the session's own.
\* Results appended together are one entry holding the ids they answer.
Entry ==
    [kind : {"message"},    run : 0..MaxRuns, msg : Msg] \cup
    [kind : {"assistant"},  run : 0..MaxRuns, calls : Seq(Call)] \cup
    [kind : {"toolResult"}, run : 0..MaxRuns, answers : SUBSET Nat] \cup
    [kind : {"reminder"},   run : 0..MaxRuns, sig : Signatures]

(***************************************************************************)
(* Where a run's continuation is parked.                                   *)
(*   beforeStep  awaiting the pre-request hook                             *)
(*   turn        awaiting the model's stream                               *)
(*   landed      step() returned, exchangeLoop has not resumed             *)
(*   tools       executeTools is awaiting the first of "missing"           *)
(*   toolsDone   executeTools returned, exchangeLoop has not resumed       *)
(*   returned    exchangeLoop returned, __run has not resumed              *)
(*   ended       __run finished, its .finally has not settled the waiter   *)
(***************************************************************************)
Parked == {"none", "beforeStep", "turn", "landed", "tools", "toolsDone",
           "returned", "ended", "done"}
InFlight == Parked \ {"none", "ended", "done"}

\* The continuations that are queued already.  They run before the event loop
\* delivers the next I/O result, but not before a caller's own continuation.
Queued == {"landed", "toolsDone", "returned", "ended"}

VARIABLES
    runId,           \* the newest run
    abandonedRunId,  \* the run abort() closed (ONE id)
    runningInner,
    isStreaming,     \* state.isStreaming
    abortRequested,
    closed,
    steerQueue,
    resolveRun,      \* run whose waiter the runtime holds, 0 when undefined
    running,         \* run whose promise waitForIdle awaits, 0 when resolved
    messages,        \* state.messages
    repeatSignature,
    repeatCount,
    pc,              \* continuation of every run
    turn,            \* calls of the run's newest turn, and those still missing
    waiting,         \* runs whose startRun caller still awaits its promise
    abandoned,       \* history: every run abort() closed
    unseen,          \* history: messages appended since the last request
    msgs, contexts, calls   \* counters behind the ids and the bounds

control == <<runId, abandonedRunId, runningInner, isStreaming, abortRequested,
             closed, resolveRun, running, waiting, abandoned>>
repeat  == <<repeatSignature, repeatCount>>
counts  == <<msgs, contexts, calls>>
vars    == <<control, steerQueue, messages, repeat, pc, turn, unseen, counts>>

NoTurn == [calls |-> <<>>, missing |-> {}]

Init ==
    /\ runId = 0 /\ abandonedRunId = 0
    /\ runningInner = FALSE /\ isStreaming = FALSE
    /\ abortRequested = FALSE /\ closed = FALSE
    /\ steerQueue = <<>>
    /\ resolveRun = 0 /\ running = 0
    /\ messages = <<>>
    /\ repeatSignature = "none" /\ repeatCount = 0
    /\ pc = [r \in Runs |-> "none"]
    /\ turn = [r \in Runs |-> NoTurn]
    /\ waiting = {} /\ abandoned = {} /\ unseen = {}
    /\ msgs = 0 /\ contexts = 0 /\ calls = 0

-----------------------------------------------------------------------------
(* Helpers *)

\* Mutation: a run counts as stale only once a newer one has started.
StaleOnceReplaced(r) == r # runId

isStaleRun(r) == abandonedRunId = r

\* Abandoned runs whose continuation is still out.
Late == {r \in abandoned : pc[r] \in InFlight}

MayQueue == Late = {} \/ "lateSteer" \in Env

CallIds(cs) == {cs[i].id : i \in DOMAIN cs}
Prompts(ms) == {ms[i].id : i \in {j \in DOMAIN ms : ms[j].role # "context"}}
HasUser(ms) == \E i \in DOMAIN ms : ms[i].role = "user"

Written(r, ms) ==
    [i \in DOMAIN ms |-> [kind |-> "message", run |-> r, msg |-> ms[i]]]
Results(r, ids) ==
    IF ids = {} THEN <<>>
    ELSE <<[kind |-> "toolResult", run |-> r, answers |-> ids]>>

\* Mutation: the user's message does not reset the repeat guard.
AppendKeepsCount(r, base, ms, sig, count) ==
    /\ messages' = base \o Written(r, ms)
    /\ unseen' = unseen \cup Prompts(ms)
    /\ repeatSignature' = sig
    /\ repeatCount' = count

\* append(): run r takes the messages ms, base being the transcript so far.  A
\* user (or mode) message resets the repeat guard, which is otherwise at
\* <<sig, count>>; a notification or a context snapshot leaves it.
Append_(r, base, ms, sig, count) ==
    /\ messages' = base \o Written(r, ms)
    /\ unseen' = unseen \cup Prompts(ms)
    /\ repeatSignature' = IF HasUser(ms) THEN "none" ELSE sig
    /\ repeatCount' = IF HasUser(ms) THEN 0 ELSE count

\* The top of exchangeLoop for a run that may go on: every queued message is
\* taken (after the messages "first"), then the pre-request hook is awaited.
LoopTop(r, base, first, sig, count) ==
    /\ Append_(r, base, first \o steerQueue, sig, count)
    /\ steerQueue' = <<>>
    /\ pc' = [pc EXCEPT ![r] = "beforeStep"]
    /\ turn' = [turn EXCEPT ![r] = NoTurn]

\* noteToolCalls(): how often the i-th call of a batch has now repeated.
RunLength(cs, i) ==
    Cardinality({j \in 1..i : \A k \in j..i : cs[k].sig = cs[i].sig})
CountAt(cs, i) ==
    RunLength(cs, i) + (IF RunLength(cs, i) = i /\ cs[i].sig = repeatSignature
                        THEN repeatCount ELSE 0)

\* The last call of the batch whose count is a reminder count earns one entry.
Reminder(r, cs) ==
    LET due == {i \in DOMAIN cs : CountAt(cs, i) \in RemindAt} IN
    IF due = {} THEN <<>>
    ELSE LET i == CHOOSE i \in due : \A j \in due : j <= i
         IN  <<[kind |-> "reminder", run |-> r, sig |-> cs[i].sig]>>

\* Mutation: a stop leaves the transcript as it is.
NothingHealed == {}

\* Mutation: a stop answers the whole last batch, what has its result included.
HealedAgain ==
    UNION {CallIds(messages[i].calls) :
             i \in {j \in DOMAIN messages :
                      /\ messages[j].kind = "assistant"
                      /\ \A k \in (j+1)..Len(messages) :
                             messages[k].kind = "toolResult"}}

\* healUnansweredToolCalls(): the calls of the trailing assistant message that
\* no result after it answers.  Anything but results after it ends the search.
Unhealed ==
    {c \in UNION {CallIds(messages[i].calls) :
                    i \in {j \in DOMAIN messages :
                             /\ messages[j].kind = "assistant"
                             /\ \A k \in (j+1)..Len(messages) :
                                    messages[k].kind = "toolResult"}} :
        \A k \in DOMAIN messages :
            messages[k].kind = "toolResult" => c \notin messages[k].answers}

-----------------------------------------------------------------------------
(* The callers' side: prompt, continue, steer, abort, ...  "a closed agent is
   never resumed" (agent.ts 366) is the callers' promise, hence ~closed. *)

\* startRun() and the part of __run() before its first await.
StartRun(first) ==
    /\ runId < MaxRuns
    /\ "settleGap" \in Env \/ \A r \in Runs : pc[r] # "ended"
    /\ runId' = runId + 1
    /\ resolveRun' = runId'
    /\ running' = runId'
    /\ waiting' = waiting \cup {runId'}
    /\ runningInner' = TRUE /\ isStreaming' = TRUE
    /\ abortRequested' = FALSE
    /\ LoopTop(runId', messages, first, repeatSignature, repeatCount)
    /\ UNCHANGED <<abandonedRunId, closed, abandoned>>

\* A message arrives.  Message ids are given out in the order of arrival.
NewMsg(role) == [id |-> msgs + 1, role |-> role]

Queue(m) ==
    /\ MayQueue
    /\ steerQueue' = Append(steerQueue, m)
    /\ UNCHANGED <<control, messages, repeat, pc, turn, unseen>>

\* prompt(): a running exchange takes the message at its next boundary, an
\* idle agent starts a run.  The wait for an aborting run is dead code: abort
\* of a live run clears abortRequested before it returns (AbortEndsTheRun).
Prompt(role) ==
    /\ ~closed /\ msgs < MaxMsgs
    /\ msgs' = msgs + 1
    /\ IF runningInner THEN Queue(NewMsg(role))
                       ELSE StartRun(<<NewMsg(role)>>)
    /\ UNCHANGED <<contexts, calls>>

\* steer(): as prompt(), without a promise to the caller when it queues.
Steer(role) ==
    /\ ~closed /\ msgs < MaxMsgs
    /\ msgs' = msgs + 1
    /\ IF runningInner /\ ~abortRequested
       THEN Queue(NewMsg(role))
       ELSE ~runningInner /\ StartRun(<<NewMsg(role)>>)
    /\ UNCHANGED <<contexts, calls>>

Continue ==
    /\ ~closed
    /\ ~runningInner
    /\ StartRun(<<>>)
    /\ UNCHANGED counts

\* appendMessage(): a context snapshot enters the transcript at any time.
AppendMessage ==
    /\ ~closed /\ contexts < MaxContexts
    /\ contexts' = contexts + 1
    /\ Append_(0, messages, <<[id |-> 0, role |-> "context"]>>,
               repeatSignature, repeatCount)
    /\ UNCHANGED <<control, steerQueue, pc, turn, msgs, calls>>

\* Mutation: the waiter is dropped without being resolved.
SettleForgets(r) ==
    /\ resolveRun' = IF resolveRun = r THEN 0 ELSE resolveRun
    /\ UNCHANGED waiting

\* settleRun(): releases the caller of r if the waiter is still r's.
SettleRun(r) ==
    IF resolveRun = r
    THEN resolveRun' = 0 /\ waiting' = waiting \ {r}
    ELSE UNCHANGED <<resolveRun, waiting>>

\* The first step of the mutation below: the flag is raised, the run goes on.
AbortOnlyFlags ==
    /\ abortRequested' = TRUE
    /\ UNCHANGED <<runId, abandonedRunId, runningInner, isStreaming, resolveRun,
                   running, waiting, abandoned, steerQueue, messages, unseen>>

\* Mutation: the caller of the stopped run is left to the turn's return, and
\* what was queued into it stays.
AbortWithoutRelease ==
    IF runningInner /\ isStreaming
    THEN /\ Cardinality(Late) < MaxLate
         /\ abandonedRunId' = runId
         /\ abandoned' = abandoned \cup {runId}
         /\ isStreaming' = FALSE /\ runningInner' = FALSE
         /\ messages' = messages \o Results(runId, Unhealed)
         /\ abortRequested' = FALSE
         /\ running' = 0 /\ unseen' = {}
         /\ UNCHANGED <<runId, resolveRun, waiting, steerQueue>>
    ELSE AbortOnlyFlags

\* abort() with settleAbandonedRun(): a live run is closed on the spot, its
\* unanswered calls get a "stopped" result and its caller is released.
AbortBody ==
    IF runningInner /\ isStreaming
    THEN /\ Cardinality(Late) < MaxLate
         /\ abandonedRunId' = runId
         /\ abandoned' = abandoned \cup {runId}
         /\ isStreaming' = FALSE
         /\ steerQueue' = <<>>
         /\ messages' = messages \o Results(runId, Unhealed)
         /\ runningInner' = FALSE
         /\ SettleRun(runId)
         /\ abortRequested' = FALSE
         /\ running' = 0
         /\ unseen' = {}
         /\ UNCHANGED runId
    ELSE /\ abortRequested' = TRUE
         /\ UNCHANGED <<runId, abandonedRunId, runningInner, isStreaming,
                        resolveRun, running, waiting, abandoned, steerQueue,
                        messages, unseen>>

Abort ==
    /\ ~closed
    /\ AbortBody
    /\ UNCHANGED <<closed, repeat, pc, turn, counts>>

Close ==
    /\ ~closed
    /\ closed' = TRUE
    /\ AbortBody
    /\ UNCHANGED <<repeat, pc, turn, counts>>

\* What the rewinder does to a stopped run's agent: the transcript is cut before
\* one of the prompts and the queue is dropped.  replaceMessages(), with which it
\* takes over a view it read again, resets the repeat guard; the cut in place
\* leaves it.
Rewind(n) ==
    /\ ~closed /\ ~runningInner
    /\ messages[n].kind = "message" /\ messages[n].msg.role = "user"
    /\ messages' = SubSeq(messages, 1, n - 1)
    /\ \/ repeatSignature' = "none" /\ repeatCount' = 0
       \/ "cutInView" \in Env /\ UNCHANGED repeat
    /\ steerQueue' = <<>>
    /\ abortRequested' = FALSE
    /\ UNCHANGED <<runId, abandonedRunId, runningInner, isStreaming, closed,
                   resolveRun, running, waiting, abandoned, pc, turn, unseen,
                   counts>>

-----------------------------------------------------------------------------
(* The run's side: __run, exchangeLoop, step, executeTools *)

Park(r, p) == pc' = [pc EXCEPT ![r] = p]
MayGoOn(r) == ~abortRequested /\ ~isStaleRun(r)

\* What run r awaits is delivered: no continuation is queued before it.
Delivered(r, p) ==
    /\ pc[r] = p
    /\ \A q \in Runs : pc[q] \notin Queued

\* The hook is back: a run that was stopped meanwhile returns, any other sends
\* the request, which carries the whole transcript.
BeforeStepReturns(r) ==
    /\ Delivered(r, "beforeStep")
    /\ IF MayGoOn(r)
       THEN Park(r, "turn") /\ unseen' = {}
       ELSE Park(r, "returned") /\ UNCHANGED unseen
    /\ UNCHANGED <<control, steerQueue, messages, repeat, turn, counts>>

\* The batches of tool calls a turn may end with, as ids from "calls" on.
Batches ==
    {[i \in 1..Len(sigs) |-> [id |-> calls + i, sig |-> sigs[i]]] :
        sigs \in UNION {[1..n -> Signatures] :
                          n \in 0..(IF MaxBatch <= MaxCalls - calls
                                    THEN MaxBatch ELSE MaxCalls - calls)}}

\* What a turn adds to the transcript.
Recorded(r, cs, executed) ==
    <<[kind |-> "assistant", run |-> r, calls |-> cs]>> \o
    Results(r, executed)

\* step() ends with the assistant message cs and the results of "executed",
\* recorded unless the run is stale by now.
TurnLands(r, cs, executed) ==
    /\ turn' = [turn EXCEPT ![r] = [calls   |-> cs,
                                    missing |-> CallIds(cs) \ executed]]
    /\ messages' = IF isStaleRun(r) THEN messages
                   ELSE messages \o Recorded(r, cs, executed)
    /\ Park(r, "landed")

TurnReturns(r) ==
    /\ Delivered(r, "turn")
    /\ \E cs \in Batches :
        /\ calls' = calls + Len(cs)
        /\ \E executed \in IF "fallback" \in Env THEN SUBSET CallIds(cs)
                                                 ELSE {CallIds(cs)} :
               TurnLands(r, cs, executed)
    /\ UNCHANGED <<control, steerQueue, repeat, unseen, msgs, contexts>>

\* The stream fails after it ran tools: the recorded message is the error
\* alone, without the calls, and the buffered results still follow it.
TurnFails(r) ==
    /\ Delivered(r, "turn")
    /\ "midTurnError" \in Env
    /\ \E cs \in Batches :
        /\ cs # <<>>
        /\ calls' = calls + Len(cs)
        /\ TurnLands(r, <<>>, CallIds(cs))
    /\ UNCHANGED <<control, steerQueue, repeat, unseen, msgs, contexts>>

\* The finally of __run().
Finally(r) ==
    /\ IF isStaleRun(r) THEN UNCHANGED <<isStreaming, runningInner>>
                        ELSE isStreaming' = FALSE /\ runningInner' = FALSE
    /\ Park(r, "ended")
    /\ turn' = [turn EXCEPT ![r] = NoTurn]
    /\ UNCHANGED <<runId, abandonedRunId, abortRequested, closed, resolveRun,
                   running, waiting, abandoned>>

\* The stream rejects: the exception leaves step(), the loop and __run().
TurnThrows(r) ==
    /\ Delivered(r, "turn")
    /\ "throw" \in Env
    /\ Finally(r)
    /\ UNCHANGED <<steerQueue, messages, repeat, unseen, counts>>

\* After the calls' results landed: the repeat guard, then the next round.
NoteAndLoop(r) ==
    LET cs   == turn[r].calls
        base == messages \o Reminder(r, cs)
        sig  == cs[Len(cs)].sig
        n    == CountAt(cs, Len(cs))
    IN  IF MayGoOn(r)
        THEN LoopTop(r, base, <<>>, sig, n)
        ELSE /\ messages' = base
             /\ repeatSignature' = sig /\ repeatCount' = n
             /\ Park(r, "returned")
             /\ turn' = [turn EXCEPT ![r] = NoTurn]
             /\ UNCHANGED <<steerQueue, unseen>>

\* exchangeLoop resumes after step(): turn_end, whose handler may queue a
\* retry for a turn without output, then the calls the stream left over.
TurnEnds(r) ==
    /\ pc[r] = "landed"
    /\ MayGoOn(r)
    /\ turn[r].calls # <<>>
    /\ IF turn[r].missing # {}
       THEN /\ Park(r, "tools")
            /\ UNCHANGED <<steerQueue, messages, repeat, turn, unseen>>
       ELSE NoteAndLoop(r)
    /\ UNCHANGED <<control, counts>>

TextTurnEnds(r) ==
    /\ pc[r] = "landed"
    /\ ~MayGoOn(r) \/ turn[r].calls = <<>>
    /\ \/ UNCHANGED <<steerQueue, msgs>>
       \/ /\ MayGoOn(r) /\ MayQueue /\ msgs < MaxMsgs
          /\ msgs' = msgs + 1
          /\ steerQueue' = Append(steerQueue, NewMsg("notification"))
    /\ Park(r, "returned")
    /\ turn' = [turn EXCEPT ![r] = NoTurn]
    /\ UNCHANGED <<control, messages, repeat, unseen, contexts, calls>>

\* executeTools: the next call returns.  A stale run drops its result.
ToolReturns(r) ==
    /\ Delivered(r, "tools")
    /\ IF isStaleRun(r)
       THEN Park(r, "toolsDone") /\ UNCHANGED <<messages, turn>>
       ELSE \E c \in turn[r].missing :
              /\ \A d \in turn[r].missing : c <= d
              /\ messages' = messages \o Results(r, {c})
              /\ turn' = [turn EXCEPT ![r].missing = @ \ {c}]
              /\ IF turn[r].missing = {c} \/ abortRequested
                 THEN Park(r, "toolsDone") ELSE UNCHANGED pc
    /\ UNCHANGED <<control, steerQueue, repeat, unseen, counts>>

\* exchangeLoop resumes after executeTools(): the repeat guard runs before the
\* run asks whether it is still wanted.
ToolsDone(r) ==
    /\ pc[r] = "toolsDone"
    /\ NoteAndLoop(r)
    /\ UNCHANGED <<control, counts>>

\* __run resumes after exchangeLoop: a message queued meanwhile is the next
\* turn.  This loop does not ask whether the run is stale; the exchange it
\* starts for a stale run returns at once.
DrainNext(r) ==
    /\ pc[r] = "returned"
    /\ ~abortRequested /\ ~closed /\ steerQueue # <<>>
    /\ IF isStaleRun(r)
       THEN /\ Append_(r, messages, <<Head(steerQueue)>>,
                       repeatSignature, repeatCount)
            /\ steerQueue' = Tail(steerQueue)
            /\ UNCHANGED <<pc, turn>>
       ELSE LoopTop(r, messages, <<>>, repeatSignature, repeatCount)
    /\ UNCHANGED <<control, counts>>

\* Mutation: the run ends with the exchange, whatever was queued meanwhile.
EndsAtOnce == TRUE

\* The drain loop's condition, negated.
MayEnd == abortRequested \/ closed \/ steerQueue = <<>>

RunEnds(r) ==
    /\ pc[r] = "returned"
    /\ MayEnd
    /\ Finally(r)
    /\ UNCHANGED <<steerQueue, messages, repeat, unseen, counts>>

\* .finally(settleRun): releases the caller, if the waiter is still this run's.
Settle(r) ==
    /\ pc[r] = "ended"
    /\ Park(r, "done")
    /\ SettleRun(r)
    /\ UNCHANGED <<runId, abandonedRunId, runningInner, isStreaming, closed,
                   abortRequested, running, abandoned, steerQueue, messages,
                   repeat, turn, unseen, counts>>

RunStep(r) ==
    \/ BeforeStepReturns(r) \/ TurnReturns(r) \/ TurnFails(r) \/ TurnThrows(r)
    \/ TurnEnds(r) \/ TextTurnEnds(r) \/ ToolReturns(r) \/ ToolsDone(r)
    \/ DrainNext(r) \/ RunEnds(r) \/ Settle(r)

CallerStep ==
    \/ \E role \in PromptRoles : Prompt(role) \/ Steer(role)
    \/ Continue \/ AppendMessage \/ Abort \/ Close
    \/ \E n \in DOMAIN messages : Rewind(n)

Next == CallerStep \/ \E r \in Runs : RunStep(r)

Spec == Init /\ [][Next]_vars

\* A turn in flight either comes back or is stopped: the runtime has no timeout
\* of its own, so a stream or a tool that never returns is ended by abort().
\* The event loop runs what is queued.  Nothing is assumed of the stream or the
\* tool an abandoned turn awaits.
Fairness ==
    /\ WF_vars(runningInner /\ (RunStep(runId) \/ Abort))
    /\ \A r \in Runs : WF_vars(pc[r] \in Queued /\ RunStep(r))

FairSpec == Spec /\ Fairness

-----------------------------------------------------------------------------
(* Properties *)

TypeOK ==
    /\ runId \in 0..MaxRuns /\ abandonedRunId \in 0..MaxRuns
    /\ runningInner \in BOOLEAN /\ isStreaming \in BOOLEAN
    /\ abortRequested \in BOOLEAN /\ closed \in BOOLEAN
    /\ steerQueue \in Seq(Msg)
    /\ resolveRun \in 0..MaxRuns /\ running \in 0..MaxRuns
    /\ messages \in Seq(Entry)
    /\ repeatSignature \in Signatures \cup {"none"} /\ repeatCount \in Nat
    /\ pc \in [Runs -> Parked]
    /\ turn \in [Runs -> [calls : Seq(Call), missing : SUBSET Nat]]
    /\ waiting \subseteq Runs /\ abandoned \subseteq Runs
    /\ unseen \subseteq Nat
    /\ msgs \in Nat /\ contexts \in Nat /\ calls \in Nat

\* The run that owns the session: in flight and never stopped.
Live(r) == pc[r] \in InFlight /\ r \notin abandoned

\* The flags every caller reads agree with the one run that is really going on
\* (runningInner, isStreaming: agent.ts 404-405, 432-441, 267-288).
OneLiveRun ==
    /\ runningInner <=> \E r \in Runs : Live(r)
    /\ runningInner = isStreaming
    /\ \A r \in Runs : Live(r) => r = runId

\* "nothing it produces may enter the transcript" (agent.ts 104-107): once a
\* run was stopped, no later step writes on its behalf.
AbandonedRunsWriteNothing ==
    [][\A i \in DOMAIN messages' :
          i > Len(messages) => messages'[i].run \notin abandoned]_vars

\* A caller that awaits a run's promise is one the runtime can still release
\* (startRun, settleRun: agent.ts 344-349, 384-397).
CallersAreHeld == waiting \subseteq {resolveRun}

\* waitForIdle() on an idle agent does not hang: the promise it awaits is
\* settled, or its settlement is already scheduled (agent.ts 356-361).
IdleIsAwaitable ==
    ~runningInner /\ running \in waiting => pc[running] = "ended"

\* abort() leaves no run unwinding: the two branches that wait for one
\* (agent.ts 198-202, 222) are never taken.
AbortEndsTheRun == abortRequested => ~runningInner

\* One run owns the session and every flag, promise and waiter is that run's,
\* through stops, late returns and the gap before a run is settled.
RunIsOwned ==
    TypeOK /\ OneLiveRun /\ CallersAreHeld /\ IdleIsAwaitable /\ AbortEndsTheRun

\* Every request carries a result for every tool call in the history, whoever
\* stopped or cut whatever came before ("A provider rejects the NEXT request
\* when an assistant message's tool calls have no results", agent.ts 272-278).
CallsAnsweredAtRequest ==
    \A r \in Runs : pc[r] = "turn" /\ Live(r) =>
        \A i \in DOMAIN messages : messages[i].kind = "assistant" =>
            \A c \in CallIds(messages[i].calls) :
                \E j \in (i+1)..Len(messages) :
                    messages[j].kind = "toolResult" /\ c \in messages[j].answers

\* Results sit right behind the assistant message whose calls they answer, and
\* no call is answered twice ("the order stays assistant(toolCalls) ->
\* toolResults", agent.ts 575-578; "must never run twice", 535-539).
ResultsFollowTheirCalls ==
    \A j \in DOMAIN messages : messages[j].kind = "toolResult" =>
        /\ \E i \in 1..(j-1) :
              /\ messages[i].kind = "assistant"
              /\ messages[j].answers \subseteq CallIds(messages[i].calls)
              /\ \A k \in (i+1)..j : messages[k].kind = "toolResult"
        /\ \A k \in DOMAIN messages : k # j /\ messages[k].kind = "toolResult" =>
              messages[j].answers \cap messages[k].answers = {}

\* No call is answered twice, by the stream, the runtime or a stop, and whatever
\* stops, fails or cuts a turn, its results stay right behind its message: the
\* one with the calls, or the error that took its place, whose results no other
\* message calls for (agent.ts 575-578, 724-743, healUnansweredToolCalls).
ResultsStayInTheirTurn ==
    \A j \in DOMAIN messages : messages[j].kind = "toolResult" =>
        /\ \E i \in 1..(j-1) :
              /\ messages[i].kind = "assistant"
              /\ \A k \in (i+1)..j : messages[k].kind = "toolResult"
              /\ \/ messages[j].answers \subseteq CallIds(messages[i].calls)
                 \/ /\ messages[i].calls = <<>>
                    /\ \A n \in DOMAIN messages : messages[n].kind = "assistant" =>
                         messages[j].answers \cap CallIds(messages[n].calls) = {}
        /\ \A k \in DOMAIN messages : k # j /\ messages[k].kind = "toolResult" =>
              messages[j].answers \cap messages[k].answers = {}

\* A run never ends with a prompt, steer or follow-up that no request carried
\* (agent.ts 504-509: a steered message "becomes the next turn").
NoPromptUnread == ~runningInner => unseen = {}

\* A run never ends with a message still queued into it.
NoStrandedSteer == ~runningInner => steerQueue = <<>>

\* What a user or a sub-agent said while the agent ran is answered or dropped
\* by a stop, never left lying when the run is over.
NothingQueuedIsLost == NoPromptUnread /\ NoStrandedSteer

\* The tool calls of the transcript, by entry and place in its batch.
CallPlaces ==
    UNION {{k} \X DOMAIN messages[k].calls :
             k \in {j \in DOMAIN messages : messages[j].kind = "assistant"}}
NotAfter(p, q) == p[1] < q[1] \/ (p[1] = q[1] /\ p[2] <= q[2])

\* The last batch of a stopped run: the stop may have come before its count.
MayBeUncounted ==
    {k \in DOMAIN messages :
        /\ messages[k].kind = "assistant" /\ messages[k].run \in abandoned
        /\ \A j \in (k+1)..Len(messages) :
             messages[j].kind = "assistant" => messages[j].run # messages[k].run}

\* A reminder is earned: RemindAt many calls in a row, the last one in the turn
\* before it and none followed by a user message, are the call it names
\* (agent.ts 833-858: "any other call resets the count, and so does a new
\* prompt").
ReminderEarned ==
    \A n \in DOMAIN messages : messages[n].kind = "reminder" =>
        \E first, last \in CallPlaces :
            LET row  == {p \in CallPlaces : NotAfter(first, p) /\ NotAfter(p, last)}
                same == {p \in row : messages[p[1]].calls[p[2]].sig = messages[n].sig}
            IN  /\ Cardinality(same) \in RemindAt
                /\ \A p \in row \ same : p[1] \in MayBeUncounted
                /\ last \in same /\ last[1] < n
                /\ \A k \in (last[1]+1)..n : messages[k].kind # "assistant"
                /\ \A k \in first[1]..n :
                     messages[k].kind = "message" => messages[k].msg.role # "user"

\* Whoever awaits a run is released, also when its turn never returns.
CallersReturn == \A r \in Runs : r \in waiting ~> r \notin waiting

\* A message queued into a run leaves the queue: taken or dropped by a stop.
QueueDrains ==
    \A n \in 1..MaxMsgs : (\E i \in DOMAIN steerQueue : steerQueue[i].id = n)
                       ~> ~(\E i \in DOMAIN steerQueue : steerQueue[i].id = n)

\* Neither a caller nor a message waits for ever, whatever a turn awaits.
EverythingReturns == CallersReturn /\ QueueDrains

-----------------------------------------------------------------------------
(* The runtime implements what it promises its callers *)

Owner == INSTANCE RunOwner WITH
            owner   <- IF runningInner THEN runId ELSE 0,
            started <- runId,
            waiting <- waiting,
            log     <- [i \in DOMAIN messages |-> messages[i].run]

\* Only the run that owns the transcript writes to it, ownership ends with the
\* run or with the stop, and a caller is released only then.
ImplementsRunOwner == Owner!Spec

=============================================================================
