-------------------------- MODULE RoutineScheduler --------------------------
(***************************************************************************)
(* Routines: packages/core/routine/scheduler.ts, the rows it reads         *)
(* (routine/repo.ts), and the runner the core gives it (core.ts,           *)
(* routineRunner) down to the conversation's prompt path (session-agent.ts,*)
(* runPrompt).                                                             *)
(*                                                                         *)
(* One action is the code between two awaits.  A "run" here is one call of *)
(* the scheduler's run(): it waits for the conversation, opens it, and     *)
(* awaits the exchange its prompt started.                                 *)
(***************************************************************************)
EXTENDS Naturals, FiniteSets

CONSTANTS
    Routines,   \* routine ids
    Agents,     \* one conversation per agent
    AgentOf,    \* the agent each routine belongs to
    FirstKind,  \* the schedule each routine starts with
    Period,     \* how far ahead nextRunAt() looks, per kind of schedule
    MaxSlots,   \* bound: runs of one routine in flight at a time
    MaxTime,    \* bound: the clock
    MaxUsers,   \* bound: runs the user starts
    MaxManual,  \* bound: "run it now" requests
    MaxChanges, \* bound: changes of what a watch looks at
    Env         \* which optional behaviours may happen

Behaviours == {
    "toggle",    \* the user turns a routine on or off
    "edit",      \* the routine_update tool changes a schedule
    "editInCheck", \* ... also while a check of the routine is out
    "delete",    \* a routine is deleted
    "stop",      \* the user stops a routine's run
    "openFails", \* the conversation cannot be opened
    "modelFails",\* the exchange ends in an error, with or without a retry
    "rebuild",   \* a configuration change rebuilds an idle conversation's agent
    "seam" }     \* the runner's check may answer "changed" (test doubles do)

Kinds == {"timed", "watch"}
Never == MaxTime + 100  \* nextRunAt = null
NoRoutine == "none"

ASSUME BoundsAssumption ==
    /\ MaxSlots \in Nat /\ MaxTime \in Nat /\ MaxUsers \in Nat
    /\ MaxManual \in Nat /\ MaxChanges \in Nat
ASSUME DataAssumption ==
    /\ AgentOf \in [Routines -> Agents]
    /\ FirstKind \in [Routines -> Kinds]
    /\ Period \in [Kinds -> 1..99]
    /\ NoRoutine \notin Routines
ASSUME EnvAssumption == Env \subseteq Behaviours

Acts == Routines \X (1..MaxSlots)

(***************************************************************************)
(* Where a run is.                                                         *)
(*   free      there is no such run                                        *)
(*   waiting   asleep until the next look at the busy conversation         *)
(*   opening   awaiting openSession and the MCP tools                      *)
(*   running   awaiting the exchange its prompt started                    *)
(*   retrying  the exchange failed; awaiting the backoff                   *)
(*   resumed   awaiting the exchange the retry started                     *)
(* "scheduled" tells it from "run it now", "closed" that the agent it got  *)
(* from the pool was closed meanwhile, "failed" that its last exchange     *)
(* ended in an error.                                                      *)
(***************************************************************************)
Act == [pc : {"free", "waiting", "opening", "running", "retrying", "resumed"},
        scheduled : BOOLEAN, closed : BOOLEAN, failed : BOOLEAN]
Free == [pc |-> "free", scheduled |-> FALSE, closed |-> FALSE, failed |-> FALSE]

Observed == 0..MaxChanges
Unobserved == MaxChanges + 1
Row == [enabled : BOOLEAN, kind : Kinds, due : Nat,
        last : {"none", "ok", "error", "stopped"}, watch : 0..Unobserved]

Idle   == <<"idle", 0>>
ByUser == <<"user", 0>>

VARIABLES
    clock,     \* now()
    rows,      \* the routines that have a row
    row,       \* the routines table
    act,       \* the calls of run() in flight
    checks,    \* watches with a check in flight (bound: one each)
    stopped,   \* routines whose run the user asked to stop
    cancelled, \* routines whose queued run the user asked to stop
    conv,      \* whose exchange each conversation is streaming
    active,    \* activeRoutineId of each conversation
    source,    \* what a watch would observe now
    users, manual \* the environment's counters

vars == <<clock, rows, row, act, checks, stopped, cancelled, conv, active, source,
          users, manual>>
world == <<clock, source, users, manual>>

Init ==
    /\ clock = 0
    /\ rows = Routines
    /\ row = [r \in Routines |->
                [enabled |-> TRUE, kind |-> FirstKind[r],
                 due |-> Period[FirstKind[r]], last |-> "none",
                 watch |-> Unobserved]]
    /\ act = [k \in Acts |-> Free]
    /\ checks = {}
    /\ stopped = {} /\ cancelled = {}
    /\ conv = [a \in Agents |-> Idle]
    /\ active = [a \in Agents |-> NoRoutine]
    /\ source = [r \in Routines |-> 0]
    /\ users = 0 /\ manual = 0

-----------------------------------------------------------------------------
(* Helpers *)

isRunning(r) == \E s \in 1..MaxSlots : act[<<r, s>>].pc # "free"
Home(k) == AgentOf[k[1]]

\* Mutation: a conversation somebody waits for counts as running.
BusyOrAwaited(a) ==
    conv[a] # Idle \/ \E k \in Acts : Home(k) = a /\ act[k].pc = "waiting"

Busy(a) == conv[a] # Idle

nextRunAt(kind, at) == at + Period[kind]

\* The slot a new run of r takes; there is one when r has a free slot.
HasSlot(r)  == \E s \in 1..MaxSlots : act[<<r, s>>].pc = "free"
NewSlot(r)  == <<r, CHOOSE s \in 1..MaxSlots : act[<<r, s>>].pc = "free">>

\* record(): the result of a run of r, if r still has a row.
Recorded(r, cell, outcome) ==
    IF r \in rows
    THEN [cell EXCEPT !.last = outcome, !.due = IF cell.enabled THEN @ ELSE Never]
    ELSE cell

\* The first look of run() at r's conversation: be dropped by a stop request,
\* wait for it, or start.
FirstLook(r) ==
    CASE r \in cancelled                           -> "free"
      [] r \notin cancelled /\ Busy(AgentOf[r])    -> "waiting"
      [] r \notin cancelled /\ ~Busy(AgentOf[r])   -> "opening"

\* run() is called for every routine of rs, whose rows are by then "cells".
Begin(rs, scheduled, cells) ==
    LET dropped == {r \in rs : FirstLook(r) = "free"}
    IN  /\ \A r \in rs : HasSlot(r)
        /\ act' = [k \in Acts |->
              IF k[1] \in rs \ dropped /\ k = NewSlot(k[1])
              THEN [Free EXCEPT !.pc = FirstLook(k[1]), !.scheduled = scheduled]
              ELSE act[k]]
        /\ row' = [r \in Routines |->
              IF r \in dropped THEN Recorded(r, cells[r], "stopped") ELSE cells[r]]
        /\ cancelled' = cancelled \ dropped
        /\ stopped' = stopped \ dropped

\* Mutation: an error leaves the stop request behind.
FinishForgets(k, outcome, asked) ==
    /\ act' = [act EXCEPT ![k] = Free]
    /\ row' = [row EXCEPT ![k[1]] =
                  Recorded(k[1], @, IF k[1] \in asked THEN "stopped" ELSE outcome)]
    /\ stopped' = IF outcome = "error" THEN asked ELSE asked \ {k[1]}

\* The runner is done with run k: its result, and the stop request it used up.
\* "asked" is the set of stop requests by then.
Finish(k, outcome, asked) ==
    /\ act' = [act EXCEPT ![k] = Free]
    /\ row' = [row EXCEPT ![k[1]] =
                  Recorded(k[1], @, IF k[1] \in asked THEN "stopped" ELSE outcome)]
    /\ stopped' = asked \ {k[1]}

-----------------------------------------------------------------------------
(* The scheduler *)

\* A tick, some time after the last one: every due routine is advanced and
\* then started, a watch is checked.
Tick ==
    \E at \in (clock + 1)..MaxTime :
        LET due     == {r \in rows : row[r].enabled /\ row[r].due <= at}
            watches == {r \in due : row[r].kind = "watch"}
            cells   == [r \in Routines |->
                          IF r \in due
                          THEN [row[r] EXCEPT !.due = nextRunAt(row[r].kind, at)]
                          ELSE row[r]]
        IN  /\ due # {}
            /\ watches \cap checks = {}
            /\ clock' = at
            /\ Begin(due \ watches, TRUE, cells)
            /\ checks' = checks \cup watches
            /\ UNCHANGED <<rows, conv, active, source, users, manual>>

RunNow(r) ==
    /\ r \in rows /\ manual < MaxManual
    /\ manual' = manual + 1
    /\ Begin({r}, FALSE, row)
    /\ UNCHANGED <<clock, rows, checks, conv, active, source, users>>

\* A waiting run wakes up: a stop request drops it, so does a deleted row, and
\* a free conversation lets it start.
Poll(k) ==
    LET r == k[1]
    IN  /\ act[k].pc = "waiting"
        /\ \/ /\ r \in cancelled
              /\ cancelled' = cancelled \ {r}
              /\ row' = [row EXCEPT ![r] = Recorded(r, @, "stopped")]
              /\ act' = [act EXCEPT ![k] = Free]
              /\ stopped' = stopped \ {r}
           \/ /\ r \notin cancelled /\ r \notin rows
              /\ act' = [act EXCEPT ![k] = Free]
              /\ stopped' = stopped \ {r}
              /\ UNCHANGED <<row, cancelled>>
           \/ /\ r \notin cancelled /\ r \in rows /\ ~Busy(Home(k))
              /\ act' = [act EXCEPT ![k].pc = "opening"]
              /\ UNCHANGED <<row, cancelled, stopped>>
        /\ UNCHANGED <<world, rows, checks, conv, active>>

\* What core.ts compares a check with.  It looks the row up again and asks for
\* the very source object the tick read; every read parses a new one, so no
\* row is found and every check is a first one.
Baseline == Unobserved

\* A check returns: its row gets the observation and the next look, a failed
\* one is recorded, a change starts a run.
CheckReturns(r) ==
    LET looked(seen) == IF r \in rows
                        THEN [row EXCEPT ![r].watch = seen,
                                         ![r].due = nextRunAt("watch", clock)]
                        ELSE row
        Seen(cells)  == row' = cells /\ UNCHANGED <<act, stopped, cancelled>>
    IN  /\ r \in checks
        /\ checks' = checks \ {r}
        /\ \/ /\ "openFails" \in Env  \* no machine to look in
              /\ Seen([row EXCEPT ![r] = Recorded(r, @, "error")])
           \/ /\ "openFails" \in Env  \* nothing was observed
              /\ Seen([row EXCEPT ![r] =
                         Recorded(r, looked(row[r].watch)[r], "error")])
           \/ /\ Baseline \in {Unobserved, source[r]}
              /\ Seen(looked(source[r]))
           \/ /\ r \in rows
              /\ Baseline \notin {Unobserved, source[r]} \/ "seam" \in Env
              /\ Begin({r}, TRUE, looked(source[r]))
        /\ UNCHANGED <<world, rows, conv, active>>

-----------------------------------------------------------------------------
(* The conversation *)

\* Run k, just opened or retried, gets an exchange of its own.
StartsOwn(k, pc) ==
    /\ conv' = [conv EXCEPT ![Home(k)] = k]
    /\ act' = [act EXCEPT ![k].pc = pc, ![k].failed = FALSE]
    /\ UNCHANGED <<row, stopped>>

\* Mutation: a prompt always starts an exchange.
DeliverAlways(k) ==
    /\ act[k].pc = "opening"
    /\ StartsOwn(k, "running")
    /\ active' = [active EXCEPT ![Home(k)] = k[1]]
    /\ UNCHANGED <<world, rows, checks, cancelled>>

\* The conversation is open and its tools are attached: runPrompt delivers the
\* prompt, which a streaming conversation queues into the exchange going on.
\* activeRoutineId is set, and cleared when prompt() returns, which is at once
\* for a queued prompt.
Deliver(k) ==
    LET a == Home(k)
    IN  /\ act[k].pc = "opening"
        /\ \/ /\ "openFails" \in Env
              /\ Finish(k, "error", stopped)
              /\ UNCHANGED <<conv, active>>
           \/ /\ act[k].closed
              /\ Finish(k, "ok", stopped)
              /\ UNCHANGED <<conv, active>>
           \/ /\ ~act[k].closed /\ Busy(a)
              /\ Finish(k, "ok", stopped)
              /\ active' = [active EXCEPT ![a] = NoRoutine]
              /\ UNCHANGED conv
           \/ /\ ~act[k].closed /\ ~Busy(a)
              /\ StartsOwn(k, "running")
              /\ active' = [active EXCEPT ![a] = k[1]]
        /\ UNCHANGED <<world, rows, checks, cancelled>>

\* The exchange of run k meets an error it cannot get over.
ModelFails(k) ==
    /\ "modelFails" \in Env
    /\ act[k].pc \in {"running", "resumed"} /\ ~act[k].failed
    /\ act' = [act EXCEPT ![k].failed = TRUE]
    /\ UNCHANGED <<world, rows, row, checks, stopped, cancelled, conv, active>>

\* prompt() returned: no routine's exchange is going on any more.
ClearsActive(k) == active' = [active EXCEPT ![Home(k)] = NoRoutine]

\* The exchange of run k is over, by itself or by the conversation's own stop
\* button.  prompt() never rejects, so a failed one is no failure here; it may
\* have parked a retry.
RunEnds(k) ==
    /\ act[k].pc = "running"
    /\ conv' = [conv EXCEPT ![Home(k)] = Idle]
    /\ ClearsActive(k)
    /\ \/ Finish(k, "ok", stopped)
       \/ /\ act[k].failed
          /\ act' = [act EXCEPT ![k].pc = "retrying"]
          /\ UNCHANGED <<row, stopped>>
    /\ UNCHANGED <<world, rows, checks, cancelled>>

\* The backoff is over: the retry's message is prompted, unless the agent was
\* closed meanwhile.
Resume(k) ==
    /\ act[k].pc = "retrying"
    /\ \/ /\ act[k].closed \/ Busy(Home(k))
          /\ Finish(k, "ok", stopped)
          /\ UNCHANGED conv
       \/ /\ ~act[k].closed /\ ~Busy(Home(k))
          /\ StartsOwn(k, "resumed")
    /\ UNCHANGED <<world, rows, checks, cancelled, active>>

\* Bound: one retry.
ResumedEnds(k) ==
    /\ act[k].pc = "resumed"
    /\ conv' = [conv EXCEPT ![Home(k)] = Idle]
    /\ Finish(k, "ok", stopped)
    /\ UNCHANGED <<world, rows, checks, cancelled, active>>

-----------------------------------------------------------------------------
(* The user and the configuration *)

\* Mutation: the routine's stop button stops whatever the conversation runs.
StopsAnything(r) == {k \in Acts \cup {ByUser} : conv[AgentOf[r]] = k}

\* The exchange a stop of r interrupts: whatever its conversation streams, once
\* that names r as the routine whose run it is.
StopsOwn(r) ==
    {k \in Acts \cup {ByUser} : active[AgentOf[r]] = r /\ conv[AgentOf[r]] = k}

Stop(r) ==
    LET a == AgentOf[r]
    IN  /\ "stop" \in Env
        /\ r \in rows /\ isRunning(r)
        /\ cancelled' = cancelled \cup {r}
        /\ IF StopsOwn(r) = {}
           THEN /\ stopped' = stopped \cup {r}
                /\ UNCHANGED <<row, act, conv, active>>
           ELSE /\ conv' = [conv EXCEPT ![a] = Idle]
                /\ active' = [active EXCEPT ![a] = NoRoutine]
                /\ \E k \in StopsOwn(r) :
                      IF k = ByUser
                      THEN stopped' = stopped \cup {r} /\ UNCHANGED <<row, act>>
                      ELSE Finish(k, "ok", stopped \cup {r})
        /\ UNCHANGED <<world, rows, checks>>

UserPrompt(a) ==
    /\ users < MaxUsers /\ ~Busy(a)
    /\ users' = users + 1
    /\ conv' = [conv EXCEPT ![a] = ByUser]
    /\ UNCHANGED <<clock, rows, row, act, checks, stopped, cancelled, active,
                   source, manual>>

UserRunEnds(a) ==
    /\ conv[a] = ByUser
    /\ conv' = [conv EXCEPT ![a] = Idle]
    /\ UNCHANGED <<world, rows, row, act, checks, stopped, cancelled, active>>

\* pool.rebuild: the old agent is closed, with it what waits to prompt it.
Rebuild(a) ==
    /\ "rebuild" \in Env /\ ~Busy(a)
    /\ act' = [k \in Acts |->
                  IF Home(k) = a /\ act[k].pc \in {"opening", "retrying"}
                  THEN [act[k] EXCEPT !.closed = TRUE] ELSE act[k]]
    /\ UNCHANGED <<world, rows, row, checks, stopped, cancelled, conv, active>>

\* A row's schedule or its switch changes: the next run is counted from now.
Rescheduled(r, enabled, kind) ==
    /\ r \in rows
    /\ row' = [row EXCEPT ![r].enabled = enabled, ![r].kind = kind,
                   ![r].due = IF enabled THEN nextRunAt(kind, clock) ELSE Never]
    /\ UNCHANGED <<world, rows, act, checks, stopped, cancelled, conv, active>>

Toggle(r) == "toggle" \in Env /\ Rescheduled(r, ~row[r].enabled, row[r].kind)

Edit(r) ==
    /\ "edit" \in Env
    /\ "editInCheck" \in Env \/ r \notin checks
    /\ \E kind \in Kinds : Rescheduled(r, row[r].enabled, kind)

Delete(r) ==
    /\ "delete" \in Env /\ r \in rows
    /\ rows' = rows \ {r}
    /\ UNCHANGED <<world, row, act, checks, stopped, cancelled, conv, active>>

SourceChanges(r) ==
    /\ row[r].kind = "watch" /\ source[r] < MaxChanges
    /\ source' = [source EXCEPT ![r] = @ + 1]
    /\ UNCHANGED <<clock, rows, row, act, checks, stopped, cancelled, conv,
                   active, users, manual>>

RunStep(k) ==
    \/ Poll(k) \/ Deliver(k) \/ ModelFails(k)
    \/ RunEnds(k) \/ Resume(k) \/ ResumedEnds(k)

Next ==
    \/ Tick
    \/ \E k \in Acts : RunStep(k)
    \/ \E r \in Routines : \/ RunNow(r) \/ CheckReturns(r) \/ Stop(r)
                           \/ Toggle(r) \/ Edit(r) \/ Delete(r)
                           \/ SourceChanges(r)
    \/ \E a \in Agents : UserPrompt(a) \/ UserRunEnds(a) \/ Rebuild(a)

Spec == Init /\ [][Next]_vars

\* Timers fire, what is awaited answers, an exchange ends or is stopped.
FairSpec ==
    /\ Spec
    /\ \A k \in Acts : /\ WF_vars(Poll(k)) /\ WF_vars(Deliver(k))
                       /\ WF_vars(RunEnds(k)) /\ WF_vars(Resume(k))
                       /\ WF_vars(ResumedEnds(k))
    /\ \A a \in Agents : WF_vars(UserRunEnds(a))
    /\ \A r \in Routines : WF_vars(CheckReturns(r))

-----------------------------------------------------------------------------
(* Properties *)

TypeOK ==
    /\ clock \in 0..MaxTime
    /\ rows \subseteq Routines /\ row \in [Routines -> Row]
    /\ act \in [Acts -> Act]
    /\ checks \subseteq Routines
    /\ stopped \subseteq Routines /\ cancelled \subseteq Routines
    /\ conv \in [Agents -> Acts \cup {Idle, ByUser}]
    /\ active \in [Agents -> Routines \cup {NoRoutine}]
    /\ source \in [Routines -> Observed]
    /\ users \in Nat /\ manual \in Nat

\* A conversation streams one exchange, and the run that awaits it is the one
\* that started it: no two routines answer each other's prompts.
OneExchange ==
    \A k \in Acts : act[k].pc \in {"running", "resumed"} <=> conv[Home(k)] = k

\* The stop button's origin check can be trusted: the routine a conversation
\* names is the one whose exchange it streams (session-agent.ts 679, 698,
\* 824-828).
ActiveIsStreaming ==
    \A a \in Agents : active[a] # NoRoutine =>
        \E k \in Acts : k[1] = active[a] /\ conv[a] = k /\ act[k].pc = "running"

\* A conversation, the run in it and the routine it names agree, whoever
\* prompts, stops, retries or rebuilds in between.
ExchangesAgree == TypeOK /\ OneExchange /\ ActiveIsStreaming

\* "a run the user started in the same conversation must not be cut by a
\* routine's stop button" (core.ts 809-811): that button ends what the
\* conversation streams when it names the routine, so the name must never be
\* left behind by a routine's run that was stopped, failed, joined or resumed.
UserRunsAreNotCut ==
    [][\A a \in Agents : conv[a] = ByUser /\ conv'[a] # ByUser =>
          UNCHANGED <<stopped, cancelled>>]_vars

\* A stop request is used up by the run it was for: it never outlives the
\* routine's runs and marks a later one (scheduler.ts 228-249).
StopsAreSpent == \A r \in stopped : isRunning(r)

\* Recording a result leaves the schedule as the tick left it (scheduler.ts
\* 258-275): a slot that ran is never due again, as long as the schedule is the
\* same.
DueNeverGoesBack ==
    \A r \in rows :
        row[r].enabled /\ row'[r].enabled /\ row[r].kind = row'[r].kind
        => row'[r].due >= row[r].due

\* Nothing a run leaves behind reaches the next one: neither a stop that was
\* for it nor the schedule it was started by.
RunsLeaveNothing == [][StopsAreSpent' /\ DueNeverGoesBack]_vars

\* Whatever a run waits for, it ends, and its slot is free again.
RunsEnd == \A k \in Acts : act[k].pc # "free" ~> act[k].pc = "free"

\* "Never skip: a routine the user scheduled must not silently do nothing"
\* (scheduler.ts 210-212): a due routine gets a run that waits or starts.
DueRoutinesRun ==
    [][\A r \in rows :
          /\ row[r].enabled /\ row[r].kind = "timed"
          /\ row[r].due <= clock' /\ clock' # clock
          => \E s \in 1..MaxSlots : /\ act[<<r, s>>].pc = "free"
                                   /\ act'[<<r, s>>].pc # "free"]_vars

\* "The scheduler never runs a routine that is disabled ... or gone"
\* (scheduler.ts 23-25): a scheduled run starts only for an enabled row.
DisabledNeverStarts ==
    [][\A k \in Acts :
          act[k].pc = "waiting" /\ act'[k].pc = "opening" /\ act[k].scheduled
          => k[1] \in rows /\ row[k[1]].enabled]_vars

\* "Advancing first makes "one run per slot" a fact", "a busy conversation is
\* waited for" (scheduler.ts 12-19): a run recorded as ok had an exchange.
OkMeansItRan ==
    [][\A k \in Acts :
          /\ act[k].pc = "opening" /\ act'[k].pc = "free" /\ k[1] \in rows
          => row'[k[1]].last # "ok"]_vars

\* "the run's failure belongs on the routine's row" (session-agent.ts 742-744).
FailureIsRecorded ==
    [][\A k \in Acts :
          /\ act[k].pc \in {"running", "resumed"} /\ act[k].failed
          /\ act'[k].pc = "free" /\ k[1] \in rows
          => row'[k[1]].last # "ok"]_vars

\* "Stop a running routine's run" (scheduler.ts 107): once the user asked, no
\* exchange of that routine goes on.
StoppedRunsAreOver ==
    \A r \in stopped : \A k \in Acts :
        k[1] = r => act[k].pc \notin {"running", "resumed"}

\* "the next run is recomputed when the schedule or the enabled state changes"
\* (routine/tools.ts 370): whoever moves the next run of an enabled row
\* counts it by the schedule the row has.
DueFollowsTheSchedule ==
    [][\A r \in rows :
          /\ row'[r].enabled /\ row'[r].due # row[r].due
          => row'[r].due = nextRunAt(row'[r].kind, clock')]_vars

\* "a run starts only when the answer is yes" (vm/watch.ts 7-9): a check that
\* saw something else than the one before it starts a run.
ChangesStartRuns ==
    [][\A r \in rows :
          /\ row[r].watch # Unobserved /\ row'[r].watch # row[r].watch
          => \E s \in 1..MaxSlots : /\ act[<<r, s>>].pc = "free"
                                   /\ act'[<<r, s>>].pc # "free"]_vars

=============================================================================
