-------------------------- MODULE BackgroundCommands --------------------------
(***************************************************************************)
(* The background commands of one session: packages/core/tools/            *)
(* background.ts (BackgroundProcessManager), with the processes behind     *)
(* BackgroundSpawner (tools/host/background.ts, vm/shell.ts), the kill     *)
(* tool, the notification of agent/session-agent.ts and the close of       *)
(* agent/pool.ts.                                                          *)
(*                                                                         *)
(* A command is a process and a record of it.  The two part company: a     *)
(* process is there before its record (the spawn is awaited), and its end  *)
(* is seen, flushed, settled and told in steps, between which a kill, a    *)
(* timeout and the close of the session come.                              *)
(***************************************************************************)
EXTENDS Naturals, Sequences, FiniteSets

CONSTANTS
    MaxStarts,       \* bound: commands ever started
    MaxSlots,        \* MAX_BACKGROUND_COMMANDS
    MaxCompleted,    \* MAX_COMPLETED_COMMANDS
    Env              \* which optional behaviours happen

\* The optional behaviours.
Behaviours == {
    "outlive",       \* a process survives the signal for a while
    "spawnFails",    \* a spawn is rejected
    "spawnLeaks",    \* ... although the process runs already
    "close",         \* the session is closed
    "startsTogether", \* a command is started while another is being spawned
    "killLate",      \* a kill or a timeout after the process has ended
    "killTwice",     \* a kill of a command whose timeout has fired
    "probeFails"}    \* the machine answers no probe: a live process looks gone

ASSUME LimitAssumption == MaxSlots \in Nat /\ MaxCompleted \in Nat \ {0}
ASSUME BoundAssumption == MaxStarts \in Nat
ASSUME EnvAssumption == Env \subseteq Behaviours

Commands == 1 .. MaxStarts

VARIABLES
    nextId,          \* commands whose start was accepted
    place,           \* where each command's start or record is
    process,         \* the process itself
    timer,           \* its timeout is armed
    byUser,          \* killedByUser
    byTimeout,       \* killedByTimeout
    completed,       \* the ids of the completed commands, newest first
    kill,            \* the kill tool's call for each command
    closing,         \* SessionPool.close: "open", "killing", "waiting", "closed"
    targets,         \* the commands killAll waits for
    late,            \* history: the commands recorded behind killAll
    cause,           \* history: what put an end to each process
    told             \* history: what the agent heard of each command

record == <<timer, byUser, byTimeout>>
teardown == <<closing, targets, late>>
commandVars == <<nextId, place, process, record, completed, kill, teardown, cause,
          told>>

Places == {"none", "spawning", "rejected", "running", "flushing", "decoding",
           "over"}

CommandsInit ==
    /\ nextId = 0
    /\ place = [c \in Commands |-> "none"]
    /\ process = [c \in Commands |-> "none"]
    /\ timer = [c \in Commands |-> FALSE]
    /\ byUser = [c \in Commands |-> FALSE]
    /\ byTimeout = [c \in Commands |-> FALSE]
    /\ completed = <<>>
    /\ kill = [c \in Commands |-> "none"]
    /\ closing = "open" /\ targets = {} /\ late = {}
    /\ cause = [c \in Commands |-> "none"]
    /\ told = [c \in Commands |-> {}]

\* The commands with a record: each takes a slot.
Records == {c \in Commands : place[c] \in {"running", "flushing"}}

Alive(c) == process[c] \in {"alive", "immune"}

(***************************************************************************)
(* Starting a command.                                                     *)
(***************************************************************************)
\* start: the limit is read before the spawn is awaited.
FreeSlot == Cardinality(Records) < MaxSlots

\* Nobody asks whether the session is open: the call of an agent that was
\* closed gets as far.
Start ==
    /\ nextId < MaxStarts
    /\ FreeSlot
    /\ "startsTogether" \in Env \/ \A c \in Commands : place[c] # "spawning"
    /\ nextId' = nextId + 1
    /\ place' = [place EXCEPT ![nextId'] = "spawning"]
    /\ UNCHANGED <<process, record, completed, kill, teardown, cause, told>>

\* The process is there before its start is answered.
ProcessStarts(c) ==
    /\ place[c] = "spawning" /\ process[c] = "none"
    /\ process' = [process EXCEPT ![c] = "alive"]
    /\ UNCHANGED <<nextId, place, record, completed, kill, teardown, cause, told>>

\* The spawn is answered, and the process has its record: it may have ended,
\* and killAll may have been by.
Spawned(c) ==
    /\ place[c] = "spawning" /\ process[c] # "none"
    /\ place' = [place EXCEPT ![c] = "running"]
    /\ \E timed \in BOOLEAN : timer' = [timer EXCEPT ![c] = timed]
    /\ late' = IF closing = "open" THEN late ELSE late \cup {c}
    /\ UNCHANGED <<nextId, process, byUser, byTimeout, completed, kill, closing,
                   targets, cause, told>>

\* The start throws: nothing was started, or the answer did not come in time
\* or names no process.  Nobody signals what was.
SpawnFails(c) ==
    /\ place[c] = "spawning"
    /\ (IF process[c] = "none" THEN "spawnFails" ELSE "spawnLeaks") \in Env
    /\ place' = [place EXCEPT ![c] = "rejected"]
    /\ UNCHANGED <<nextId, process, record, completed, kill, teardown, cause,
                   told>>

(***************************************************************************)
(* The process.                                                            *)
(***************************************************************************)
\* What ends a live process is the first that is decided about it.
Blamed(cs, why) ==
    cause' = [c \in Commands |-> IF c \in cs /\ Alive(c) /\ cause[c] = "none"
                                   THEN why ELSE cause[c]]

\* It ends by itself.  One that outlives a signal does so later.
Exit(c) ==
    /\ Alive(c)
    /\ process' = [process EXCEPT ![c] = "gone"]
    /\ Blamed({c}, "exited")
    /\ UNCHANGED <<nextId, place, record, completed, kill, teardown, told>>

\* The signal reaches the commands cs.
Signalled(cs) ==
    \E deaf \in SUBSET (IF "outlive" \in Env THEN cs ELSE {}) :
      process' = [c \in Commands |->
        IF c \in cs /\ Alive(c)
          THEN IF c \in deaf THEN "immune" ELSE "gone"
          ELSE process[c]]

(***************************************************************************)
(* The end of a command.                                                   *)
(***************************************************************************)
\* The spawner reports the end of the process.
HasEnded(c) == process[c] = "gone" \/ "probeFails" \in Env

\* process.exited: the readers get a moment to flush.
ExitSeen(c) ==
    /\ place[c] = "running"
    /\ HasEnded(c)
    /\ place' = [place EXCEPT ![c] = "flushing"]
    /\ UNCHANGED <<nextId, process, record, completed, kill, teardown, cause,
                   told>>

\* The newest completed commands are kept.
Newest(s) == SubSeq(s, 1, IF Len(s) > MaxCompleted THEN MaxCompleted
                                                   ELSE Len(s))

\* Mutation: a killed record is not finalized again.
UnfinalizedUnkilled(c) == place[c] = "flushing" /\ ~ byUser[c]

Unfinalized(c) == place[c] = "flushing"

\* finalize: the record leaves its slot and is settled; its tail is decoded.
Finalize(c) ==
    /\ Unfinalized(c)
    /\ place' = [place EXCEPT ![c] = "decoding"]
    /\ timer' = [timer EXCEPT ![c] = FALSE]
    /\ completed' = Newest(<<c>> \o completed)
    /\ UNCHANGED <<nextId, process, byUser, byTimeout, kill, teardown, cause,
                   told>>

\* BackgroundCommandDone.reason.
Reason(c) == IF byTimeout[c] THEN "timeout"
             ELSE IF byUser[c] THEN "killed" ELSE "exited"

\* Mutation: a killed command is announced as well.
NoticeAlways(c) == {Reason(c)}

\* notifyBackgroundCommand: a kill is not announced, its tool reports it.
Notice(c) == IF Reason(c) = "killed" THEN {} ELSE {Reason(c)}

\* The tail is decoded and the listeners hear of the end; a closed session's
\* agent has unsubscribed.
Told(c) ==
    /\ place[c] = "decoding"
    /\ place' = [place EXCEPT ![c] = "over"]
    /\ told' = [told EXCEPT ![c] = IF closing = "open" THEN @ \cup Notice(c)
                                                       ELSE @]
    /\ UNCHANGED <<nextId, process, record, completed, kill, teardown, cause>>

(***************************************************************************)
(* Timeouts and kills.                                                     *)
(***************************************************************************)
TimerFires(c) ==
    /\ timer[c] /\ c \in Records
    /\ "killLate" \in Env \/ Alive(c)
    /\ timer' = [timer EXCEPT ![c] = FALSE]
    /\ byTimeout' = [byTimeout EXCEPT ![c] = TRUE]
    /\ Signalled({c}) /\ Blamed({c}, "timeout")
    /\ UNCHANGED <<nextId, place, byUser, completed, kill, teardown, told>>

\* The kill tool's call up to the await of the signal.  A completed command
\* needs no kill, an unknown one throws.
Kill(c) ==
    /\ closing = "open"
    /\ c \in Records /\ kill[c] = "none"
    /\ "killLate" \in Env \/ Alive(c)
    /\ "killTwice" \in Env \/ ~ byTimeout[c]
    /\ byUser' = [byUser EXCEPT ![c] = TRUE]
    /\ timer' = [timer EXCEPT ![c] = FALSE]
    /\ kill' = [kill EXCEPT ![c] = "signalling"]
    /\ Blamed({c}, "killed")
    /\ UNCHANGED <<nextId, place, process, byTimeout, completed, teardown,
                   told>>

KillSignalled(c) ==
    /\ kill[c] = "signalling"
    /\ kill' = [kill EXCEPT ![c] = "waiting"]
    /\ Signalled({c})
    /\ UNCHANGED <<nextId, place, record, completed, teardown, cause, told>>

\* Mutation: the kill waits for the signal only.
DoneWhenGone(c) == TRUE

\* awaitSettled: the record has left the running set.
IsSettled(c) == place[c] \in {"decoding", "over"}

\* The wait of a kill ends: the record is settled, or, when the process
\* outlives the signal, the bound elapses (KILL_SETTLE_WAIT_MS is longer than
\* a flush).
KillReturns(c) ==
    /\ kill[c] = "waiting"
    /\ \/ /\ IsSettled(c)
          /\ kill' = [kill EXCEPT ![c] = "done"]
          /\ told' = [told EXCEPT ![c] = @ \cup {"killed"}]
       \/ /\ process[c] = "immune" /\ c \in Records
          /\ kill' = [kill EXCEPT ![c] = "done"]
          /\ told' = [told EXCEPT ![c] = @ \cup {"unsettled"}]
    /\ UNCHANGED <<nextId, place, process, record, completed, teardown, cause>>

(***************************************************************************)
(* The close of the session.                                               *)
(***************************************************************************)
\* killAll takes the commands that have a record.
Targets == Records

\* SessionPool.close: the agent closes, then killAll up to its first await.
CloseCommands ==
    /\ "close" \in Env
    /\ closing = "open"
    /\ closing' = "killing"
    /\ targets' = Targets
    /\ byUser' = [c \in Commands |-> byUser[c] \/ c \in Targets]
    /\ timer' = [c \in Commands |-> timer[c] /\ c \notin Targets]
    /\ Blamed(Targets, "killed")
    /\ UNCHANGED <<nextId, place, process, byTimeout, completed, kill, late, told>>

CloseSignalled ==
    /\ closing = "killing"
    /\ closing' = "waiting"
    /\ Signalled(targets)
    /\ UNCHANGED <<nextId, place, record, completed, kill, targets, late, cause,
                   told>>

\* Every wait of killAll has ended, as a kill's does.
CloseReturns ==
    /\ closing = "waiting"
    /\ \A c \in targets : IsSettled(c) \/ process[c] = "immune"
    /\ closing' = "closed"
    /\ UNCHANGED <<nextId, place, process, record, completed, kill, targets, late,
                   cause, told>>

CommandsNext ==
    \/ Start \/ CloseCommands \/ CloseSignalled \/ CloseReturns
    \/ \E c \in Commands :
         \/ ProcessStarts(c) \/ Spawned(c) \/ SpawnFails(c) \/ Exit(c)
         \/ ExitSeen(c) \/ Finalize(c) \/ Told(c)
         \/ TimerFires(c) \/ Kill(c) \/ KillSignalled(c) \/ KillReturns(c)

CommandsSpec == CommandsInit /\ [][CommandsNext]_commandVars

\* What was begun goes on: a spawn, the callbacks of a process, the flush and
\* the signals are bounded by timers.  A process need not end by itself.
CommandsFairness ==
    /\ \A c \in Commands :
         WF_commandVars(ProcessStarts(c) \/ Spawned(c) \/ ExitSeen(c) \/ Finalize(c) \/ Told(c)
                 \/ KillSignalled(c) \/ KillReturns(c))
    /\ WF_commandVars(CloseSignalled \/ CloseReturns)

CommandsFairSpec == CommandsSpec /\ CommandsFairness

(***************************************************************************)
(* Properties.                                                             *)
(***************************************************************************)
CommandsTypeOK ==
    /\ nextId \in 0 .. MaxStarts
    /\ place \in [Commands -> Places]
    /\ process \in [Commands -> {"none", "alive", "immune", "gone"}]
    /\ timer \in [Commands -> BOOLEAN]
    /\ byUser \in [Commands -> BOOLEAN]
    /\ byTimeout \in [Commands -> BOOLEAN]
    /\ completed \in Seq(Commands) /\ Len(completed) <= MaxCompleted
    /\ kill \in [Commands -> {"none", "signalling", "waiting", "done"}]
    /\ closing \in {"open", "killing", "waiting", "closed"}
    /\ targets \subseteq Commands /\ late \subseteq Commands
    /\ cause \in [Commands -> {"none", "exited", "timeout", "killed"}]
    /\ told \in [Commands ->
                   SUBSET {"exited", "timeout", "killed", "unsettled"}]

\* A process without a record: its start is on the way, or was reported as
\* failed.
Unrecorded(c) == place[c] \in {"spawning", "rejected"}

\* No more processes run at once than there are slots, those of failed starts
\* aside: a slot is free only when the process that held it has ended (start,
\* finalize).
ProcessesAreLimited ==
    Cardinality({c \in Commands : Alive(c) /\ place[c] # "rejected"}) <= MaxSlots

\* A process that was recorded keeps its record as long as it runs: it can be
\* listed, killed and is killed by the close.
ProcessesAreKnown ==
    \A c \in Commands : Alive(c) => place[c] = "running" \/ Unrecorded(c)

\* The agent hears of the end of a command once, by a notification or as the
\* result of its kill (session-agent.ts, notifyBackgroundCommand).  What it was
\* told did not settle in time it hears no more of.
EndIsToldOnce ==
    \A c \in Commands :
      place[c] = "over" /\ closing = "open" =>
        CASE kill[c] \in {"signalling", "waiting"} -> told[c] = {}
          [] "unsettled" \in told[c] -> kill[c] = "done" /\ told[c] = {"unsettled"}
          [] OTHER -> Cardinality(told[c]) = 1

\* What the agent hears is what happened: "exited" when the process ended by
\* itself, "timeout" and "killed" when that ended it.
ReasonIsTheCause ==
    \A c \in Commands : told[c] \subseteq {cause[c], "unsettled"}

\* The agent is told of an end at most once, with its true cause, and not at
\* all only when its kill had said that the command did not settle.
EndsAreTold == EndIsToldOnce /\ ReasonIsTheCause

\* A kill that reports success left no process, and a status check that
\* follows it sees no running command (kill, awaitSettled).
KilledIsOver ==
    \A c \in Commands :
      "killed" \in told[c] => ~ Alive(c) /\ c \notin Records

\* When close() resolves every process has been signalled, and no command is
\* reported as running but one whose process outlived its signal (killAll);
\* what had no record when killAll looked is not covered.
ClosedIsQuiet ==
    closing = "closed" =>
      \A c \in Commands \ late :
        (Alive(c) /\ ~ Unrecorded(c)) \/ c \in Records =>
          process[c] # "alive" /\ cause[c] \in {"killed", "timeout"}

\* Records and processes correspond, from the first record to the last exit:
\* what is limited, listed, killed and closed is what runs, but for what has no
\* record yet or never gets one.
ProcessesAreAccountedFor ==
    /\ CommandsTypeOK /\ ProcessesAreLimited /\ ProcessesAreKnown
    /\ KilledIsOver /\ ClosedIsQuiet

\* A process that has ended is settled and told of, a start is answered.
EndsAreSettled ==
    \A c \in Commands :
      /\ process[c] = "gone" ~> place[c] \in {"over", "rejected"}
      /\ place[c] = "spawning" ~> place[c] # "spawning"

\* A close resolves, also when a process outlives its signal.
ClosesResolve == closing # "open" ~> closing = "closed"

\* Whatever runs or is being closed comes to its end.
EverythingSettles == EndsAreSettled /\ ClosesResolve

(***************************************************************************)
(* What comments of the code promise and the code does not keep.           *)
(***************************************************************************)
\* Once the close resolves the background commands are dead (agent/pool.ts,
\* close) and none is reported as running (killAll).
CloseStopsCommands ==
    closing = "closed" =>
      \A c \in Commands : process[c] # "alive" /\ place[c] # "running"

\* A start that failed started nothing: what runs can be listed and killed.
FailedStartsAreClean ==
    \A c \in Commands : place[c] = "rejected" => ~ Alive(c)

\* The agent hears of every end: the result of a kill reports it, so that the
\* notification would be redundant (notifyBackgroundCommand).
EveryEndIsHeard ==
    \A c \in Commands :
      place[c] = "over" /\ closing = "open" /\ kill[c] \in {"none", "done"} =>
        told[c] \cap {"exited", "timeout", "killed"} # {}
=============================================================================
