--------------------------- MODULE TranscriptRows ---------------------------
(***************************************************************************)
(* One conversation's messages in memory and in the table:                 *)
(*   packages/core/agent/transcript.ts (TranscriptStore),                  *)
(*   packages/core/agent/rewinder.ts, the paths of session-agent.ts that   *)
(*   write history, session/messages.ts (the rows) and the span a          *)
(*   compaction selects (ai/compaction-span.ts).                           *)
(*                                                                         *)
(* The agent holds a view: the newest checkpoint of the table onward, as   *)
(* it was when the conversation was opened, and everything since.  "base"  *)
(* is where the view starts in the table and "count" how much of it has    *)
(* rows.  Prompts enter the view without a row and get one with the next   *)
(* message the run announces; a summary is written for seconds while the   *)
(* conversation goes on.  One action is the code between two awaits.       *)
(***************************************************************************)
EXTENDS Naturals, Sequences, FiniteSets, FiniteSetsExt, SequencesExt

CONSTANTS
    MaxNew,   \* bound: messages beyond the first six stamps
    MaxView,  \* bound: messages the view holds
    Env       \* which optional behaviours happen

\* The optional behaviours.
Behaviours == {
    "contexts",   \* a context provider has an update to publish
    "routine",    \* a routine prompts and may have nothing to say
    "crash",      \* the process dies and the conversation is opened again
    "rebuild",    \* a configuration change replaces the idle agent
    "rebuildUnstored", \* ... also while its view has messages without rows
    "rebuildInSummary",\* ... also while a summary is being written
    "lateSummary",     \* an undo leaves a summary of what it removes out
    "tailCut",         \* a cut inside the part of the view without rows
    "undoUnstored",    \* an undo with messages without rows in front or gone
    "undoQueued" }     \* an undo of a prompt that is nowhere cuts what is older

ASSUME BoundsAssumption == MaxNew \in Nat /\ MaxView \in Nat
ASSUME EnvAssumption == Env \subseteq Behaviours

\* A message's stamp is its id (nextTimestamp).  "calls" is an assistant turn
\* that called tools, "said" one with prose or an error, "quiet" one whose
\* text is the silence sentinel.
Roles == {"user", "context", "calls", "result", "said", "quiet", "checkpoint"}
Stamps == 1..(6 + MaxNew)
Message == [id : Stamps, role : Roles, covers : SUBSET Stamps]
NoSummary == [by |-> "none", cut |-> 0, covers |-> {}, context |-> FALSE,
              len |-> 0, newest |-> 0, closed |-> FALSE]

VARIABLES
    rows,      \* the session's rows of the table, in rowid order
    view,      \* agent.state.messages
    base,      \* TranscriptStore.base
    count,     \* TranscriptStore.count
    at,        \* where the live run is: idle, top of its loop, awaiting its
               \* summary, or in a turn
    queue,     \* agent.steerQueue
    summary,   \* the compaction whose summary is being written
    routineAt, \* the view position before the live routine's prompt, or none
    clock,     \* the next stamp
    shown,     \* the messages a connected client was told of and not told off
    asked,     \* the prompts a client was shown and may undo
    undone,    \* the prompts that were undone (history)
    silenced   \* the messages of silent routine runs (history)

history == <<undone, silenced>>
vars == <<rows, view, base, count, at, queue, summary, routineAt, clock,
          shown, asked, undone, silenced>>

None == 6 + MaxNew + 1
Plain(id, role) == [id |-> id, role |-> role, covers |-> {}]
Ids(s) == {s[i].id : i \in DOMAIN s}

(***************************************************************************)
(* Positions.  The code counts from 0: "index i" below is i messages in    *)
(* front.                                                                  *)
(***************************************************************************)
\* deleteFrom, splice(cut): what is in front of an index stays.
Cut(s, i) == SubSeq(s, 1, IF i < Len(s) THEN i ELSE Len(s))

\* insertAt, splice(index, 0, message): an index past the end appends.
Splice(s, i, m) == IF i < Len(s) THEN InsertAt(s, i + 1, m) ELSE Append(s, m)

\* The newest checkpoint, or the first message (contextStart).
ContextStart(s) ==
    LET marks == {i \in DOMAIN s : s[i].role = "checkpoint"}
    IN  IF marks = {} THEN 1 ELSE CHOOSE i \in marks : \A j \in marks : j <= i

\* listModelView.
ModelView(s) == SubSeq(s, ContextStart(s), Len(s))

Assistant == {"calls", "said", "quiet"}

\* Mutation: a cut may separate a call from its result.
AnyPosition(s, from, p) == TRUE

\* A position that begins a unit: an assistant message keeps its results.
StartsUnit(s, from, p) ==
    ~ \E q \in from..(p - 1) :
        /\ s[q].role \in Assistant
        /\ \A r \in (q + 1)..p : s[r].role = "result"

\* Where selectCompactionSpan may cut, whatever the messages weigh: the newest
\* unit stays, and the head is more than a checkpoint.
CutPoints(s) ==
    LET from == ContextStart(s)
    IN  {p \in (from + 1)..Len(s) :
            /\ StartsUnit(s, from, p)
            /\ \E q \in from..(p - 1) : s[q].role # "checkpoint"}

(***************************************************************************)
(* Opening.                                                                *)
(***************************************************************************)
\* A conversation that was condensed once: its checkpoint was stamped after
\* the messages it was put in front of.
Condensed == << Plain(1, "user"), Plain(2, "said"),
                [id |-> 5, role |-> "checkpoint", covers |-> {1, 2}],
                Plain(3, "user"), Plain(4, "said") >>

Init ==
    /\ rows \in {<< >>, Condensed}
    /\ view = ModelView(rows)
    /\ base = Len(rows) - Len(view)
    /\ count = Len(view)
    /\ at = "idle" /\ queue = << >> /\ routineAt = None
    /\ summary = NoSummary
    /\ clock = 6
    /\ shown = Ids(rows)
    /\ asked = {id \in Ids(rows) : id \in {1, 3}}
    /\ undone = {} /\ silenced = {}

Room(n) == clock + n <= 7 + MaxNew /\ Len(view) + n <= MaxView

(***************************************************************************)
(* TranscriptStore.persist: rows for everything without one.               *)
(***************************************************************************)
\* Mutation: only the newest message gets a row.
NewestOnly(v) == Append(rows, v[Len(v)])

\* The table once every message of the view has its row.
WithRows(v) ==
    rows \o SubSeq(v, 1 + (IF Len(v) < count THEN Len(v) ELSE count), Len(v))

(***************************************************************************)
(* Prompts.                                                                *)
(***************************************************************************)
\* publishContexts: what the providers have to say comes first.
Preamble(n) == IF n = 0 THEN << >> ELSE << Plain(clock, "context") >>

ContextChoice == IF "contexts" \in Env THEN {0, 1} ELSE {0}

\* runPrompt to an idle agent: the prompt is announced, enters the view and
\* starts a run; it has no row yet.
Prompt(n, routine) ==
    LET message == Plain(clock + n, "user")
    IN  /\ at = "idle" /\ Room(n + 1)
        /\ routine => "routine" \in Env
        /\ view' = view \o Preamble(n) \o << message >>
        /\ at' = "top"
        /\ routineAt' = IF routine THEN Len(view) + n ELSE None
        /\ clock' = clock + n + 1
        /\ shown' = shown \cup Ids(Preamble(n)) \cup {message.id}
        /\ asked' = asked \cup {message.id}
        /\ UNCHANGED <<rows, base, count, queue, summary, history>>

\* promptWhileRunning into the live run: queued under the stamp of now.  The
\* clients are told; "shown" counts it from the moment it is in the view.
Steer(n) ==
    /\ at # "idle" /\ Room(n + 1)
    /\ Len(queue) < 2
    /\ view' = view \o Preamble(n)
    /\ queue' = Append(queue, clock + n)
    /\ clock' = clock + n + 1
    /\ shown' = shown \cup Ids(Preamble(n))
    /\ asked' = asked \cup {clock + n}
    /\ UNCHANGED <<rows, base, count, at, summary, routineAt, history>>

\* The top of the exchange loop takes a queued message into the view.
Drain ==
    /\ at = "top" /\ queue # << >>
    /\ Len(view) < MaxView
    /\ view' = Append(view, Plain(Head(queue), "user"))
    /\ queue' = Tail(queue)
    /\ shown' = shown \cup {Head(queue)}
    /\ UNCHANGED <<rows, base, count, at, summary, routineAt, clock, asked,
                   history>>

(***************************************************************************)
(* Turns.                                                                  *)
(***************************************************************************)
\* The loop goes on to its request: nothing to condense, or its own summary is
\* done (another one, a manual /compact, does not hold it up).
GoOn ==
    /\ \/ at = "top" /\ queue = << >>
       \/ at = "summary" /\ summary.by # "step"
    /\ at' = "turn"
    /\ UNCHANGED <<rows, view, base, count, queue, summary, routineAt, clock,
                   shown, asked, history>>

\* runWasSilent: from the routine's prompt on, nothing but tool traffic,
\* silence and what the session itself wrote.
RunWasSilent(v, from) ==
    /\ Len(v) > from + 1
    /\ \A i \in (from + 2)..Len(v) : v[i].role \notin {"said", "user"}

\* A summary that is out still describes a view cut down to n messages.
SummarySurvives(n) ==
    \/ summary.by \in {"none", "idle"} \/ n > summary.cut
    \/ "lateSummary" \in Env

\* dropRunFrom.  The rows are deleted by forgetFrom before truncateFrom lists
\* them, so the list of what went away is empty and nothing is announced.
DropRunFrom(stored, v, from) ==
    /\ SummarySurvives(from)
    /\ view' = Cut(v, from)
    /\ count' = Len(Cut(v, from))
    /\ rows' = Cut(stored, base + from)
    /\ silenced' = silenced \cup Ids(SubSeq(v, from + 1, Len(v)))

\* What a turn brings: its message, and the results of its calls.
Landed(kind) ==
    IF kind = "calls"
      THEN << Plain(clock, "calls"), Plain(clock + 1, "result") >>
      ELSE << Plain(clock, kind) >>

\* step() returns with the run still live: the messages are appended, announced
\* and stored.  A turn that called tools goes on; any other ends the run
\* unless something is queued.  A routine's run that said nothing is dropped.
TurnLands(kind) ==
    LET v == view \o Landed(kind)
        ends == kind # "calls" /\ queue = << >>
    IN  /\ at = "turn" /\ Room(Len(Landed(kind)))
        /\ kind = "quiet" => routineAt # None
        /\ clock' = clock + Len(Landed(kind))
        /\ at' = IF ends THEN "idle" ELSE "top"
        /\ routineAt' = IF ends THEN None ELSE routineAt
        /\ shown' = shown \cup Ids(Landed(kind))
        /\ IF ends /\ routineAt # None /\ RunWasSilent(v, routineAt)
             THEN DropRunFrom(WithRows(v), v, routineAt)
             ELSE /\ view' = v /\ rows' = WithRows(v) /\ count' = Len(v)
                  /\ UNCHANGED silenced
        /\ UNCHANGED <<base, queue, summary, asked, undone>>

\* A run that is gone does not wait for its summary; the summary goes on.
Detached(s) == IF s.by = "step" THEN [s EXCEPT !.by = "manual"] ELSE s

\* The stop button: the run is over, what was queued is dropped, a turn that is
\* out writes nothing.  A summary being written for it goes on.  A routine's
\* run that only called tools counts as silent.
Stop ==
    /\ at # "idle"
    /\ at' = "idle" /\ queue' = << >> /\ routineAt' = None
    /\ summary' = Detached(summary)
    /\ IF routineAt # None /\ RunWasSilent(view, routineAt)
         THEN /\ routineAt <= count \/ "undoUnstored" \in Env
              /\ DropRunFrom(rows, view, routineAt)
         ELSE UNCHANGED <<rows, view, count, silenced>>
    /\ UNCHANGED <<base, clock, shown, asked, undone>>

(***************************************************************************)
(* Compaction.  A summary is "step" while the run waits for it             *)
(* (compactBeforeStep), "idle" for the check after a silence, and "manual" *)
(* for /compact, for the recovery from an overflow and for one whose run   *)
(* was stopped: all but the idle check commit without looking again.       *)
(***************************************************************************)
\* Mutation: the idle check commits whatever happened meanwhile.
CommitAlways == TRUE

\* canCommit of compactAfterIdle.
CanCommit ==
    /\ at = "idle" /\ ~ summary.closed
    /\ Len(view) = summary.len
    /\ Len(view) > 0 => view[Len(view)].id = summary.newest

\* runOnce up to the summarizer's call.  One compaction runs at a time.
BeginSummary(by, p) ==
    LET head == SubSeq(view, ContextStart(view), p - 1)
    IN  /\ summary = NoSummary
        /\ p \in CutPoints(view)
        /\ p <= count \/ "tailCut" \in Env
        /\ \/ by = "step" /\ at = "top" /\ queue = << >>
           \/ by = "step" /\ at = "summary"
           \/ by = "idle" /\ at = "idle"
           \/ by = "manual"
        /\ at' = IF by = "step" THEN "summary" ELSE at
        /\ summary' = [by |-> by, cut |-> p - 1, covers |-> Ids(head),
                       context |-> \E i \in DOMAIN head : head[i].role = "context",
                       len |-> Len(view), newest |-> view[Len(view)].id,
                       closed |-> FALSE]
        /\ UNCHANGED <<rows, view, base, count, queue, routineAt, clock, shown,
                       asked, history>>

\* Mutation: an insertion is not counted.
CountKept(cut) == count

\* TranscriptStore.insertAt: the count after a checkpoint was put in.
CountAfterInsert(cut) ==
    IF cut = 0 \/ cut < count THEN count + 1 ELSE count

\* A provider whose value went behind the checkpoint publishes it again.
Republished(v) ==
    LET seen == ModelView(v)
    IN  IF /\ summary.context
           /\ summary.cut < Len(view)
           /\ \A i \in DOMAIN seen : seen[i].role # "context"
          THEN << Plain(clock + 1, "context") >> ELSE << >>

\* The summary comes back: the checkpoint gets its row, then its place in the
\* view.  It is stamped now, after the messages it is put in front of.  The
\* clients are told which message it precedes; with none onCompacted throws.
\* An agent that was closed meanwhile writes into a store of its own.
SummaryReturns ==
    LET cut == summary.cut
        checkpoint == [id |-> clock, role |-> "checkpoint",
                       covers |-> summary.covers]
        v == Splice(view, cut, checkpoint)
        again == Republished(v)
    IN  /\ summary # NoSummary
        /\ summary.by = "idle" => CanCommit
        /\ Room(1 + Len(again))
        /\ clock' = clock + 1 + Len(again)
        /\ rows' = Splice(rows, base + cut, checkpoint)
        /\ count' = IF summary.closed THEN count ELSE CountAfterInsert(cut)
        /\ view' = v \o again
        /\ shown' = IF cut < Len(view)
                      THEN shown \cup {clock} \cup Ids(again) ELSE shown
        /\ summary' = NoSummary
        /\ UNCHANGED <<base, at, queue, routineAt, asked, history>>

\* No summary, an empty one, one that is no shorter, or a check that failed:
\* the transcript stays as it is.
SummaryFails ==
    /\ summary # NoSummary
    /\ summary' = NoSummary
    /\ UNCHANGED <<rows, view, base, count, at, queue, routineAt, clock, shown,
                   asked, history>>

(***************************************************************************)
(* Rewinder.run: undo a prompt and everything after it.  Its await is for  *)
(* a stopped run, which has ended by then: nothing comes between.          *)
(***************************************************************************)
\* Mutation: the rows stay.
CutViewOnly(i) ==
    /\ view' = Cut(view, i)
    /\ count' = Len(Cut(view, i))
    /\ shown' = shown \ Ids(SubSeq(view, i + 1, Len(view)))
    /\ UNCHANGED <<rows, base>>

\* The view and the rows from position i of the view on are gone.
CutView(i) ==
    /\ view' = Cut(view, i)
    /\ count' = Len(Cut(view, i))
    /\ rows' = Cut(rows, base + i)
    /\ shown' = shown \ Ids(SubSeq(view, i + 1, Len(view)))
    /\ UNCHANGED base

\* The target is in the view.
UndoInView(t) ==
    \E i \in DOMAIN view :
        /\ view[i].id = t /\ view[i].role = "user"
        /\ SummarySurvives(i - 1)
        /\ i - 1 <= count \/ "undoUnstored" \in Env
        /\ CutView(i - 1)

\* The target is behind the view: its rows go and the view is read again.
UndoBehindView(t) ==
    /\ \A i \in DOMAIN view : view[i].id # t
    /\ SummarySurvives(0)
    /\ count = Len(view) \/ "undoUnstored" \in Env
    /\ \E j \in DOMAIN rows :
          /\ rows[j].id = t /\ rows[j].role = "user"
          /\ rows' = Cut(rows, j - 1)
          /\ view' = ModelView(rows')
          /\ base' = Len(rows') - Len(view')
          /\ count' = Len(view')
          /\ shown' = shown \ Ids(SubSeq(rows, j, Len(rows)))

\* What is stamped after t came after it: no checkpoint was put among older
\* messages since, none that was drained late stands behind newer ones.
Orderly(t) ==
    \A i, j \in DOMAIN view : i <= j /\ view[i].id > t =>
        view[j].id > t /\ view[j].role # "checkpoint"

\* The target is in neither, and newer than every prompt: it was queued.  What
\* is stamped after it goes.
UndoQueued(t) ==
    LET newer == {i \in DOMAIN view : view[i].id > t}
        first == IF newer = {} THEN Len(view) ELSE Min(newer) - 1
    IN  /\ \A i \in DOMAIN view : view[i].id # t
        /\ \A j \in DOMAIN rows : rows[j].id # t
        /\ \A i \in DOMAIN view : view[i].role = "user" => view[i].id < t
        /\ Orderly(t) \/ "undoQueued" \in Env
        /\ SummarySurvives(first)
        /\ first <= count \/ newer = {} \/ "undoUnstored" \in Env
        /\ IF newer = {} THEN UNCHANGED <<rows, view, base, count, shown>>
                         ELSE CutView(first)

\* A live run is stopped first; what is queued goes with it.
Undo(t) ==
    /\ t \in asked
    /\ at # "idle" => routineAt = None
    /\ UndoInView(t) \/ UndoBehindView(t) \/ UndoQueued(t)
    /\ at' = "idle" /\ queue' = << >> /\ routineAt' = None
    /\ summary' = Detached(summary)
    /\ undone' = undone \cup {t}
    /\ UNCHANGED <<clock, asked, silenced>>

(***************************************************************************)
(* The process and the pool.                                               *)
(***************************************************************************)
\* Everything but the rows is gone; the conversation is opened again and a
\* client reads what it holds.
Crash ==
    /\ "crash" \in Env
    /\ view' = ModelView(rows)
    /\ base' = Len(rows) - Len(view')
    /\ count' = Len(view')
    /\ at' = "idle" /\ queue' = << >> /\ routineAt' = None
    /\ summary' = NoSummary
    /\ shown' = Ids(rows)
    /\ asked' = asked \cap Ids(rows)
    /\ UNCHANGED <<rows, clock, history>>

\* pool.rebuild: a new agent takes over the idle one's view and base, and takes
\* all of it for stored.  The idle check of the closed agent commits nothing.
Rebuild ==
    /\ "rebuild" \in Env
    /\ at = "idle"
    /\ count = Len(view) \/ "rebuildUnstored" \in Env
    /\ summary.by = "manual" => "rebuildInSummary" \in Env
    /\ count' = Len(view)
    /\ summary' = IF summary = NoSummary THEN summary
                                         ELSE [summary EXCEPT !.closed = TRUE]
    /\ UNCHANGED <<rows, view, base, at, queue, routineAt, clock, shown, asked,
                   history>>

Next ==
    \/ \E n \in ContextChoice, routine \in BOOLEAN : Prompt(n, routine)
    \/ \E n \in ContextChoice : Steer(n)
    \/ Drain
    \/ GoOn
    \/ \E kind \in {"calls", "said", "quiet"} : TurnLands(kind)
    \/ Stop
    \/ \E by \in {"step", "idle", "manual"}, p \in DOMAIN view :
          BeginSummary(by, p)
    \/ SummaryReturns
    \/ SummaryFails
    \/ \E t \in asked : Undo(t)
    \/ Crash
    \/ Rebuild

Spec == Init /\ [][Next]_vars

(***************************************************************************)
(* Properties.                                                             *)
(***************************************************************************)
\* The whole conversation: what is behind the view, and the view.
Log == Cut(rows, base) \o view

\* Every variable has its type.
TypeOK ==
    /\ rows \in Seq(Message) /\ view \in Seq(Message)
    /\ base \in Nat /\ count \in Nat
    /\ at \in {"idle", "top", "summary", "turn"}
    /\ queue \in Seq(Stamps)
    /\ summary \in [by : {"none", "step", "idle", "manual"}, cut : Nat,
                    covers : SUBSET Stamps, context : BOOLEAN, len : Nat,
                    newest : Stamps \cup {0}, closed : BOOLEAN]
    /\ routineAt \in Nat
    /\ clock \in 6..(7 + MaxNew)
    /\ shown \subseteq Stamps /\ asked \subseteq Stamps
    /\ undone \subseteq Stamps /\ silenced \subseteq Stamps

\* The count is the number of the view's messages that have a row, and those
\* rows are the end of the table from base on (transcript.ts:15-16, 18-20): no
\* row is written twice, none is missing, no later cut is off.
RowsAreTheView ==
    /\ count <= Len(view)
    /\ Len(rows) = base + count
    /\ SubSeq(rows, base + 1, Len(rows)) = SubSeq(view, 1, count)

\* No message is in the conversation twice.
NoMessageTwice ==
    \A i, j \in DOMAIN Log : Log[i].id = Log[j].id => i = j

\* The view, its count and the table are one conversation, each message of it
\* in one place.
ViewAndRowsAgree == TypeOK /\ RowsAreTheView /\ NoMessageTwice

\* What the model is sent starts no turn in the middle: each result follows its
\* assistant message, in the view and in the view a restart would load
\* (compaction-span.ts:190-198).
CallsStayTogether ==
    \A s \in {ModelView(view), ModelView(rows)} :
        \A i \in DOMAIN s : s[i].role = "result" =>
            \E j \in 1..(i - 1) : /\ s[j].role = "calls"
                                  /\ \A k \in (j + 1)..i : s[k].role = "result"

\* A checkpoint stands for exactly what is between it and the checkpoint before
\* it: nothing the model still needs is covered, nothing is left out of both
\* the summary and the view, although the view may have moved on while the
\* summary was written (context-compaction.ts:384-388).
CheckpointsDescribeTheirPast ==
    \A i \in DOMAIN Log : Log[i].role = "checkpoint" =>
        LET before == SubSeq(Log, 1, i - 1)
        IN  Log[i].covers = Ids(ModelView(before))

\* A client that follows the events shows the conversation: it was told of
\* every message that entered it and of every one that left (rewinder.ts,
\* messages_truncated; session-agent.ts:420-444, messages_checkpoint), but for
\* silent routine runs, whose removal is not announced (see the README).
ClientsShowTheLog ==
    /\ Ids(Log) \subseteq shown
    /\ shown \ Ids(Log) \subseteq silenced

\* What was undone stays gone: neither a queued copy, nor a summary that was
\* being written, nor a restart brings it back.
UndoneStaysGone ==
    /\ undone \cap (Ids(Log) \cup Range(queue)) = {}
    /\ \A i \in DOMAIN Log : Log[i].covers \cap undone = {}

\* An undo takes the prompt and what came after it, and leaves everything that
\* came before (rewinder.ts:149-151).
UndoKeepsWhatCameBefore ==
    [][ \A t \in undone' \ undone :
          \A i \in DOMAIN Log :
             (Log[i].id < t /\ \A j \in 1..i : Log[j].id # t)
               => Log[i].id \in Ids(Log') ]_vars

\* An undo takes exactly an end of the conversation, once and for all, from the
\* memory, the table and the clients alike.
UndosAreExact == [](UndoneStaysGone /\ ClientsShowTheLog) /\ UndoKeepsWhatCameBefore

\* The conversation is one log whose beginning is stored.
Stored == INSTANCE StoredLog WITH log <- Log, stored <- base + count
ImplementsStoredLog == Stored!Spec
=============================================================================
