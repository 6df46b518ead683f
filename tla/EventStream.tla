------------------------------ MODULE EventStream ------------------------------
(***************************************************************************)
(* One session as a client sees it: the events of core.ts (emit) over the  *)
(* socket of server/routes/ws-stream.ts with the batched deltas of core/   *)
(* shared/ws-batch.ts, and the view of the web client (web/src/events/ and *)
(* hooks/useSessionEvents.ts, useRevisionProbe.ts).                        *)
(*                                                                         *)
(* Events are never repeated.  A client that missed some learns it from    *)
(* the revision, a count of the events emitted, and reads a snapshot over  *)
(* HTTP; the snapshot's parts are read one after the other and applied     *)
(* together, while events go on arriving.                                  *)
(*                                                                         *)
(* A message is a number, and greater ones are stamped later.  Of the      *)
(* panels one sub-agent stands for all.                                    *)
(***************************************************************************)
EXTENDS Naturals, Sequences, SequencesExt

CONSTANTS
    MaxRev,          \* bound: events emitted
    MaxMsgs,         \* bound: messages
    Page,            \* TRANSCRIPT_WINDOW_ITEMS
    MaxDrops,        \* bound: sockets that die
    MaxSyncs,        \* bound: snapshots being read at once
    Env              \* which optional behaviours happen

\* The optional behaviours.
Behaviours == {
    "steer",         \* a prompt is shown at once and stored after the turn
    "checkpoint",    \* a summary is inserted in front of the last message
    "steeredSummary",\* ... also when that one was steered
    "panelRace",     \* a sub-agent starts or ends while its panel is read
    "crossed",       \* snapshots are read or applied out of order
    "undoUnseen",    \* an undo while the client's socket is down or dead
    "steerUnseen",   \* a steered prompt while the socket is down or dead
    "undoRead",      \* an undo of all that a snapshot on its way holds
    "undoPage",      \* an undo of all that the client has loaded, not of all
    "behindAPage",   \* the client misses more messages than a page holds
    "readFails"}     \* a part of a snapshot cannot be read

ASSUME LimitAssumption == Page \in Nat \ {0}
ASSUME BoundAssumption ==
    /\ MaxRev \in Nat /\ MaxMsgs \in Nat /\ MaxDrops \in Nat
    /\ MaxSyncs \in Nat
ASSUME EnvAssumption == Env \subseteq Behaviours

Messages == 1 .. MaxMsgs

VARIABLES
    transcript,      \* the session's messages
    running,         \* a run is going on
    turn,            \* answers begun so far
    writing,         \* the newest of them is not complete
    steers,          \* prompts shown and not stored yet
    stamps,          \* messages stamped so far
    panel,           \* the sub-agent: "none", "running" or "finished"
    rev,             \* sessionRevisions: events emitted
    socket,          \* "opening", "up", "dead" or "down"
    wire,            \* frames on their way to the client
    batch,           \* text buffered by the batcher
    view,            \* the client's SessionView
    pending,         \* text waiting for the next animation frame
    known,           \* the client's revision marker
    syncs,           \* the snapshots being read, oldest first
    probe,           \* the revision a probe has read, or Idle
    drops,           \* sockets that died
    undone,          \* history: messages whose removal the client heard of
    told,            \* history: the newest answer whose end it heard of
    steered          \* history: messages that were steered

server == <<transcript, running, turn, writing, steers, stamps, panel>>
link == <<socket, wire, batch>>
client == <<view, pending, known>>
history == <<undone, told, steered>>
vars == <<server, rev, link, client, syncs, probe, drops, history>>

Idle == MaxRev + 1
NoText == [text |-> <<>>, rev |-> 0]

Init ==
    /\ transcript = <<>> /\ running = FALSE /\ turn = 0 /\ writing = FALSE
    /\ steers = <<>> /\ stamps = 0 /\ panel = "none" /\ rev = 0
    /\ socket = "up" /\ wire = <<>> /\ batch = NoText
    /\ view = [messages |-> <<>>, removed |-> {}, run |-> "idle",
               text |-> <<>>, panel |-> "none"]
    /\ pending = <<>> /\ known = 0
    /\ syncs = <<>> /\ probe = Idle /\ drops = 0
    /\ undone = {} /\ told = 0 /\ steered = {}

\* The newest n items.
Newest(s, n) == SubSeq(s, IF Len(s) > n THEN Len(s) - n + 1 ELSE 1, Len(s))

(***************************************************************************)
(* The server writes.                                                      *)
(***************************************************************************)
\* The batcher's frame of one session: its last revision, and how many
\* events it stands for.
Batched == IF batch.text = <<>> THEN <<>>
           ELSE <<[type |-> "delta", rev |-> batch.rev, text |-> batch.text]>>

\* SocketWriter.send: the buffered text goes first.
Write(frame) ==
    IF socket \in {"opening", "up"}
      THEN /\ wire' = wire \o Batched \o <<frame>>
           /\ batch' = NoText
           /\ UNCHANGED socket
      ELSE UNCHANGED link

\* core.ts, emit: every event counts.
Emits(frame) ==
    /\ rev < MaxRev
    /\ rev' = rev + 1
    /\ Write([frame EXCEPT !.rev = rev'])

Frame(type) == [type |-> type, rev |-> 0]

\* The bound of "behindAPage": what the client has missed of the transcript
\* it has loaded is on the newest page.
Near(log) ==
    LET seen == {i \in DOMAIN log : Contains(view.messages, log[i])}
        from == IF seen = {} THEN 1 ELSE CHOOSE i \in seen : \A j \in seen : i <= j
    IN "behindAPage" \in Env \/
         \A i \in from .. Len(log) : i \notin seen => i > Len(log) - Page

(***************************************************************************)
(* The session.                                                            *)
(***************************************************************************)
others == <<client, syncs, probe, drops, history>>

StartRun ==
    /\ ~ running
    /\ running' = TRUE
    /\ Emits(Frame("start"))
    /\ UNCHANGED <<transcript, turn, writing, steers, stamps, panel, others>>

\* The model begins an answer.
Begin ==
    /\ running /\ ~ writing
    /\ turn' = turn + 1 /\ writing' = TRUE
    /\ Emits(Frame("begin"))
    /\ UNCHANGED <<transcript, running, steers, stamps, panel, others>>

\* A text delta: counted when it is emitted, buffered until the next frame.
Type ==
    /\ writing /\ rev < MaxRev
    /\ rev' = rev + 1
    /\ batch' = IF socket \in {"opening", "up"}
                  THEN [text |-> Append(batch.text, turn), rev |-> rev']
                  ELSE batch
    /\ UNCHANGED <<server, socket, wire, others>>

\* The batcher's interval.
Flush ==
    /\ batch.text # <<>>
    /\ wire' = wire \o Batched
    /\ batch' = NoText
    /\ UNCHANGED <<server, rev, socket, others>>

\* The answer is complete; prompts that were steered in follow it.
Answer ==
    LET m == stamps + 1  log == Append(transcript, m) \o steers IN
    /\ writing /\ stamps < MaxMsgs /\ Near(log)
    /\ stamps' = m
    /\ transcript' = log
    /\ writing' = FALSE /\ steers' = <<>>
    /\ Emits([type |-> "message", rev |-> 0, message |-> m, turn |-> turn])
    /\ UNCHANGED <<running, turn, panel, others>>

\* A prompt, or any message of another role, which is shown and stored.
Add ==
    LET m == stamps + 1  log == Append(transcript, m) IN
    /\ ~ writing /\ stamps < MaxMsgs /\ Near(log)
    /\ stamps' = m
    /\ transcript' = log
    /\ Emits([type |-> "message", rev |-> 0, message |-> m, turn |-> 0])
    /\ UNCHANGED <<running, turn, writing, steers, panel, others>>

\* A prompt for a running turn is announced at once.
Steer ==
    LET m == stamps + 1 IN
    /\ "steer" \in Env
    /\ "steerUnseen" \in Env \/ socket \in {"opening", "up"}
    /\ writing /\ stamps < MaxMsgs - 1
    /\ stamps' = m
    /\ steers' = Append(steers, m)
    /\ steered' = steered \cup {m}
    /\ Emits([type |-> "message", rev |-> 0, message |-> m, turn |-> 0])
    /\ UNCHANGED <<transcript, running, turn, writing, panel, client, syncs,
                   probe, drops, undone, told>>

\* The run ends, or is stopped in the middle of an answer.  A stop with prompts
\* queued is AgentRuntime's.
EndRun ==
    /\ running /\ steers = <<>>
    /\ running' = FALSE /\ writing' = FALSE
    /\ Emits(Frame("end"))
    /\ UNCHANGED <<transcript, turn, steers, stamps, panel, others>>

\* A compaction: a summary goes in front of the last message.  Without
\* "behindAPage" the client has heard of the one before.
Checkpoint ==
    LET m == stamps + 1  n == Len(transcript)
        log == InsertAt(transcript, n, m) IN
    /\ "checkpoint" \in Env
    /\ n > 0 /\ stamps < MaxMsgs /\ Near(log)
    /\ "steeredSummary" \in Env \/ transcript[n] \notin steered
    /\ "behindAPage" \in Env \/
         \A i \in DOMAIN wire : wire[i].type # "checkpoint"
    /\ stamps' = m
    /\ transcript' = log
    /\ Emits([type |-> "checkpoint", rev |-> 0, message |-> m,
              before |-> transcript[n]])
    /\ UNCHANGED <<running, turn, writing, steers, panel, others>>

\* An undo, once the run it interrupted has ended: the newest messages go.
Undo ==
    /\ ~ running /\ transcript # <<>>
    /\ "undoUnseen" \in Env \/ socket \in {"opening", "up"}
    /\ \E n \in 1 .. Len(transcript) :
         /\ "undoRead" \in Env \/ \A i \in DOMAIN syncs : syncs[i].ok =>
              \E k \in 1 .. n - 1 : Contains(syncs[i].messages, transcript[k])
         /\ n = 1 \/ "undoPage" \in Env \/
              \E i \in 1 .. n - 1 : Contains(view.messages, transcript[i])
         /\ transcript' = SubSeq(transcript, 1, n - 1)
         /\ Emits([type |-> "truncated", rev |-> 0,
                   removed |-> {transcript[i] : i \in n .. Len(transcript)}])
    /\ UNCHANGED <<running, turn, writing, steers, stamps, panel, others>>

\* The sub-agent starts and ends.
TaskMoves ==
    /\ "panelRace" \in Env \/ \A i \in DOMAIN syncs : syncs[i].at # "apply"
    /\ \/ panel = "none" /\ panel' = "running"
       \/ panel = "running" /\ panel' = "finished"
    /\ Emits([type |-> "task", rev |-> 0, status |-> panel'])
    /\ UNCHANGED <<transcript, running, turn, writing, steers, stamps,
                   others>>
(***************************************************************************)
(* The view, as functions.                                                 *)
(***************************************************************************)
\* upsertMessage, after applyMessage's check that the view can draw it.
Upsert(messages, m) ==
    IF Contains(messages, m) THEN messages ELSE Append(messages, m)

\* applyMessage: an unknown message that is older than the newest one belongs
\* to a part that is not loaded.
Drawn(messages, m) ==
    Contains(messages, m) \/ messages = <<>> \/ m > Last(messages)

\* Mutation: what an undo removed is forgotten.
TombstonesNone(removed, gone) == removed

\* messages_truncated: the identities the server removed.
Tombstones(removed, gone) == removed \cup gone

Without(messages, gone) ==
    LET kept[n \in 0 .. Len(messages)] ==
          IF n = 0 THEN <<>>
          ELSE IF messages[n] \in gone THEN kept[n-1]
          ELSE Append(kept[n-1], messages[n])
    IN IF gone = {} THEN messages ELSE kept[Len(messages)]

\* The checkpoint's place, if the view holds the message it goes in front of.
Inserted(messages, m, before) ==
    IF Contains(messages, m) \/ ~ Contains(messages, before) THEN messages
    ELSE LET i == CHOOSE i \in DOMAIN messages : messages[i] = before
         IN InsertAt(messages, i, m)

\* events/reducer.ts, applyEvent.
Reduced(v, f) ==
    CASE f.type = "start" -> [v EXCEPT !.run = "running"]
      [] f.type = "begin" -> [v EXCEPT !.text = <<>>]
      [] f.type = "message" ->
           IF ~ Drawn(v.messages, f.message) THEN v
           ELSE [v EXCEPT !.messages = Upsert(@, f.message), !.text = <<>>]
      [] f.type = "checkpoint" ->
           [v EXCEPT !.messages = Inserted(@, f.message, f.before)]
      [] f.type = "truncated" ->
           [v EXCEPT !.messages = Without(@, f.removed), !.text = <<>>,
                     !.removed = Tombstones(@, f.removed), !.run = "idle"]
      [] f.type = "end" ->
           [v EXCEPT !.run = IF @ = "idle" THEN "idle" ELSE "ended"]
      [] f.type = "task" ->
           [v EXCEPT !.panel = IF (@ = "none") = (f.status = "running")
                                 THEN f.status ELSE @]

\* Whether an event changes when the view's run started or ended.
Moves(v, f) ==
    \/ f.type = "start"
    \/ f.type \in {"end", "truncated"} /\ v.run # "idle"

\* Text waiting for the next frame goes in first (flushDeltas).
Flushed == [view EXCEPT !.text = @ \o pending]

\* Mutation: the window's new items go to the end.
MergedLast(have, page) ==
    have \o Without(page, ToSet(have))

\* mergeNewestWindow, one message of the page: one that is new waits for the
\* shared message it precedes; the view keeps the order of what it has.
Placed(have, acc, m) ==
    LET at == CHOOSE i \in DOMAIN have : have[i] = m
    IN IF ~ Contains(have, m) THEN [acc EXCEPT !.new = Append(@, m)]
       ELSE IF at < acc.next THEN acc
       ELSE [out  |-> acc.out \o SubSeq(have, acc.next, at - 1) \o acc.new \o <<m>>,
             new  |-> <<>>,
             next |-> at + 1]

\* A page that shares nothing with the view replaces it.
Merged(have, page) ==
    LET upto[n \in 0 .. Len(page)] ==
          IF n = 0 THEN [out |-> <<>>, new |-> <<>>, next |-> 1]
          ELSE Placed(have, upto[n-1], page[n])
        all == upto[Len(page)]
    IN IF page = <<>> THEN have
       ELSE IF ToSet(have) \cap ToSet(page) = {} THEN page
       ELSE all.out \o SubSeq(have, all.next, Len(have)) \o all.new

\* applyRunState: only a disagreement writes.
RunAs(run, going) ==
    IF going = (run = "running") THEN run
    ELSE IF going THEN "running" ELSE "idle"

\* mergeTasks: the panel as it was read; a task that is not listed is kept.
PanelAs(have, read) == IF read = "none" THEN have ELSE read

(***************************************************************************)
(* Snapshots.                                                              *)
(***************************************************************************)
\* syncState up to its first await: the live state is noted.
NewSync == [at |-> "snapshot", ok |-> FALSE, messages |-> <<>>,
            running |-> FALSE, rev |-> 0, panel |-> "none", moved |-> FALSE]

\* The bound on snapshots read at once.
CanSync == Len(syncs) < MaxSyncs

Moved(all) == [i \in DOMAIN all |-> [all[i] EXCEPT !.moved = TRUE]]

\* A page that comes back to the foreground, or the timer of a client
\* without a socket.
Refresh ==
    /\ socket \in {"up", "down"} /\ CanSync
    /\ syncs' = Append(syncs, NewSync)
    /\ UNCHANGED <<server, rev, link, client, probe, drops, history>>

\* The snapshot handler reads everything in one go.
ReadSnapshot(i) ==
    /\ syncs[i].at = "snapshot"
    /\ "crossed" \in Env \/ \A j \in 1 .. i - 1 : syncs[j].ok
    /\ syncs' = [syncs EXCEPT ![i] =
         [@ EXCEPT !.at = "panels", !.ok = TRUE,
                   !.messages = Newest(transcript, Page),
                   !.running = running, !.rev = rev]]
    /\ UNCHANGED <<server, rev, link, client, probe, drops, history>>

\* The panels are requests of their own.
ReadPanels(i) ==
    /\ syncs[i].at = "panels"
    /\ syncs' = [syncs EXCEPT ![i].at = "apply", ![i].panel = panel]
    /\ UNCHANGED <<server, rev, link, client, probe, drops, history>>

\* A part that cannot be read is left out.
ReadFails(i) ==
    /\ "readFails" \in Env
    /\ \/ syncs[i].at = "snapshot" /\ syncs' = [syncs EXCEPT ![i].at = "panels"]
       \/ syncs[i].at = "panels" /\ syncs' = [syncs EXCEPT ![i].at = "apply"]
    /\ UNCHANGED <<server, rev, link, client, probe, drops, history>>

\* Mutation: the snapshot's run state is applied over newer events.
AppliedOver(v, s) ==
    [v EXCEPT !.messages = IF s.ok THEN Without(Merged(@, s.messages), v.removed)
                                   ELSE @,
              !.run = IF s.ok THEN RunAs(@, s.running) ELSE @,
              !.panel = PanelAs(@, s.panel)]

\* applySnapshot: live state that an event has changed meanwhile is kept.
Applied(v, s) ==
    [v EXCEPT !.messages = IF s.ok THEN Without(Merged(@, s.messages), v.removed)
                                   ELSE @,
              !.run = IF s.ok /\ ~ s.moved THEN RunAs(@, s.running) ELSE @,
              !.panel = PanelAs(@, s.panel)]

\* The rest of syncState: the marker is seeded, never lowered.
Apply(i) ==
    LET s == syncs[i]  left == RemoveAt(syncs, i) IN
    /\ s.at = "apply"
    /\ "crossed" \in Env \/ i = 1
    /\ known' = IF s.ok /\ s.rev > known THEN s.rev ELSE known
    /\ view' = Applied(view, s)
    /\ syncs' = IF view'.run # view.run THEN Moved(left) ELSE left
    /\ UNCHANGED <<server, rev, link, pending, probe, drops, history>>

(***************************************************************************)
(* The socket.                                                             *)
(***************************************************************************)
\* revisionGap, for a frame that stands for one event.
Gap(f) == f.rev > known + 1

\* handleEvent: text waits for the next animation frame; before anything
\* else the marker is compared, and a gap makes the client read a snapshot.
Deliver ==
    LET f == Head(wire) IN
    /\ socket = "up" /\ wire # <<>>
    /\ wire' = Tail(wire)
    /\ IF f.type = "delta"
         THEN /\ pending' = pending \o f.text
              /\ UNCHANGED <<view, known, syncs, history>>
         ELSE LET asked == IF Gap(f) THEN Append(syncs, NewSync) ELSE syncs IN
              /\ Gap(f) => CanSync
              /\ known' = f.rev
              /\ view' = Reduced(Flushed, f)
              /\ pending' = <<>>
              /\ syncs' = IF Moves(view, f) THEN Moved(asked) ELSE asked
              /\ told' = IF f.type = "message" /\ f.turn > 0 THEN f.turn
                                                            ELSE told
              /\ undone' = IF f.type = "truncated" THEN undone \cup f.removed
                                                   ELSE undone
              /\ UNCHANGED steered
    /\ UNCHANGED <<server, rev, socket, batch, probe, drops>>

\* The animation frame.
Paint ==
    /\ pending # <<>>
    /\ view' = Flushed /\ pending' = <<>>
    /\ UNCHANGED <<server, rev, link, known, syncs, probe, drops, history>>

\* The socket dies with what is on it; nobody is told.
Drop ==
    /\ socket \in {"opening", "up"} /\ drops < MaxDrops
    /\ "undoUnseen" \in Env \/
         \A i \in DOMAIN wire : wire[i].type # "truncated"
    /\ "steerUnseen" \in Env \/
         \A i \in DOMAIN wire : wire[i].type = "message" =>
                                wire[i].message \notin ToSet(steers)
    /\ drops' = drops + 1
    /\ socket' = "dead" /\ wire' = <<>> /\ batch' = NoText
    /\ UNCHANGED <<server, rev, client, syncs, probe, history>>

\* resync: the transient state goes, and a snapshot is asked for.
Resync ==
    /\ CanSync
    /\ view' = [view EXCEPT !.text = <<>>] /\ pending' = <<>>
    /\ syncs' = Append(syncs, NewSync)

\* The watchdog, or the close event.
Noticed ==
    /\ socket = "dead"
    /\ socket' = "down"
    /\ Resync
    /\ UNCHANGED <<server, rev, wire, batch, known, probe, drops, history>>

\* The server has subscribed the new socket ...
Open ==
    /\ socket = "down"
    /\ socket' = "opening"
    /\ UNCHANGED <<server, rev, wire, batch, client, syncs, probe, drops,
                   history>>

\* ... and the client sees that it is open.
Opened ==
    /\ socket = "opening"
    /\ socket' = "up"
    /\ Resync
    /\ UNCHANGED <<server, rev, wire, batch, known, probe, drops, history>>

\* The probe of a connected client reads the server's revision, and compares
\* it with the marker when the answer is there.
ProbeReads ==
    /\ socket \in {"up", "dead"} /\ probe = Idle
    /\ probe' = rev
    /\ UNCHANGED <<server, rev, link, client, syncs, drops, history>>

ProbeAnswers ==
    /\ probe # Idle
    /\ probe # known => CanSync
    /\ probe' = Idle
    /\ known' = probe
    /\ syncs' = IF probe # known THEN Append(syncs, NewSync) ELSE syncs
    /\ UNCHANGED <<server, rev, link, view, pending, drops, history>>

Session == \/ StartRun \/ Begin \/ Type \/ Answer \/ Add \/ Steer \/ EndRun
           \/ Checkpoint \/ Undo \/ TaskMoves

Reading == \E i \in DOMAIN syncs :
             ReadSnapshot(i) \/ ReadPanels(i) \/ ReadFails(i) \/ Apply(i)

Next == \/ Session \/ Reading \/ Flush \/ Refresh
        \/ Deliver \/ Paint \/ Drop \/ Noticed \/ Open \/ Opened
        \/ ProbeReads \/ ProbeAnswers

Spec == Init /\ [][Next]_vars

\* Frames, answers and timers arrive in the end.
Fairness ==
    /\ WF_vars(Deliver)
    /\ WF_vars(Reading)
    /\ WF_vars(Noticed \/ Open \/ Opened)
    /\ WF_vars(ProbeReads \/ ProbeAnswers)

FairSpec == Spec /\ Fairness

(***************************************************************************)
(* Properties.                                                             *)
(***************************************************************************)
TypeOK ==
    /\ transcript \in Seq(Messages) /\ steers \in Seq(Messages)
    /\ running \in BOOLEAN /\ writing \in BOOLEAN /\ (writing => running)
    /\ turn \in 0 .. MaxRev /\ stamps \in 0 .. MaxMsgs /\ rev \in 0 .. MaxRev
    /\ panel \in {"none", "running", "finished"}
    /\ socket \in {"opening", "up", "dead", "down"}
    /\ \A i \in DOMAIN wire : wire[i].rev \in 1 .. rev
    /\ (socket \in {"dead", "down"} => wire = <<>> /\ batch = NoText)
    /\ view.messages \in Seq(Messages) /\ view.removed \subseteq Messages
    /\ view.run \in {"idle", "running", "ended"}
    /\ view.panel \in {"none", "running", "finished"}
    /\ known \in 0 .. rev /\ probe \in 0 .. Idle
    /\ Len(syncs) <= MaxSyncs /\ drops \in 0 .. MaxDrops

\* No message is shown twice, whatever a snapshot and the stream both bring
\* (events/merge.ts, events/reducer.ts).
ShownOnce == IsInjective(view.messages)

\* Messages are shown in the transcript's order, wherever a snapshot or a
\* checkpoint puts one between others; only a steered prompt, which was shown
\* before the answer it follows, keeps its first place (merge.ts).
ShownInOrder ==
    LET at(m) == CHOOSE i \in DOMAIN transcript : transcript[i] = m
        shown == SelectSeq(view.messages, LAMBDA m :
                             Contains(transcript, m) /\ m \notin steered)
    IN \A i, j \in DOMAIN shown : i < j => at(shown[i]) < at(shown[j])

\* A message that the client has seen undone is not shown again, also not by a
\* snapshot that was read before (identity.ts, filterRemoved).
UndoneStaysGone == ToSet(view.messages) \cap undone = {}

\* The view says what the server's session says.  A prompt that is not stored
\* yet is in no snapshot and may be missing.
InStep ==
    LET stored == Without(view.messages, ToSet(steers))  n == Len(stored) IN
    /\ ToSet(stored) = ToSet(Newest(transcript, n))
    /\ transcript # <<>> => n > 0
    /\ (view.run = "running") = running
    /\ view.panel = panel

\* A client with a live socket that waits for nothing and whose marker is the
\* server's revision shows the session as it is: nothing else will tell it
\* (core.ts, getSessionRevision).
QuietViewIsTrue ==
    socket = "up" /\ wire = <<>> /\ syncs = <<>> /\ probe = Idle
      /\ known = rev => InStep

\* Text is not shown beneath the complete answer it is of: what is buffered on
\* either side goes before the answer's end (ws-stream.ts, send;
\* useSessionEvents.ts, flushDeltas).
TextEndsWithItsAnswer ==
    \A i \in DOMAIN pending : pending[i] > told

\* What is shown belongs there, whatever mixture of snapshots, events, undos and
\* text brought it: no message twice, none after its undo, and no text beneath
\* the answer it is of.
ViewIsSound ==
    TypeOK /\ ShownOnce /\ UndoneStaysGone /\ TextEndsWithItsAnswer

\* What is shown is in order at any time, and all of it when nothing is on its
\* way.
ViewIsTrue == ShownInOrder /\ QuietViewIsTrue

\* A snapshot is read for a gap only when an event was lost: a frame of text
\* is not a gap (equality.ts, revisionGap; ws-batch.ts).
GapMeansLoss ==
    [][drops = 0 /\ known = 0 /\ probe = Idle => Len(syncs') <= Len(syncs)]_vars

\* Whatever was lost, the client catches up when the session is quiet.
ViewCatchesUp == <>[]InStep
=============================================================================
