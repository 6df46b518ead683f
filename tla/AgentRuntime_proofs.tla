------------------------ MODULE AgentRuntime_proofs ------------------------
(***************************************************************************)
(* Theorems about AgentRuntime for every value of its constants.           *)
(***************************************************************************)
EXTENDS AgentRuntime, SequenceTheorems, FiniteSetTheorems,
        TLAPS

(***************************************************************************)
(* What the helpers return.                                                *)
(***************************************************************************)

\* A one-element sequence is a sequence.
LEMMA OneElement ==
  ASSUME NEW S, NEW e \in S
  PROVE  <<e>> \in Seq(S)
OBVIOUS

\* Entries written for a run are transcript entries, one per message.
LEMMA WrittenType ==
  ASSUME NEW r \in 0..MaxRuns, NEW ms \in Seq(Msg)
  PROVE  /\ Written(r, ms) \in Seq(Entry)
         /\ Len(Written(r, ms)) = Len(ms)
         /\ \A i \in 1..Len(ms) : Written(r, ms)[i].run = r
<1>1. Len(ms) \in Nat /\ DOMAIN ms = 1..Len(ms) /\ \A i \in 1..Len(ms) : ms[i] \in Msg
  BY LenProperties, ElementOfSeq
<1>2. \A i \in 1..Len(ms) : [kind |-> "message", run |-> r, msg |-> ms[i]] \in Entry
  BY <1>1 DEF Entry
<1>3. Written(r, ms) \in [1..Len(ms) -> Entry]
  BY <1>1, <1>2 DEF Written
<1>4. Written(r, ms) \in Seq(Entry)
  BY <1>1, <1>3, SeqDef
<1>5. Len(Written(r, ms)) = Len(ms)
  BY <1>1, <1>3, <1>4, LenProperties DEF Written
<1>6. \A i \in 1..Len(ms) : Written(r, ms)[i].run = r
  BY <1>1 DEF Written
<1>7. QED BY <1>4, <1>5, <1>6

\* The ids of a batch are numbers.
LEMMA CallIdsType ==
  ASSUME NEW cs \in Seq(Call)
  PROVE  CallIds(cs) \subseteq Nat
<1>1. DOMAIN cs = 1..Len(cs) /\ \A i \in 1..Len(cs) : cs[i] \in Call
  BY LenProperties, ElementOfSeq
<1>2. QED BY <1>1 DEF CallIds, Call

\* At most one result entry is added at a time, on behalf of the run given.
LEMMA ResultsType ==
  ASSUME NEW r \in 0..MaxRuns, NEW ids \in SUBSET Nat
  PROVE  /\ Results(r, ids) \in Seq(Entry)
         /\ Len(Results(r, ids)) \in 0..1
         /\ \A i \in 1..Len(Results(r, ids)) : Results(r, ids)[i].run = r
<1>1. [kind |-> "toolResult", run |-> r, answers |-> ids] \in Entry
  BY DEF Entry
<1>2. CASE ids = {}
  BY <1>2, EmptySeq DEF Results
<1>3. CASE ids # {}
  BY <1>1, <1>3, OneElement DEF Results
<1>4. QED BY <1>2, <1>3

\* What a turn records is typed and written by its run.
LEMMA RecordedType ==
  ASSUME NEW r \in 0..MaxRuns, NEW cs \in Seq(Call), NEW ids \in SUBSET Nat
  PROVE  /\ Recorded(r, cs, ids) \in Seq(Entry)
         /\ \A i \in 1..Len(Recorded(r, cs, ids)) : Recorded(r, cs, ids)[i].run = r
<1> DEFINE a == [kind |-> "assistant", run |-> r, calls |-> cs]
<1>1. a \in Entry
  BY DEF Entry
<1>2. <<a>> \in Seq(Entry) /\ Len(<<a>>) = 1 /\ <<a>>[1] = a
  BY <1>1, OneElement
<1>3. /\ Results(r, ids) \in Seq(Entry)
      /\ Len(Results(r, ids)) \in 0..1
      /\ \A i \in 1..Len(Results(r, ids)) : Results(r, ids)[i].run = r
  BY ResultsType
<1>4. /\ <<a>> \o Results(r, ids) \in Seq(Entry)
      /\ Len(<<a>> \o Results(r, ids)) = 1 + Len(Results(r, ids))
      /\ \A i \in 1..(1 + Len(Results(r, ids))) :
            (<<a>> \o Results(r, ids))[i] =
               IF i <= 1 THEN <<a>>[i] ELSE Results(r, ids)[i - 1]
  BY <1>2, <1>3, ConcatProperties
<1>5. ASSUME NEW i \in 1..(1 + Len(Results(r, ids)))
      PROVE  (<<a>> \o Results(r, ids))[i].run = r
  BY <1>2, <1>3, <1>4
<1>6. QED BY <1>4, <1>5 DEF Recorded

\* A set of positions in a sequence has a last one: the set of the positions
\* behind it is minimal.
LEMMA LastPosition ==
  ASSUME NEW n \in Nat, NEW D, D \subseteq 1..n, D # {}
  PROVE  \E i \in D : \A j \in D : j <= i
<1> DEFINE behind(i) == {j \in D : j > i}
           T == {behind(i) : i \in D}
<1>1. IsFiniteSet(D)
  <2>1. IsFiniteSet(1..n)
    BY FS_Interval
  <2>2. QED BY <2>1, FS_Subset
<1>2. T \subseteq FiniteSubsetsOf(D) /\ T # {}
  <2>1. FiniteSubsetsOf(D) = SUBSET D
    BY <1>1, FS_FiniteSubsetsOfFinite
  <2>2. \A i \in D : behind(i) \in SUBSET D
    OBVIOUS
  <2>3. ASSUME NEW y \in T
        PROVE  y \in FiniteSubsetsOf(D)
    <3>1. PICK i \in D : y = behind(i)
      OBVIOUS
    <3>2. QED BY <2>1, <2>2, <3>1
  <2>4. T # {}
    OBVIOUS
  <2>5. QED BY <2>3, <2>4
<1>3. PICK x \in T : \A y \in T : ~ (<<y, x>> \in StrictSubsetOrdering(D))
  BY <1>2, FS_StrictSubsetOrderingWellFounded, WFMin, Zenon
<1>4. PICK i \in D : x = behind(i)
  BY <1>3
<1>5. ASSUME NEW j \in D, ~ (j <= i)
      PROVE  FALSE
  <2>1. i \in Nat /\ j \in Nat /\ i < j /\ \A k \in D : k \in Nat
    BY <1>4, <1>5
  <2>2. behind(j) \subseteq behind(i)
    <3>1. ASSUME NEW k \in behind(j)
          PROVE  k \in D /\ k > i
      BY <2>1, <3>1
    <3>2. QED BY <3>1
  <2>3. j \in behind(i) /\ j \notin behind(j)
    BY <2>1
  <2>4. <<behind(j), behind(i)>> \in StrictSubsetOrdering(D)
    BY <2>2, <2>3 DEF StrictSubsetOrdering
  <2>5. QED BY <1>3, <1>4, <2>4
<1>6. QED BY <1>5

\* The repeat guard counts in natural numbers.
LEMMA CountAtType ==
  ASSUME repeatCount \in Nat, NEW cs, NEW i \in Nat
  PROVE  CountAt(cs, i) \in Nat
<1> DEFINE S == {j \in 1..i : \A k \in j..i : cs[k].sig = cs[i].sig}
<1>1. IsFiniteSet(1..i)
  BY FS_Interval
<1>2. Cardinality(S) \in Nat
  BY <1>1, FS_Subset, FS_CardinalityType
<1>3. RunLength(cs, i) \in Nat
  BY <1>2 DEF RunLength
<1>4. QED BY <1>3 DEF CountAt

\* A reminder is at most one entry, it names a call of the batch, and its
\* author is the run that counted.
LEMMA ReminderType ==
  ASSUME repeatCount \in Nat, NEW r \in 0..MaxRuns, NEW cs \in Seq(Call)
  PROVE  /\ Reminder(r, cs) \in Seq(Entry)
         /\ Len(Reminder(r, cs)) \in 0..1
         /\ \A i \in 1..Len(Reminder(r, cs)) : Reminder(r, cs)[i].run = r
         /\ RemindAt = {} => Reminder(r, cs) = <<>>
<1> DEFINE due == {i \in DOMAIN cs : CountAt(cs, i) \in RemindAt}
           last == CHOOSE i \in due : \A j \in due : j <= i
           e == [kind |-> "reminder", run |-> r, sig |-> cs[last].sig]
<1>1. Len(cs) \in Nat /\ DOMAIN cs = 1..Len(cs) /\ \A i \in 1..Len(cs) : cs[i] \in Call
  BY LenProperties, ElementOfSeq
<1>2. CASE due = {}
  BY <1>2, EmptySeq DEF Reminder
<1>3. CASE due # {}
  <2>1. due \subseteq 1..Len(cs)
    BY <1>1
  <2>2. \E i \in due : \A j \in due : j <= i
    BY <1>1, <1>3, <2>1, LastPosition
  <2>3. last \in due
    BY <2>2
  <2>4. cs[last].sig \in Signatures
    BY <1>1, <2>1, <2>3 DEF Call
  <2>5. e \in Entry
    BY <2>4 DEF Entry
  <2>6. Reminder(r, cs) = <<e>>
    BY <1>3 DEF Reminder
  <2>7. RemindAt # {}
    BY <1>3
  <2>8. QED BY <2>5, <2>6, <2>7, OneElement
<1>4. QED BY <1>2, <1>3

\* The calls a stop has to answer are ids of the transcript's calls.
LEMMA UnhealedType ==
  ASSUME messages \in Seq(Entry)
  PROVE  Unhealed \subseteq Nat
<1> DEFINE Q == {j \in DOMAIN messages :
                   /\ messages[j].kind = "assistant"
                   /\ \A k \in (j+1)..Len(messages) :
                        messages[k].kind = "toolResult"}
<1>1. DOMAIN messages = 1..Len(messages)
      /\ \A i \in 1..Len(messages) : messages[i] \in Entry
  BY LenProperties, ElementOfSeq
<1>2. ASSUME NEW i \in Q
      PROVE  CallIds(messages[i].calls) \subseteq Nat
  <2>1. messages[i] \in Entry /\ messages[i].kind = "assistant"
    BY <1>1, <1>2
  <2>2. messages[i].calls \in Seq(Call)
    BY <2>1 DEF Entry
  <2>3. QED BY <2>2, CallIdsType
<1>3. UNION {CallIds(messages[i].calls) : i \in Q} \subseteq Nat
  BY <1>2
<1>4. QED BY <1>3 DEF Unhealed

\* The batches a turn may end with are sequences of calls.
LEMMA BatchesType ==
  ASSUME calls \in Nat, NEW cs \in Batches
  PROVE  cs \in Seq(Call) /\ Len(cs) \in Nat
<1> DEFINE top == IF MaxBatch <= MaxCalls - calls THEN MaxBatch ELSE MaxCalls - calls
<1>1. PICK sigs \in UNION {[1..n -> Signatures] : n \in 0..top} :
         cs = [i \in 1..Len(sigs) |-> [id |-> calls + i, sig |-> sigs[i]]]
  BY DEF Batches
<1>2. PICK n \in 0..top : sigs \in [1..n -> Signatures]
  BY <1>1
<1>3. top \in Int /\ n \in Nat
  BY <1>2, BoundsAssumption
<1>4. sigs \in Seq(Signatures)
  BY <1>2, <1>3, SeqDef
<1>5. Len(sigs) = n
  BY <1>2, <1>3, <1>4, LenProperties
<1>6. \A i \in 1..n : [id |-> calls + i, sig |-> sigs[i]] \in Call
  BY <1>2, <1>3 DEF Call
<1>7. cs \in [1..n -> Call]
  BY <1>1, <1>5, <1>6
<1>8. cs \in Seq(Call)
  BY <1>3, <1>7, SeqDef
<1>9. QED BY <1>8, LenProperties

\* The ids of the prompts in a sequence of messages are numbers.
LEMMA PromptsType ==
  ASSUME NEW ms \in Seq(Msg)
  PROVE  Prompts(ms) \subseteq Nat
<1>1. DOMAIN ms = 1..Len(ms) /\ \A i \in 1..Len(ms) : ms[i] \in Msg
  BY LenProperties, ElementOfSeq
<1>2. QED BY <1>1 DEF Prompts, Msg

-----------------------------------------------------------------------------
(***************************************************************************)
(* Type correctness.  Only a run whose newest turn made calls gets to the  *)
(* repeat guard, which looks at the last of them.                          *)
(***************************************************************************)
ToolsHaveCalls ==
    \A r \in Runs : pc[r] \in {"tools", "toolsDone"} => turn[r].calls # <<>>

ARunIsNumbered == runningInner => runId \in Runs

TypeInv == TypeOK /\ ToolsHaveCalls /\ ARunIsNumbered

\* append() keeps the transcript and the repeat guard typed.
LEMMA AppendType ==
  ASSUME TypeOK, NEW r \in 0..MaxRuns, NEW base \in Seq(Entry),
         NEW ms \in Seq(Msg), NEW sig \in Signatures \cup {"none"}, NEW n \in Nat,
         Append_(r, base, ms, sig, n)
  PROVE  /\ messages' \in Seq(Entry)
         /\ unseen' \subseteq Nat
         /\ repeatSignature' \in Signatures \cup {"none"}
         /\ repeatCount' \in Nat
<1>1. messages' \in Seq(Entry)
  <2>1. Written(r, ms) \in Seq(Entry)
    BY WrittenType
  <2>2. base \o Written(r, ms) \in Seq(Entry)
    BY <2>1, ConcatProperties
  <2>3. QED BY <2>2 DEF Append_
<1>2. unseen' \subseteq Nat
  BY PromptsType DEF Append_, TypeOK
<1>3. QED BY <1>1, <1>2 DEF Append_

\* The top of the exchange loop keeps everything it touches typed.
LEMMA LoopTopType ==
  ASSUME TypeInv, NEW r \in Runs, NEW base \in Seq(Entry),
         NEW first \in Seq(Msg), NEW sig \in Signatures \cup {"none"}, NEW n \in Nat,
         LoopTop(r, base, first, sig, n)
  PROVE  /\ messages' \in Seq(Entry)
         /\ unseen' \subseteq Nat
         /\ repeatSignature' \in Signatures \cup {"none"}
         /\ repeatCount' \in Nat
         /\ steerQueue' \in Seq(Msg)
         /\ pc' \in [Runs -> Parked]
         /\ turn' \in [Runs -> [calls : Seq(Call), missing : SUBSET Nat]]
         /\ ToolsHaveCalls'
<1>1. first \o steerQueue \in Seq(Msg)
  BY ConcatProperties DEF TypeInv, TypeOK
<1>2. r \in 0..MaxRuns
  BY BoundsAssumption DEF Runs
<1>3. /\ messages' \in Seq(Entry)
      /\ unseen' \subseteq Nat
      /\ repeatSignature' \in Signatures \cup {"none"}
      /\ repeatCount' \in Nat
  BY <1>1, <1>2, AppendType DEF LoopTop, TypeInv
<1>4. <<>> \in Seq(Call) /\ <<>> \in Seq(Msg)
  BY EmptySeq
<1>5. QED
  BY <1>3, <1>4 DEF LoopTop, TypeInv, TypeOK, ToolsHaveCalls, NoTurn, Parked

\* What the repeat guard leaves behind is typed.
LEMMA NoteAndLoopType ==
  ASSUME TypeInv, NEW r \in Runs, turn[r].calls # <<>>, NoteAndLoop(r)
  PROVE  /\ messages' \in Seq(Entry)
         /\ unseen' \subseteq Nat
         /\ repeatSignature' \in Signatures \cup {"none"}
         /\ repeatCount' \in Nat
         /\ steerQueue' \in Seq(Msg)
         /\ pc' \in [Runs -> Parked]
         /\ turn' \in [Runs -> [calls : Seq(Call), missing : SUBSET Nat]]
         /\ ToolsHaveCalls'
<1> DEFINE cs   == turn[r].calls
           base == messages \o Reminder(r, cs)
           sig  == cs[Len(cs)].sig
           n    == CountAt(cs, Len(cs))
<1>1. cs \in Seq(Call) /\ r \in 0..MaxRuns
  BY BoundsAssumption DEF TypeInv, TypeOK, Runs
<1>2. Len(cs) \in Nat \ {0}
  BY <1>1, EmptySeq
<1>3. cs[Len(cs)] \in Call
  BY <1>1, <1>2, ElementOfSeq
<1>4. sig \in Signatures \cup {"none"}
  BY <1>3 DEF Call
<1>5. n \in Nat
  BY <1>2, CountAtType DEF TypeInv, TypeOK
<1>6. base \in Seq(Entry)
  <2>1. Reminder(r, cs) \in Seq(Entry)
    BY <1>1, ReminderType DEF TypeInv, TypeOK
  <2>2. QED BY <2>1, ConcatProperties DEF TypeInv, TypeOK
<1>7. CASE MayGoOn(r)
  <2>1. LoopTop(r, base, <<>>, sig, n)
    BY <1>7 DEF NoteAndLoop
  <2>2. <<>> \in Seq(Msg)
    BY EmptySeq
  <2> HIDE DEF base, sig, n, cs
  <2>3. QED BY <1>4, <1>5, <1>6, <2>1, <2>2, LoopTopType
<1>8. CASE ~MayGoOn(r)
  <2>1. /\ messages' = base
        /\ repeatSignature' = sig /\ repeatCount' = n
        /\ pc' = [pc EXCEPT ![r] = "returned"]
        /\ turn' = [turn EXCEPT ![r] = NoTurn]
        /\ UNCHANGED <<steerQueue, unseen>>
    BY <1>8 DEF NoteAndLoop, Park
  <2>2. NoTurn \in [calls : Seq(Call), missing : SUBSET Nat]
    BY EmptySeq DEF NoTurn
  <2> HIDE DEF base, sig, n, cs
  <2>3. QED
    BY <1>4, <1>5, <1>6, <2>1, <2>2 DEF TypeInv, TypeOK, ToolsHaveCalls, Parked
<1>9. QED BY <1>7, <1>8

\* A run that starts.
LEMMA StartRunType ==
  ASSUME TypeInv, NEW first \in Seq(Msg), StartRun(first),
         UNCHANGED <<contexts, calls>>, msgs' \in Nat
  PROVE  TypeInv'
<1>1. runId + 1 \in Runs /\ runId + 1 \in 0..MaxRuns /\ runId' = runId + 1
  BY BoundsAssumption DEF StartRun, Runs, TypeInv, TypeOK
<1>2. /\ LoopTop(runId + 1, messages, first, repeatSignature, repeatCount)
      /\ resolveRun' = runId + 1 /\ running' = runId + 1
      /\ waiting' = waiting \cup {runId + 1}
      /\ runningInner' = TRUE /\ isStreaming' = TRUE /\ abortRequested' = FALSE
      /\ UNCHANGED <<abandonedRunId, closed, abandoned>>
  BY <1>1 DEF StartRun
<1>3. /\ messages' \in Seq(Entry)
      /\ unseen' \subseteq Nat
      /\ repeatSignature' \in Signatures \cup {"none"}
      /\ repeatCount' \in Nat
      /\ steerQueue' \in Seq(Msg)
      /\ pc' \in [Runs -> Parked]
      /\ turn' \in [Runs -> [calls : Seq(Call), missing : SUBSET Nat]]
      /\ ToolsHaveCalls'
  BY <1>1, <1>2, LoopTopType DEF TypeInv, TypeOK
<1>4. QED BY <1>1, <1>2, <1>3 DEF TypeInv, TypeOK, ARunIsNumbered

\* A message that arrives has one of the roles a prompt may have.
LEMMA NewMsgType ==
  ASSUME TypeInv, NEW role \in PromptRoles \cup {"notification"}
  PROVE  NewMsg(role) \in Msg /\ <<NewMsg(role)>> \in Seq(Msg)
<1>1. NewMsg(role) \in Msg
  BY DataAssumption DEF NewMsg, Msg, Roles, TypeInv, TypeOK
<1>2. QED BY <1>1, OneElement

\* Queueing keeps the queue typed and touches nothing else.
LEMMA QueueType ==
  ASSUME TypeInv, NEW msg \in Msg, Queue(msg),
         UNCHANGED <<contexts, calls>>, msgs' \in Nat
  PROVE  TypeInv'
<1>1. steerQueue' \in Seq(Msg)
  BY AppendProperties DEF Queue, TypeInv, TypeOK
<1>2. QED
  BY <1>1 DEF Queue, TypeInv, TypeOK, ToolsHaveCalls, ARunIsNumbered, control,
                repeat

\* A stop, of a live run or of an idle agent.
LEMMA AbortType ==
  ASSUME TypeInv, AbortBody, closed' \in BOOLEAN, UNCHANGED <<repeat, pc, turn, counts>>
  PROVE  TypeInv'
<1>1. ToolsHaveCalls'
  BY DEF TypeInv, ToolsHaveCalls
<1>2. CASE runningInner /\ isStreaming
  <2>1. /\ abandonedRunId' = runId /\ abandoned' = abandoned \cup {runId}
        /\ isStreaming' = FALSE /\ steerQueue' = <<>>
        /\ messages' = messages \o Results(runId, Unhealed)
        /\ runningInner' = FALSE /\ SettleRun(runId) /\ abortRequested' = FALSE
        /\ running' = 0 /\ unseen' = {} /\ UNCHANGED runId
    BY <1>2 DEF AbortBody
  <2>2. messages' \in Seq(Entry)
    <3>1. Unhealed \in SUBSET Nat
      BY UnhealedType DEF TypeInv, TypeOK
    <3>2. Results(runId, Unhealed) \in Seq(Entry)
      BY <3>1, ResultsType DEF TypeInv, TypeOK
    <3>3. QED BY <2>1, <3>2, ConcatProperties DEF TypeInv, TypeOK
  <2>3. steerQueue' \in Seq(Msg)
    BY <2>1, EmptySeq
  <2>4. resolveRun' \in 0..MaxRuns /\ waiting' \subseteq Runs
    BY <2>1, BoundsAssumption DEF SettleRun, TypeInv, TypeOK
  <2>5. abandoned' \subseteq Runs
    BY <1>2, <2>1 DEF TypeInv, TypeOK, ARunIsNumbered
  <2>6. running' \in 0..MaxRuns
    BY <2>1, BoundsAssumption
  <2>7. UNCHANGED <<repeatSignature, repeatCount, pc, turn, msgs, contexts, calls>>
    BY DEF repeat, counts
  <2>8. TypeOK'
    BY <2>1, <2>2, <2>3, <2>4, <2>5, <2>6, <2>7 DEF TypeInv, TypeOK
  <2>9. QED BY <1>1, <2>1, <2>8 DEF TypeInv, ARunIsNumbered
<1>3. CASE ~(runningInner /\ isStreaming)
  <2>1. /\ abortRequested' = TRUE
        /\ UNCHANGED <<runId, abandonedRunId, runningInner, isStreaming,
                       resolveRun, running, waiting, abandoned, steerQueue,
                       messages, unseen>>
    BY <1>3 DEF AbortBody
  <2>2. QED BY <1>1, <2>1 DEF TypeInv, TypeOK, ARunIsNumbered, repeat, counts
<1>4. QED BY <1>2, <1>3

\* What a caller does keeps the types.
LEMMA CallerStepType ==
  ASSUME TypeInv, CallerStep
  PROVE  TypeInv'
<1>1. ASSUME NEW role \in PromptRoles, Prompt(role)
      PROVE  TypeInv'
  <2>1. NewMsg(role) \in Msg /\ <<NewMsg(role)>> \in Seq(Msg)
    BY NewMsgType
  <2>2. msgs' \in Nat /\ UNCHANGED <<contexts, calls>>
    BY <1>1 DEF Prompt, TypeInv, TypeOK
  <2>3. Queue(NewMsg(role)) \/ StartRun(<<NewMsg(role)>>)
    BY <1>1 DEF Prompt
  <2>4. QED BY <2>1, <2>2, <2>3, QueueType, StartRunType
<1>2. ASSUME NEW role \in PromptRoles, Steer(role)
      PROVE  TypeInv'
  <2>1. NewMsg(role) \in Msg /\ <<NewMsg(role)>> \in Seq(Msg)
    BY NewMsgType
  <2>2. msgs' \in Nat /\ UNCHANGED <<contexts, calls>>
    BY <1>2 DEF Steer, TypeInv, TypeOK
  <2>3. Queue(NewMsg(role)) \/ StartRun(<<NewMsg(role)>>)
    BY <1>2 DEF Steer
  <2>4. QED BY <2>1, <2>2, <2>3, QueueType, StartRunType
<1>3. ASSUME Continue PROVE TypeInv'
  <2>1. StartRun(<<>>) /\ UNCHANGED <<contexts, calls>> /\ msgs' \in Nat
    BY <1>3 DEF Continue, counts, TypeInv, TypeOK
  <2>2. <<>> \in Seq(Msg)
    BY EmptySeq
  <2>3. QED BY <2>1, <2>2, StartRunType
<1>4. ASSUME AppendMessage PROVE TypeInv'
  <2> DEFINE ms == <<[id |-> 0, role |-> "context"]>>
  <2>1. ms \in Seq(Msg)
    <3>1. [id |-> 0, role |-> "context"] \in Msg
      BY DEF Msg, Roles
    <3>2. QED BY <3>1, OneElement
  <2>2. Append_(0, messages, ms, repeatSignature, repeatCount)
    BY <1>4 DEF AppendMessage
  <2>3. /\ messages' \in Seq(Entry)
        /\ unseen' \subseteq Nat
        /\ repeatSignature' \in Signatures \cup {"none"}
        /\ repeatCount' \in Nat
    <3>1. 0 \in 0..MaxRuns
      BY BoundsAssumption
    <3> HIDE DEF ms
    <3>2. QED BY <2>1, <2>2, <3>1, AppendType DEF TypeInv, TypeOK
  <2>4. /\ contexts' = contexts + 1
        /\ UNCHANGED <<control, steerQueue, pc, turn, msgs, calls>>
    BY <1>4 DEF AppendMessage
  <2>5. QED
    BY <2>3, <2>4 DEF TypeInv, TypeOK, ToolsHaveCalls, ARunIsNumbered, control
<1>5. ASSUME Abort PROVE TypeInv'
  BY <1>5, AbortType DEF Abort, TypeInv, TypeOK
<1>6. ASSUME Close PROVE TypeInv'
  BY <1>6, AbortType DEF Close, TypeInv, TypeOK
<1>7. ASSUME NEW n \in DOMAIN messages, Rewind(n)
      PROVE  TypeInv'
  <2>1. messages' = SubSeq(messages, 1, n - 1) /\ steerQueue' = <<>>
    BY <1>7 DEF Rewind
  <2>2. messages' \in Seq(Entry)
    <3>1. DOMAIN messages = 1..Len(messages) /\ Len(messages) \in Nat
          /\ \A i \in 1..Len(messages) : messages[i] \in Entry
      BY LenProperties, ElementOfSeq DEF TypeInv, TypeOK
    <3>2. \A i \in 1..(n - 1) : messages[i] \in Entry
      BY <3>1
    <3>3. QED BY <2>1, <3>1, <3>2, SubSeqProperties
  <2>3. repeatSignature' \in Signatures \cup {"none"} /\ repeatCount' \in Nat
    BY <1>7 DEF Rewind, repeat, TypeInv, TypeOK
  <2>4. steerQueue' \in Seq(Msg)
    BY <2>1, EmptySeq
  <2>5. /\ abortRequested' = FALSE
        /\ UNCHANGED <<runId, abandonedRunId, runningInner, isStreaming, closed,
                       resolveRun, running, waiting, abandoned, pc, turn, unseen,
                       msgs, contexts, calls>>
    BY <1>7 DEF Rewind, counts
  <2>6. QED
    BY <2>2, <2>3, <2>4, <2>5 DEF TypeInv, TypeOK, ToolsHaveCalls, ARunIsNumbered
<1>8. QED BY <1>1, <1>2, <1>3, <1>4, <1>5, <1>6, <1>7 DEF CallerStep

\* A turn that comes back, with whatever it brings.
LEMMA TurnLandsType ==
  ASSUME TypeInv, NEW r \in Runs, NEW cs \in Seq(Call), NEW done \in SUBSET Nat,
         TurnLands(r, cs, done), calls' \in Nat,
         UNCHANGED <<control, steerQueue, repeat, unseen, msgs, contexts>>
  PROVE  TypeInv'
<1>1. r \in 0..MaxRuns
  BY BoundsAssumption DEF Runs
<1>2. messages' \in Seq(Entry)
  <2>1. Recorded(r, cs, done) \in Seq(Entry)
    BY <1>1, RecordedType
  <2>2. messages \o Recorded(r, cs, done) \in Seq(Entry)
    BY <2>1, ConcatProperties DEF TypeInv, TypeOK
  <2>3. QED BY <2>2 DEF TurnLands, TypeInv, TypeOK
<1>3. [calls |-> cs, missing |-> CallIds(cs) \ done] \in [calls : Seq(Call), missing : SUBSET Nat]
  BY CallIdsType
<1>4. /\ turn' = [turn EXCEPT ![r] = [calls |-> cs, missing |-> CallIds(cs) \ done]]
      /\ pc' = [pc EXCEPT ![r] = "landed"]
  BY DEF TurnLands, Park
<1>5. /\ turn' \in [Runs -> [calls : Seq(Call), missing : SUBSET Nat]]
      /\ pc' \in [Runs -> Parked]
  BY <1>3, <1>4 DEF TypeInv, TypeOK, Parked
<1>6. ToolsHaveCalls'
  BY <1>4 DEF TypeInv, TypeOK, ToolsHaveCalls
<1>7. QED
  BY <1>2, <1>5, <1>6 DEF TypeInv, TypeOK, ARunIsNumbered, control, repeat

\* A run that ends.
LEMMA FinallyType ==
  ASSUME TypeInv, NEW r \in Runs, Finally(r),
         UNCHANGED <<steerQueue, messages, repeat, unseen, counts>>
  PROVE  TypeInv'
<1>1. NoTurn \in [calls : Seq(Call), missing : SUBSET Nat]
  BY EmptySeq DEF NoTurn
<1>2. /\ pc' = [pc EXCEPT ![r] = "ended"]
      /\ turn' = [turn EXCEPT ![r] = NoTurn]
      /\ UNCHANGED <<runId, abandonedRunId, abortRequested, closed, resolveRun,
                     running, waiting, abandoned>>
      /\ \/ isStreaming' = FALSE /\ runningInner' = FALSE
         \/ UNCHANGED <<isStreaming, runningInner>>
  BY DEF Finally, Park
<1>3. /\ turn' \in [Runs -> [calls : Seq(Call), missing : SUBSET Nat]]
      /\ pc' \in [Runs -> Parked]
  BY <1>1, <1>2 DEF TypeInv, TypeOK, Parked
<1>4. ToolsHaveCalls'
  BY <1>2 DEF TypeInv, TypeOK, ToolsHaveCalls
<1>5. /\ isStreaming' \in BOOLEAN /\ runningInner' \in BOOLEAN
      /\ ARunIsNumbered'
  <2>1. CASE isStreaming' = FALSE /\ runningInner' = FALSE
    BY <2>1 DEF ARunIsNumbered
  <2>2. CASE isStreaming' = isStreaming /\ runningInner' = runningInner
    BY <1>2, <2>2 DEF TypeInv, TypeOK, ARunIsNumbered
  <2>3. QED BY <1>2, <2>1, <2>2
<1>6. UNCHANGED <<steerQueue, messages, repeatSignature, repeatCount, unseen,
                  msgs, contexts, calls>>
  BY DEF repeat, counts
<1>7. QED
  BY <1>2, <1>3, <1>4, <1>5, <1>6 DEF TypeInv, TypeOK

\* What a run does keeps the types.
LEMMA RunStepType ==
  ASSUME TypeInv, NEW r \in Runs, RunStep(r)
  PROVE  TypeInv'
<1>0. NoTurn \in [calls : Seq(Call), missing : SUBSET Nat]
  BY EmptySeq DEF NoTurn
<1>1. CASE BeforeStepReturns(r)
  BY <1>1 DEF BeforeStepReturns, Park, Parked, TypeInv, TypeOK, ToolsHaveCalls,
              ARunIsNumbered, control, repeat, counts
<1>2. CASE TurnReturns(r)
  <2>1. PICK cs \in Batches :
          /\ calls' = calls + Len(cs)
          /\ \E done \in IF "fallback" \in Env THEN SUBSET CallIds(cs)
                                              ELSE {CallIds(cs)} :
                 TurnLands(r, cs, done)
    BY <1>2 DEF TurnReturns
  <2>2. cs \in Seq(Call) /\ Len(cs) \in Nat
    BY BatchesType DEF TypeInv, TypeOK
  <2>3. PICK done \in SUBSET CallIds(cs) : TurnLands(r, cs, done)
    BY <2>1
  <2>4. done \in SUBSET Nat
    BY <2>2, CallIdsType
  <2>5. calls' \in Nat
    BY <2>1, <2>2 DEF TypeInv, TypeOK
  <2>6. UNCHANGED <<control, steerQueue, repeat, unseen, msgs, contexts>>
    BY <1>2 DEF TurnReturns
  <2>7. QED BY <2>2, <2>3, <2>4, <2>5, <2>6, TurnLandsType
<1>3. CASE TurnFails(r)
  <2>1. PICK cs \in Batches :
          calls' = calls + Len(cs) /\ TurnLands(r, <<>>, CallIds(cs))
    BY <1>3 DEF TurnFails
  <2>2. cs \in Seq(Call) /\ Len(cs) \in Nat
    BY BatchesType DEF TypeInv, TypeOK
  <2>3. CallIds(cs) \in SUBSET Nat /\ <<>> \in Seq(Call)
    BY <2>2, CallIdsType, EmptySeq
  <2>4. calls' \in Nat
    BY <2>1, <2>2 DEF TypeInv, TypeOK
  <2>5. UNCHANGED <<control, steerQueue, repeat, unseen, msgs, contexts>>
    BY <1>3 DEF TurnFails
  <2>6. QED BY <2>1, <2>3, <2>4, <2>5, TurnLandsType
<1>4. CASE TurnThrows(r)
  BY <1>4, FinallyType DEF TurnThrows
<1>5. ASSUME turn[r].calls # <<>>, NoteAndLoop(r), UNCHANGED <<control, counts>>
      PROVE  TypeInv'
  BY <1>5, NoteAndLoopType DEF TypeInv, TypeOK, ARunIsNumbered, control, counts
<1>6. CASE TurnEnds(r)
  <2>1. CASE turn[r].missing # {}
    BY <1>6, <2>1 DEF TurnEnds, Park, Parked, TypeInv, TypeOK, ToolsHaveCalls,
                      ARunIsNumbered, control, repeat, counts
  <2>2. CASE turn[r].missing = {}
    BY <1>5, <1>6, <2>2 DEF TurnEnds
  <2>3. QED BY <2>1, <2>2
<1>7. CASE TextTurnEnds(r)
  <2>1. steerQueue' \in Seq(Msg) /\ msgs' \in Nat
    <3>1. NewMsg("notification") \in Msg
      BY NewMsgType
    <3>2. \/ UNCHANGED <<steerQueue, msgs>>
          \/ msgs' = msgs + 1 /\ steerQueue' = Append(steerQueue, NewMsg("notification"))
      BY <1>7 DEF TextTurnEnds
    <3>3. Append(steerQueue, NewMsg("notification")) \in Seq(Msg)
      BY <3>1, AppendProperties DEF TypeInv, TypeOK
    <3>4. CASE UNCHANGED <<steerQueue, msgs>>
      BY <3>4 DEF TypeInv, TypeOK
    <3>5. CASE msgs' = msgs + 1 /\ steerQueue' = Append(steerQueue, NewMsg("notification"))
      BY <3>3, <3>5 DEF TypeInv, TypeOK
    <3>6. QED BY <3>2, <3>4, <3>5
  <2>2. /\ pc' = [pc EXCEPT ![r] = "returned"]
        /\ turn' = [turn EXCEPT ![r] = NoTurn]
        /\ UNCHANGED <<control, messages, repeat, unseen, contexts, calls>>
    BY <1>7 DEF TextTurnEnds, Park
  <2>3. QED
    BY <1>0, <2>1, <2>2 DEF TypeInv, TypeOK, ToolsHaveCalls, ARunIsNumbered,
                            Parked, control, repeat
<1>8. CASE ToolReturns(r)
  <2>1. r \in 0..MaxRuns
    BY BoundsAssumption DEF Runs
  <2>2. UNCHANGED <<control, steerQueue, repeat, unseen, counts>>
    BY <1>8 DEF ToolReturns
  <2>3. CASE isStaleRun(r)
    <3>1. pc[r] = "tools" /\ pc' = [pc EXCEPT ![r] = "toolsDone"]
          /\ UNCHANGED <<messages, turn>>
      BY <1>8, <2>3 DEF ToolReturns, Delivered, Park
    <3>2. QED
      BY <2>2, <3>1 DEF TypeInv, TypeOK, ToolsHaveCalls, ARunIsNumbered, Parked,
                        control, repeat, counts
  <2>4. CASE ~isStaleRun(r)
    <3>1. PICK c \in turn[r].missing :
            /\ messages' = messages \o Results(r, {c})
            /\ turn' = [turn EXCEPT ![r].missing = @ \ {c}]
            /\ pc' = [pc EXCEPT ![r] = "toolsDone"] \/ pc' = pc
      BY <1>8, <2>4 DEF ToolReturns, Park
    <3>2. c \in Nat /\ pc[r] = "tools"
      BY <1>8, <3>1 DEF ToolReturns, Delivered, TypeInv, TypeOK
    <3>3. messages' \in Seq(Entry)
      <4>1. {c} \in SUBSET Nat
        BY <3>2
      <4>2. Results(r, {c}) \in Seq(Entry)
        BY <2>1, <4>1, ResultsType
      <4>3. QED BY <3>1, <4>2, ConcatProperties DEF TypeInv, TypeOK
    <3>4. /\ turn' \in [Runs -> [calls : Seq(Call), missing : SUBSET Nat]]
          /\ \A q \in Runs : turn'[q].calls = turn[q].calls
      BY <3>1 DEF TypeInv, TypeOK
    <3>5. pc' \in [Runs -> Parked]
      BY <3>1 DEF TypeInv, TypeOK, Parked
    <3>6. ToolsHaveCalls'
      BY <3>1, <3>2, <3>4 DEF TypeInv, TypeOK, ToolsHaveCalls
    <3>7. QED
      BY <2>2, <3>3, <3>4, <3>5, <3>6 DEF TypeInv, TypeOK, ARunIsNumbered,
                                          control, repeat, counts
  <2>5. QED BY <2>3, <2>4
<1>9. CASE ToolsDone(r)
  <2>1. turn[r].calls # <<>>
    BY <1>9 DEF ToolsDone, TypeInv, ToolsHaveCalls
  <2>2. QED BY <1>5, <1>9, <2>1 DEF ToolsDone
<1>10. CASE DrainNext(r)
  <2>1. UNCHANGED <<control, counts>> /\ steerQueue # <<>>
    BY <1>10 DEF DrainNext
  <2>2. CASE isStaleRun(r)
    <3>1. /\ Append_(r, messages, <<Head(steerQueue)>>, repeatSignature, repeatCount)
          /\ steerQueue' = Tail(steerQueue)
          /\ UNCHANGED <<pc, turn>>
      BY <1>10, <2>2 DEF DrainNext
    <3>2. <<Head(steerQueue)>> \in Seq(Msg) /\ Tail(steerQueue) \in Seq(Msg)
      BY <2>1, HeadTailProperties, OneElement DEF TypeInv, TypeOK
    <3>3. r \in 0..MaxRuns
      BY BoundsAssumption DEF Runs
    <3>4. /\ messages' \in Seq(Entry)
          /\ unseen' \subseteq Nat
          /\ repeatSignature' \in Signatures \cup {"none"}
          /\ repeatCount' \in Nat
      BY <3>1, <3>2, <3>3, AppendType DEF TypeInv, TypeOK
    <3>5. QED
      BY <2>1, <3>1, <3>2, <3>4 DEF TypeInv, TypeOK, ToolsHaveCalls,
                                    ARunIsNumbered, control, counts
  <2>3. CASE ~isStaleRun(r)
    <3>1. LoopTop(r, messages, <<>>, repeatSignature, repeatCount)
      BY <1>10, <2>3 DEF DrainNext
    <3>2. <<>> \in Seq(Msg)
      BY EmptySeq
    <3>3. /\ messages' \in Seq(Entry)
          /\ unseen' \subseteq Nat
          /\ repeatSignature' \in Signatures \cup {"none"}
          /\ repeatCount' \in Nat
          /\ steerQueue' \in Seq(Msg)
          /\ pc' \in [Runs -> Parked]
          /\ turn' \in [Runs -> [calls : Seq(Call), missing : SUBSET Nat]]
          /\ ToolsHaveCalls'
      BY <3>1, <3>2, LoopTopType DEF TypeInv, TypeOK
    <3>4. QED
      BY <2>1, <3>3 DEF TypeInv, TypeOK, ARunIsNumbered, control, counts
  <2>4. QED BY <2>2, <2>3
<1>11. CASE RunEnds(r)
  BY <1>11, FinallyType DEF RunEnds
<1>12. CASE Settle(r)
  <2>1. resolveRun' \in 0..MaxRuns /\ waiting' \subseteq Runs
    BY <1>12, BoundsAssumption DEF Settle, SettleRun, TypeInv, TypeOK
  <2>2. /\ pc' = [pc EXCEPT ![r] = "done"]
        /\ UNCHANGED <<runId, abandonedRunId, runningInner, isStreaming, closed,
                       abortRequested, running, abandoned, steerQueue, messages,
                       repeat, turn, unseen, counts>>
    BY <1>12 DEF Settle, Park
  <2>3. QED
    BY <2>1, <2>2 DEF TypeInv, TypeOK, ToolsHaveCalls, ARunIsNumbered, Parked,
                      repeat, counts
<1>13. QED
  BY <1>1, <1>2, <1>3, <1>4, <1>6, <1>7, <1>8, <1>9, <1>10, <1>11, <1>12
     DEF RunStep

\* The types hold at the start ...
LEMMA InitType ==
  ASSUME Init
  PROVE  TypeInv
<1>1. <<>> \in Seq(Msg) /\ <<>> \in Seq(Entry) /\ <<>> \in Seq(Call)
  BY EmptySeq
<1>2. NoTurn \in [calls : Seq(Call), missing : SUBSET Nat]
  BY <1>1 DEF NoTurn
<1>3. pc \in [Runs -> Parked]
      /\ turn \in [Runs -> [calls : Seq(Call), missing : SUBSET Nat]]
  BY <1>2 DEF Init, Parked
<1>4. ToolsHaveCalls /\ ARunIsNumbered
  BY DEF Init, ToolsHaveCalls, ARunIsNumbered
<1>5. /\ runningInner \in BOOLEAN /\ isStreaming \in BOOLEAN
      /\ abortRequested \in BOOLEAN /\ closed \in BOOLEAN
  BY Zenon DEF Init
<1>6. 0 \in 0..MaxRuns
  BY BoundsAssumption
<1>7. /\ runId = 0 /\ abandonedRunId = 0 /\ resolveRun = 0 /\ running = 0
      /\ steerQueue = <<>> /\ messages = <<>>
      /\ repeatSignature = "none" /\ repeatCount = 0
      /\ waiting = {} /\ abandoned = {} /\ unseen = {}
      /\ msgs = 0 /\ contexts = 0 /\ calls = 0
  BY DEF Init
<1>8. TypeOK
  BY <1>1, <1>3, <1>5, <1>6, <1>7 DEF TypeOK
<1>9. QED BY <1>4, <1>8 DEF TypeInv

\* ... and after every step.
LEMMA StepType ==
  ASSUME TypeInv, [Next]_vars
  PROVE  TypeInv'
<1>1. CASE CallerStep
  BY <1>1, CallerStepType
<1>2. ASSUME NEW r \in Runs, RunStep(r) PROVE TypeInv'
  BY <1>2, RunStepType
<1>3. CASE UNCHANGED vars
  BY <1>3 DEF TypeInv, TypeOK, ToolsHaveCalls, ARunIsNumbered, vars, control,
              repeat, counts
<1>4. QED BY <1>1, <1>2, <1>3 DEF Next

\* Every variable of the runtime keeps its type, whatever the bounds.
LEMMA TypeInvariance == Spec => []TypeInv
<1>1. Init => TypeInv
  BY InitType
<1>2. TypeInv /\ [Next]_vars => TypeInv'
  BY StepType
<1>3. QED BY <1>1, <1>2, PTL DEF Spec

\* Type correctness of the runtime for every value of its constants (the
\* fields of class Agent, agent.ts 89-135, and the states of a run).
THEOREM TypeCorrect == Spec => []TypeOK
<1>1. TypeInv => TypeOK
  BY DEF TypeInv
<1>2. QED BY <1>1, TypeInvariance, PTL

-----------------------------------------------------------------------------
(***************************************************************************)
(* One live run.  The runtime remembers ONE abandoned run, so what follows *)
(* holds when at most one abandoned turn is out at any time.               *)
(***************************************************************************)

\* The run the flags speak of is the newest one, it holds the waiter, and the
\* abandoned run whose turn is still out is the one the runtime remembers.
RunsAreOrdered ==
    /\ \A r \in Runs : r > runId => pc[r] = "none"
    /\ \A r \in abandoned : r <= runId
    /\ abandonedRunId # 0 => abandonedRunId \in abandoned
    /\ runningInner => resolveRun = runId
LateIsRemembered ==
    \A r \in Runs : r \in abandoned /\ pc[r] \in InFlight => r = abandonedRunId

OwnerInv == TypeInv /\ OneLiveRun /\ RunsAreOrdered /\ LateIsRemembered

\* A stopped run whose turn is out is stale, and only such a run is.
LEMMA StaleIsLate ==
  ASSUME OwnerInv, NEW r \in Runs, pc[r] \in InFlight
  PROVE  /\ isStaleRun(r) <=> r \in abandoned
         /\ ~isStaleRun(r) => Live(r) /\ runningInner /\ r = runId
<1>1. isStaleRun(r) => r \in abandoned
  BY DEF isStaleRun, OwnerInv, RunsAreOrdered, Runs
<1>2. r \in abandoned => isStaleRun(r)
  BY DEF isStaleRun, OwnerInv, LateIsRemembered
<1>3. ~isStaleRun(r) => Live(r)
  BY <1>2 DEF Live
<1>4. QED BY <1>1, <1>2, <1>3 DEF OwnerInv, OneLiveRun

\* A continuation that moves on inside its run changes nothing of this.
LEMMA MovesOn ==
  ASSUME OwnerInv, NEW r \in Runs, NEW p \in InFlight,
         pc[r] \in InFlight, pc' = [pc EXCEPT ![r] = p] \/ pc' = pc,
         UNCHANGED control
  PROVE  OneLiveRun' /\ RunsAreOrdered' /\ LateIsRemembered'
<1>1. \A q \in Runs : pc'[q] \in InFlight <=> pc[q] \in InFlight
  BY DEF OwnerInv, TypeInv, TypeOK
<1>2. \A q \in Runs : Live(q)' <=> Live(q)
  BY <1>1 DEF Live, control
<1>3. OneLiveRun'
  BY <1>2 DEF OwnerInv, OneLiveRun, control
<1>4. RunsAreOrdered'
  BY <1>1 DEF OwnerInv, TypeInv, TypeOK, RunsAreOrdered, control, InFlight, Parked
<1>5. LateIsRemembered'
  BY <1>1 DEF OwnerInv, LateIsRemembered, control
<1>6. QED BY <1>3, <1>4, <1>5

\* A run that starts finds no other alive.
LEMMA StartRunOwner ==
  ASSUME OwnerInv, NEW first, StartRun(first), ~runningInner
  PROVE  OneLiveRun' /\ RunsAreOrdered' /\ LateIsRemembered'
<1> DEFINE new == runId + 1
<1>1. /\ runId < MaxRuns /\ runId' = new /\ resolveRun' = new
      /\ pc' = [pc EXCEPT ![new] = "beforeStep"]
      /\ runningInner' = TRUE /\ isStreaming' = TRUE
      /\ UNCHANGED <<abandonedRunId, abandoned>>
  BY DEF StartRun, LoopTop
<1>2. runId \in Nat /\ new \in Runs /\ new \notin abandoned /\ abandoned \subseteq Runs
  BY <1>1, BoundsAssumption DEF OwnerInv, TypeInv, TypeOK, RunsAreOrdered, Runs
<1>3. \A q \in Runs : pc'[q] = IF q = new THEN "beforeStep" ELSE pc[q]
  BY <1>1 DEF OwnerInv, TypeInv, TypeOK
<1>4. \A q \in Runs : Live(q)' <=> q = new
  <2>1. \A q \in Runs : ~Live(q)
    BY DEF OwnerInv, OneLiveRun
  <2>2. QED BY <1>1, <1>2, <1>3, <2>1 DEF Live, InFlight, Parked
<1>5. OneLiveRun'
  BY <1>1, <1>2, <1>4 DEF OneLiveRun
<1>6. RunsAreOrdered'
  BY <1>1, <1>2, <1>3 DEF OwnerInv, RunsAreOrdered, Runs
<1>7. LateIsRemembered'
  BY <1>1, <1>2, <1>3 DEF OwnerInv, LateIsRemembered
<1>8. QED BY <1>5, <1>6, <1>7

\* A stop of the live run: nothing else was out, so what it leaves behind is
\* what it remembers.
LEMMA AbortOwner ==
  ASSUME OwnerInv, MaxLate <= 1, AbortBody, UNCHANGED pc
  PROVE  OneLiveRun' /\ RunsAreOrdered' /\ LateIsRemembered'
<1>1. CASE runningInner /\ isStreaming
  <2>1. /\ Cardinality(Late) < MaxLate
        /\ abandonedRunId' = runId /\ abandoned' = abandoned \cup {runId}
        /\ isStreaming' = FALSE /\ runningInner' = FALSE /\ UNCHANGED runId
    BY <1>1 DEF AbortBody
  <2>2. Late = {}
    <3>1. Late \subseteq 1..MaxRuns
      BY DEF Late, OwnerInv, TypeInv, TypeOK, Runs
    <3>2. IsFiniteSet(1..MaxRuns)
      BY FS_Interval, BoundsAssumption
    <3>3. IsFiniteSet(Late)
      BY <3>1, <3>2, FS_Subset
    <3>4. Cardinality(Late) = 0
      BY <2>1, <3>3, FS_CardinalityType, BoundsAssumption
    <3>5. QED BY <3>3, <3>4, FS_EmptySet
  <2>3. runId \in Runs /\ abandoned \subseteq Runs /\ Live(runId)
    BY <1>1 DEF OwnerInv, TypeInv, TypeOK, ARunIsNumbered, OneLiveRun
  <2>4. \A q \in Runs : ~Live(q)'
    BY <2>1 DEF Live, OwnerInv, OneLiveRun
  <2>5. OneLiveRun'
    BY <2>1, <2>4 DEF OneLiveRun
  <2>6. RunsAreOrdered'
    BY <2>1, <2>3 DEF OwnerInv, RunsAreOrdered, Runs
  <2>7. LateIsRemembered'
    BY <2>1, <2>2 DEF LateIsRemembered, Late
  <2>8. QED BY <2>5, <2>6, <2>7
<1>2. CASE ~(runningInner /\ isStreaming)
  <2>1. UNCHANGED <<runId, abandonedRunId, runningInner, isStreaming,
                    resolveRun, abandoned>>
    BY <1>2 DEF AbortBody
  <2>2. QED
    BY <2>1 DEF OwnerInv, OneLiveRun, RunsAreOrdered, LateIsRemembered, Live
<1>3. QED BY <1>1, <1>2

\* The end of a run: the live run clears the flags, a stale one nothing.
LEMMA FinallyOwner ==
  ASSUME OwnerInv, NEW r \in Runs, pc[r] \in InFlight, Finally(r)
  PROVE  OneLiveRun' /\ RunsAreOrdered' /\ LateIsRemembered'
<1>1. /\ pc' = [pc EXCEPT ![r] = "ended"]
      /\ UNCHANGED <<runId, abandonedRunId, resolveRun, abandoned>>
  BY DEF Finally, Park
<1>2. \A q \in Runs : pc'[q] = IF q = r THEN "ended" ELSE pc[q]
  BY <1>1 DEF OwnerInv, TypeInv, TypeOK
<1>3. \A q \in Runs : Live(q)' <=> Live(q) /\ q # r
  BY <1>1, <1>2 DEF Live, InFlight, Parked
<1>4. OneLiveRun'
  <2>1. CASE isStaleRun(r)
    <3>1. ~Live(r)
      BY <2>1, StaleIsLate DEF Live
    <3>2. UNCHANGED <<isStreaming, runningInner>>
      BY <2>1 DEF Finally
    <3>3. \A q \in Runs : Live(q)' <=> Live(q)
      BY <1>3, <3>1
    <3>4. QED BY <1>1, <3>2, <3>3 DEF OwnerInv, OneLiveRun
  <2>2. CASE ~isStaleRun(r)
    <3>1. r = runId
      BY <2>2, StaleIsLate
    <3>2. isStreaming' = FALSE /\ runningInner' = FALSE
      BY <2>2 DEF Finally
    <3>3. \A q \in Runs : ~Live(q)'
      BY <1>3, <3>1 DEF OwnerInv, OneLiveRun
    <3>4. QED BY <3>2, <3>3 DEF OneLiveRun
  <2>3. QED BY <2>1, <2>2
<1>5. RunsAreOrdered'
  <2>1. runningInner' => runningInner
    BY DEF Finally
  <2>2. \A q \in Runs : q > runId => q # r
    BY DEF OwnerInv, RunsAreOrdered, InFlight, Parked
  <2>3. QED BY <1>1, <1>2, <2>1, <2>2 DEF OwnerInv, RunsAreOrdered
<1>6. LateIsRemembered'
  BY <1>1, <1>2 DEF OwnerInv, LateIsRemembered, InFlight
<1>7. QED BY <1>4, <1>5, <1>6

\* A run released after its end was not the live one.
LEMMA SettleOwner ==
  ASSUME OwnerInv, NEW r \in Runs, Settle(r)
  PROVE  OneLiveRun' /\ RunsAreOrdered' /\ LateIsRemembered'
<1>1. /\ pc[r] = "ended" /\ pc' = [pc EXCEPT ![r] = "done"] /\ SettleRun(r)
      /\ UNCHANGED <<runId, abandonedRunId, runningInner, isStreaming, abandoned>>
  BY DEF Settle, Park
<1>2. \A q \in Runs : pc'[q] = IF q = r THEN "done" ELSE pc[q]
  BY <1>1 DEF OwnerInv, TypeInv, TypeOK
<1>3. \A q \in Runs : Live(q)' <=> Live(q)
  BY <1>1, <1>2 DEF Live, InFlight, Parked
<1>4. OneLiveRun'
  BY <1>1, <1>3 DEF OwnerInv, OneLiveRun
<1>5. RunsAreOrdered'
  <2>1. runningInner => runId # r
    BY <1>1 DEF OwnerInv, OneLiveRun, Live, InFlight
  <2>2. runningInner' => resolveRun' = runId'
    BY <1>1, <2>1 DEF SettleRun, OwnerInv, RunsAreOrdered
  <2>3. \A q \in Runs : q > runId => q # r
    BY <1>1 DEF OwnerInv, RunsAreOrdered
  <2>4. QED BY <1>1, <1>2, <2>2, <2>3 DEF OwnerInv, RunsAreOrdered
<1>6. LateIsRemembered'
  BY <1>1, <1>2 DEF OwnerInv, LateIsRemembered, InFlight
<1>7. QED BY <1>4, <1>5, <1>6

\* Where each of a run's steps leaves its continuation.
LEMMA RunStepMoves ==
  ASSUME OwnerInv, NEW r \in Runs, RunStep(r)
  PROVE  \/ /\ pc[r] \in InFlight /\ UNCHANGED control
            /\ \E p \in InFlight : pc' = [pc EXCEPT ![r] = p] \/ pc' = pc
         \/ pc[r] \in InFlight /\ Finally(r) /\ UNCHANGED messages
         \/ Settle(r)
<1> USE DEF InFlight, Parked, Park, Delivered
<1>1. CASE BeforeStepReturns(r)
  BY <1>1 DEF BeforeStepReturns
<1>2. CASE TurnReturns(r) \/ TurnFails(r)
  BY <1>2 DEF TurnReturns, TurnFails, TurnLands
<1>3. CASE TurnThrows(r) \/ RunEnds(r)
  BY <1>3 DEF TurnThrows, RunEnds
<1>4. CASE TurnEnds(r) \/ ToolsDone(r)
  BY <1>4 DEF TurnEnds, ToolsDone, NoteAndLoop, LoopTop
<1>5. CASE TextTurnEnds(r)
  BY <1>5 DEF TextTurnEnds
<1>6. CASE ToolReturns(r)
  BY <1>6 DEF ToolReturns
<1>7. CASE DrainNext(r)
  BY <1>7 DEF DrainNext, LoopTop
<1>8. QED BY <1>1, <1>2, <1>3, <1>4, <1>5, <1>6, <1>7 DEF RunStep

\* Callers start a run only when none is going on.
LEMMA CallerStepMoves ==
  ASSUME TypeInv, CallerStep
  PROVE  \/ ~runningInner /\ \E first \in Seq(Msg) : StartRun(first)
         \/ AbortBody /\ UNCHANGED pc
         \/ /\ UNCHANGED <<runId, abandonedRunId, runningInner, isStreaming,
                           resolveRun, running, waiting, abandoned, pc>>
            /\ abortRequested' => abortRequested
<1>1. ASSUME NEW role \in PromptRoles, Prompt(role) \/ Steer(role)
      PROVE  Queue(NewMsg(role)) \/ (~runningInner /\ StartRun(<<NewMsg(role)>>))
  BY <1>1 DEF Prompt, Steer
<1>2. \A role \in PromptRoles : <<NewMsg(role)>> \in Seq(Msg)
  BY NewMsgType
<1>3. \A role \in PromptRoles : Queue(NewMsg(role)) =>
         /\ UNCHANGED <<runId, abandonedRunId, runningInner, isStreaming,
                        resolveRun, running, waiting, abandoned, pc>>
         /\ abortRequested' = abortRequested
  BY DEF Queue, control
<1>4. CASE \E role \in PromptRoles : Prompt(role) \/ Steer(role)
  BY <1>1, <1>2, <1>3, <1>4
<1>5. CASE Continue
  <2>1. <<>> \in Seq(Msg)
    BY EmptySeq
  <2>2. QED BY <1>5, <2>1 DEF Continue
<1>6. CASE Abort \/ Close
  BY <1>6 DEF Abort, Close
<1>7. CASE AppendMessage \/ \E n \in DOMAIN messages : Rewind(n)
  BY <1>7 DEF AppendMessage, Rewind, control
<1>8. QED BY <1>4, <1>5, <1>6, <1>7 DEF CallerStep

LEMMA OwnerInvariance ==
  ASSUME MaxLate <= 1
  PROVE  Spec => []OwnerInv
<1>1. Init => OwnerInv
  <2> SUFFICES ASSUME Init PROVE OwnerInv
    OBVIOUS
  <2>1. TypeInv
    BY InitType
  <2>2. \A r \in Runs : pc[r] = "none"
    BY DEF Init
  <2>3. OneLiveRun
    BY <2>2 DEF Init, OneLiveRun, Live, InFlight
  <2>4. RunsAreOrdered /\ LateIsRemembered
    BY <2>2 DEF Init, RunsAreOrdered, LateIsRemembered
  <2>5. QED BY <2>1, <2>3, <2>4 DEF OwnerInv
<1>2. OwnerInv /\ [Next]_vars => OwnerInv'
  <2> SUFFICES ASSUME OwnerInv, [Next]_vars PROVE OwnerInv'
    OBVIOUS
  <2>1. TypeInv'
    BY StepType DEF OwnerInv
  <2>2. OneLiveRun' /\ RunsAreOrdered' /\ LateIsRemembered'
    <3>1. CASE CallerStep
      <4>1. CASE ~runningInner /\ \E first \in Seq(Msg) : StartRun(first)
        BY <4>1, StartRunOwner
      <4>2. CASE AbortBody /\ UNCHANGED pc
        BY <4>2, AbortOwner
      <4>3. CASE UNCHANGED <<runId, abandonedRunId, runningInner, isStreaming,
                             resolveRun, running, waiting, abandoned, pc>>
        BY <4>3 DEF OwnerInv, OneLiveRun, RunsAreOrdered, LateIsRemembered, Live
      <4>4. QED BY <3>1, <4>1, <4>2, <4>3, CallerStepMoves DEF OwnerInv
    <3>2. ASSUME NEW r \in Runs, RunStep(r)
          PROVE  OneLiveRun' /\ RunsAreOrdered' /\ LateIsRemembered'
      BY <3>2, RunStepMoves, MovesOn, FinallyOwner, SettleOwner
    <3>3. CASE UNCHANGED vars
      BY <3>3 DEF vars, control, OwnerInv, OneLiveRun, RunsAreOrdered,
                  LateIsRemembered, Live
    <3>4. QED BY <3>1, <3>2, <3>3 DEF Next
  <2>3. QED BY <2>1, <2>2 DEF OwnerInv
<1>3. QED BY <1>1, <1>2, PTL DEF Spec

\* With at most one abandoned turn out, the flags every caller reads always
\* agree with the one run that is really going on (runningInner, isStreaming:
\* agent.ts 404-405, 432-441, 267-288).
THEOREM OneRunIsLive ==
  ASSUME MaxLate <= 1
  PROVE  Spec => []OneLiveRun
<1>1. OwnerInv => OneLiveRun
  BY DEF OwnerInv
<1>2. QED BY <1>1, OwnerInvariance, PTL

-----------------------------------------------------------------------------
(***************************************************************************)
(* Callers.  Without a prompt between a run's end and its settlement, the  *)
(* one waiter the runtime holds is the only one there is.                  *)
(***************************************************************************)

\* Whoever waits, waits for the live run or for a settlement already queued.
WaitersHaveARun == \A r \in waiting : Live(r) \/ pc[r] = "ended"

HeldInv == OwnerInv /\ CallersAreHeld /\ WaitersHaveARun

LEMMA HeldStart ==
  ASSUME HeldInv, "settleGap" \notin Env, ~runningInner, NEW first, StartRun(first)
  PROVE  CallersAreHeld' /\ WaitersHaveARun'
<1>1. \A r \in Runs : pc[r] # "ended"
  BY DEF StartRun
<1>2. waiting = {}
  BY <1>1 DEF HeldInv, WaitersHaveARun, OwnerInv, OneLiveRun, TypeInv, TypeOK
<1>3. runId + 1 \in Runs /\ runId + 1 \notin abandoned
  BY BoundsAssumption DEF StartRun, HeldInv, OwnerInv, TypeInv, TypeOK,
                          RunsAreOrdered, Runs
<1>4. /\ waiting' = waiting \cup {runId + 1} /\ resolveRun' = runId + 1
      /\ pc' = [pc EXCEPT ![runId + 1] = "beforeStep"] /\ abandoned' = abandoned
  BY DEF StartRun, LoopTop
<1>5. pc'[runId + 1] = "beforeStep"
  BY <1>3, <1>4 DEF HeldInv, OwnerInv, TypeInv, TypeOK
<1>6. QED
  BY <1>2, <1>3, <1>4, <1>5 DEF CallersAreHeld, WaitersHaveARun, Live, InFlight,
                                Parked

LEMMA HeldAbort ==
  ASSUME HeldInv, MaxLate <= 1, AbortBody, UNCHANGED pc
  PROVE  CallersAreHeld' /\ WaitersHaveARun'
<1>1. CASE runningInner /\ isStreaming
  <2>1. SettleRun(runId) /\ abandoned' = abandoned \cup {runId}
    BY <1>1 DEF AbortBody
  <2>2. resolveRun = runId
    BY <1>1 DEF HeldInv, OwnerInv, RunsAreOrdered
  <2>3. waiting' = {}
    BY <2>1, <2>2 DEF SettleRun, HeldInv, CallersAreHeld
  <2>4. QED BY <2>3 DEF CallersAreHeld, WaitersHaveARun
<1>2. CASE ~(runningInner /\ isStreaming)
  BY <1>2 DEF AbortBody, HeldInv, CallersAreHeld, WaitersHaveARun, Live
<1>3. QED BY <1>1, <1>2

LEMMA HeldRunStep ==
  ASSUME HeldInv, NEW r \in Runs, RunStep(r)
  PROVE  CallersAreHeld' /\ WaitersHaveARun'
<1> USE DEF HeldInv, OwnerInv, TypeInv, TypeOK
<1>0. waiting \subseteq Runs
  OBVIOUS
<1>1. ASSUME pc[r] \in InFlight, UNCHANGED control, NEW p \in InFlight,
             pc' = [pc EXCEPT ![r] = p] \/ pc' = pc
      PROVE  CallersAreHeld' /\ WaitersHaveARun'
  <2>1. \A q \in Runs : Live(q)' <=> Live(q)
    BY <1>1 DEF Live, control
  <2>2. \A q \in Runs : pc[q] = "ended" => pc'[q] = "ended"
    BY <1>1 DEF InFlight
  <2>3. QED
    BY <1>0, <1>1, <2>1, <2>2 DEF CallersAreHeld, WaitersHaveARun, control
<1>2. CASE pc[r] \in InFlight /\ Finally(r)
  <2>1. /\ pc' = [pc EXCEPT ![r] = "ended"]
        /\ UNCHANGED <<abandoned, waiting, resolveRun>>
    BY <1>2 DEF Finally, Park
  <2>2. \A q \in Runs : q # r => (Live(q)' <=> Live(q)) /\ pc'[q] = pc[q]
    BY <2>1 DEF Live
  <2>3. pc'[r] = "ended"
    BY <2>1
  <2>4. QED BY <1>0, <2>1, <2>2, <2>3 DEF CallersAreHeld, WaitersHaveARun
<1>3. CASE Settle(r)
  <2>1. /\ pc' = [pc EXCEPT ![r] = "done"] /\ SettleRun(r)
        /\ UNCHANGED abandoned
    BY <1>3 DEF Settle, Park
  <2>2. r \notin waiting'
    BY <2>1 DEF SettleRun, CallersAreHeld
  <2>3. CallersAreHeld' /\ waiting' \subseteq waiting
    BY <2>1 DEF SettleRun, CallersAreHeld
  <2>4. \A q \in Runs : q # r => (Live(q)' <=> Live(q)) /\ pc'[q] = pc[q]
    BY <2>1 DEF Live
  <2>5. QED BY <1>0, <2>2, <2>3, <2>4 DEF WaitersHaveARun
<1>4. QED BY <1>1, <1>2, <1>3, RunStepMoves

LEMMA HeldInvariance ==
  ASSUME MaxLate <= 1, "settleGap" \notin Env
  PROVE  Spec => []HeldInv
<1>1. Init => CallersAreHeld /\ WaitersHaveARun
  BY DEF Init, CallersAreHeld, WaitersHaveARun
<1>2. ASSUME HeldInv, [Next]_vars
      PROVE  CallersAreHeld' /\ WaitersHaveARun'
  <2>1. CASE CallerStep
    <3>1. CASE ~runningInner /\ \E first \in Seq(Msg) : StartRun(first)
      BY <1>2, <3>1, HeldStart
    <3>2. CASE AbortBody /\ UNCHANGED pc
      BY <1>2, <3>2, HeldAbort
    <3>3. CASE UNCHANGED <<runId, abandonedRunId, runningInner, isStreaming,
                           resolveRun, running, waiting, abandoned, pc>>
      BY <1>2, <3>3 DEF HeldInv, CallersAreHeld, WaitersHaveARun, Live
    <3>4. QED
      BY <1>2, <2>1, <3>1, <3>2, <3>3, CallerStepMoves DEF HeldInv, OwnerInv
  <2>2. ASSUME NEW r \in Runs, RunStep(r)
        PROVE  CallersAreHeld' /\ WaitersHaveARun'
    BY <1>2, <2>2, HeldRunStep
  <2>3. CASE UNCHANGED vars
    BY <1>2, <2>3 DEF vars, control, HeldInv, CallersAreHeld, WaitersHaveARun, Live
  <2>4. QED BY <1>2, <2>1, <2>2, <2>3 DEF Next
<1>3. Spec => []OwnerInv
  BY OwnerInvariance
<1>4. OwnerInv /\ CallersAreHeld /\ WaitersHaveARun <=> HeldInv
  BY DEF HeldInv
<1>5. HeldInv /\ [Next]_vars => CallersAreHeld' /\ WaitersHaveARun'
  BY <1>2
<1>6. QED BY <1>1, <1>3, <1>4, <1>5, PTL DEF Spec

\* With at most one abandoned turn out and no prompt between a run's end and
\* its settlement, a caller that awaits a run's promise is one the runtime can
\* still release (startRun, settleRun: agent.ts 344-349, 384-397).
THEOREM CallersCanBeReleased ==
  ASSUME MaxLate <= 1, "settleGap" \notin Env
  PROVE  Spec => []CallersAreHeld
<1>1. HeldInv => CallersAreHeld
  BY DEF HeldInv
<1>2. QED BY <1>1, HeldInvariance, PTL

\* Under the same conditions waitForIdle() on an idle agent does not hang: the
\* promise it awaits is settled or about to be (agent.ts 356-361).
THEOREM IdleCanBeAwaited ==
  ASSUME MaxLate <= 1, "settleGap" \notin Env
  PROVE  Spec => []IdleIsAwaitable
<1>1. HeldInv => IdleIsAwaitable
  BY DEF HeldInv, OwnerInv, TypeInv, TypeOK, WaitersHaveARun, OneLiveRun,
         IdleIsAwaitable
<1>2. QED BY <1>1, HeldInvariance, PTL

\* abort() leaves no run unwinding (agent.ts 198-202, 222): with at most one
\* abandoned turn out, the branches that wait for one are never taken.
THEOREM AbortEnds ==
  ASSUME MaxLate <= 1
  PROVE  Spec => []AbortEndsTheRun
<1>1. Init => AbortEndsTheRun
  BY DEF Init, AbortEndsTheRun
<1>2. ASSUME OwnerInv, AbortEndsTheRun, [Next]_vars
      PROVE  AbortEndsTheRun'
  <2>1. CASE CallerStep
    <3>1. CASE ~runningInner /\ \E first \in Seq(Msg) : StartRun(first)
      BY <3>1 DEF StartRun, AbortEndsTheRun
    <3>2. CASE AbortBody
      <4>1. CASE runningInner /\ isStreaming
        BY <3>2, <4>1 DEF AbortBody, AbortEndsTheRun
      <4>2. CASE ~(runningInner /\ isStreaming)
        <5>1. ~runningInner
          BY <1>2, <4>2 DEF OwnerInv, OneLiveRun
        <5>2. UNCHANGED runningInner
          BY <3>2, <4>2 DEF AbortBody
        <5>3. QED BY <5>1, <5>2 DEF AbortEndsTheRun
      <4>3. QED BY <4>1, <4>2
    <3>3. CASE UNCHANGED runningInner /\ (abortRequested' => abortRequested)
      BY <1>2, <3>3 DEF AbortEndsTheRun
    <3>4. QED BY <1>2, <2>1, <3>1, <3>2, <3>3, CallerStepMoves DEF OwnerInv
  <2>2. ASSUME NEW r \in Runs, RunStep(r)
        PROVE  AbortEndsTheRun'
    <3>1. UNCHANGED abortRequested /\ (runningInner' => runningInner)
      BY <1>2, <2>2, RunStepMoves DEF control, Finally, Settle
    <3>2. QED BY <1>2, <3>1 DEF AbortEndsTheRun
  <2>3. CASE UNCHANGED vars
    BY <1>2, <2>3 DEF vars, control, AbortEndsTheRun
  <2>4. QED BY <1>2, <2>1, <2>2, <2>3 DEF Next
<1>3. Spec => []OwnerInv
  BY OwnerInvariance
<1>4. OwnerInv /\ AbortEndsTheRun /\ [Next]_vars => AbortEndsTheRun'
  BY <1>2
<1>5. QED BY <1>1, <1>3, <1>4, PTL DEF Spec

(* While at most one stopped run still has its turn out, and no call comes     *)
(* between a run's finally and its settlement, the session belongs to one run: *)
(* types, flags, waiters and promises agree on which.                          *)
THEOREM RunsAreOwned ==
  ASSUME MaxLate <= 1, "settleGap" \notin Env
  PROVE  Spec => []RunIsOwned
<1>1. TypeOK /\ OneLiveRun /\ CallersAreHeld /\ IdleIsAwaitable /\ AbortEndsTheRun
        => RunIsOwned
  BY DEF RunIsOwned
<1>2. Spec => []TypeOK
  BY TypeCorrect
<1>3. Spec => []OneLiveRun
  BY OneRunIsLive
<1>4. Spec => []CallersAreHeld
  BY CallersCanBeReleased
<1>5. Spec => []IdleIsAwaitable
  BY IdleCanBeAwaited
<1>6. Spec => []AbortEndsTheRun
  BY AbortEnds
<1>7. QED BY <1>1, <1>2, <1>3, <1>4, <1>5, <1>6, PTL

-----------------------------------------------------------------------------
(***************************************************************************)
(* Who writes.                                                             *)
(***************************************************************************)

\* The transcript grows by entries whose authors are in who.
Wrote(who) ==
    /\ Len(messages) <= Len(messages')
    /\ \A i \in DOMAIN messages' :
          IF i <= Len(messages) THEN messages'[i] = messages[i]
                                ELSE messages'[i].run \in who

LEMMA ExtendedBy ==
  ASSUME messages \in Seq(Entry), NEW s \in Seq(Entry), NEW who,
         messages' = messages \o s, \A i \in 1..Len(s) : s[i].run \in who
  PROVE  Wrote(who)
<1>1. /\ messages' \in Seq(Entry)
      /\ Len(messages') = Len(messages) + Len(s)
      /\ \A i \in 1..(Len(messages) + Len(s)) :
            messages'[i] = IF i <= Len(messages) THEN messages[i]
                                                 ELSE s[i - Len(messages)]
  BY ConcatProperties
<1>2. /\ Len(messages) \in Nat /\ Len(s) \in Nat
      /\ DOMAIN messages' = 1..(Len(messages) + Len(s))
  BY <1>1, LenProperties
<1>3. ASSUME NEW i \in DOMAIN messages', ~(i <= Len(messages))
      PROVE  messages'[i].run \in who
  <2>1. i - Len(messages) \in 1..Len(s)
    BY <1>2, <1>3
  <2>2. messages'[i] = s[i - Len(messages)]
    BY <1>1, <1>2, <1>3
  <2>3. QED BY <2>1, <2>2
<1>4. QED BY <1>1, <1>2, <1>3 DEF Wrote

\* Two pieces of one author are one piece of that author.
LEMMA OneAuthor ==
  ASSUME NEW r, NEW s \in Seq(Entry), NEW t \in Seq(Entry),
         \A i \in 1..Len(s) : s[i].run = r, \A i \in 1..Len(t) : t[i].run = r
  PROVE  s \o t \in Seq(Entry) /\ \A i \in 1..Len(s \o t) : (s \o t)[i].run = r
<1>1. /\ s \o t \in Seq(Entry)
      /\ Len(s \o t) = Len(s) + Len(t)
      /\ \A i \in 1..(Len(s) + Len(t)) :
            (s \o t)[i] = IF i <= Len(s) THEN s[i] ELSE t[i - Len(s)]
  BY ConcatProperties
<1>2. Len(s) \in Nat /\ Len(t) \in Nat
  BY LenProperties
<1>3. ASSUME NEW i \in 1..(Len(s) + Len(t))
      PROVE  (s \o t)[i].run = r
  <2>1. CASE i <= Len(s)
    BY <1>1, <1>2, <2>1
  <2>2. CASE ~(i <= Len(s))
    <3>1. i - Len(s) \in 1..Len(t)
      BY <1>2, <2>2
    <3>2. QED BY <1>1, <2>2, <3>1
  <2>3. QED BY <2>1, <2>2
<1>4. QED BY <1>1, <1>3

LEMMA LoopTopWrites ==
  ASSUME TypeInv, NEW r \in Runs, NEW s \in Seq(Entry), NEW first \in Seq(Msg),
         NEW sig, NEW n, \A i \in 1..Len(s) : s[i].run = r,
         LoopTop(r, messages \o s, first, sig, n)
  PROVE  Wrote({r})
<1> DEFINE t == Written(r, first \o steerQueue)
<1>1. first \o steerQueue \in Seq(Msg) /\ r \in 0..MaxRuns
  BY BoundsAssumption, ConcatProperties DEF TypeInv, TypeOK, Runs
<1>2. t \in Seq(Entry) /\ \A i \in 1..Len(t) : t[i].run = r
  BY <1>1, WrittenType
<1>3. messages' = (messages \o s) \o t
  BY DEF LoopTop, Append_
<1> HIDE DEF t
<1>4. messages' = messages \o (s \o t)
  <2>1. messages \in Seq(Entry)
    BY DEF TypeInv, TypeOK
  <2>2. t \in Seq(Entry)
    BY <1>2
  <2>3. \A a, b, c \in Seq(Entry) : (a \o b) \o c = a \o (b \o c)
    BY ConcatAssociative
  <2>4. (messages \o s) \o t = messages \o (s \o t)
    BY <2>1, <2>2, <2>3
  <2>5. QED BY <1>3, <2>4
<1>5. s \o t \in Seq(Entry) /\ \A i \in 1..Len(s \o t) : (s \o t)[i].run = r
  BY <1>2, OneAuthor
<1>6. QED BY <1>4, <1>5, ExtendedBy DEF TypeInv, TypeOK

LEMMA NoteAndLoopWrites ==
  ASSUME TypeInv, NEW r \in Runs, NoteAndLoop(r)
  PROVE  Wrote({r})
<1> DEFINE cs == turn[r].calls
           s  == Reminder(r, cs)
<1>1. s \in Seq(Entry) /\ \A i \in 1..Len(s) : s[i].run = r
  <2>1. cs \in Seq(Call) /\ r \in 0..MaxRuns
    BY BoundsAssumption DEF TypeInv, TypeOK, Runs
  <2>2. QED BY <2>1, ReminderType DEF TypeInv, TypeOK
<1>2. CASE MayGoOn(r)
  <2>1. LoopTop(r, messages \o s, <<>>, cs[Len(cs)].sig, CountAt(cs, Len(cs)))
    BY <1>2 DEF NoteAndLoop
  <2>2. <<>> \in Seq(Msg)
    BY EmptySeq
  <2> HIDE DEF s, cs
  <2>3. QED BY <1>1, <2>1, <2>2, LoopTopWrites
<1>3. CASE ~MayGoOn(r)
  <2>1. messages' = messages \o s
    BY <1>3 DEF NoteAndLoop
  <2> HIDE DEF s, cs
  <2>2. QED BY <1>1, <2>1, ExtendedBy DEF TypeInv, TypeOK
<1>4. QED BY <1>2, <1>3

(***************************************************************************)
(* A stopped run is past writing.  This holds for the transport that runs  *)
(* every tool itself; with calls left to executeTools only without         *)
(* reminders; and only while nobody queues into the run that replaced it.  *)
(***************************************************************************)
NothingForTheLate == Late # {} => steerQueue = <<>>
NothingLeftOver ==
    "fallback" \notin Env =>
        \A r \in Runs : turn[r].missing = {} /\ pc[r] \notin {"tools", "toolsDone"}

CleanInv == OwnerInv /\ NothingForTheLate /\ NothingLeftOver

\* Each step of a run leaves the transcript alone or is the live run's, but for
\* the drain loop, which does not ask whether the run is stale.
LEMMA RunStepWritesOwn ==
  ASSUME OwnerInv, NothingLeftOver, "fallback" \notin Env \/ RemindAt = {},
         NEW r \in Runs, RunStep(r), ~ (DrainNext(r) /\ isStaleRun(r))
  PROVE  UNCHANGED messages \/ (Live(r) /\ r = runId /\ runningInner /\ Wrote({r}))
<1>1. CASE BeforeStepReturns(r) \/ TextTurnEnds(r) \/ TurnThrows(r) \/ RunEnds(r)
           \/ Settle(r)
  BY <1>1 DEF BeforeStepReturns, TextTurnEnds, TurnThrows, RunEnds, Settle
<1>2. ASSUME pc[r] \in InFlight, ~isStaleRun(r)
      PROVE  Live(r) /\ r = runId /\ runningInner
  BY <1>2, StaleIsLate
<1>3. messages \in Seq(Entry) /\ r \in 0..MaxRuns
  BY BoundsAssumption DEF OwnerInv, TypeInv, TypeOK, Runs
<1>4. CASE TurnReturns(r) \/ TurnFails(r)
  <2>1. PICK cs \in Seq(Call), done \in SUBSET Nat : TurnLands(r, cs, done)
    <3>1. \A cs \in Batches : cs \in Seq(Call) /\ CallIds(cs) \in SUBSET Nat
      BY BatchesType, CallIdsType DEF OwnerInv, TypeInv, TypeOK
    <3>2. <<>> \in Seq(Call)
      BY EmptySeq
    <3>3. CASE TurnReturns(r)
      <4>1. PICK cs \in Batches : \E done \in SUBSET CallIds(cs) : TurnLands(r, cs, done)
        BY <3>3 DEF TurnReturns
      <4>2. PICK done \in SUBSET CallIds(cs) : TurnLands(r, cs, done)
        BY <4>1
      <4>3. cs \in Seq(Call) /\ done \in SUBSET Nat
        BY <3>1
      <4>4. QED BY <4>2, <4>3
    <3>4. CASE TurnFails(r)
      BY <3>1, <3>2, <3>4 DEF TurnFails
    <3>5. QED BY <1>4, <3>3, <3>4
  <2>2. pc[r] \in InFlight
    BY <1>4 DEF TurnReturns, TurnFails, Delivered, InFlight, Parked
  <2>3. CASE isStaleRun(r)
    BY <2>1, <2>3 DEF TurnLands
  <2>4. CASE ~isStaleRun(r)
    <3>1. messages' = messages \o Recorded(r, cs, done)
      BY <2>1, <2>4 DEF TurnLands
    <3>2. /\ Recorded(r, cs, done) \in Seq(Entry)
          /\ \A i \in 1..Len(Recorded(r, cs, done)) : Recorded(r, cs, done)[i].run = r
      BY <1>3, RecordedType
    <3>3. Wrote({r})
      BY <1>3, <3>1, <3>2, ExtendedBy
    <3>4. QED BY <1>2, <2>2, <2>4, <3>3
  <2>5. QED BY <2>3, <2>4
<1>5. CASE TurnEnds(r)
  <2>1. pc[r] \in InFlight /\ ~isStaleRun(r)
    BY <1>5 DEF TurnEnds, MayGoOn, InFlight, Parked
  <2>2. UNCHANGED messages \/ NoteAndLoop(r)
    BY <1>5 DEF TurnEnds
  <2>3. QED
    BY <1>2, <2>1, <2>2, NoteAndLoopWrites DEF OwnerInv
<1>6. CASE ToolReturns(r)
  <2>1. pc[r] = "tools" /\ pc[r] \in InFlight
    BY <1>6 DEF ToolReturns, Delivered, InFlight, Parked
  <2>2. CASE isStaleRun(r)
    BY <1>6, <2>2 DEF ToolReturns
  <2>3. CASE ~isStaleRun(r)
    <3>1. PICK c \in turn[r].missing : messages' = messages \o Results(r, {c})
      BY <1>6, <2>3 DEF ToolReturns
    <3>2. {c} \in SUBSET Nat
      BY DEF OwnerInv, TypeInv, TypeOK
    <3>3. /\ Results(r, {c}) \in Seq(Entry)
          /\ \A i \in 1..Len(Results(r, {c})) : Results(r, {c})[i].run = r
      BY <1>3, <3>2, ResultsType
    <3>4. Wrote({r})
      BY <1>3, <3>1, <3>3, ExtendedBy
    <3>5. QED BY <1>2, <2>1, <2>3, <3>4
  <2>4. QED BY <2>2, <2>3
<1>7. CASE ToolsDone(r)
  <2>1. pc[r] = "toolsDone" /\ pc[r] \in InFlight /\ NoteAndLoop(r)
    BY <1>7 DEF ToolsDone, InFlight, Parked
  <2>2. CASE ~isStaleRun(r)
    BY <1>2, <2>1, <2>2, NoteAndLoopWrites DEF OwnerInv
  <2>3. CASE isStaleRun(r)
    <3>1. RemindAt = {}
      BY <2>1 DEF NothingLeftOver
    <3>2. turn[r].calls \in Seq(Call)
      BY DEF OwnerInv, TypeInv, TypeOK
    <3>3. Reminder(r, turn[r].calls) = <<>>
      BY <1>3, <3>1, <3>2, ReminderType DEF OwnerInv, TypeInv, TypeOK
    <3>4. messages' = messages \o Reminder(r, turn[r].calls)
      BY <2>1, <2>3 DEF NoteAndLoop, MayGoOn
    <3>5. QED BY <1>3, <3>3, <3>4, ConcatEmptySeq
  <2>4. QED BY <2>2, <2>3
<1>8. CASE DrainNext(r)
  <2>1. pc[r] \in InFlight /\ steerQueue # <<>>
    BY <1>8 DEF DrainNext, InFlight, Parked
  <2>2. ~isStaleRun(r)
    BY <1>8
  <2>3. LoopTop(r, messages, <<>>, repeatSignature, repeatCount)
    BY <1>8, <2>2 DEF DrainNext
  <2>4. Wrote({r})
    <3>1. <<>> \in Seq(Msg) /\ <<>> \in Seq(Entry) /\ Len(<<>>) = 0
      BY EmptySeq
    <3>2. messages \o <<>> = messages
      BY <1>3, ConcatEmptySeq
    <3>3. LoopTop(r, messages \o <<>>, <<>>, repeatSignature, repeatCount)
      BY <2>3, <3>2
    <3>4. \A i \in 1..Len(<<>>) : <<>>[i].run = r
      BY <3>1
    <3>5. QED BY <3>1, <3>3, <3>4, LoopTopWrites DEF OwnerInv
  <2>5. QED BY <1>2, <2>1, <2>2, <2>4
<1>9. QED BY <1>1, <1>4, <1>5, <1>6, <1>7, <1>8 DEF RunStep

\* With nobody queueing meanwhile every step is.
LEMMA RunStepWrites ==
  ASSUME CleanInv, "fallback" \notin Env \/ RemindAt = {}, NEW r \in Runs, RunStep(r)
  PROVE  UNCHANGED messages \/ (Live(r) /\ r = runId /\ runningInner /\ Wrote({r}))
<1>1. ~ (DrainNext(r) /\ isStaleRun(r))
  <2>1. DrainNext(r) => pc[r] \in InFlight /\ steerQueue # <<>>
    BY DEF DrainNext, InFlight, Parked
  <2>2. QED
    BY <2>1, StaleIsLate DEF CleanInv, NothingForTheLate, Late, OwnerInv,
                             TypeInv, TypeOK
<1>2. QED BY <1>1, RunStepWritesOwn DEF CleanInv

\* Calls are left to executeTools only by a transport that leaves them.
LEMMA LeftOverCaller ==
  ASSUME TypeInv, NothingLeftOver, CallerStep
  PROVE  NothingLeftOver'
<1> USE DEF TypeInv, TypeOK
<1>1. ASSUME NEW first, StartRun(first)
      PROVE  NothingLeftOver'
  <2>1. /\ runId + 1 \in Runs
        /\ pc' = [pc EXCEPT ![runId + 1] = "beforeStep"]
        /\ turn' = [turn EXCEPT ![runId + 1] = NoTurn]
    BY <1>1, BoundsAssumption DEF StartRun, LoopTop, Runs
  <2>2. QED BY <2>1 DEF NothingLeftOver, NoTurn
<1>2. ASSUME UNCHANGED <<pc, turn>>
      PROVE  NothingLeftOver'
  BY <1>2 DEF NothingLeftOver
<1>3. CASE \E role \in PromptRoles : Prompt(role) \/ Steer(role)
  BY <1>1, <1>2, <1>3 DEF Prompt, Steer, Queue
<1>4. CASE Continue
  BY <1>1, <1>4 DEF Continue
<1>5. CASE AppendMessage \/ Abort \/ Close \/ \E n \in DOMAIN messages : Rewind(n)
  BY <1>2, <1>5 DEF AppendMessage, Abort, Close, Rewind
<1>6. QED BY <1>3, <1>4, <1>5 DEF CallerStep

LEMMA LeftOverRunStep ==
  ASSUME TypeInv, NothingLeftOver, NEW r \in Runs, RunStep(r)
  PROVE  NothingLeftOver'
<1> USE DEF TypeInv, TypeOK
<1> SUFFICES ASSUME "fallback" \notin Env
             PROVE  \A q \in Runs : /\ turn'[q].missing = {}
                                    /\ pc'[q] \notin {"tools", "toolsDone"}
  BY DEF NothingLeftOver
<1>1. \A q \in Runs : turn[q].missing = {} /\ pc[q] \notin {"tools", "toolsDone"}
  BY DEF NothingLeftOver
<1>2. ASSUME turn' = turn \/ turn' = [turn EXCEPT ![r] = NoTurn],
             NEW p, p \notin {"tools", "toolsDone"}, pc' = [pc EXCEPT ![r] = p]
      PROVE  \A q \in Runs : /\ turn'[q].missing = {}
                             /\ pc'[q] \notin {"tools", "toolsDone"}
  BY <1>1, <1>2 DEF NoTurn
<1>3. CASE TurnReturns(r) \/ TurnFails(r)
  <2>1. PICK cs, done : TurnLands(r, cs, done) /\ CallIds(cs) \ done = {}
    <3>1. CASE TurnReturns(r)
      BY <3>1 DEF TurnReturns
    <3>2. CASE TurnFails(r)
      <4>1. CallIds(<<>>) = {}
        BY DEF CallIds
      <4>2. QED BY <3>2, <4>1 DEF TurnFails
    <3>3. QED BY <1>3, <3>1, <3>2
  <2>2. /\ turn' = [turn EXCEPT ![r] = [calls |-> cs, missing |-> {}]]
        /\ pc' = [pc EXCEPT ![r] = "landed"]
    BY <2>1 DEF TurnLands, Park
  <2>3. QED BY <1>1, <2>2
<1>4. CASE TurnEnds(r)
  <2>1. NoteAndLoop(r)
    BY <1>1, <1>4 DEF TurnEnds
  <2>2. QED BY <1>2, <2>1 DEF NoteAndLoop, LoopTop, Park
<1>5. CASE ToolReturns(r) \/ ToolsDone(r)
  BY <1>1, <1>5 DEF ToolReturns, ToolsDone, Delivered
<1>6. CASE BeforeStepReturns(r) \/ TextTurnEnds(r) \/ TurnThrows(r) \/ RunEnds(r)
           \/ Settle(r)
  BY <1>2, <1>6 DEF BeforeStepReturns, TextTurnEnds, TurnThrows, RunEnds, Settle,
                    Finally, Park
<1>7. CASE DrainNext(r)
  <2>1. CASE isStaleRun(r)
    BY <1>1, <1>7, <2>1 DEF DrainNext
  <2>2. CASE ~isStaleRun(r)
    BY <1>2, <1>7, <2>2 DEF DrainNext, LoopTop
  <2>3. QED BY <2>1, <2>2
<1>8. QED BY <1>3, <1>4, <1>5, <1>6, <1>7 DEF RunStep

LEMMA LeftOverInvariance == Spec => []NothingLeftOver
<1>1. Init => NothingLeftOver
  BY DEF Init, NothingLeftOver, NoTurn
<1>2. ASSUME TypeInv, NothingLeftOver, [Next]_vars
      PROVE  NothingLeftOver'
  <2>1. CASE UNCHANGED vars
    BY <1>2, <2>1 DEF vars, NothingLeftOver
  <2>2. QED BY <1>2, <2>1, LeftOverCaller, LeftOverRunStep DEF Next
<1>3. TypeInv /\ NothingLeftOver /\ [Next]_vars => NothingLeftOver'
  BY <1>2
<1>4. QED BY <1>1, <1>3, TypeInvariance, PTL DEF Spec

LEMMA CleanCaller ==
  ASSUME CleanInv, "lateSteer" \notin Env, CallerStep
  PROVE  NothingForTheLate'
<1> USE DEF CleanInv, OwnerInv, TypeInv, TypeOK
<1>1. ASSUME NEW first, StartRun(first)
      PROVE  NothingForTheLate'
  <2>1. /\ steerQueue' = <<>> /\ runId + 1 \in Runs
        /\ pc' = [pc EXCEPT ![runId + 1] = "beforeStep"]
        /\ turn' = [turn EXCEPT ![runId + 1] = NoTurn]
    BY <1>1, BoundsAssumption DEF StartRun, LoopTop, Runs
  <2>2. QED BY <2>1 DEF NothingForTheLate
<1>2. ASSUME NEW msg, Queue(msg)
      PROVE  NothingForTheLate'
  <2>1. Late = {} /\ UNCHANGED <<abandoned, pc, turn>>
    BY <1>2 DEF Queue, MayQueue, control
  <2>2. Late' = {}
    BY <2>1 DEF Late
  <2>3. QED BY <2>1, <2>2 DEF NothingForTheLate
<1>3. CASE \E role \in PromptRoles : Prompt(role) \/ Steer(role)
  BY <1>1, <1>2, <1>3 DEF Prompt, Steer
<1>4. CASE Continue
  BY <1>1, <1>4 DEF Continue
<1>5. CASE Abort \/ Close
  <2>1. AbortBody /\ UNCHANGED <<pc, turn>>
    BY <1>5 DEF Abort, Close
  <2>2. steerQueue' = <<>> \/ UNCHANGED <<steerQueue, abandoned>>
    BY <2>1 DEF AbortBody
  <2>3. QED BY <2>1, <2>2 DEF NothingForTheLate, Late
<1>6. CASE AppendMessage
  BY <1>6 DEF AppendMessage, control, NothingForTheLate, Late
<1>7. CASE \E n \in DOMAIN messages : Rewind(n)
  BY <1>7 DEF Rewind, NothingForTheLate, NothingLeftOver
<1>8. QED BY <1>3, <1>4, <1>5, <1>6, <1>7 DEF CallerStep

LEMMA CleanRunStep ==
  ASSUME CleanInv, "lateSteer" \notin Env, NEW r \in Runs, RunStep(r)
  PROVE  NothingForTheLate'
<1> USE DEF CleanInv, OwnerInv, TypeInv, TypeOK
<1>1. Late' \subseteq Late
  <2>1. UNCHANGED abandoned
    BY RunStepMoves DEF control, Finally, Settle
  <2>2. \A q \in Runs : pc'[q] \in InFlight => pc[q] \in InFlight
    BY RunStepMoves DEF Finally, Settle, Park, InFlight, Parked
  <2>3. QED BY <2>1, <2>2 DEF Late
<1>2. NothingForTheLate'
  <2>1. CASE steerQueue' = steerQueue \/ steerQueue' = <<>>
    BY <1>1, <2>1 DEF NothingForTheLate
  <2>2. CASE MayQueue
    BY <1>1, <2>2 DEF NothingForTheLate, MayQueue
  <2>3. CASE DrainNext(r)
    <3>1. steerQueue # <<>> /\ pc[r] \in InFlight
      BY <2>3 DEF DrainNext, InFlight, Parked
    <3>2. ~isStaleRun(r)
      BY <3>1, StaleIsLate DEF NothingForTheLate, Late
    <3>3. steerQueue' = <<>>
      BY <2>3, <3>2 DEF DrainNext, LoopTop
    <3>4. QED BY <3>3 DEF NothingForTheLate
  <2>4. QED
    BY <2>1, <2>2, <2>3
       DEF RunStep, BeforeStepReturns, TurnReturns, TurnFails, TurnThrows,
           TurnEnds, TextTurnEnds, ToolReturns, ToolsDone, RunEnds, Settle,
           NoteAndLoop, LoopTop
<1>3. QED BY <1>2

LEMMA CleanInvariance ==
  ASSUME MaxLate <= 1, "lateSteer" \notin Env
  PROVE  Spec => []CleanInv
<1>1. Init => NothingForTheLate
  BY DEF Init, NothingForTheLate
<1>2. ASSUME CleanInv, [Next]_vars
      PROVE  NothingForTheLate'
  <2>1. CASE UNCHANGED vars
    BY <1>2, <2>1 DEF vars, control, CleanInv, NothingForTheLate, Late
  <2>2. QED BY <1>2, <2>1, CleanCaller, CleanRunStep DEF Next
<1>3. Spec => []OwnerInv
  BY OwnerInvariance
<1>4. OwnerInv /\ NothingForTheLate /\ NothingLeftOver <=> CleanInv
  BY DEF CleanInv
<1>5. CleanInv /\ [Next]_vars => NothingForTheLate'
  BY <1>2
<1>6. Spec => []NothingLeftOver
  BY LeftOverInvariance
<1>7. QED BY <1>1, <1>3, <1>4, <1>5, <1>6, PTL DEF Spec

\* What callers write: a new run its messages, a stop the results it owes, the
\* session a context snapshot; a rewind cuts.
LEMMA CallerStepWrites ==
  ASSUME TypeInv, CallerStep
  PROVE  \/ /\ ~runningInner /\ Wrote({runId + 1})
            /\ \E first \in Seq(Msg) : StartRun(first)
         \/ runningInner /\ isStreaming /\ AbortBody /\ Wrote({runId})
         \/ UNCHANGED <<runId, runningInner, waiting>> /\ Wrote({0})
         \/ /\ UNCHANGED <<runId, runningInner, waiting>> /\ ~runningInner
            /\ Len(messages') <= Len(messages)
            /\ \A i \in DOMAIN messages' : i \in DOMAIN messages
                                           /\ messages'[i] = messages[i]
<1>1. messages \in Seq(Entry) /\ DOMAIN messages = 1..Len(messages) /\ Len(messages) \in Nat
  BY LenProperties DEF TypeInv, TypeOK
<1>2. ASSUME UNCHANGED messages
      PROVE  Wrote({0})
  BY <1>1, <1>2 DEF Wrote
<1>3. ASSUME NEW first \in Seq(Msg), StartRun(first)
      PROVE  Wrote({runId + 1})
  <2>1. runId + 1 \in Runs
    BY <1>3, BoundsAssumption DEF StartRun, Runs, TypeInv, TypeOK
  <2>2. LoopTop(runId + 1, messages, first, repeatSignature, repeatCount)
    BY <1>3 DEF StartRun
  <2>3. <<>> \in Seq(Entry) /\ Len(<<>>) = 0
    BY EmptySeq
  <2>4. messages \o <<>> = messages
    BY <1>1, ConcatEmptySeq
  <2>5. LoopTop(runId + 1, messages \o <<>>, first, repeatSignature, repeatCount)
    BY <2>2, <2>4
  <2>6. \A i \in 1..Len(<<>>) : <<>>[i].run = runId + 1
    BY <2>3
  <2>7. QED BY <2>1, <2>3, <2>5, <2>6, LoopTopWrites
<1>4. CASE \E role \in PromptRoles : Prompt(role) \/ Steer(role)
  <2>1. PICK role \in PromptRoles : Prompt(role) \/ Steer(role)
    BY <1>4
  <2>2. Queue(NewMsg(role)) \/ (~runningInner /\ StartRun(<<NewMsg(role)>>))
    BY <2>1 DEF Prompt, Steer
  <2>3. <<NewMsg(role)>> \in Seq(Msg)
    BY NewMsgType
  <2>4. CASE Queue(NewMsg(role))
    BY <1>2, <2>4 DEF Queue, control
  <2>5. CASE ~runningInner /\ StartRun(<<NewMsg(role)>>)
    BY <1>3, <2>3, <2>5
  <2>6. QED BY <2>2, <2>4, <2>5
<1>5. CASE Continue
  <2>1. <<>> \in Seq(Msg)
    BY EmptySeq
  <2>2. QED BY <1>3, <1>5, <2>1 DEF Continue
<1>6. CASE AppendMessage
  <2> DEFINE ms == <<[id |-> 0, role |-> "context"]>>
  <2>1. ms \in Seq(Msg)
    <3>1. [id |-> 0, role |-> "context"] \in Msg
      BY DEF Msg, Roles
    <3>2. QED BY <3>1, OneElement
  <2>2. messages' = messages \o Written(0, ms)
    BY <1>6 DEF AppendMessage, Append_
  <2> HIDE DEF ms
  <2>3. 0 \in 0..MaxRuns
    BY BoundsAssumption
  <2>4. /\ Written(0, ms) \in Seq(Entry)
        /\ \A i \in 1..Len(Written(0, ms)) : Written(0, ms)[i].run \in {0}
    BY <2>1, <2>3, WrittenType
  <2>5. Wrote({0})
    BY <1>1, <2>2, <2>4, ExtendedBy
  <2>6. QED BY <1>6, <2>5 DEF AppendMessage, control
<1>7. CASE Abort \/ Close
  <2>1. AbortBody
    BY <1>7 DEF Abort, Close
  <2>2. CASE runningInner /\ isStreaming
    <3>1. messages' = messages \o Results(runId, Unhealed)
      BY <2>1, <2>2 DEF AbortBody
    <3>2. Unhealed \in SUBSET Nat /\ runId \in 0..MaxRuns
      BY UnhealedType DEF TypeInv, TypeOK
    <3>3. /\ Results(runId, Unhealed) \in Seq(Entry)
          /\ \A i \in 1..Len(Results(runId, Unhealed)) :
                Results(runId, Unhealed)[i].run \in {runId}
      BY <3>2, ResultsType
    <3>4. Wrote({runId})
      BY <1>1, <3>1, <3>3, ExtendedBy
    <3>5. QED BY <2>1, <2>2, <3>4
  <2>3. CASE ~(runningInner /\ isStreaming)
    BY <1>2, <2>1, <2>3 DEF AbortBody
  <2>4. QED BY <2>2, <2>3
<1>8. CASE \E n \in DOMAIN messages : Rewind(n)
  <2>1. PICK n \in 1..Len(messages) : Rewind(n)
    BY <1>1, <1>8
  <2>2. messages' = SubSeq(messages, 1, n - 1)
        /\ UNCHANGED <<runId, runningInner, waiting>> /\ ~runningInner
    BY <2>1 DEF Rewind
  <2>3. n \in Int /\ \A i \in 1..(n - 1) : messages[i] \in Entry
    BY <1>1, ElementOfSeq
  <2>4. /\ messages' \in Seq(Entry)
        /\ Len(messages') = n - 1
        /\ \A i \in 1..(n - 1) : messages'[i] = messages[i]
    BY <2>2, <2>3, SubSeqProperties
  <2>5. DOMAIN messages' = 1..(n - 1)
    BY <2>4, LenProperties
  <2>6. QED BY <1>1, <2>2, <2>4, <2>5
<1>9. QED BY <1>4, <1>5, <1>6, <1>7, <1>8 DEF CallerStep

\* "nothing it produces may enter the transcript" (agent.ts 104-107): with one
\* abandoned turn out at most, nobody queueing meanwhile, and tools run by the
\* transport (or no reminders), no step writes for a run that was stopped.
THEOREM StoppedRunsWriteNothing ==
  ASSUME MaxLate <= 1, "lateSteer" \notin Env, "fallback" \notin Env \/ RemindAt = {}
  PROVE  Spec => AbandonedRunsWriteNothing
<1> DEFINE Quiet == \A i \in DOMAIN messages' :
                       i > Len(messages) => messages'[i].run \notin abandoned
<1>1. ASSUME CleanInv, Next
      PROVE  Quiet
  <2>1. Len(messages) \in Nat /\ DOMAIN messages = 1..Len(messages)
    BY <1>1, LenProperties DEF CleanInv, OwnerInv, TypeInv, TypeOK
  <2>2. messages' \in Seq(Entry)
    BY <1>1, StepType DEF CleanInv, OwnerInv, TypeInv, TypeOK
  <2>3. DOMAIN messages' \subseteq Nat
    BY <2>2, LenProperties
  <2>4. ASSUME NEW who, Wrote(who), \A w \in who : w \notin abandoned
        PROVE  Quiet
    BY <2>1, <2>3, <2>4 DEF Wrote
  <2>5. CASE UNCHANGED messages
    BY <2>1, <2>5
  <2>6. abandoned \subseteq Runs /\ runId \in Nat /\ \A q \in abandoned : q <= runId
    BY <1>1 DEF CleanInv, OwnerInv, TypeInv, TypeOK, RunsAreOrdered
  <2>7. CASE CallerStep
    <3>1. runId + 1 \notin abandoned /\ 0 \notin abandoned
      BY <2>6 DEF Runs
    <3>2. runningInner => runId \notin abandoned
      BY <1>1 DEF CleanInv, OwnerInv, OneLiveRun, Live
    <3>3. CASE Wrote({runId + 1})
      BY <2>4, <3>1, <3>3
    <3>4. CASE runningInner /\ Wrote({runId})
      BY <2>4, <3>2, <3>4
    <3>5. CASE Wrote({0})
      BY <2>4, <3>1, <3>5
    <3>6. CASE \A i \in DOMAIN messages' : i \in DOMAIN messages
      BY <2>1, <3>6
    <3>7. QED
      BY <1>1, <2>7, <3>3, <3>4, <3>5, <3>6, CallerStepWrites DEF CleanInv, OwnerInv
  <2>8. ASSUME NEW r \in Runs, RunStep(r)
        PROVE  Quiet
    <3>1. UNCHANGED messages \/ (Live(r) /\ Wrote({r}))
      BY <1>1, <2>8, RunStepWrites
    <3>2. Live(r) => r \notin abandoned
      BY DEF Live
    <3>3. CASE Live(r) /\ Wrote({r})
      BY <2>4, <3>2, <3>3
    <3>4. QED BY <2>5, <3>1, <3>3
  <2>9. QED BY <1>1, <2>7, <2>8 DEF Next
<1>2. ASSUME CleanInv, [Next]_vars
      PROVE  [Quiet]_vars
  BY <1>1, <1>2
<1>3. CleanInv /\ [Next]_vars => [Quiet]_vars
  BY <1>2
<1>4. Spec => []CleanInv
  BY CleanInvariance
<1>5. QED BY <1>3, <1>4, PTL DEF Spec, AbandonedRunsWriteNothing

-----------------------------------------------------------------------------
(***************************************************************************)
(* The refinement of RunOwner.                                             *)
(***************************************************************************)
Authors(log) == [i \in DOMAIN log |-> log[i].run]

LEMMA AuthorsType ==
  ASSUME NEW log \in Seq(Entry)
  PROVE  /\ DOMAIN Authors(log) = DOMAIN log
         /\ DOMAIN log = 1..Len(log)
         /\ Len(Authors(log)) = Len(log) /\ Len(log) \in Nat
         /\ \A i \in DOMAIN log : Authors(log)[i] = log[i].run
<1> DEFINE S == 0..MaxRuns
<1>1. /\ DOMAIN log = 1..Len(log) /\ Len(log) \in Nat
      /\ \A i \in 1..Len(log) : log[i] \in Entry
  BY LenProperties, ElementOfSeq
<1>2. \A e \in Entry : e.run \in S
  BY DEF Entry
<1> HIDE DEF S
<1>3. Authors(log) \in [1..Len(log) -> S]
  BY <1>1, <1>2 DEF Authors
<1>4. Authors(log) \in Seq(S)
  BY <1>1, <1>3, SeqDef
<1>5. Len(Authors(log)) = Len(log)
  BY <1>1, <1>3, <1>4, LenProperties
<1>6. QED BY <1>1, <1>3, <1>5 DEF Authors

\* What is written in the transcript is logged under its author.
LEMMA WroteGrows ==
  ASSUME messages \in Seq(Entry), messages' \in Seq(Entry)
  PROVE  \A who : Wrote(who) => Owner!Grows(who)
<1> SUFFICES ASSUME NEW who, Wrote(who)
              PROVE  Owner!Grows(who)
  OBVIOUS
<1>1. /\ DOMAIN Authors(messages) = DOMAIN messages
      /\ DOMAIN messages = 1..Len(messages)
      /\ Len(Authors(messages)) = Len(messages) /\ Len(messages) \in Nat
      /\ \A i \in DOMAIN messages : Authors(messages)[i] = messages[i].run
  BY AuthorsType
<1>2. /\ DOMAIN Authors(messages') = DOMAIN messages'
      /\ DOMAIN messages' = 1..Len(messages')
      /\ Len(Authors(messages')) = Len(messages') /\ Len(messages') \in Nat
      /\ \A i \in DOMAIN messages' : Authors(messages')[i] = messages'[i].run
  BY AuthorsType
<1>3. Len(Authors(messages)) <= Len(Authors(messages'))
  BY <1>1, <1>2 DEF Wrote
<1>4. ASSUME NEW i \in DOMAIN Authors(messages')
      PROVE  IF i <= Len(Authors(messages))
             THEN Authors(messages')[i] = Authors(messages)[i]
             ELSE Authors(messages')[i] \in who
  BY <1>1, <1>2, <1>4 DEF Wrote
<1>5. QED BY <1>3, <1>4 DEF Owner!Grows, Authors

\* A step of the runtime is a step of RunOwner, or one it does not see.
LEMMA CallerRefines ==
  ASSUME CleanInv, TypeInv', CallerStep
  PROVE  [Owner!Next]_(Owner!vars)
<1>1. messages \in Seq(Entry) /\ messages' \in Seq(Entry)
  BY DEF CleanInv, OwnerInv, TypeInv, TypeOK
<1>0. \A who : Wrote(who) => Owner!Grows(who)
  BY <1>1, WroteGrows
<1>2. runId \in Nat /\ (runningInner => runId \in Runs) /\ resolveRun \in Nat
  BY DEF CleanInv, OwnerInv, TypeInv, TypeOK, ARunIsNumbered, Runs
<1>3. CASE /\ ~runningInner /\ Wrote({runId + 1})
           /\ \E first \in Seq(Msg) : StartRun(first)
  <2>1. /\ runId < MaxRuns /\ runId' = runId + 1 /\ runningInner' = TRUE
        /\ waiting' = waiting \cup {runId + 1}
    BY <1>3 DEF StartRun
  <2>2. Owner!Grows({runId + 1})
    BY <1>0, <1>3 DEF Wrote, Owner!Grows
  <2>3. Owner!Start
    BY <1>2, <1>3, <2>1, <2>2 DEF Owner!Start, Owner!Grows
  <2>4. QED BY <2>3 DEF Owner!Next
<1>4. CASE runningInner /\ isStreaming /\ AbortBody /\ Wrote({runId})
  <2>1. resolveRun = runId /\ runId # 0
    BY <1>2, <1>4 DEF CleanInv, OwnerInv, RunsAreOrdered, Runs
  <2>2. runId' = runId /\ runningInner' = FALSE /\ waiting' = waiting \ {runId}
    BY <1>4, <2>1 DEF AbortBody, SettleRun
  <2>3. Owner!Grows({runId})
    BY <1>0, <1>4 DEF Wrote, Owner!Grows
  <2>4. Owner!Stop
    BY <1>4, <2>1, <2>2, <2>3 DEF Owner!Stop, Owner!Grows
  <2>5. QED BY <2>4 DEF Owner!Next
<1>5. CASE UNCHANGED <<runId, runningInner, waiting>> /\ Wrote({0})
  <2>1. CASE ~runningInner
    <3>1. Owner!Grows({0})
      BY <1>0, <1>5 DEF Wrote, Owner!Grows
    <3>2. Owner!Publish
      BY <1>5, <2>1, <3>1 DEF Owner!Publish
    <3>3. QED BY <3>2 DEF Owner!Next
  <2>2. CASE runningInner
    <3>1. runId # 0
      BY <1>2, <2>2 DEF Runs
    <3>2. Wrote({runId, 0})
      BY <1>5 DEF Wrote
    <3>3. Owner!Grows({runId, 0})
      BY <1>0, <3>2 DEF Wrote, Owner!Grows
    <3>4. Owner!Write
      BY <1>5, <2>2, <3>1, <3>3 DEF Owner!Write, Owner!Grows
    <3>5. QED BY <3>4 DEF Owner!Next
  <2>3. QED BY <2>1, <2>2
<1>6. CASE /\ UNCHANGED <<runId, runningInner, waiting>> /\ ~runningInner
           /\ Len(messages') <= Len(messages)
           /\ \A i \in DOMAIN messages' : i \in DOMAIN messages
                                          /\ messages'[i] = messages[i]
  <2>1. /\ Len(Authors(messages)) = Len(messages)
        /\ \A i \in DOMAIN messages : Authors(messages)[i] = messages[i].run
    BY <1>1, AuthorsType
  <2>2. /\ Len(Authors(messages')) = Len(messages')
        /\ DOMAIN Authors(messages') = DOMAIN messages'
        /\ \A i \in DOMAIN messages' : Authors(messages')[i] = messages'[i].run
    BY <1>1, AuthorsType
  <2>3. /\ Len(Authors(messages')) <= Len(Authors(messages))
        /\ \A i \in DOMAIN Authors(messages') :
              Authors(messages')[i] = Authors(messages)[i]
    BY <1>6, <2>1, <2>2
  <2>4. Owner!Cut
    BY <1>6, <2>3 DEF Owner!Cut, Authors
  <2>5. QED BY <2>4 DEF Owner!Next
<1>7. QED BY <1>3, <1>4, <1>5, <1>6, CallerStepWrites DEF CleanInv, OwnerInv

LEMMA RunRefines ==
  ASSUME CleanInv, TypeInv', "fallback" \notin Env \/ RemindAt = {},
         NEW r \in Runs, RunStep(r)
  PROVE  [Owner!Next]_(Owner!vars)
<1>1. messages \in Seq(Entry) /\ messages' \in Seq(Entry)
  BY DEF CleanInv, OwnerInv, TypeInv, TypeOK
<1>0. \A who : Wrote(who) => Owner!Grows(who)
  BY <1>1, WroteGrows
<1>2. CASE UNCHANGED <<runId, runningInner, waiting>>
  <2>1. CASE UNCHANGED messages
    BY <1>2, <2>1 DEF Owner!vars
  <2>2. CASE r = runId /\ runningInner /\ Wrote({r})
    <3>1. runId # 0
      BY <2>2 DEF Runs
    <3>2. Wrote({runId, 0})
      BY <2>2 DEF Wrote
    <3>3. Owner!Grows({runId, 0})
      BY <1>0, <3>2 DEF Wrote, Owner!Grows
    <3>4. Owner!Write
      BY <1>2, <2>2, <3>1, <3>3 DEF Owner!Write, Owner!Grows
    <3>5. QED BY <3>4 DEF Owner!Next
  <2>3. QED BY <2>1, <2>2, RunStepWrites
<1>3. CASE pc[r] \in InFlight /\ Finally(r) /\ UNCHANGED messages
  <2>1. UNCHANGED <<runId, waiting>>
    BY <1>3 DEF Finally
  <2>2. CASE isStaleRun(r)
    BY <1>2, <1>3, <2>1, <2>2 DEF Finally
  <2>3. CASE ~isStaleRun(r)
    <3>1. runningInner /\ r = runId /\ runId # 0
      BY <1>3, <2>3, StaleIsLate DEF CleanInv, Runs
    <3>2. runningInner' = FALSE
      BY <2>3, <1>3 DEF Finally
    <3>3. UNCHANGED messages
      BY <1>3
    <3>4. Owner!Finish
      BY <2>1, <3>1, <3>2, <3>3 DEF Owner!Finish
    <3>5. QED BY <3>4 DEF Owner!Next
  <2>4. QED BY <2>2, <2>3
<1>4. CASE Settle(r)
  <2>1. /\ UNCHANGED <<runId, runningInner, messages>> /\ pc[r] = "ended"
        /\ waiting' = waiting \/ waiting' = waiting \ {r}
    BY <1>4 DEF Settle, SettleRun
  <2>2. CASE waiting' = waiting
    BY <2>1, <2>2 DEF Owner!vars
  <2>3. CASE waiting' = waiting \ {r} /\ r \in waiting
    <3>1. runningInner => r # runId
      BY <2>1 DEF CleanInv, OwnerInv, OneLiveRun, Live, InFlight
    <3>2. r # 0 /\ r \in 1..MaxRuns
      BY DEF Runs
    <3>3. Owner!Release(r)
      BY <2>1, <2>3, <3>1, <3>2 DEF Owner!Release
    <3>4. QED BY <3>2, <3>3 DEF Owner!Next
  <2>4. QED BY <2>1, <2>2, <2>3
<1>5. QED BY <1>2, <1>3, <1>4, RunStepMoves DEF CleanInv, control

\* The runtime implements RunOwner under the conditions of the theorem above:
\* one owner at a time, nobody else's entries, callers released when the owner
\* is gone.
THEOREM RuntimeImplementsRunOwner ==
  ASSUME MaxLate <= 1, "lateSteer" \notin Env, "fallback" \notin Env \/ RemindAt = {}
  PROVE  Spec => ImplementsRunOwner
<1>1. Init => Owner!Init
  BY DEF Init, Owner!Init
<1>2. ASSUME CleanInv, TypeInv', [Next]_vars
      PROVE  [Owner!Next]_(Owner!vars)
  <2>1. CASE UNCHANGED vars
    BY <2>1 DEF vars, control, Owner!vars
  <2>2. QED BY <1>2, <2>1, CallerRefines, RunRefines DEF Next
<1>3. CleanInv /\ TypeInv' /\ [Next]_vars => [Owner!Next]_(Owner!vars)
  BY <1>2
<1>4. Spec => []CleanInv /\ []TypeInv
  BY CleanInvariance, TypeInvariance
<1>5. QED BY <1>1, <1>3, <1>4, PTL DEF Spec, ImplementsRunOwner, Owner!Spec

(***************************************************************************)
(* Nothing queued is lost.  A request is sent with everything the          *)
(* transcript holds, and a run that is past its request takes what was     *)
(* queued meanwhile before it may end.                                     *)
(***************************************************************************)
PastTheRequest == {"turn", "landed", "tools", "toolsDone", "returned"}
SentIsRead ==
    \A r \in Runs : Live(r) /\ pc[r] \in PastTheRequest => unseen = {}
ClosedStands == closed => ~runningInner

QuietInv ==
    CleanInv /\ AbortEndsTheRun /\ ClosedStands /\ SentIsRead /\ NothingQueuedIsLost

\* What a step must leave behind, given that the flags stay true to the runs.
QuietRest == ClosedStands /\ SentIsRead /\ NothingQueuedIsLost

\* A run at the top of its loop has everything still to send.
LEMMA TopIsQuiet ==
  ASSUME OwnerInv', ClosedStands', NEW r \in Runs, runningInner',
         runId' = r, pc'[r] = "beforeStep"
  PROVE  QuietRest'
<1>1. SentIsRead'
  BY DEF OwnerInv, OneLiveRun, SentIsRead, PastTheRequest
<1>2. NothingQueuedIsLost'
  BY DEF NothingQueuedIsLost, NoPromptUnread, NoStrandedSteer
<1>3. QED BY <1>1, <1>2 DEF QuietRest

LEMMA QuietCaller ==
  ASSUME QuietInv, OwnerInv', CallerStep
  PROVE  QuietRest'
<1> USE DEF QuietInv, QuietRest
<1>0. TypeInv /\ OneLiveRun /\ TypeInv' /\ OneLiveRun'
  BY DEF CleanInv, OwnerInv
<1>1. ASSUME NEW first, StartRun(first), ~closed
      PROVE  QuietRest'
  <2>1. /\ runId' = runId + 1 /\ runningInner' = TRUE /\ closed' = closed
        /\ pc' = [pc EXCEPT ![runId + 1] = "beforeStep"]
    BY <1>1 DEF StartRun, LoopTop
  <2>2. runId + 1 \in Runs
    BY <1>0, <1>1, BoundsAssumption DEF StartRun, Runs, TypeInv, TypeOK
  <2>3. pc'[runId + 1] = "beforeStep"
    BY <1>0, <2>1, <2>2 DEF TypeInv, TypeOK
  <2>4. ClosedStands'
    BY <1>1, <2>1 DEF ClosedStands
  <2>5. QED BY <2>1, <2>2, <2>3, <2>4, TopIsQuiet
<1>2. ASSUME UNCHANGED <<pc, unseen, abandoned, runningInner>>, closed' => closed,
             steerQueue' = steerQueue \/ steerQueue' = <<>> \/ runningInner
      PROVE  QuietRest'
  BY <1>2 DEF ClosedStands, SentIsRead, Live, NothingQueuedIsLost, NoPromptUnread,
              NoStrandedSteer
<1>3. ASSUME NEW role \in PromptRoles, Prompt(role) \/ Steer(role)
      PROVE  QuietRest'
  <2>1. CASE runningInner /\ Queue(NewMsg(role))
    BY <1>2, <2>1 DEF Queue, control
  <2>2. CASE ~closed /\ StartRun(<<NewMsg(role)>>)
    BY <1>1, <2>2
  <2>3. QED BY <1>3, <2>1, <2>2 DEF Prompt, Steer
<1>4. CASE Continue
  BY <1>1, <1>4 DEF Continue
<1>5. CASE AppendMessage
  <2> DEFINE ms == <<[id |-> 0, role |-> "context"]>>
  <2>1. Prompts(ms) = {}
    BY DEF Prompts
  <2>2. unseen' = unseen \cup Prompts(ms) /\ UNCHANGED <<control, steerQueue, pc>>
    BY <1>5 DEF AppendMessage, Append_
  <2> HIDE DEF ms
  <2>3. unseen' = unseen
    BY <2>1, <2>2
  <2>4. QED BY <1>2, <2>2, <2>3 DEF control
<1>6. CASE Abort \/ Close
  <2>1. AbortBody /\ UNCHANGED pc /\ (closed' => closed \/ Close)
    BY <1>6 DEF Abort, Close
  <2>2. CASE runningInner /\ isStreaming
    <3>1. runningInner' = FALSE /\ steerQueue' = <<>> /\ unseen' = {}
      BY <2>1, <2>2 DEF AbortBody
    <3>2. QED
      BY <3>1 DEF ClosedStands, SentIsRead, NothingQueuedIsLost, NoPromptUnread,
                  NoStrandedSteer
  <2>3. CASE ~(runningInner /\ isStreaming)
    <3>1. UNCHANGED <<runningInner, abandoned, steerQueue, unseen>>
      BY <2>1, <2>3 DEF AbortBody
    <3>2. ~runningInner
      BY <1>0, <2>3 DEF OneLiveRun
    <3>3. QED
      BY <2>1, <3>1, <3>2 DEF ClosedStands, SentIsRead, Live, NothingQueuedIsLost,
                              NoPromptUnread, NoStrandedSteer
  <2>4. QED BY <2>2, <2>3
<1>7. CASE \E n \in DOMAIN messages : Rewind(n)
  BY <1>2, <1>7 DEF Rewind
<1>8. QED BY <1>3, <1>4, <1>5, <1>6, <1>7 DEF CallerStep

\* What a live run may do with its flags: they are those of a run nobody stops.
LEMMA LiveGoesOn ==
  ASSUME QuietInv, NEW r \in Runs, pc[r] \in InFlight
  PROVE  /\ ~isStaleRun(r) => /\ Live(r) /\ runningInner /\ r = runId
                              /\ ~abortRequested /\ ~closed
         /\ ~MayGoOn(r) => r \in abandoned
<1>1. ~isStaleRun(r) => Live(r) /\ runningInner /\ r = runId
  BY StaleIsLate DEF QuietInv, CleanInv
<1>2. isStaleRun(r) => r \in abandoned
  BY StaleIsLate DEF QuietInv, CleanInv
<1>3. QED
  BY <1>1, <1>2 DEF QuietInv, AbortEndsTheRun, ClosedStands, MayGoOn

LEMMA QuietRunStep ==
  ASSUME QuietInv, OwnerInv', "throw" \notin Env, NEW r \in Runs, RunStep(r)
  PROVE  QuietRest'
<1> USE DEF QuietInv, QuietRest
<1>0. pc \in [Runs -> Parked] /\ OneLiveRun
  BY DEF CleanInv, OwnerInv, TypeInv, TypeOK
\* A step inside a run, past its request or by a run that was stopped.
<1>1. ASSUME NEW p \in Parked, pc' = [pc EXCEPT ![r] = p] \/ pc' = pc,
             pc[r] \in PastTheRequest \/ p = "done" \/ r \in abandoned,
             UNCHANGED <<unseen, abandoned, runningInner, closed>>,
             steerQueue' = steerQueue \/ steerQueue' = <<>> \/ runningInner
      PROVE  QuietRest'
  <2>1. ASSUME NEW q \in Runs, Live(q)', pc'[q] \in PastTheRequest
        PROVE  unseen' = {}
    <3>1. CASE q # r \/ pc' = pc
      <4>1. pc'[q] = pc[q]
        BY <1>0, <1>1, <3>1
      <4>2. QED BY <1>1, <2>1, <4>1 DEF SentIsRead, Live
    <3>2. CASE q = r /\ pc' = [pc EXCEPT ![r] = p]
      <4>1. pc'[q] = p /\ q \notin abandoned
        BY <1>0, <1>1, <2>1, <3>2 DEF Live
      <4>2. pc[q] \in PastTheRequest
        BY <1>1, <2>1, <3>2, <4>1 DEF PastTheRequest
      <4>3. QED
        BY <1>1, <4>1, <4>2 DEF SentIsRead, Live, PastTheRequest, InFlight, Parked
    <3>3. QED BY <1>1, <3>1, <3>2
  <2>2. SentIsRead'
    BY <2>1 DEF SentIsRead
  <2>3. QED
    BY <1>1, <2>2 DEF ClosedStands, NothingQueuedIsLost, NoPromptUnread,
                      NoStrandedSteer
\* A live run goes back to the top of its loop.
<1>2. ASSUME pc[r] \in InFlight, ~isStaleRun(r), UNCHANGED control,
             pc' = [pc EXCEPT ![r] = "beforeStep"]
      PROVE  QuietRest'
  <2>1. runningInner /\ r = runId
    BY <1>2, LiveGoesOn
  <2>2. runningInner' /\ runId' = r /\ ClosedStands' /\ pc'[r] = "beforeStep"
    BY <1>0, <1>2, <2>1 DEF control, ClosedStands
  <2>3. QED BY <2>2, TopIsQuiet
<1>3. CASE BeforeStepReturns(r)
  <2>1. pc[r] = "beforeStep" /\ pc[r] \in InFlight /\ UNCHANGED control
        /\ UNCHANGED steerQueue
    BY <1>3 DEF BeforeStepReturns, Delivered, InFlight, Parked
  <2>2. CASE MayGoOn(r)
    <3>1. unseen' = {}
      BY <1>3, <2>2 DEF BeforeStepReturns
    <3>2. QED
      BY <2>1, <3>1 DEF control, SentIsRead, ClosedStands, NothingQueuedIsLost,
                        NoPromptUnread, NoStrandedSteer
  <2>3. CASE ~MayGoOn(r)
    <3>1. r \in abandoned
      BY <2>1, <2>3, LiveGoesOn
    <3>2. pc' = [pc EXCEPT ![r] = "returned"] /\ unseen' = unseen
      BY <1>3, <2>3 DEF BeforeStepReturns, Park
    <3>3. QED BY <1>1, <2>1, <3>1, <3>2 DEF control, Parked
  <2>4. QED BY <2>2, <2>3
<1>4. CASE TurnReturns(r) \/ TurnFails(r)
  <2>1. /\ pc[r] = "turn" /\ pc' = [pc EXCEPT ![r] = "landed"]
        /\ UNCHANGED <<control, steerQueue, unseen>>
    BY <1>4 DEF TurnReturns, TurnFails, TurnLands, Delivered, Park
  <2>2. QED BY <1>1, <2>1 DEF PastTheRequest, Parked, control
<1>5. CASE TurnThrows(r)
  BY <1>5 DEF TurnThrows
<1>6. ASSUME NoteAndLoop(r), pc[r] \in PastTheRequest, UNCHANGED control
      PROVE  QuietRest'
  <2>1. pc[r] \in InFlight
    BY <1>6 DEF PastTheRequest, InFlight, Parked
  <2>2. CASE MayGoOn(r)
    <3>1. pc' = [pc EXCEPT ![r] = "beforeStep"] /\ ~isStaleRun(r)
      BY <1>6, <2>2 DEF NoteAndLoop, LoopTop, MayGoOn
    <3>2. QED BY <1>2, <1>6, <2>1, <3>1
  <2>3. CASE ~MayGoOn(r)
    <3>1. pc' = [pc EXCEPT ![r] = "returned"] /\ UNCHANGED <<steerQueue, unseen>>
      BY <1>6, <2>3 DEF NoteAndLoop, Park
    <3>2. QED BY <1>1, <1>6, <3>1 DEF control, Parked
  <2>4. QED BY <2>2, <2>3
<1>7. CASE TurnEnds(r)
  <2>1. pc[r] = "landed" /\ UNCHANGED control
    BY <1>7 DEF TurnEnds
  <2>2. CASE turn[r].missing # {}
    <3>1. pc' = [pc EXCEPT ![r] = "tools"] /\ UNCHANGED <<steerQueue, unseen>>
      BY <1>7, <2>2 DEF TurnEnds, Park
    <3>2. QED BY <1>1, <2>1, <3>1 DEF PastTheRequest, Parked, control
  <2>3. CASE ~(turn[r].missing # {})
    BY <1>6, <1>7, <2>1, <2>3 DEF TurnEnds, PastTheRequest
  <2>4. QED BY <2>2, <2>3
<1>8. CASE TextTurnEnds(r)
  <2>1. /\ pc[r] = "landed" /\ pc' = [pc EXCEPT ![r] = "returned"]
        /\ UNCHANGED <<control, unseen>>
        /\ steerQueue' = steerQueue \/ MayGoOn(r)
    BY <1>8 DEF TextTurnEnds, Park
  <2>2. MayGoOn(r) => runningInner
    BY <2>1, LiveGoesOn DEF MayGoOn, InFlight, Parked
  <2>3. QED BY <1>1, <2>1, <2>2 DEF PastTheRequest, Parked, control
<1>9. CASE ToolReturns(r)
  <2>1. /\ pc[r] = "tools" /\ UNCHANGED <<control, steerQueue, unseen>>
        /\ pc' = [pc EXCEPT ![r] = "toolsDone"] \/ pc' = pc
    BY <1>9 DEF ToolReturns, Delivered, Park
  <2>2. QED BY <1>1, <2>1 DEF PastTheRequest, Parked, control
<1>10. CASE ToolsDone(r)
  BY <1>6, <1>10 DEF ToolsDone, PastTheRequest
<1>11. CASE DrainNext(r)
  <2>1. pc[r] \in InFlight /\ steerQueue # <<>> /\ UNCHANGED control
    BY <1>11 DEF DrainNext, InFlight, Parked
  <2>2. ~isStaleRun(r)
    BY <2>1, StaleIsLate DEF CleanInv, NothingForTheLate, Late, OwnerInv, TypeInv,
                             TypeOK
  <2>3. pc' = [pc EXCEPT ![r] = "beforeStep"]
    BY <1>11, <2>2 DEF DrainNext, LoopTop
  <2>4. QED BY <1>2, <2>1, <2>2, <2>3
<1>12. CASE RunEnds(r)
  <2>1. /\ pc[r] = "returned" /\ pc[r] \in InFlight /\ MayEnd
        /\ pc' = [pc EXCEPT ![r] = "ended"]
        /\ UNCHANGED <<steerQueue, unseen, closed, abandoned>>
    BY <1>12 DEF RunEnds, Finally, Park, InFlight, Parked
  <2>2. CASE isStaleRun(r)
    <3>1. UNCHANGED runningInner
      BY <1>12, <2>2 DEF RunEnds, Finally
    <3>2. QED BY <1>1, <2>1, <3>1 DEF PastTheRequest, Parked
  <2>3. CASE ~isStaleRun(r)
    <3>1. Live(r) /\ ~abortRequested /\ ~closed
      BY <2>1, <2>3, LiveGoesOn
    <3>2. steerQueue = <<>> /\ unseen = {}
      BY <2>1, <3>1 DEF MayEnd, SentIsRead, PastTheRequest
    <3>3. runningInner' = FALSE
      BY <1>12, <2>3 DEF RunEnds, Finally
    <3>4. QED
      BY <2>1, <3>2, <3>3 DEF ClosedStands, SentIsRead, NothingQueuedIsLost,
                              NoPromptUnread, NoStrandedSteer
  <2>4. QED BY <2>2, <2>3
<1>13. CASE Settle(r)
  <2>1. /\ pc' = [pc EXCEPT ![r] = "done"]
        /\ UNCHANGED <<runningInner, closed, abandoned, steerQueue, unseen>>
    BY <1>13 DEF Settle, Park
  <2>2. QED BY <1>1, <2>1 DEF Parked
<1>14. QED
  BY <1>3, <1>4, <1>5, <1>7, <1>8, <1>9, <1>10, <1>11, <1>12, <1>13 DEF RunStep

\* "becomes the next turn" (agent.ts 504-509): with one abandoned turn out at
\* most, nobody queueing while it is, and a stream that fails without throwing, a
\* run ends only when all it was told is in a request, and a stop drops the rest.
THEOREM NothingSaidIsLost ==
  ASSUME MaxLate <= 1, "lateSteer" \notin Env, "throw" \notin Env
  PROVE  Spec => []NothingQueuedIsLost
<1>1. Init => QuietRest
  BY DEF Init, QuietRest, ClosedStands, SentIsRead, Live, InFlight,
         NothingQueuedIsLost, NoPromptUnread, NoStrandedSteer
<1>2. ASSUME CleanInv, CleanInv', AbortEndsTheRun, QuietRest, [Next]_vars
      PROVE  QuietRest'
  <2>1. QuietInv /\ OwnerInv'
    BY <1>2 DEF QuietInv, QuietRest, CleanInv
  <2>2. CASE UNCHANGED vars
    BY <1>2, <2>2 DEF vars, control, QuietRest, ClosedStands, SentIsRead, Live,
                      NothingQueuedIsLost, NoPromptUnread, NoStrandedSteer
  <2>3. QED BY <1>2, <2>1, <2>2, QuietCaller, QuietRunStep DEF Next
<1>3. Spec => []CleanInv
  BY CleanInvariance
<1>4. Spec => []AbortEndsTheRun
  BY AbortEnds
<1>5. CleanInv /\ CleanInv' /\ AbortEndsTheRun /\ QuietRest /\ [Next]_vars
        => QuietRest'
  BY <1>2
<1>6. QuietRest => NothingQueuedIsLost
  BY DEF QuietRest
<1>7. QED BY <1>1, <1>3, <1>4, <1>5, <1>6, PTL DEF Spec

-----------------------------------------------------------------------------
(***************************************************************************)
(* Tool calls and their results.  The calls a run still owes a result are  *)
(* those executeTools has not come to; they belong to the assistant        *)
(* message at the end of the transcript, and every other call is answered  *)
(* behind its message by an entry no message separates from it.            *)
(***************************************************************************)
Owing == {"landed", "tools"}
OwedBy(p, t, stopped) ==
    UNION {t[q].missing : q \in {q \in Runs : p[q] \in Owing /\ q \notin stopped}}
Owed == OwedBy(pc, turn, abandoned)

IsCall(log, i)   == log[i].kind = "assistant"
IsResult(log, i) == log[i].kind = "toolResult"

\* Ids are given out once: n is the newest, and no two batches share one.
IdsAreCounted(log, n) ==
    \A i \in DOMAIN log :
        /\ IsCall(log, i) => CallIds(log[i].calls) \subseteq 1..n
        /\ IsResult(log, i) => log[i].answers \subseteq 1..n /\ log[i].answers # {}
BatchesAreApart(log) ==
    \A i, j \in DOMAIN log :
        IsCall(log, i) /\ IsCall(log, j) /\ i # j =>
            CallIds(log[i].calls) \cap CallIds(log[j].calls) = {}
AnsweredOnce(log) ==
    \A i, j \in DOMAIN log :
        IsResult(log, i) /\ IsResult(log, j) /\ i # j =>
            log[i].answers \cap log[j].answers = {}

\* An answer comes after its call, with nothing but answers in between.
AnswersAreNear(log) ==
    \A i, j \in DOMAIN log :
        IsCall(log, i) /\ IsResult(log, j)
        /\ log[j].answers \cap CallIds(log[i].calls) # {} =>
            i < j /\ \A k \in (i+1)..j : IsResult(log, k)

\* Answers stand right behind the message whose calls they answer, or behind an
\* error that took its place.
TurnOf(log, i, j) ==
    /\ i < j /\ IsCall(log, i)
    /\ \A k \in (i+1)..j : IsResult(log, k)
AnswersHaveTurns(log) ==
    \A j \in DOMAIN log : IsResult(log, j) =>
        \E i \in DOMAIN log :
            /\ TurnOf(log, i, j)
            /\ log[j].answers \subseteq CallIds(log[i].calls) \/ log[i].calls = <<>>

\* Every call is answered or owed; what is owed belongs to the last batch.
AllAreAnswered(log, owed) ==
    \A i \in DOMAIN log : IsCall(log, i) =>
        \A c \in CallIds(log[i].calls) :
            c \in owed \/ \E j \in DOMAIN log : IsResult(log, j) /\ c \in log[j].answers
OwedComeLast(log, owed) ==
    /\ owed # {} =>
         \E i \in DOMAIN log :
            /\ IsCall(log, i) /\ owed \subseteq CallIds(log[i].calls)
            /\ \A k \in DOMAIN log : k > i => IsResult(log, k)
    /\ \A j \in DOMAIN log : IsResult(log, j) => log[j].answers \cap owed = {}

Sound(log, n, owed) ==
    /\ IdsAreCounted(log, n)
    /\ BatchesAreApart(log)
    /\ AnsweredOnce(log)
    /\ AnswersAreNear(log)
    /\ AnswersHaveTurns(log)
    /\ AllAreAnswered(log, owed)
    /\ OwedComeLast(log, owed)

MissingAreCalls == \A r \in Runs : turn[r].calls = <<>> => turn[r].missing = {}

AnswersInv == Sound(messages, calls, Owed) /\ MissingAreCalls

\* The transcript new is log and one entry more.
OneMore(log, new, e) ==
    /\ Len(new) = Len(log) + 1
    /\ \A i \in 1..Len(log) : new[i] = log[i]
    /\ new[Len(log) + 1] = e

LEMMA OneMoreIs ==
  ASSUME NEW log \in Seq(Entry), NEW e \in Entry
  PROVE  log \o <<e>> \in Seq(Entry) /\ OneMore(log, log \o <<e>>, e)
<1>1. <<e>> \in Seq(Entry) /\ Len(<<e>>) = 1 /\ <<e>>[1] = e /\ Len(log) \in Nat
  BY OneElement, LenProperties
<1>2. /\ log \o <<e>> \in Seq(Entry)
      /\ Len(log \o <<e>>) = Len(log) + 1
      /\ \A i \in 1..(Len(log) + 1) :
            (log \o <<e>>)[i] = IF i <= Len(log) THEN log[i] ELSE <<e>>[i - Len(log)]
  BY <1>1, ConcatProperties
<1>3. QED BY <1>1, <1>2 DEF OneMore

\* An assistant message is recorded: all its calls are owed.
LEMMA BatchIsSound ==
  ASSUME NEW log \in Seq(Entry), NEW new \in Seq(Entry), NEW n \in Nat,
         NEW m \in Nat, n <= m, NEW a, OneMore(log, new, a),
         a.kind = "assistant", CallIds(a.calls) \subseteq (n+1)..m,
         Sound(log, n, {})
  PROVE  Sound(new, m, CallIds(a.calls))
<1> DEFINE L == Len(log)
           owed == CallIds(a.calls)
<1>1. /\ L \in Nat /\ DOMAIN log = 1..L /\ DOMAIN new = 1..(L+1)
      /\ new[L+1] = a /\ IsCall(new, L+1) /\ ~IsResult(new, L+1)
      /\ \A i \in 1..L : /\ new[i] = log[i]
                         /\ IsCall(new, i) <=> IsCall(log, i)
                         /\ IsResult(new, i) <=> IsResult(log, i)
  BY LenProperties DEF OneMore, IsCall, IsResult
<1>2. \A i \in 1..(L+1) : i \in 1..L \/ i = L + 1
  BY <1>1
<1>3. \A i \in 1..L : /\ IsCall(log, i) => CallIds(log[i].calls) \subseteq 1..n
                      /\ IsResult(log, i) => log[i].answers \subseteq 1..n
                                             /\ log[i].answers # {}
  BY <1>1 DEF Sound, IdsAreCounted
<1>4. 1..n \subseteq 1..m /\ owed \subseteq 1..m /\ owed \cap (1..n) = {}
  OBVIOUS
<1>5. IdsAreCounted(new, m)
  <2>1. ASSUME NEW i \in 1..L
        PROVE  /\ IsCall(new, i) => CallIds(new[i].calls) \subseteq 1..m
               /\ IsResult(new, i) => new[i].answers \subseteq 1..m
                                      /\ new[i].answers # {}
    BY <1>1, <1>3, <1>4
  <2>2. CallIds(new[L+1].calls) \subseteq 1..m
    BY <1>1, <1>4
  <2>3. QED BY <1>1, <1>2, <2>1, <2>2 DEF IdsAreCounted
<1>6. BatchesAreApart(new)
  <2>1. ASSUME NEW i \in 1..L, IsCall(log, i)
        PROVE  CallIds(log[i].calls) \cap owed = {}
    BY <1>3, <1>4, <2>1
  <2>2. \A i, j \in 1..L : IsCall(log, i) /\ IsCall(log, j) /\ i # j =>
            CallIds(log[i].calls) \cap CallIds(log[j].calls) = {}
    BY <1>1 DEF Sound, BatchesAreApart
  <2>3. ASSUME NEW i \in 1..(L+1), NEW j \in 1..(L+1), IsCall(new, i), IsCall(new, j),
               i # j
        PROVE  CallIds(new[i].calls) \cap CallIds(new[j].calls) = {}
    <3>1. CASE i \in 1..L /\ j \in 1..L
      BY <1>1, <2>2, <2>3, <3>1
    <3>2. CASE i = L + 1 \/ j = L + 1
      BY <1>1, <1>2, <2>1, <2>3, <3>2
    <3>3. QED BY <1>2, <3>1, <3>2
  <2>4. QED BY <1>1, <2>3 DEF BatchesAreApart
<1>7. AnsweredOnce(new)
  <2>1. \A i, j \in 1..L : IsResult(log, i) /\ IsResult(log, j) /\ i # j =>
            log[i].answers \cap log[j].answers = {}
    BY <1>1 DEF Sound, AnsweredOnce
  <2>2. QED BY <1>1, <1>2, <2>1 DEF AnsweredOnce
<1>8. AnswersAreNear(new)
  <2>1. ASSUME NEW i \in 1..(L+1), NEW j \in 1..(L+1), IsCall(new, i),
               IsResult(new, j), new[j].answers \cap CallIds(new[i].calls) # {}
        PROVE  i < j /\ \A k \in (i+1)..j : IsResult(new, k)
    <3>1. j \in 1..L
      BY <1>1, <1>2, <2>1
    <3>2. new[j].answers \subseteq 1..n
      BY <1>1, <1>3, <2>1, <3>1
    <3>3. i \in 1..L
      BY <1>1, <1>2, <1>4, <2>1, <3>2
    <3>4. i < j /\ \A k \in (i+1)..j : IsResult(log, k)
      BY <1>1, <2>1, <3>1, <3>3 DEF Sound, AnswersAreNear
    <3>5. QED BY <1>1, <3>1, <3>3, <3>4
  <2>2. QED BY <1>1, <2>1 DEF AnswersAreNear
<1>9. AnswersHaveTurns(new)
  <2>1. ASSUME NEW j \in 1..(L+1), IsResult(new, j)
        PROVE  \E i \in 1..(L+1) :
                  /\ TurnOf(new, i, j)
                  /\ \/ new[j].answers \subseteq CallIds(new[i].calls)
                     \/ new[i].calls = <<>>
    <3>1. j \in 1..L /\ IsResult(log, j)
      BY <1>1, <1>2, <2>1
    <3>2. PICK i \in 1..L : /\ TurnOf(log, i, j)
                            /\ \/ log[j].answers \subseteq CallIds(log[i].calls)
                               \/ log[i].calls = <<>>
      BY <1>1, <2>1, <3>1 DEF Sound, AnswersHaveTurns
    <3>3. QED BY <1>1, <3>1, <3>2 DEF TurnOf
  <2>2. QED BY <1>1, <2>1 DEF AnswersHaveTurns
<1>10. AllAreAnswered(new, owed)
  <2>1. ASSUME NEW i \in 1..L, IsCall(new, i), NEW c \in CallIds(new[i].calls)
        PROVE  \E j \in 1..(L+1) : IsResult(new, j) /\ c \in new[j].answers
    <3>1. PICK j \in 1..L : IsResult(log, j) /\ c \in log[j].answers
      BY <1>1, <2>1 DEF Sound, AllAreAnswered
    <3>2. QED BY <1>1, <3>1
  <2>2. QED BY <1>1, <1>2, <2>1 DEF AllAreAnswered
<1>11. OwedComeLast(new, owed)
  <2>1. \A k \in 1..(L+1) : ~(k > L + 1)
    BY <1>1
  <2>2. L + 1 \in 1..(L+1)
    BY <1>1
  <2>3. \A j \in 1..(L+1) : IsResult(new, j) => new[j].answers \cap owed = {}
    BY <1>1, <1>2, <1>3, <1>4
  <2>4. QED BY <1>1, <2>1, <2>2, <2>3 DEF OwedComeLast
<1>12. QED
  BY <1>5, <1>6, <1>7, <1>8, <1>9, <1>10, <1>11 DEF Sound

\* An answer is recorded: to calls that are owed, or, behind a stream that
\* failed, to calls no message names.
LEMMA AnswerIsSound ==
  ASSUME NEW log \in Seq(Entry), NEW new \in Seq(Entry), NEW n \in Nat,
         NEW m \in Nat, n <= m, NEW a, OneMore(log, new, a), NEW owed,
         a.kind = "toolResult", a.answers # {}, Sound(log, n, owed),
         \/ a.answers \subseteq owed
         \/ /\ owed = {} /\ a.answers \subseteq (n+1)..m
            /\ Len(log) \in DOMAIN log /\ IsCall(log, Len(log))
            /\ log[Len(log)].calls = <<>>
  PROVE  Sound(new, m, owed \ a.answers)
<1> DEFINE L == Len(log)
           ids == a.answers
<1>1. /\ L \in Nat /\ DOMAIN log = 1..L /\ DOMAIN new = 1..(L+1)
      /\ new[L+1] = a /\ IsResult(new, L+1) /\ ~IsCall(new, L+1)
      /\ \A i \in 1..L : /\ new[i] = log[i]
                         /\ IsCall(new, i) <=> IsCall(log, i)
                         /\ IsResult(new, i) <=> IsResult(log, i)
  BY LenProperties DEF OneMore, IsCall, IsResult
<1>2. \A i \in 1..(L+1) : i \in 1..L \/ i = L + 1
  BY <1>1
<1>3. \A i \in 1..L : /\ IsCall(log, i) => CallIds(log[i].calls) \subseteq 1..n
                      /\ IsResult(log, i) => log[i].answers \subseteq 1..n
                                             /\ log[i].answers # {}
  BY <1>1 DEF Sound, IdsAreCounted
<1>4. \A i \in 1..L : IsResult(log, i) => log[i].answers \cap owed = {}
  BY <1>1 DEF Sound, OwedComeLast
<1>5. ASSUME owed # {}
      PROVE  \E i \in 1..L : /\ IsCall(log, i)
                             /\ owed \subseteq CallIds(log[i].calls)
                             /\ \A k \in 1..L : k > i => IsResult(log, k)
  BY <1>1, <1>5 DEF Sound, OwedComeLast
<1>6. ids \subseteq 1..m
  <2>1. owed \subseteq 1..n
    BY <1>3, <1>5
  <2>2. 1..n \subseteq 1..m /\ (n+1)..m \subseteq 1..m
    OBVIOUS
  <2>3. QED BY <2>1, <2>2, Zenon
<1>7. IdsAreCounted(new, m)
  <2>1. 1..n \subseteq 1..m
    OBVIOUS
  <2>2. \A i \in 1..L : /\ IsCall(new, i) => CallIds(new[i].calls) \subseteq 1..m
                        /\ IsResult(new, i) => new[i].answers \subseteq 1..m
                                               /\ new[i].answers # {}
    BY <1>1, <1>3, <2>1
  <2>3. QED BY <1>1, <1>2, <1>6, <2>2 DEF IdsAreCounted
<1>8. BatchesAreApart(new)
  <2>1. \A i, j \in 1..L : IsCall(log, i) /\ IsCall(log, j) /\ i # j =>
            CallIds(log[i].calls) \cap CallIds(log[j].calls) = {}
    BY <1>1 DEF Sound, BatchesAreApart
  <2>2. QED BY <1>1, <1>2, <2>1 DEF BatchesAreApart
<1>9. AnsweredOnce(new)
  <2>1. \A i, j \in 1..L : IsResult(log, i) /\ IsResult(log, j) /\ i # j =>
            log[i].answers \cap log[j].answers = {}
    BY <1>1 DEF Sound, AnsweredOnce
  <2>2. \A i \in 1..L : IsResult(log, i) => log[i].answers \cap ids = {}
    BY <1>3, <1>4
  <2>3. ASSUME NEW i \in 1..(L+1), NEW j \in 1..(L+1), IsResult(new, i),
               IsResult(new, j), i # j
        PROVE  new[i].answers \cap new[j].answers = {}
    <3>1. CASE i \in 1..L /\ j \in 1..L
      BY <1>1, <2>1, <2>3, <3>1
    <3>2. CASE i = L + 1 \/ j = L + 1
      BY <1>1, <1>2, <2>2, <2>3, <3>2
    <3>3. QED BY <1>2, <3>1, <3>2
  <2>4. QED BY <1>1, <2>3 DEF AnsweredOnce
<1>10. AnswersAreNear(new)
  <2>1. ASSUME NEW i \in 1..(L+1), NEW j \in 1..(L+1), IsCall(new, i),
               IsResult(new, j), new[j].answers \cap CallIds(new[i].calls) # {}
        PROVE  i < j /\ \A k \in (i+1)..j : IsResult(new, k)
    <3>1. i \in 1..L /\ IsCall(log, i) /\ new[i] = log[i]
      BY <1>1, <1>2, <2>1
    <3>2. CASE j \in 1..L
      <4>1. i < j /\ \A k \in (i+1)..j : IsResult(log, k)
        BY <1>1, <2>1, <3>1, <3>2 DEF Sound, AnswersAreNear
      <4>2. QED BY <1>1, <3>1, <3>2, <4>1
    <3>3. CASE j = L + 1
      <4>1. ids \cap CallIds(log[i].calls) # {}
        BY <1>1, <2>1, <3>1, <3>3
      <4>2. ids \subseteq owed
        BY <1>3, <3>1, <4>1
      <4>3. PICK t \in 1..L : /\ IsCall(log, t)
                              /\ owed \subseteq CallIds(log[t].calls)
                              /\ \A k \in 1..L : k > t => IsResult(log, k)
        BY <1>5, <4>1, <4>2
      <4>4. CallIds(log[i].calls) \cap CallIds(log[t].calls) # {}
        BY <4>1, <4>2, <4>3
      <4>5. i = t
        BY <1>1, <3>1, <4>3, <4>4 DEF Sound, BatchesAreApart
      <4>6. \A k \in (i+1)..j : k = L + 1 \/ (k \in 1..L /\ k > i)
        BY <1>1, <3>1, <3>3
      <4>7. QED BY <1>1, <3>1, <3>3, <4>3, <4>5, <4>6
    <3>4. QED BY <1>2, <3>2, <3>3
  <2>2. QED BY <1>1, <2>1 DEF AnswersAreNear
<1>11. AnswersHaveTurns(new)
  <2>1. ASSUME NEW j \in 1..(L+1), IsResult(new, j)
        PROVE  \E i \in 1..(L+1) :
                  /\ TurnOf(new, i, j)
                  /\ \/ new[j].answers \subseteq CallIds(new[i].calls)
                     \/ new[i].calls = <<>>
    <3>1. CASE j \in 1..L
      <4>1. PICK i \in 1..L : /\ TurnOf(log, i, j)
                              /\ \/ log[j].answers \subseteq CallIds(log[i].calls)
                                 \/ log[i].calls = <<>>
        BY <1>1, <2>1, <3>1 DEF Sound, AnswersHaveTurns
      <4>2. QED BY <1>1, <3>1, <4>1 DEF TurnOf
    <3>2. CASE j = L + 1 /\ ids \subseteq owed
      <4>1. owed # {}
        BY <3>2
      <4>2. PICK i \in 1..L : /\ IsCall(log, i)
                              /\ owed \subseteq CallIds(log[i].calls)
                              /\ \A k \in 1..L : k > i => IsResult(log, k)
        BY <1>5, <4>1
      <4>3. \A k \in (i+1)..j : k = L + 1 \/ (k \in 1..L /\ k > i)
        BY <1>1, <3>2
      <4>4. TurnOf(new, i, j)
        BY <1>1, <3>2, <4>2, <4>3 DEF TurnOf
      <4>5. QED BY <1>1, <3>2, <4>2, <4>4
    <3>3. CASE j = L + 1 /\ ~ (ids \subseteq owed)
      <4>1. L \in 1..L /\ IsCall(log, L) /\ log[L].calls = <<>>
        BY <1>1, <3>3
      <4>2. \A k \in (L+1)..j : k = L + 1
        BY <1>1, <3>3
      <4>3. TurnOf(new, L, j)
        BY <1>1, <3>3, <4>1, <4>2 DEF TurnOf
      <4>4. QED BY <1>1, <4>1, <4>3
    <3>4. QED BY <1>2, <3>1, <3>2, <3>3
  <2>2. QED BY <1>1, <2>1 DEF AnswersHaveTurns
<1>12. AllAreAnswered(new, owed \ ids)
  <2>1. ASSUME NEW i \in 1..L, IsCall(new, i), NEW c \in CallIds(new[i].calls),
               c \notin owed \ ids
        PROVE  \E j \in 1..(L+1) : IsResult(new, j) /\ c \in new[j].answers
    <3>1. CASE c \in ids
      BY <1>1, <3>1
    <3>2. CASE c \notin owed
      <4>1. PICK j \in 1..L : IsResult(log, j) /\ c \in log[j].answers
        BY <1>1, <2>1, <3>2 DEF Sound, AllAreAnswered
      <4>2. QED BY <1>1, <4>1
    <3>3. QED BY <2>1, <3>1, <3>2
  <2>2. QED BY <1>1, <1>2, <2>1 DEF AllAreAnswered
<1>13. OwedComeLast(new, owed \ ids)
  <2>1. ASSUME owed \ ids # {}
        PROVE  \E i \in 1..(L+1) :
                  /\ IsCall(new, i) /\ (owed \ ids) \subseteq CallIds(new[i].calls)
                  /\ \A k \in 1..(L+1) : k > i => IsResult(new, k)
    <3>1. PICK t \in 1..L : /\ IsCall(log, t)
                            /\ owed \subseteq CallIds(log[t].calls)
                            /\ \A k \in 1..L : k > t => IsResult(log, k)
      BY <1>5, <2>1
    <3>2. t \in 1..(L+1) /\ IsCall(new, t)
      BY <1>1, <3>1
    <3>3. (owed \ ids) \subseteq CallIds(new[t].calls)
      BY <1>1, <3>1
    <3>4. \A k \in 1..(L+1) : k > t => IsResult(new, k)
      BY <1>1, <1>2, <3>1
    <3>5. QED BY <3>2, <3>3, <3>4
  <2>2. \A j \in 1..(L+1) : IsResult(new, j) => new[j].answers \cap (owed \ ids) = {}
    BY <1>1, <1>2, <1>4
  <2>3. QED BY <1>1, <2>1, <2>2 DEF OwedComeLast
<1>14. QED
  BY <1>7, <1>8, <1>9, <1>10, <1>11, <1>12, <1>13 DEF Sound

\* Messages and reminders may come while nothing is owed.
Plain(s) == \A i \in 1..Len(s) : s[i].kind \in {"message", "reminder"}

LEMMA PlainIsSound ==
  ASSUME NEW log \in Seq(Entry), NEW s \in Seq(Entry), Plain(s), NEW n,
         Sound(log, n, {})
  PROVE  Sound(log \o s, n, {})
<1> DEFINE L == Len(log)
           M == L + Len(s)
           new == log \o s
<1>1. /\ new \in Seq(Entry) /\ Len(new) = M
      /\ \A i \in 1..M : new[i] = IF i <= L THEN log[i] ELSE s[i - L]
  BY ConcatProperties
<1>2. /\ L \in Nat /\ M \in Nat /\ L <= M /\ DOMAIN log = 1..L /\ DOMAIN new = 1..M
      /\ 1..L \subseteq 1..M
  BY <1>1, LenProperties
<1>3. \A i \in 1..L : new[i] = log[i]
  BY <1>1, <1>2
<1>4. ASSUME NEW i \in 1..M, IsCall(new, i) \/ IsResult(new, i)
      PROVE  i \in 1..L
  <2>1. CASE i > L
    <3>1. i - L \in 1..Len(s) /\ Len(s) \in Nat
      BY <1>2, <2>1, LenProperties
    <3>2. new[i] = s[i - L]
      BY <1>1, <1>2, <2>1
    <3>3. QED BY <1>4, <3>1, <3>2 DEF Plain, IsCall, IsResult
  <2>2. QED BY <1>2, <2>1
<1> HIDE DEF new, M
<1>5. \A i \in 1..L : /\ IsCall(new, i) <=> IsCall(log, i)
                      /\ IsResult(new, i) <=> IsResult(log, i)
  BY <1>3 DEF IsCall, IsResult
<1>6. IdsAreCounted(new, n)
  BY <1>2, <1>3, <1>4, <1>5 DEF Sound, IdsAreCounted
<1>7. BatchesAreApart(new)
  BY <1>2, <1>3, <1>4, <1>5 DEF Sound, BatchesAreApart
<1>8. AnsweredOnce(new)
  BY <1>2, <1>3, <1>4, <1>5 DEF Sound, AnsweredOnce
<1>9. AnswersAreNear(new)
  <2>1. ASSUME NEW i \in 1..M, NEW j \in 1..M, IsCall(new, i), IsResult(new, j),
               new[j].answers \cap CallIds(new[i].calls) # {}
        PROVE  i < j /\ \A k \in (i+1)..j : IsResult(new, k)
    <3>1. i \in 1..L /\ j \in 1..L
      BY <1>4, <2>1
    <3>2. i < j /\ \A k \in (i+1)..j : IsResult(log, k)
      BY <1>2, <1>3, <1>5, <2>1, <3>1 DEF Sound, AnswersAreNear
    <3>3. QED BY <1>2, <1>5, <3>1, <3>2
  <2>2. QED BY <1>2, <2>1 DEF AnswersAreNear
<1>10. AnswersHaveTurns(new)
  <2>1. ASSUME NEW j \in 1..M, IsResult(new, j)
        PROVE  \E i \in 1..M :
                  /\ TurnOf(new, i, j)
                  /\ \/ new[j].answers \subseteq CallIds(new[i].calls)
                     \/ new[i].calls = <<>>
    <3>1. j \in 1..L /\ IsResult(log, j)
      BY <1>4, <1>5, <2>1
    <3>2. PICK i \in 1..L : /\ TurnOf(log, i, j)
                            /\ \/ log[j].answers \subseteq CallIds(log[i].calls)
                               \/ log[i].calls = <<>>
      BY <1>2, <2>1, <3>1 DEF Sound, AnswersHaveTurns
    <3>3. QED BY <1>2, <1>3, <1>5, <3>1, <3>2 DEF TurnOf
  <2>2. QED BY <1>2, <2>1 DEF AnswersHaveTurns
<1>11. AllAreAnswered(new, {})
  BY <1>2, <1>3, <1>4, <1>5 DEF Sound, AllAreAnswered
<1>12. OwedComeLast(new, {})
  BY DEF OwedComeLast
<1>13. QED
  BY <1>6, <1>7, <1>8, <1>9, <1>10, <1>11, <1>12 DEF Sound, new

\* A cut before a message takes no answer away from a call it leaves.
LEMMA CutIsSound ==
  ASSUME NEW log \in Seq(Entry), NEW n, NEW m \in DOMAIN log,
         log[m].kind = "message", Sound(log, n, {})
  PROVE  Sound(SubSeq(log, 1, m - 1), n, {})
<1> DEFINE L == Len(log)
           new == SubSeq(log, 1, m - 1)
<1>1. /\ L \in Nat /\ DOMAIN log = 1..L /\ m \in 1..L /\ m - 1 \in Nat
      /\ \A i \in 1..(m-1) : i \in 1..L /\ log[i] \in Entry
  BY LenProperties, ElementOfSeq
<1>2. /\ new \in Seq(Entry) /\ Len(new) = m - 1
      /\ \A i \in 1..(m-1) : new[i] = log[i]
  BY <1>1, SubSeqProperties
<1>3. DOMAIN new = 1..(m-1)
  BY <1>2, LenProperties
<1> HIDE DEF new
<1>4. \A i \in 1..(m-1) : /\ IsCall(new, i) <=> IsCall(log, i)
                          /\ IsResult(new, i) <=> IsResult(log, i)
  BY <1>2 DEF IsCall, IsResult
<1>5. ~IsResult(log, m) /\ ~IsCall(log, m)
  BY DEF IsResult, IsCall
\* Whatever a call and its answer are, the cut is not between them.
<1>6. ASSUME NEW i \in 1..L, NEW j \in 1..L, IsCall(log, i), IsResult(log, j),
             log[j].answers \cap CallIds(log[i].calls) # {}
      PROVE  i < m <=> j < m
  <2>1. i < j /\ \A k \in (i+1)..j : IsResult(log, k)
    BY <1>1, <1>6 DEF Sound, AnswersAreNear
  <2>2. m \notin (i+1)..j
    BY <1>5, <2>1
  <2>3. i # m
    BY <1>5, <1>6
  <2>4. QED BY <1>1, <2>1, <2>2, <2>3
<1>7. IdsAreCounted(new, n)
  BY <1>1, <1>2, <1>3, <1>4 DEF Sound, IdsAreCounted
<1>8. BatchesAreApart(new)
  BY <1>1, <1>2, <1>3, <1>4 DEF Sound, BatchesAreApart
<1>9. AnsweredOnce(new)
  BY <1>1, <1>2, <1>3, <1>4 DEF Sound, AnsweredOnce
<1>10. AnswersAreNear(new)
  <2>1. ASSUME NEW i \in 1..(m-1), NEW j \in 1..(m-1), IsCall(new, i),
               IsResult(new, j), new[j].answers \cap CallIds(new[i].calls) # {}
        PROVE  i < j /\ \A k \in (i+1)..j : IsResult(new, k)
    <3>1. i < j /\ \A k \in (i+1)..j : IsResult(log, k)
      BY <1>1, <1>2, <1>4, <2>1 DEF Sound, AnswersAreNear
    <3>2. QED BY <1>1, <1>4, <3>1
  <2>2. QED BY <1>3, <2>1 DEF AnswersAreNear
<1>11. AnswersHaveTurns(new)
  <2>1. ASSUME NEW j \in 1..(m-1), IsResult(new, j)
        PROVE  \E i \in 1..(m-1) :
                  /\ TurnOf(new, i, j)
                  /\ \/ new[j].answers \subseteq CallIds(new[i].calls)
                     \/ new[i].calls = <<>>
    <3>1. IsResult(log, j) /\ j \in 1..L
      BY <1>1, <1>4, <2>1
    <3>2. PICK i \in 1..L : /\ TurnOf(log, i, j)
                            /\ \/ log[j].answers \subseteq CallIds(log[i].calls)
                               \/ log[i].calls = <<>>
      BY <1>1, <2>1, <3>1 DEF Sound, AnswersHaveTurns
    <3>3. i \in 1..(m-1) /\ \A k \in (i+1)..j : k \in 1..(m-1)
      BY <1>1, <2>1, <3>2 DEF TurnOf
    <3>4. TurnOf(new, i, j)
      BY <1>4, <3>2, <3>3 DEF TurnOf
    <3>5. QED BY <1>2, <2>1, <3>2, <3>3, <3>4
  <2>2. QED BY <1>3, <2>1 DEF AnswersHaveTurns
<1>12. AllAreAnswered(new, {})
  <2>1. ASSUME NEW i \in 1..(m-1), IsCall(new, i), NEW c \in CallIds(new[i].calls)
        PROVE  \E j \in 1..(m-1) : IsResult(new, j) /\ c \in new[j].answers
    <3>1. i \in 1..L /\ IsCall(log, i) /\ c \in CallIds(log[i].calls) /\ i < m
      BY <1>1, <1>2, <1>4, <2>1
    <3>2. PICK j \in 1..L : IsResult(log, j) /\ c \in log[j].answers
      BY <1>1, <3>1 DEF Sound, AllAreAnswered
    <3>3. j < m
      BY <1>6, <3>1, <3>2
    <3>4. j \in 1..(m-1)
      BY <1>1, <3>3
    <3>5. QED BY <1>2, <1>4, <3>2, <3>4
  <2>2. QED BY <1>3, <2>1 DEF AllAreAnswered
<1>13. OwedComeLast(new, {})
  BY DEF OwedComeLast
<1>14. QED
  BY <1>7, <1>8, <1>9, <1>10, <1>11, <1>12, <1>13 DEF Sound, new

\* Ids handed out to a turn that records nothing leave the transcript sound.
LEMMA MoreIdsAreSound ==
  ASSUME NEW log, NEW n \in Nat, NEW m \in Nat, n <= m, NEW owed, Sound(log, n, owed)
  PROVE  Sound(log, m, owed)
<1>1. 1..n \subseteq 1..m
  OBVIOUS
<1>2. IdsAreCounted(log, m)
  BY <1>1 DEF Sound, IdsAreCounted
<1>3. QED BY <1>2 DEF Sound

\* What the transcript's soundness needs of the rest: where calls are left to
\* executeTools, that one run is live and nothing of a stopped one is due.
Grounds ==
    /\ TypeInv /\ NothingLeftOver /\ MissingAreCalls
    /\ "fallback" \in Env => CleanInv /\ AbortEndsTheRun

\* A step of a run leaves the other runs where they are.
LEMMA StepTouchesOne ==
  ASSUME TypeInv, NEW r \in Runs, RunStep(r)
  PROVE  /\ abandoned' = abandoned
         /\ \A q \in Runs \ {r} : pc'[q] = pc[q] /\ turn'[q] = turn[q]
<1> USE DEF TypeInv, TypeOK, control, Park
<1>1. CASE BeforeStepReturns(r)
  BY <1>1 DEF BeforeStepReturns
<1>2. CASE TurnReturns(r) \/ TurnFails(r)
  BY <1>2 DEF TurnReturns, TurnFails, TurnLands
<1>3. CASE TurnThrows(r) \/ RunEnds(r)
  BY <1>3 DEF TurnThrows, RunEnds, Finally
<1>4. CASE TurnEnds(r) \/ ToolsDone(r)
  BY <1>4 DEF TurnEnds, ToolsDone, NoteAndLoop, LoopTop
<1>5. CASE TextTurnEnds(r) \/ Settle(r)
  BY <1>5 DEF TextTurnEnds, Settle
<1>6. CASE ToolReturns(r)
  BY <1>6 DEF ToolReturns
<1>7. CASE DrainNext(r)
  BY <1>7 DEF DrainNext, LoopTop
<1>8. QED BY <1>1, <1>2, <1>3, <1>4, <1>5, <1>6, <1>7 DEF RunStep

\* A turn without calls leaves none over.
LEMMA MissingStep ==
  ASSUME TypeInv, MissingAreCalls, Next
  PROVE  MissingAreCalls'
<1> USE DEF TypeInv, TypeOK
<1>1. CASE CallerStep
  <2>1. ASSUME NEW first, StartRun(first)
        PROVE  MissingAreCalls'
    <3>1. turn' = [turn EXCEPT ![runId + 1] = NoTurn] /\ runId + 1 \in Runs
      BY <2>1, BoundsAssumption DEF StartRun, LoopTop, Runs
    <3>2. QED BY <3>1 DEF MissingAreCalls, NoTurn
  <2>2. CASE UNCHANGED turn
    BY <2>2 DEF MissingAreCalls
  <2>3. QED
    BY <1>1, <2>1, <2>2 DEF CallerStep, Prompt, Steer, Queue, Continue,
                            AppendMessage, Abort, Close, Rewind
<1>2. ASSUME NEW r \in Runs, RunStep(r)
      PROVE  MissingAreCalls'
  <2>1. CASE UNCHANGED turn \/ turn' = [turn EXCEPT ![r] = NoTurn]
    <3>1. \A q \in Runs : turn'[q] = turn[q] \/ turn'[q] = NoTurn
      BY <2>1
    <3>2. NoTurn.missing = {}
      BY DEF NoTurn
    <3>3. QED BY <3>1, <3>2 DEF MissingAreCalls
  <2>2. CASE TurnReturns(r) \/ TurnFails(r)
    <3>1. PICK cs, done : TurnLands(r, cs, done)
      BY <2>2 DEF TurnReturns, TurnFails
    <3>2. turn' = [turn EXCEPT ![r] = [calls   |-> cs,
                                       missing |-> CallIds(cs) \ done]]
      BY <3>1 DEF TurnLands
    <3>3. cs = <<>> => CallIds(cs) \ done = {}
      BY DEF CallIds
    <3>4. QED BY <3>2, <3>3 DEF MissingAreCalls
  <2>3. CASE ToolReturns(r)
    <3>1. UNCHANGED turn \/ \E c : turn' = [turn EXCEPT ![r].missing = @ \ {c}]
      BY <2>3 DEF ToolReturns
    <3>2. ASSUME NEW c, turn' = [turn EXCEPT ![r].missing = @ \ {c}]
          PROVE  MissingAreCalls'
      <4>1. turn[r] \in [calls : Seq(Call), missing : SUBSET Nat]
        OBVIOUS
      <4>2. turn'[r].calls = turn[r].calls /\ turn'[r].missing = turn[r].missing \ {c}
        BY <3>2, <4>1
      <4>3. \A q \in Runs \ {r} : turn'[q] = turn[q]
        BY <3>2
      <4>4. QED BY <4>2, <4>3 DEF MissingAreCalls
    <3>3. CASE UNCHANGED turn
      BY <3>3 DEF MissingAreCalls
    <3>4. QED BY <3>1, <3>2, <3>3
  <2>4. QED
    BY <1>2, <2>1, <2>2, <2>3
       DEF RunStep, BeforeStepReturns, TurnThrows, TurnEnds, TextTurnEnds,
           ToolsDone, DrainNext, RunEnds, Settle, Finally, NoteAndLoop, LoopTop
<1>3. QED BY <1>1, <1>2 DEF Next

\* Only the live run owes results.
LEMMA OwedNow ==
  ASSUME Grounds, NEW r \in Runs, pc[r] \in InFlight, ~isStaleRun(r)
  PROVE  /\ Owed = IF pc[r] \in Owing THEN turn[r].missing ELSE {}
         /\ \A q \in Runs \ {r} : pc[q] \in Owing /\ q \notin abandoned =>
                                     turn[q].missing = {}
<1>1. CASE "fallback" \notin Env
  <2>1. \A q \in Runs : turn[q].missing = {}
    BY <1>1 DEF Grounds, NothingLeftOver
  <2>2. QED BY <2>1 DEF Owed, OwedBy
<1>2. CASE "fallback" \in Env
  <2>1. CleanInv /\ OneLiveRun
    BY <1>2 DEF Grounds, CleanInv, OwnerInv
  <2>2. Live(r) /\ r = runId
    BY <2>1, StaleIsLate DEF CleanInv
  <2>3. \A q \in Runs : pc[q] \in Owing /\ q \notin abandoned => q = r
    BY <2>1, <2>2 DEF OneLiveRun, Live, Owing, InFlight, Parked
  <2>4. r \notin abandoned
    BY <2>2 DEF Live
  <2>5. QED BY <2>3, <2>4 DEF Owed, OwedBy
<1>3. QED BY <1>1, <1>2

LEMMA IdleOwesNothing ==
  ASSUME Grounds, ~runningInner
  PROVE  Owed = {}
<1>1. CASE "fallback" \notin Env
  BY <1>1 DEF Grounds, NothingLeftOver, Owed, OwedBy
<1>2. CASE "fallback" \in Env
  <2>1. \A q \in Runs : ~Live(q)
    BY <1>2 DEF Grounds, CleanInv, OwnerInv, OneLiveRun
  <2>2. QED BY <2>1 DEF Live, Owed, OwedBy, Owing, InFlight, Parked
<1>3. QED BY <1>1, <1>2

\* What a step of a run does to the debt is what it does to its own turn.
LEMMA OwedNext ==
  ASSUME Grounds, NothingLeftOver', NEW r \in Runs, RunStep(r)
  PROVE  /\ pc[r] \in InFlight /\ ~isStaleRun(r) =>
              Owed' = IF pc'[r] \in Owing THEN turn'[r].missing ELSE {}
         /\ pc[r] \in InFlight /\ isStaleRun(r) => Owed' = Owed
         /\ pc[r] \notin InFlight => Owed' = Owed
<1>1. /\ abandoned' = abandoned
      /\ \A q \in Runs \ {r} : pc'[q] = pc[q] /\ turn'[q] = turn[q]
  BY StepTouchesOne DEF Grounds
<1>2. CASE "fallback" \notin Env
  <2>1. \A q \in Runs : turn[q].missing = {} /\ turn'[q].missing = {}
    BY <1>2 DEF Grounds, NothingLeftOver
  <2>2. Owed = {} /\ Owed' = {}
    BY <2>1 DEF Owed, OwedBy
  <2>3. QED BY <2>1, <2>2
<1>3. CASE "fallback" \in Env
  <2>1. CleanInv
    BY <1>3 DEF Grounds
  <2>2. ASSUME r \in abandoned \/ (pc[r] \notin Owing /\ pc'[r] \notin Owing)
        PROVE  Owed' = Owed
    <3>1. \A q \in Runs : pc'[q] \in Owing /\ q \notin abandoned' <=>
                          pc[q] \in Owing /\ q \notin abandoned
      BY <1>1, <2>2
    <3>2. \A q \in Runs : pc[q] \in Owing /\ q \notin abandoned =>
                          turn'[q].missing = turn[q].missing
      BY <1>1, <2>2
    <3>3. QED BY <3>1, <3>2 DEF Owed, OwedBy
  <2>3. CASE pc[r] \in InFlight /\ ~isStaleRun(r)
    <3>1. r \notin abandoned
      BY <2>1, <2>3, StaleIsLate DEF CleanInv
    <3>2. \A q \in Runs \ {r} : pc[q] \in Owing /\ q \notin abandoned =>
                                   turn[q].missing = {}
      BY <2>3, OwedNow
    <3>3. \A q \in Runs \ {r} : pc'[q] \in Owing /\ q \notin abandoned' =>
                                   turn'[q].missing = {}
      BY <1>1, <3>2
    <3>4. QED BY <1>1, <2>3, <3>1, <3>3 DEF Owed, OwedBy
  <2>4. CASE pc[r] \in InFlight /\ isStaleRun(r)
    <3>1. r \in abandoned
      BY <2>1, <2>4, StaleIsLate DEF CleanInv
    <3>2. QED BY <2>2, <2>4, <3>1
  <2>5. CASE pc[r] \notin InFlight
    <3>1. Settle(r)
      BY <2>1, <2>5, RunStepMoves DEF CleanInv
    <3>2. pc[r] = "ended" /\ pc'[r] = "done"
      BY <2>1, <3>1 DEF Settle, Park, CleanInv, OwnerInv, TypeInv, TypeOK
    <3>3. QED BY <2>2, <2>5, <3>2 DEF Owing
  <2>6. QED BY <2>3, <2>4, <2>5
<1>4. QED BY <1>2, <1>3

\* A stop answers what is owed, no more and no less.
LEMMA UnhealedIsOwed ==
  ASSUME TypeInv, Sound(messages, calls, Owed)
  PROVE  Unhealed = Owed
<1>1. DOMAIN messages = 1..Len(messages) /\ Len(messages) \in Nat
  BY LenProperties DEF TypeInv, TypeOK
<1> DEFINE Last == {j \in DOMAIN messages :
                      /\ messages[j].kind = "assistant"
                      /\ \A k \in (j+1)..Len(messages) :
                           messages[k].kind = "toolResult"}
<1>2. ASSUME NEW c \in Unhealed
      PROVE  c \in Owed
  <2>1. PICK i \in Last : c \in CallIds(messages[i].calls)
    BY <1>2 DEF Unhealed
  <2>2. \A k \in DOMAIN messages :
          messages[k].kind = "toolResult" => c \notin messages[k].answers
    BY <1>2 DEF Unhealed
  <2>3. QED BY <2>1, <2>2 DEF Sound, AllAreAnswered, IsCall, IsResult
<1>3. ASSUME NEW c \in Owed
      PROVE  c \in Unhealed
  <2>1. PICK i \in DOMAIN messages :
           /\ IsCall(messages, i) /\ Owed \subseteq CallIds(messages[i].calls)
           /\ \A k \in DOMAIN messages : k > i => IsResult(messages, k)
    BY <1>3 DEF Sound, OwedComeLast
  <2>2. i \in Last
    BY <1>1, <2>1 DEF IsCall, IsResult
  <2>3. \A k \in DOMAIN messages :
          messages[k].kind = "toolResult" => c \notin messages[k].answers
    BY <1>3 DEF Sound, OwedComeLast, IsResult
  <2>4. c \in UNION {CallIds(messages[j].calls) : j \in Last}
    BY <1>3, <2>1, <2>2
  <2>5. QED BY <2>3, <2>4 DEF Unhealed
<1>4. QED BY <1>2, <1>3

\* Prompts and reminders are neither calls nor answers.
LEMMA WrittenIsPlain ==
  ASSUME NEW r \in 0..MaxRuns, NEW ms \in Seq(Msg)
  PROVE  Plain(Written(r, ms))
<1>1. DOMAIN ms = 1..Len(ms) /\ Len(Written(r, ms)) = Len(ms)
  BY LenProperties, WrittenType
<1>2. QED BY <1>1 DEF Plain, Written

LEMMA ReminderIsPlain ==
  ASSUME NEW r, NEW cs
  PROVE  Plain(Reminder(r, cs))
<1> DEFINE due == {i \in DOMAIN cs : CountAt(cs, i) \in RemindAt}
           i   == CHOOSE i \in due : \A j \in due : j <= i
<1>1. CASE due = {}
  BY <1>1 DEF Reminder, Plain
<1>2. CASE due # {}
  <2>1. Reminder(r, cs) = <<[kind |-> "reminder", run |-> r, sig |-> cs[i].sig]>>
    BY <1>2 DEF Reminder
  <2>2. QED BY <2>1 DEF Plain
<1>3. QED BY <1>1, <1>2

\* The ids of a batch are new.
LEMMA BatchIds ==
  ASSUME calls \in Nat, NEW cs \in Batches
  PROVE  CallIds(cs) \subseteq (calls + 1)..(calls + Len(cs))
<1>1. cs \in Seq(Call) /\ Len(cs) \in Nat /\ DOMAIN cs = 1..Len(cs)
  BY BatchesType, LenProperties
<1>2. PICK sigs : cs = [i \in 1..Len(sigs) |-> [id |-> calls + i, sig |-> sigs[i]]]
  BY DEF Batches
<1>3. \A i \in DOMAIN cs : cs[i].id = calls + i
  BY <1>2
<1>4. QED BY <1>1, <1>3 DEF CallIds

\* The top of the loop finds nothing owed and adds messages only.
LEMMA LoopTopSound ==
  ASSUME TypeInv, NEW r \in Runs, NEW s \in Seq(Entry), Plain(s),
         NEW first \in Seq(Msg), NEW sig, NEW n,
         LoopTop(r, messages \o s, first, sig, n), Sound(messages, calls, {})
  PROVE  Sound(messages', calls, {})
<1>1. messages \in Seq(Entry) /\ first \o steerQueue \in Seq(Msg) /\ r \in 0..MaxRuns
  BY BoundsAssumption, ConcatProperties DEF TypeInv, TypeOK, Runs
<1>2. messages \o s \in Seq(Entry)
  BY <1>1, ConcatProperties
<1>3. Sound(messages \o s, calls, {})
  BY <1>1, PlainIsSound
<1>4. /\ Written(r, first \o steerQueue) \in Seq(Entry)
      /\ Plain(Written(r, first \o steerQueue))
  BY <1>1, WrittenType, WrittenIsPlain
<1>5. Sound((messages \o s) \o Written(r, first \o steerQueue), calls, {})
  BY <1>2, <1>3, <1>4, PlainIsSound
<1>6. QED BY <1>5 DEF LoopTop, Append_

\* A step that leaves the transcript and the debt alone.
LEMMA UntouchedSound ==
  ASSUME Sound(messages, calls, Owed), UNCHANGED <<messages, calls>>, Owed' = Owed
  PROVE  Sound(messages', calls', Owed')
<1>1. messages' = messages /\ calls' = calls /\ Owed' = Owed
  OBVIOUS
<1>2. QED BY <1>1

LEMMA CallerSound ==
  ASSUME Grounds, NothingLeftOver', "fallback" \in Env => MaxContexts = 0,
         Sound(messages, calls, Owed), CallerStep
  PROVE  Sound(messages', calls', Owed')
<1>1. /\ TypeInv /\ messages \in Seq(Entry) /\ calls \in Nat
      /\ <<>> \in Seq(Entry) /\ <<>> \in Seq(Msg) /\ Plain(<<>>)
      /\ messages \o <<>> = messages
  BY EmptySeq, ConcatEmptySeq DEF Grounds, TypeInv, TypeOK, Plain
<1>2. ASSUME NEW first \in Seq(Msg), StartRun(first), ~runningInner, calls' = calls
      PROVE  Sound(messages', calls', Owed')
  <2> DEFINE new == runId + 1
  <2>1. /\ new \in Runs
        /\ LoopTop(new, messages, first, repeatSignature, repeatCount)
        /\ abandoned' = abandoned
    BY <1>1, <1>2, BoundsAssumption DEF StartRun, Runs, TypeInv, TypeOK
  <2>2. Owed = {}
    BY <1>2, IdleOwesNothing
  <2>3. Owed' = {}
    <3>1. /\ pc' = [pc EXCEPT ![new] = "beforeStep"]
          /\ turn' = [turn EXCEPT ![new] = NoTurn]
      BY <2>1 DEF LoopTop
    <3>2. \A q \in Runs : pc'[q] \in Owing => pc[q] = pc'[q] /\ turn'[q] = turn[q]
      BY <1>1, <2>1, <3>1 DEF TypeInv, TypeOK, Owing
    <3>3. \A q \in Runs : pc[q] \in Owing /\ q \notin abandoned => turn[q].missing = {}
      BY <2>2 DEF Owed, OwedBy
    <3>4. QED BY <2>1, <3>2, <3>3 DEF Owed, OwedBy
  <2>4. LoopTop(new, messages \o <<>>, first, repeatSignature, repeatCount)
    BY <1>1, <2>1
  <2>5. Sound(messages', calls, {})
    BY <1>1, <2>1, <2>2, <2>4, LoopTopSound
  <2>6. QED BY <1>2, <2>3, <2>5
<1>3. ASSUME UNCHANGED <<pc, turn, abandoned>>
      PROVE  Owed' = Owed
  BY <1>3 DEF Owed
<1>4. CASE \E role \in PromptRoles : Prompt(role) \/ Steer(role)
  <2>1. PICK role \in PromptRoles : Prompt(role) \/ Steer(role)
    BY <1>4
  <2>2. <<NewMsg(role)>> \in Seq(Msg) /\ calls' = calls
    <3>1. <<NewMsg(role)>> \in Seq(Msg)
      BY <1>1, NewMsgType
    <3>2. calls' = calls
      BY <2>1 DEF Prompt, Steer
    <3>3. QED BY <3>1, <3>2
  <2>3. CASE Queue(NewMsg(role))
    <3>1. UNCHANGED <<messages, pc, turn, abandoned>>
      BY <2>3 DEF Queue, control
    <3>2. QED BY <1>3, <2>2, <3>1, UntouchedSound
  <2>4. CASE ~runningInner /\ StartRun(<<NewMsg(role)>>)
    BY <1>2, <2>2, <2>4
  <2>5. QED BY <2>1, <2>3, <2>4 DEF Prompt, Steer
<1>5. CASE Continue
  BY <1>1, <1>2, <1>5 DEF Continue, counts
<1>6. CASE AppendMessage
  <2> DEFINE ms == <<[id |-> 0, role |-> "context"]>>
  <2>1. "fallback" \notin Env
    BY <1>1, <1>6 DEF AppendMessage, TypeInv, TypeOK
  <2>2. UNCHANGED <<pc, turn, abandoned, calls>> /\ messages' = messages \o Written(0, ms)
    BY <1>6 DEF AppendMessage, Append_, control
  <2>3. Owed = {} /\ Owed' = {}
    BY <1>3, <2>1, <2>2 DEF Grounds, NothingLeftOver, Owed, OwedBy
  <2>4. ms \in Seq(Msg) /\ 0 \in 0..MaxRuns
    <3>1. [id |-> 0, role |-> "context"] \in Msg
      BY DEF Msg, Roles
    <3>2. QED BY <3>1, OneElement, BoundsAssumption
  <2> HIDE DEF ms
  <2>5. Written(0, ms) \in Seq(Entry) /\ Plain(Written(0, ms))
    BY <2>4, WrittenType, WrittenIsPlain
  <2>6. Sound(messages', calls, {})
    BY <1>1, <2>2, <2>3, <2>5, PlainIsSound
  <2>7. QED BY <2>2, <2>3, <2>6
<1>7. CASE Abort \/ Close
  <2>1. AbortBody /\ UNCHANGED <<pc, turn, calls>>
    BY <1>7 DEF Abort, Close, counts
  <2>2. CASE runningInner /\ isStreaming
    <3>1. /\ messages' = messages \o Results(runId, Unhealed)
          /\ abandoned' = abandoned \cup {runId}
      BY <2>1, <2>2 DEF AbortBody
    <3>2. Unhealed = Owed /\ Unhealed \subseteq Nat
      BY <1>1, UnhealedIsOwed, UnhealedType
    <3>3. Owed' = {}
      <4>1. CASE "fallback" \notin Env
        BY <4>1 DEF NothingLeftOver, Owed, OwedBy
      <4>2. CASE "fallback" \in Env
        <5>1. \A q \in Runs : Live(q) => q = runId
          BY <4>2 DEF Grounds, CleanInv, OwnerInv, OneLiveRun
        <5>2. \A q \in Runs : ~(pc'[q] \in Owing /\ q \notin abandoned')
          BY <2>1, <3>1, <5>1 DEF Live, Owing, InFlight, Parked
        <5>3. QED BY <5>2 DEF Owed, OwedBy
      <4>3. QED BY <4>1, <4>2
    <3>4. CASE Owed = {}
      <4>1. messages' = messages
        BY <1>1, <3>1, <3>2, <3>4 DEF Results
      <4>2. QED BY <2>1, <3>3, <3>4, <4>1, UntouchedSound
    <3>5. CASE Owed # {}
      <4> DEFINE e == [kind |-> "toolResult", run |-> runId, answers |-> Owed]
      <4>1. messages' = messages \o <<e>>
        BY <3>1, <3>2, <3>5 DEF Results
      <4>2. e \in Entry
        BY <1>1, <3>2 DEF TypeInv, TypeOK, Entry
      <4>3. e.kind = "toolResult" /\ e.answers = Owed
        OBVIOUS
      <4> HIDE DEF e
      <4>4. messages' \in Seq(Entry) /\ OneMore(messages, messages', e)
        BY <1>1, <4>1, <4>2, OneMoreIs
      <4>5. Sound(messages', calls, Owed \ Owed)
        BY <1>1, <3>5, <4>3, <4>4, AnswerIsSound
      <4>6. Owed \ Owed = {}
        OBVIOUS
      <4>7. QED BY <2>1, <3>3, <4>5, <4>6
    <3>6. QED BY <3>4, <3>5
  <2>3. CASE ~(runningInner /\ isStreaming)
    <3>1. UNCHANGED <<abandoned, messages>>
      BY <2>1, <2>3 DEF AbortBody
    <3>2. QED BY <1>3, <2>1, <3>1, UntouchedSound
  <2>4. QED BY <2>2, <2>3
<1>8. CASE \E n \in DOMAIN messages : Rewind(n)
  <2>1. PICK n \in DOMAIN messages : Rewind(n)
    BY <1>8
  <2>2. /\ messages[n].kind = "message" /\ ~runningInner
        /\ messages' = SubSeq(messages, 1, n - 1)
        /\ UNCHANGED <<pc, turn, abandoned, calls>>
    BY <2>1 DEF Rewind, counts
  <2>3. Owed = {} /\ Owed' = {}
    BY <1>3, <2>2, IdleOwesNothing
  <2>4. QED BY <1>1, <2>2, <2>3, CutIsSound
<1>9. QED BY <1>4, <1>5, <1>6, <1>7, <1>8 DEF CallerStep

\* What a turn records is sound: its calls with the results that came along,
\* or the error with the results of calls it dropped.
LEMMA TurnLandsSound ==
  ASSUME messages \in Seq(Entry), NEW n \in Nat, Sound(messages, n, {}),
         NEW r \in 0..MaxRuns, NEW cs \in Seq(Call), NEW done \in SUBSET Nat,
         NEW m \in Nat, n <= m, CallIds(cs) \subseteq (n + 1)..m,
         \/ done \subseteq CallIds(cs)
         \/ "midTurnError" \in Env /\ cs = <<>> /\ done \subseteq (n + 1)..m
  PROVE  Sound(messages \o Recorded(r, cs, done), m, CallIds(cs) \ done)
<1> DEFINE a == [kind |-> "assistant", run |-> r, calls |-> cs]
           e == [kind |-> "toolResult", run |-> r, answers |-> done]
           one == messages \o <<a>>
<1>1. a \in Entry /\ e \in Entry
  BY DEF Entry
<1>2. a.kind = "assistant" /\ a.calls = cs /\ e.kind = "toolResult" /\ e.answers = done
  OBVIOUS
<1>3. Recorded(r, cs, done) = <<a>> \o Results(r, done)
  BY DEF Recorded
<1>4. Results(r, done) = IF done = {} THEN <<>> ELSE <<e>>
  BY DEF Results
<1> HIDE DEF a, e
<1>5. one \in Seq(Entry) /\ OneMore(messages, one, a)
  BY <1>1, OneMoreIs
<1>6. messages \o Recorded(r, cs, done) = one \o Results(r, done)
  <2> DEFINE x == <<a>>
             y == Results(r, done)
  <2>1. x \in Seq(Entry) /\ y \in Seq(Entry)
    BY <1>1, OneElement, ResultsType
  <2>2. Recorded(r, cs, done) = x \o y /\ one = messages \o x
    BY <1>3
  <2> HIDE DEF x, y, one
  <2>3. (messages \o x) \o y = messages \o (x \o y)
    BY <2>1, ConcatAssociative
  <2>4. messages \o Recorded(r, cs, done) = one \o y
    BY <2>2, <2>3
  <2>5. QED BY <2>4 DEF y
<1>7. CASE done = {}
  <2>1. messages \o Recorded(r, cs, done) = one
    BY <1>4, <1>5, <1>6, <1>7, ConcatEmptySeq
  <2>2. Sound(one, m, CallIds(cs))
    BY <1>2, <1>5, BatchIsSound
  <2>3. CallIds(cs) \ done = CallIds(cs)
    BY <1>7
  <2>4. QED BY <2>1, <2>2, <2>3
<1>8. CASE done # {}
  <2> DEFINE two == one \o <<e>>
  <2>1. messages \o Recorded(r, cs, done) = two
    BY <1>4, <1>6, <1>8
  <2>2. two \in Seq(Entry) /\ OneMore(one, two, e)
    BY <1>1, <1>5, OneMoreIs
  <2> HIDE DEF one, two
  <2>3. CASE done \subseteq CallIds(cs)
    <3>1. Sound(one, m, CallIds(cs))
      BY <1>2, <1>5, BatchIsSound
    <3>2. e.answers # {} /\ e.answers \subseteq CallIds(cs) /\ m <= m
      BY <1>2, <1>8, <2>3
    <3>3. Sound(two, m, CallIds(cs) \ e.answers)
      BY <1>2, <1>5, <2>2, <3>1, <3>2, AnswerIsSound
    <3>4. QED BY <1>2, <2>1, <3>3
  <2>4. CASE "midTurnError" \in Env /\ cs = <<>> /\ done \subseteq (n + 1)..m
    <3>1. CallIds(cs) = {}
      BY <2>4 DEF CallIds
    <3>2. Sound(one, n, CallIds(a.calls))
      <4>1. CallIds(a.calls) \subseteq (n+1)..n /\ n <= n
        BY <1>2, <3>1
      <4>2. QED BY <1>2, <1>5, <4>1, BatchIsSound
    <3>3. Sound(one, n, {})
      BY <1>2, <3>1, <3>2
    <3>4. Sound(two, m, {} \ e.answers)
      <4>1. /\ Len(one) \in DOMAIN one /\ IsCall(one, Len(one))
            /\ one[Len(one)].calls = <<>>
        BY <1>2, <1>5, <2>4, LenProperties DEF OneMore, IsCall
      <4>2. QED BY <1>2, <1>5, <1>8, <2>2, <2>4, <3>3, <4>1, AnswerIsSound
    <3>5. {} \ e.answers = CallIds(cs) \ done
      BY <3>1
    <3>6. QED BY <2>1, <3>4, <3>5
  <2>5. QED BY <2>3, <2>4
<1>9. QED BY <1>7, <1>8

LEMMA RunStepSound ==
  ASSUME Grounds, NothingLeftOver', NEW r \in Runs, RunStep(r),
         "fallback" \in Env => MaxContexts = 0 /\ RemindAt = {},
         Sound(messages, calls, Owed)
  PROVE  Sound(messages', calls', Owed')
<1>1. /\ TypeInv /\ messages \in Seq(Entry) /\ calls \in Nat /\ r \in 0..MaxRuns
      /\ pc \in [Runs -> Parked] /\ turn[r].calls \in Seq(Call)
      /\ turn \in [Runs -> [calls : Seq(Call), missing : SUBSET Nat]]
      /\ <<>> \in Seq(Entry) /\ <<>> \in Seq(Msg) /\ Plain(<<>>)
      /\ messages \o <<>> = messages
  BY BoundsAssumption, EmptySeq, ConcatEmptySeq DEF Grounds, TypeInv, TypeOK, Plain, Runs
<1>2. ASSUME pc[r] \in InFlight, ~isStaleRun(r)
      PROVE  /\ Owed = IF pc[r] \in Owing THEN turn[r].missing ELSE {}
             /\ Owed' = IF pc'[r] \in Owing THEN turn'[r].missing ELSE {}
             /\ "fallback" \in Env => ~abortRequested
  <2>1. "fallback" \in Env => runningInner
    BY <1>2, StaleIsLate DEF Grounds, CleanInv
  <2>2. QED BY <1>2, <2>1, OwedNow, OwedNext DEF Grounds, AbortEndsTheRun
<1>3. ASSUME isStaleRun(r) \/ pc[r] \notin InFlight
      PROVE  Owed' = Owed
  BY <1>3, OwedNext
<1>4. ASSUME UNCHANGED <<messages, calls>>, pc'[r] \notin Owing,
             pc[r] \notin Owing \/ turn[r].missing = {}
      PROVE  Sound(messages', calls', Owed')
  <2>1. Owed' = Owed
    BY <1>2, <1>3, <1>4
  <2>2. QED BY <1>4, <2>1, UntouchedSound
\* A live run goes back to the top of its loop, a reminder ahead of it.
<1>5. ASSUME pc[r] \in InFlight, ~isStaleRun(r), UNCHANGED calls,
             pc[r] \notin Owing \/ turn[r].missing = {},
             NEW s \in Seq(Entry), Plain(s), NEW sig, NEW n,
             LoopTop(r, messages \o s, <<>>, sig, n)
      PROVE  Sound(messages', calls', Owed')
  <2>1. pc'[r] = "beforeStep"
    BY <1>1, <1>5 DEF LoopTop
  <2>2. Owed = {} /\ Owed' = {}
    BY <1>2, <1>5, <2>1 DEF Owing
  <2>3. Sound(messages', calls, {})
    BY <1>1, <1>5, <2>2, LoopTopSound
  <2>4. QED BY <1>5, <2>2, <2>3
<1>6. ASSUME NoteAndLoop(r), pc[r] \in InFlight, ~isStaleRun(r), ~abortRequested,
             UNCHANGED calls, pc[r] \notin Owing \/ turn[r].missing = {}
      PROVE  Sound(messages', calls', Owed')
  <2> DEFINE cs == turn[r].calls
             s  == Reminder(r, cs)
  <2>1. LoopTop(r, messages \o s, <<>>, cs[Len(cs)].sig, CountAt(cs, Len(cs)))
    BY <1>6 DEF NoteAndLoop, MayGoOn
  <2>2. s \in Seq(Entry) /\ Plain(s)
    BY <1>1, ReminderType, ReminderIsPlain DEF TypeInv, TypeOK
  <2> HIDE DEF s, cs
  <2>3. QED BY <1>5, <1>6, <2>1, <2>2
<1>7. CASE BeforeStepReturns(r)
  <2>1. /\ pc[r] = "beforeStep" /\ UNCHANGED <<messages, calls>>
        /\ pc'[r] \in {"turn", "returned"}
    BY <1>1, <1>7 DEF BeforeStepReturns, Delivered, Park, counts
  <2>2. QED BY <1>4, <2>1 DEF Owing
<1>8. ASSUME pc[r] = "turn", NEW cs \in Seq(Call), NEW done \in SUBSET Nat,
             NEW k \in Nat, calls' = calls + k, TurnLands(r, cs, done),
             CallIds(cs) \subseteq (calls + 1)..(calls + k),
             \/ done \subseteq CallIds(cs)
             \/ /\ "midTurnError" \in Env /\ cs = <<>>
                /\ done \subseteq (calls + 1)..(calls + k)
      PROVE  Sound(messages', calls', Owed')
  <2>1. calls' \in Nat /\ calls <= calls'
    BY <1>1, <1>8
  <2>2. CASE isStaleRun(r)
    <3>1. messages' = messages
      BY <1>8, <2>2 DEF TurnLands
    <3>2. Owed' = Owed
      BY <1>3, <2>2
    <3>3. Sound(messages, calls', Owed)
      BY <1>1, <2>1, MoreIdsAreSound
    <3>4. QED BY <3>1, <3>2, <3>3
  <2>3. CASE ~isStaleRun(r)
    <3>1. messages' = messages \o Recorded(r, cs, done)
      BY <1>8, <2>3 DEF TurnLands
    <3>2. pc'[r] = "landed" /\ turn'[r].missing = CallIds(cs) \ done
      BY <1>1, <1>8 DEF TurnLands, Park
    <3>3. Owed = {} /\ Owed' = CallIds(cs) \ done
      BY <1>2, <1>8, <2>3, <3>2 DEF Owing, InFlight, Parked
    <3>4. Sound(messages \o Recorded(r, cs, done), calls + k, CallIds(cs) \ done)
      BY <1>1, <1>8, <2>1, <3>3, TurnLandsSound
    <3>5. QED BY <1>8, <3>1, <3>3, <3>4
  <2>4. QED BY <2>2, <2>3
<1>9. \A cs \in Batches :
         /\ cs \in Seq(Call) /\ Len(cs) \in Nat /\ CallIds(cs) \in SUBSET Nat
         /\ CallIds(cs) \subseteq (calls + 1)..(calls + Len(cs))
  BY <1>1, BatchesType, BatchIds, CallIdsType
<1>10. CASE TurnReturns(r)
  <2>1. pc[r] = "turn"
    BY <1>10 DEF TurnReturns, Delivered
  <2>2. PICK cs \in Batches :
           /\ calls' = calls + Len(cs)
           /\ \E done \in SUBSET CallIds(cs) : TurnLands(r, cs, done)
    BY <1>10 DEF TurnReturns
  <2>3. PICK done \in SUBSET CallIds(cs) : TurnLands(r, cs, done)
    BY <2>2
  <2>4. done \in SUBSET Nat
    BY <1>9, <2>3
  <2>5. QED BY <1>8, <1>9, <2>1, <2>2, <2>3, <2>4
<1>11. CASE TurnFails(r)
  <2>1. pc[r] = "turn" /\ "midTurnError" \in Env
    BY <1>11 DEF TurnFails, Delivered
  <2>2. PICK cs \in Batches : /\ calls' = calls + Len(cs)
                              /\ TurnLands(r, <<>>, CallIds(cs))
    BY <1>11 DEF TurnFails
  <2>3. <<>> \in Seq(Call) /\ CallIds(<<>>) = {}
    BY EmptySeq DEF CallIds
  <2>4. CallIds(<<>>) \subseteq (calls + 1)..(calls + Len(cs))
    BY <2>3
  <2> DEFINE none == <<>>
             done == CallIds(cs)
             k    == Len(cs)
  <2>5. /\ none \in Seq(Call) /\ none = <<>> /\ done \in SUBSET Nat /\ k \in Nat
        /\ calls' = calls + k /\ TurnLands(r, none, done)
        /\ CallIds(none) \subseteq (calls + 1)..(calls + k)
        /\ done \subseteq (calls + 1)..(calls + k)
    BY <1>9, <2>2, <2>3, <2>4
  <2> HIDE DEF none, done, k
  <2>6. QED BY <1>8, <2>1, <2>5
<1>12. CASE TurnThrows(r)
  <2>1. /\ pc[r] = "turn" /\ UNCHANGED <<messages, calls>> /\ pc'[r] = "ended"
    BY <1>1, <1>12 DEF TurnThrows, Delivered, Finally, Park, counts
  <2>2. QED BY <1>4, <2>1 DEF Owing
<1>13. CASE TurnEnds(r)
  <2>1. /\ pc[r] = "landed" /\ pc[r] \in InFlight /\ MayGoOn(r) /\ UNCHANGED calls
    BY <1>13 DEF TurnEnds, InFlight, Parked, counts
  <2>2. CASE turn[r].missing # {}
    <3>1. pc'[r] = "tools" /\ UNCHANGED <<messages, turn>>
      BY <1>1, <1>13, <2>2 DEF TurnEnds, Park
    <3>2. Owed' = Owed
      BY <1>2, <2>1, <3>1 DEF Owing, MayGoOn
    <3>3. QED BY <2>1, <3>1, <3>2, UntouchedSound
  <2>3. CASE turn[r].missing = {}
    <3>1. NoteAndLoop(r)
      BY <1>13, <2>3 DEF TurnEnds
    <3>2. QED BY <1>6, <2>1, <2>3, <3>1 DEF MayGoOn
  <2>4. QED BY <2>2, <2>3
<1>14. CASE TextTurnEnds(r)
  <2>1. /\ pc[r] = "landed" /\ pc[r] \in InFlight /\ pc'[r] = "returned"
        /\ UNCHANGED <<messages, calls>> /\ (~MayGoOn(r) \/ turn[r].calls = <<>>)
    BY <1>1, <1>14 DEF TextTurnEnds, Park, InFlight, Parked
  <2>2. CASE isStaleRun(r)
    <3>1. Owed' = Owed
      BY <1>3, <2>2
    <3>2. QED BY <2>1, <3>1, UntouchedSound
  <2>3. CASE ~isStaleRun(r)
    <3>1. turn[r].missing = {}
      <4>1. CASE "fallback" \notin Env
        BY <4>1 DEF Grounds, NothingLeftOver
      <4>2. CASE "fallback" \in Env
        <5>1. MayGoOn(r)
          BY <1>2, <2>1, <2>3, <4>2 DEF MayGoOn
        <5>2. QED BY <2>1, <5>1 DEF Grounds, MissingAreCalls
      <4>3. QED BY <4>1, <4>2
    <3>2. QED BY <1>4, <2>1, <3>1 DEF Owing
  <2>4. QED BY <2>2, <2>3
<1>15. CASE ToolReturns(r)
  <2>1. /\ pc[r] = "tools" /\ pc[r] \in InFlight /\ UNCHANGED calls
        /\ "fallback" \in Env
    BY <1>15 DEF ToolReturns, Delivered, InFlight, Parked, counts, Grounds,
                 NothingLeftOver
  <2>2. CASE isStaleRun(r)
    <3>1. UNCHANGED messages
      BY <1>15, <2>2 DEF ToolReturns
    <3>2. QED BY <1>3, <2>1, <2>2, <3>1, UntouchedSound
  <2>3. CASE ~isStaleRun(r)
    <3>1. Owed = turn[r].missing /\ ~abortRequested
      BY <1>2, <2>1, <2>3 DEF Owing
    <3>2. PICK c \in turn[r].missing :
             /\ messages' = messages \o Results(r, {c})
             /\ turn' = [turn EXCEPT ![r].missing = @ \ {c}]
             /\ IF turn[r].missing = {c} \/ abortRequested
                THEN Park(r, "toolsDone") ELSE UNCHANGED pc
      BY <1>15, <2>3 DEF ToolReturns
    <3>3. Owed' = Owed \ {c}
      <4>1. turn[r] \in [calls : Seq(Call), missing : SUBSET Nat]
        BY <1>1
      <4>2. turn'[r].missing = turn[r].missing \ {c}
        BY <1>1, <3>2, <4>1
      <4>3. CASE turn[r].missing = {c}
        <5>1. pc'[r] = "toolsDone"
          BY <1>1, <3>2, <4>3 DEF Park
        <5>2. QED BY <1>2, <2>1, <2>3, <3>1, <4>3, <5>1 DEF Owing
      <4>4. CASE turn[r].missing # {c}
        <5>1. pc' = pc
          BY <3>1, <3>2, <4>4
        <5>2. QED BY <1>2, <2>1, <2>3, <3>1, <4>2, <5>1 DEF Owing
      <4>5. QED BY <4>3, <4>4
    <3> DEFINE e == [kind |-> "toolResult", run |-> r, answers |-> {c}]
    <3>4. messages' = messages \o <<e>>
      BY <3>2 DEF Results
    <3>5. e \in Entry /\ e.kind = "toolResult" /\ e.answers = {c}
      BY <1>1, <3>2 DEF Entry
    <3> HIDE DEF e
    <3>6. messages' \in Seq(Entry) /\ OneMore(messages, messages', e)
      BY <1>1, <3>4, <3>5, OneMoreIs
    <3>7. e.answers # {} /\ e.answers \subseteq Owed /\ calls <= calls
      BY <1>1, <3>1, <3>2, <3>5
    <3>8. Sound(messages', calls, Owed \ e.answers)
      BY <1>1, <3>5, <3>6, <3>7, AnswerIsSound
    <3>9. QED BY <2>1, <3>3, <3>5, <3>8
  <2>4. QED BY <2>2, <2>3
<1>16. CASE ToolsDone(r)
  <2>1. /\ pc[r] = "toolsDone" /\ pc[r] \in InFlight /\ NoteAndLoop(r)
        /\ UNCHANGED calls /\ "fallback" \in Env
    BY <1>16 DEF ToolsDone, InFlight, Parked, counts, Grounds, NothingLeftOver
  <2>2. CASE isStaleRun(r)
    <3>1. Reminder(r, turn[r].calls) = <<>>
      BY <1>1, <2>1, ReminderType DEF TypeInv, TypeOK
    <3>2. messages' = messages \o Reminder(r, turn[r].calls)
      BY <2>1, <2>2 DEF NoteAndLoop, MayGoOn
    <3>3. messages' = messages
      BY <1>1, <3>1, <3>2
    <3>4. QED BY <1>3, <2>1, <2>2, <3>3, UntouchedSound
  <2>3. CASE ~isStaleRun(r)
    BY <1>2, <1>6, <2>1, <2>3 DEF Owing
  <2>4. QED BY <2>2, <2>3
<1>17. CASE DrainNext(r)
  <2>1. /\ pc[r] = "returned" /\ pc[r] \in InFlight /\ steerQueue # <<>>
        /\ UNCHANGED calls
    BY <1>17 DEF DrainNext, InFlight, Parked, counts
  <2>2. CASE isStaleRun(r)
    <3>1. "fallback" \notin Env
      BY <2>1, <2>2, StaleIsLate DEF Grounds, CleanInv, NothingForTheLate, Late,
                                     OwnerInv, TypeInv, TypeOK
    <3>2. Owed = {} /\ Owed' = {}
      BY <1>3, <2>2, <3>1 DEF Grounds, NothingLeftOver, Owed, OwedBy
    <3>3. messages' = messages \o Written(r, <<Head(steerQueue)>>)
      BY <1>17, <2>2 DEF DrainNext, Append_
    <3>4. <<Head(steerQueue)>> \in Seq(Msg)
      <4>1. Head(steerQueue) \in Msg
        BY <1>1, <2>1, HeadTailProperties DEF TypeInv, TypeOK
      <4>2. QED BY <4>1, OneElement
    <3> DEFINE ms == <<Head(steerQueue)>>
    <3>5. ms \in Seq(Msg) /\ messages' = messages \o Written(r, ms)
      BY <3>3, <3>4
    <3> HIDE DEF ms
    <3>6. Written(r, ms) \in Seq(Entry) /\ Plain(Written(r, ms))
      BY <1>1, <3>5, WrittenType, WrittenIsPlain
    <3>7. Sound(messages', calls, {})
      BY <1>1, <3>2, <3>5, <3>6, PlainIsSound
    <3>8. QED BY <2>1, <3>2, <3>7
  <2>3. CASE ~isStaleRun(r)
    <3>1. LoopTop(r, messages \o <<>>, <<>>, repeatSignature, repeatCount)
      BY <1>1, <1>17, <2>3 DEF DrainNext
    <3>2. pc[r] \notin Owing
      BY <2>1 DEF Owing
    <3>3. QED BY <1>1, <1>5, <2>1, <2>3, <3>1, <3>2
  <2>4. QED BY <2>2, <2>3
<1>18. CASE RunEnds(r)
  <2>1. /\ pc[r] = "returned" /\ UNCHANGED <<messages, calls>> /\ pc'[r] = "ended"
    BY <1>1, <1>18 DEF RunEnds, Finally, Park, counts
  <2>2. QED BY <1>4, <2>1 DEF Owing
<1>19. CASE Settle(r)
  <2>1. /\ pc[r] = "ended" /\ UNCHANGED <<messages, calls>> /\ pc'[r] = "done"
    BY <1>1, <1>19 DEF Settle, Park, counts
  <2>2. QED BY <1>4, <2>1 DEF Owing
<1>20. QED
  BY <1>7, <1>10, <1>11, <1>12, <1>13, <1>14, <1>15, <1>16, <1>17, <1>18, <1>19
     DEF RunStep

\* The transcript stays sound with a transport that runs every tool itself; and
\* with one that leaves calls over while stops come one at a time, nobody
\* queues while a stopped turn is out, and neither context nor reminders are
\* written in between.
LeftOversAreAlone ==
    "fallback" \in Env =>
        /\ MaxLate <= 1 /\ MaxContexts = 0 /\ RemindAt = {}
        /\ "lateSteer" \notin Env

LEMMA AnswersInvariance ==
  ASSUME LeftOversAreAlone
  PROVE  Spec => []AnswersInv /\ []Grounds
<1>1. Spec => []Grounds
  <2>1. Init => MissingAreCalls
    BY DEF Init, MissingAreCalls, NoTurn
  <2>2. TypeInv /\ MissingAreCalls /\ [Next]_vars => MissingAreCalls'
    <3>1. MissingAreCalls /\ UNCHANGED vars => MissingAreCalls'
      BY DEF vars, MissingAreCalls
    <3>2. QED BY <3>1, MissingStep
  <2>3. Spec => []MissingAreCalls
    BY <2>1, <2>2, TypeInvariance, PTL DEF Spec
  <2>4. CASE "fallback" \notin Env
    <3>1. TypeInv /\ NothingLeftOver /\ MissingAreCalls => Grounds
      BY <2>4 DEF Grounds
    <3>2. QED BY <2>3, <3>1, TypeInvariance, LeftOverInvariance, PTL
  <2>5. CASE "fallback" \in Env
    <3>1. Spec => []CleanInv
      BY <2>5, CleanInvariance DEF LeftOversAreAlone
    <3>2. Spec => []AbortEndsTheRun
      BY <2>5, AbortEnds DEF LeftOversAreAlone
    <3>3. TypeInv /\ NothingLeftOver /\ MissingAreCalls /\ CleanInv /\ AbortEndsTheRun
            => Grounds
      BY DEF Grounds
    <3>4. QED BY <2>3, <3>1, <3>2, <3>3, TypeInvariance, LeftOverInvariance, PTL
  <2>6. QED BY <2>4, <2>5
<1>2. Init => Sound(messages, calls, Owed)
  <2> SUFFICES ASSUME Init PROVE Sound(messages, calls, Owed)
    OBVIOUS
  <2>1. DOMAIN messages = {}
    BY DEF Init
  <2>2. Owed = {}
    BY DEF Init, Owed, OwedBy, Owing
  <2>3. QED
    BY <2>1, <2>2 DEF Sound, IdsAreCounted, BatchesAreApart, AnsweredOnce,
                      AnswersAreNear, AnswersHaveTurns, AllAreAnswered, OwedComeLast
<1>3. Grounds /\ Grounds' /\ Sound(messages, calls, Owed) /\ [Next]_vars
        => Sound(messages, calls, Owed)'
  <2> SUFFICES ASSUME Grounds, Grounds', Sound(messages, calls, Owed), [Next]_vars
               PROVE  Sound(messages', calls', Owed')
    OBVIOUS
  <2>1. NothingLeftOver'
    BY DEF Grounds
  <2>2. CASE UNCHANGED vars
    <3>1. Owed' = Owed /\ UNCHANGED <<messages, calls>>
      BY <2>2 DEF vars, control, counts, Owed
    <3>2. QED BY <3>1, UntouchedSound
  <2>3. CASE CallerStep
    BY <2>1, <2>3, CallerSound DEF LeftOversAreAlone
  <2>4. ASSUME NEW r \in Runs, RunStep(r)
        PROVE  Sound(messages', calls', Owed')
    BY <2>1, <2>4, RunStepSound DEF LeftOversAreAlone
  <2>5. QED BY <2>2, <2>3, <2>4 DEF Next
<1>4. Grounds /\ Sound(messages, calls, Owed) => AnswersInv
  BY DEF Grounds, AnswersInv
<1>5. QED BY <1>1, <1>2, <1>3, <1>4, PTL DEF Spec

\* "A provider rejects the NEXT request when an assistant message's tool calls
\* have no results" (agent.ts 272-278): whoever stopped, cut or failed what came
\* before, every request carries an answer to every call in the history.
THEOREM RequestsAreWhole ==
  ASSUME LeftOversAreAlone
  PROVE  Spec => []CallsAnsweredAtRequest
<1>1. ASSUME AnswersInv, Grounds
      PROVE  CallsAnsweredAtRequest
  <2> SUFFICES ASSUME NEW r \in Runs, pc[r] = "turn", Live(r),
                      NEW i \in DOMAIN messages, messages[i].kind = "assistant",
                      NEW c \in CallIds(messages[i].calls)
               PROVE  \E j \in (i+1)..Len(messages) :
                         messages[j].kind = "toolResult" /\ c \in messages[j].answers
    BY DEF CallsAnsweredAtRequest
  <2>1. DOMAIN messages = 1..Len(messages) /\ Len(messages) \in Nat
    BY <1>1, LenProperties DEF Grounds, TypeInv, TypeOK
  <2>2. Owed = {}
    <3>1. pc[r] \in InFlight /\ pc[r] \notin Owing
      BY DEF InFlight, Parked, Owing
    <3>2. CASE ~isStaleRun(r)
      BY <1>1, <3>1, <3>2, OwedNow
    <3>3. CASE isStaleRun(r)
      <4>1. "fallback" \notin Env
        BY <1>1, <3>1, <3>3, StaleIsLate DEF Grounds, CleanInv, Live
      <4>2. QED BY <1>1, <4>1 DEF Grounds, NothingLeftOver, Owed, OwedBy
    <3>4. QED BY <3>2, <3>3
  <2>3. PICK j \in DOMAIN messages : IsResult(messages, j) /\ c \in messages[j].answers
    BY <1>1, <2>2 DEF AnswersInv, Sound, AllAreAnswered, IsCall
  <2>4. i < j
    BY <1>1, <2>3 DEF AnswersInv, Sound, AnswersAreNear, IsCall
  <2>5. QED BY <2>1, <2>3, <2>4 DEF IsResult
<1>2. AnswersInv /\ Grounds => CallsAnsweredAtRequest
  BY <1>1
<1>3. QED BY <1>2, AnswersInvariance, PTL

\* "the order stays assistant(toolCalls) -> toolResults" (agent.ts 575-578) and
\* calls "must never run twice" (535-539): whoever stopped, cut or failed a turn,
\* results stay right behind the message of their turn and answer a call once.
THEOREM ResultsStayWithTurns ==
  ASSUME LeftOversAreAlone
  PROVE  Spec => []ResultsStayInTheirTurn
<1>1. ASSUME AnswersInv, Grounds
      PROVE  ResultsStayInTheirTurn
  <2>1. DOMAIN messages = 1..Len(messages) /\ Len(messages) \in Nat
    BY <1>1, LenProperties DEF Grounds, TypeInv, TypeOK
  <2>2. ASSUME NEW j \in DOMAIN messages, messages[j].kind = "toolResult"
        PROVE  \E i \in 1..(j-1) :
                  /\ messages[i].kind = "assistant"
                  /\ \A k \in (i+1)..j : messages[k].kind = "toolResult"
                  /\ \/ messages[j].answers \subseteq CallIds(messages[i].calls)
                     \/ /\ messages[i].calls = <<>>
                        /\ \A n \in DOMAIN messages :
                             messages[n].kind = "assistant" =>
                               messages[j].answers \cap CallIds(messages[n].calls) = {}
    <3>1. PICK i \in DOMAIN messages :
             /\ TurnOf(messages, i, j)
             /\ \/ messages[j].answers \subseteq CallIds(messages[i].calls)
                \/ messages[i].calls = <<>>
      BY <1>1, <2>2 DEF AnswersInv, Sound, AnswersHaveTurns, IsResult
    <3>2. /\ i \in 1..(j-1) /\ messages[i].kind = "assistant"
          /\ \A k \in (i+1)..j : messages[k].kind = "toolResult"
      BY <2>1, <3>1 DEF TurnOf, IsCall, IsResult
    <3>3. ASSUME messages[i].calls = <<>>, NEW n \in DOMAIN messages,
                 messages[n].kind = "assistant",
                 messages[j].answers \cap CallIds(messages[n].calls) # {}
          PROVE  FALSE
      <4>1. n < j /\ \A k \in (n+1)..j : messages[k].kind = "toolResult"
        BY <1>1, <2>2, <3>3 DEF AnswersInv, Sound, AnswersAreNear, IsCall, IsResult
      <4>2. i = n
        BY <2>1, <3>2, <3>3, <4>1
      <4>3. QED BY <3>3, <4>2 DEF CallIds
    <3>4. QED BY <3>1, <3>2, <3>3
  <2>3. \A j, k \in DOMAIN messages :
           messages[j].kind = "toolResult" /\ messages[k].kind = "toolResult" /\ k # j =>
              messages[j].answers \cap messages[k].answers = {}
    BY <1>1 DEF AnswersInv, Sound, AnsweredOnce, IsResult
  <2>4. QED BY <2>2, <2>3 DEF ResultsStayInTheirTurn
<1>2. AnswersInv /\ Grounds => ResultsStayInTheirTurn
  BY <1>1
<1>3. QED BY <1>2, AnswersInvariance, PTL

-----------------------------------------------------------------------------
(***************************************************************************)
(* The repeat guard (agent.ts 833-858): the count is backed by calls that  *)
(* stand in a row in the transcript, so a reminder is earned by them.      *)
(***************************************************************************)

\* The calls of a transcript, by entry and place in their batch; those from p
\* to q; and those of them that are calls of sig.
Places(log) ==
    UNION {{k} \X DOMAIN log[k].calls : k \in {j \in DOMAIN log : IsCall(log, j)}}
Between(log, p, q) == {x \in Places(log) : NotAfter(p, x) /\ NotAfter(x, q)}
Named(log, p, q, sig) ==
    {x \in Between(log, p, q) : log[x[1]].calls[x[2]].sig = sig}

\* The last batch of each stopped run.
LastOf(log, stopped) ==
    {k \in DOMAIN log :
        /\ IsCall(log, k) /\ log[k].run \in stopped
        /\ \A j \in (k+1)..Len(log) : IsCall(log, j) => log[j].run # log[k].run}

\* From p to q there are calls of sig and what stopped runs left uncounted.
InARow(log, stopped, p, q, sig) ==
    /\ p \in Places(log) /\ q \in Named(log, p, q, sig)
    /\ \A x \in Between(log, p, q) :
          x \in Named(log, p, q, sig) \/ x[1] \in LastOf(log, stopped)

\* No user spoke between the entries a and b.
NoUser(log, a, b) ==
    \A k \in a..b : log[k].kind = "message" => log[k].msg.role # "user"

\* The n-th entry is a reminder that is earned.
EarnedAt(log, stopped, n) ==
    \E p, q \in Places(log) :
        /\ InARow(log, stopped, p, q, log[n].sig)
        /\ Cardinality(Named(log, p, q, log[n].sig)) \in RemindAt
        /\ q[1] < n /\ \A k \in (q[1]+1)..n : ~IsCall(log, k)
        /\ NoUser(log, p[1], n)
AllEarned(log, stopped) ==
    \A n \in DOMAIN log : log[n].kind = "reminder" => EarnedAt(log, stopped, n)

\* The guard's count is backed: so many calls of its signature stand in a row,
\* and behind them only what was not counted or waits to be (open).
Backed(log, stopped, open, sig, n) ==
    \E p, q \in Places(log) :
        /\ InARow(log, stopped, p, q, sig)
        /\ n <= Cardinality(Named(log, p, q, sig))
        /\ NoUser(log, p[1], Len(log))
        /\ q[1] \notin open
        /\ \A x \in Places(log) :
              NotAfter(x, q) \/ x[1] \in LastOf(log, stopped) \cup open

\* The batch the live run has recorded and not counted yet.
Landed(k) ==
    /\ k \in DOMAIN messages /\ IsCall(messages, k)
    /\ \A j \in (k+1)..Len(messages) : ~IsCall(messages, j)
    /\ runningInner /\ pc[runId] = "landed" /\ messages[k].run = runId
Uncounted == {k \in DOMAIN messages : Landed(k)}

CountIsBacked ==
    repeatCount > 0 => Backed(messages, abandoned, Uncounted, repeatSignature, repeatCount)

\* The calls of a turn that landed are the last batch, and no user spoke since.
BatchIsLast ==
    runningInner /\ pc[runId] = "landed" =>
        \E k \in DOMAIN messages :
            /\ Landed(k) /\ messages[k].calls = turn[runId].calls
            /\ NoUser(messages, k, Len(messages))

EarnInv == AllEarned(messages, abandoned) /\ CountIsBacked /\ BatchIsLast

\* A finite set of places has a first one: the set of the places before it is
\* minimal.
LEMMA FirstPlace ==
  ASSUME NEW D, IsFiniteSet(D), D # {}, D \subseteq Nat \X Nat
  PROVE  \E f \in D : \A x \in D : NotAfter(f, x)
<1> DEFINE before(f) == {x \in D : ~NotAfter(f, x)}
           T == {before(f) : f \in D}
<1>1. T \subseteq FiniteSubsetsOf(D) /\ T # {}
  <2>1. FiniteSubsetsOf(D) = SUBSET D
    BY FS_FiniteSubsetsOfFinite
  <2>2. ASSUME NEW y \in T
        PROVE  y \in FiniteSubsetsOf(D)
    BY <2>1
  <2>3. T # {}
    OBVIOUS
  <2>4. QED BY <2>2, <2>3
<1>2. PICK b \in T : \A y \in T : ~ (<<y, b>> \in StrictSubsetOrdering(D))
  BY <1>1, FS_StrictSubsetOrderingWellFounded, WFMin, Zenon
<1>3. PICK f \in D : b = before(f)
  BY <1>2
<1>4. \A x, y \in D : /\ NotAfter(x, y) \/ NotAfter(y, x)
                      /\ NotAfter(x, x)
  BY DEF NotAfter
<1>5. \A x, y, z \in D : NotAfter(x, y) /\ NotAfter(y, z) => NotAfter(x, z)
  BY DEF NotAfter
<1>6. ASSUME NEW x \in D, ~NotAfter(f, x)
      PROVE  FALSE
  <2>1. before(x) \subseteq before(f)
    BY <1>4, <1>5, <1>6
  <2>2. x \in before(f) /\ x \notin before(x)
    BY <1>4, <1>6
  <2>3. <<before(x), before(f)>> \in StrictSubsetOrdering(D)
    BY <2>1, <2>2 DEF StrictSubsetOrdering
  <2>4. QED BY <1>2, <1>3, <2>3
<1>7. QED BY <1>6

\* What the places of a transcript are.
LEMMA PlacesAre ==
  ASSUME NEW log \in Seq(Entry)
  PROVE  /\ Places(log) \subseteq Nat \X Nat
         /\ \A k, i : <<k, i>> \in Places(log) <=>
                k \in 1..Len(log) /\ IsCall(log, k) /\ i \in 1..Len(log[k].calls)
         /\ \A x \in Places(log) :
                /\ x = <<x[1], x[2]>> /\ x[1] \in 1..Len(log) /\ IsCall(log, x[1])
                /\ x[2] \in 1..Len(log[x[1]].calls)
         /\ \A k \in 1..Len(log) : IsCall(log, k) => log[k].calls \in Seq(Call)
<1>1. DOMAIN log = 1..Len(log) /\ Len(log) \in Nat
  BY LenProperties
<1>2. ASSUME NEW k \in 1..Len(log), IsCall(log, k)
      PROVE  log[k].calls \in Seq(Call) /\ DOMAIN log[k].calls = 1..Len(log[k].calls)
  <2>1. log[k] \in Entry
    BY ElementOfSeq
  <2>2. log[k].calls \in Seq(Call)
    BY <1>2, <2>1 DEF IsCall, Entry
  <2>3. QED BY <2>2, LenProperties
<1>3. \A x : x \in Places(log) <=>
         \E k \in 1..Len(log) : IsCall(log, k) /\ x \in {k} \X (1..Len(log[k].calls))
  BY <1>1, <1>2 DEF Places
<1>4. ASSUME NEW x \in Places(log)
      PROVE  /\ x = <<x[1], x[2]>> /\ x[1] \in 1..Len(log) /\ IsCall(log, x[1])
             /\ x[2] \in 1..Len(log[x[1]].calls) /\ x \in Nat \X Nat
  BY <1>3
<1>5. \A k, i : <<k, i>> \in Places(log) <=>
          k \in 1..Len(log) /\ IsCall(log, k) /\ i \in 1..Len(log[k].calls)
  BY <1>3
<1>6. QED BY <1>2, <1>4, <1>5

\* There are finitely many of them.
LEMMA PlacesFinite ==
  ASSUME NEW log \in Seq(Entry), NEW T, T \subseteq Places(log)
  PROVE  IsFiniteSet(T)
<1>1. DOMAIN log = 1..Len(log) /\ Len(log) \in Nat
  BY LenProperties
<1> DEFINE K == {j \in DOMAIN log : IsCall(log, j)}
           at(k) == {k} \X DOMAIN log[k].calls
           U == {at(k) : k \in K}
<1>2. IsFiniteSet(K)
  <2>1. IsFiniteSet(1..Len(log))
    BY <1>1, FS_Interval
  <2>2. K \in SUBSET (1..Len(log))
    BY <1>1
  <2> HIDE DEF K
  <2>3. QED BY <2>1, <2>2, FS_Subset
<1>3. IsFiniteSet(U)
  <2> DEFINE f == [k \in K |-> at(k)]
  <2>1. f \in [K -> U] /\ \A u \in U : \E k \in K : f[k] = u
    BY Zenon
  <2>2. f \in Surjection(K, U)
    BY <2>1, Zenon DEF Surjection
  <2> HIDE DEF f, K, U
  <2>3. QED BY <1>2, <2>2, FS_Surjection
<1>4. ASSUME NEW u \in U
      PROVE  IsFiniteSet(u)
  <2>1. PICK k \in K : u = at(k)
    OBVIOUS
  <2>2. log[k].calls \in Seq(Call)
    BY <1>1, PlacesAre
  <2>3. DOMAIN log[k].calls = 1..Len(log[k].calls) /\ Len(log[k].calls) \in Nat
    BY <2>2, LenProperties
  <2>4. IsFiniteSet(1..Len(log[k].calls))
    BY <2>3, FS_Interval
  <2>5. IsFiniteSet({k})
    BY FS_Singleton
  <2>6. IsFiniteSet({k} \X (1..Len(log[k].calls)))
    BY <2>4, <2>5, FS_Product
  <2>7. QED BY <2>1, <2>3, <2>6
<1>5. IsFiniteSet(UNION U)
  BY <1>3, <1>4, FS_UNION
<1>6. Places(log) = UNION U
  BY DEF Places
<1>7. QED BY <1>5, <1>6, FS_Subset

\* A row is long enough for every number up to its length: its first calls may
\* be left out.
LEMMA Exactly ==
  ASSUME NEW log \in Seq(Entry), NEW stopped, NEW p, NEW q, NEW sig,
         InARow(log, stopped, p, q, sig),
         NEW n \in Nat, 1 <= n, n <= Cardinality(Named(log, p, q, sig))
  PROVE  \E f \in Places(log) :
            /\ InARow(log, stopped, f, q, sig) /\ p[1] <= f[1]
            /\ Cardinality(Named(log, f, q, sig)) = n
<1> DEFINE N == Named(log, p, q, sig)
           after(f) == {x \in N : NotAfter(f, x)}
           UpTo(T) == \A x \in T, y \in N : NotAfter(x, y) => y \in T
           W == {T \in SUBSET N : UpTo(T) /\ n <= Cardinality(T)}
<1>1. N \subseteq Places(log) /\ Places(log) \subseteq Nat \X Nat /\ p \in Places(log)
      /\ q \in N
  BY PlacesAre DEF Named, Between, InARow
<1>2. \A x, y \in Places(log) : /\ NotAfter(x, y) \/ NotAfter(y, x)
                                /\ NotAfter(x, x)
                                /\ NotAfter(x, y) /\ NotAfter(y, x) => x = y
                                /\ NotAfter(x, y) => x[1] <= y[1]
  BY <1>1 DEF NotAfter
<1>3. \A x, y, z \in Places(log) : NotAfter(x, y) /\ NotAfter(y, z) => NotAfter(x, z)
  BY <1>1 DEF NotAfter
<1>4. IsFiniteSet(N)
  BY <1>1, PlacesFinite
<1>5. N \in W
  OBVIOUS
<1> HIDE DEF N
<1>6. W \subseteq FiniteSubsetsOf(N) /\ W # {}
  <2>1. FiniteSubsetsOf(N) = SUBSET N
    BY <1>4, FS_FiniteSubsetsOfFinite
  <2>2. QED BY <1>5, <2>1
<1> HIDE DEF W
<1>7. PICK T \in W : \A y \in W : ~ (<<y, T>> \in StrictSubsetOrdering(N))
  BY <1>6, FS_StrictSubsetOrderingWellFounded, WFMin, Zenon
<1>8. T \subseteq N /\ UpTo(T) /\ n <= Cardinality(T)
  BY <1>7 DEF W
<1>9. IsFiniteSet(T) /\ Cardinality(T) \in Nat
  BY <1>4, <1>8, FS_Subset, FS_CardinalityType
<1>10. T # {}
  <2>1. Cardinality({}) = 0
    BY FS_EmptySet
  <2>2. 0 < Cardinality(T)
    BY <1>8, <1>9
  <2>3. T = {} => Cardinality(T) = Cardinality({})
    OBVIOUS
  <2>4. QED BY <2>1, <2>2, <2>3
<1>11. PICK f \in T : \A x \in T : NotAfter(f, x)
  <2>1. T \subseteq Nat \X Nat
    BY <1>1, <1>8
  <2>2. QED BY <1>9, <1>10, <2>1, FirstPlace
<1>12. Cardinality(T) = n
  <2>1. SUFFICES ASSUME n < Cardinality(T)
                 PROVE  FALSE
    BY <1>8, <1>9
  <2> DEFINE V == T \ {f}
  <2>2. Cardinality(V) = Cardinality(T) - 1
    BY <1>9, FS_RemoveElement
  <2>3. n <= Cardinality(V)
    BY <1>9, <2>1, <2>2
  <2>4. UpTo(V)
    <3>1. ASSUME NEW x \in V, NEW y \in N, NotAfter(x, y)
          PROVE  y \in V
      <4>1. y \in T
        BY <1>8, <3>1
      <4>2. y # f
        BY <1>1, <1>2, <1>8, <1>11, <3>1
      <4>3. QED BY <4>1, <4>2
    <3>2. QED BY <3>1
  <2>5. V \in W
    BY <1>8, <2>3, <2>4 DEF W
  <2>6. <<V, T>> \in StrictSubsetOrdering(N)
    BY <1>8 DEF StrictSubsetOrdering
  <2>7. QED BY <1>7, <2>5, <2>6
<1>13. f \in Places(log) /\ f \in N /\ NotAfter(p, f)
  BY <1>1, <1>8 DEF N, Named, Between
<1>14. \A x \in N : x \in T <=> NotAfter(f, x)
  BY <1>8, <1>11
<1>15. Between(log, f, q) \subseteq Between(log, p, q)
  BY <1>1, <1>3, <1>13 DEF Between
<1>16. \A x \in Between(log, p, q) : x \in Between(log, f, q) <=> NotAfter(f, x)
  BY DEF Between
<1>17. \A x \in Between(log, f, q) : x \in Named(log, f, q, sig) <=> x \in N
  BY <1>15 DEF N, Named
<1>18. N \subseteq Between(log, p, q)
  BY DEF N, Named
<1>19. Named(log, f, q, sig) = T
  <2>1. Named(log, f, q, sig) \subseteq Between(log, f, q)
    BY DEF Named
  <2>2. ASSUME NEW x
        PROVE  x \in Named(log, f, q, sig) <=> x \in T
    BY <1>8, <1>14, <1>15, <1>16, <1>17, <1>18, <2>1
  <2>3. QED BY <2>2
<1>20. InARow(log, stopped, f, q, sig)
  <2>1. q \in Named(log, f, q, sig)
    <3>1. NotAfter(f, q)
      BY <1>1, <1>13 DEF N, Named, Between
    <3>2. QED BY <1>1, <1>14, <1>19, <3>1
  <2>2. \A x \in Between(log, f, q) :
           x \in Named(log, f, q, sig) \/ x[1] \in LastOf(log, stopped)
    BY <1>15, <1>17 DEF InARow, N
  <2>3. QED BY <1>13, <2>1, <2>2 DEF InARow
<1>21. p[1] <= f[1]
  BY <1>1, <1>2, <1>13
<1>22. QED BY <1>12, <1>13, <1>19, <1>20, <1>21

\* What the guard counts in a batch: the calls that end with the i-th and are
\* all like it.
LEMMA RunLengthIs ==
  ASSUME NEW cs \in Seq(Call), NEW i \in 1..Len(cs)
  PROVE  /\ RunLength(cs, i) \in 1..i
         /\ \A k \in (i - RunLength(cs, i) + 1)..i : cs[k].sig = cs[i].sig
<1> DEFINE S == {j \in 1..i : \A k \in j..i : cs[k].sig = cs[i].sig}
<1>1. Len(cs) \in Nat /\ i \in Nat
  BY LenProperties
<1>2. i \in S /\ S \subseteq 1..i
  BY <1>1
<1>3. PICK m \in S : \A j \in S : m <= j
  <2> DEFINE D == {i + 1 - j : j \in S}
  <2>1. D \subseteq 1..i /\ D # {}
    BY <1>1, <1>2
  <2>2. PICK d \in D : \A x \in D : x <= d
    BY <1>1, <2>1, LastPosition
  <2>3. PICK j \in S : d = i + 1 - j
    OBVIOUS
  <2>4. ASSUME NEW k \in S
        PROVE  j <= k
    <3>1. i + 1 - k <= i + 1 - j
      BY <2>2, <2>3
    <3>2. QED BY <1>1, <1>2, <3>1
  <2>5. QED BY <2>4
<1>4. \A k \in m..i : cs[k].sig = cs[i].sig
  OBVIOUS
<1>5. S = m..i
  <2>1. \A j \in m..i : j \in 1..i /\ \A k \in j..i : k \in m..i
    BY <1>1, <1>2
  <2>2. m..i \subseteq S
    BY <1>4, <2>1
  <2>3. S \subseteq m..i
    BY <1>1, <1>2, <1>3
  <2>4. QED BY <2>2, <2>3
<1> HIDE DEF S
<1>6. m \in 1..i
  BY <1>2, <1>3
<1>7. Cardinality(m..i) = i - m + 1
  BY <1>1, <1>6, FS_Interval
<1>8. RunLength(cs, i) = i - m + 1
  BY <1>5, <1>7 DEF RunLength, S
<1>9. RunLength(cs, i) \in 1..i /\ i - RunLength(cs, i) + 1 = m
  BY <1>1, <1>6, <1>8
<1>10. QED BY <1>4, <1>9

\* The transcript new goes on from log or is what a cut left of it, and gives
\* nothing to the runs that were stopped by then.
Follows(log, stopped, new, stopped2) ==
    /\ stopped \subseteq stopped2
    /\ \A i \in DOMAIN new :
          IF i <= Len(log) THEN new[i] = log[i]
                           ELSE IsCall(new, i) => new[i].run \notin stopped

\* The last batch of a stopped run stays its last.
LEMMA LastOfKept ==
  ASSUME NEW log \in Seq(Entry), NEW new \in Seq(Entry), NEW stopped, NEW stopped2,
         Follows(log, stopped, new, stopped2), NEW k \in LastOf(log, stopped),
         k <= Len(new)
  PROVE  k \in LastOf(new, stopped2)
<1>1. /\ DOMAIN log = 1..Len(log) /\ DOMAIN new = 1..Len(new)
      /\ Len(log) \in Nat /\ Len(new) \in Nat
  BY LenProperties
<1>2. /\ k \in 1..Len(log) /\ IsCall(log, k) /\ log[k].run \in stopped
      /\ \A j \in (k+1)..Len(log) : IsCall(log, j) => log[j].run # log[k].run
  BY <1>1 DEF LastOf
<1>3. \A i \in 1..Len(new) : IF i <= Len(log) THEN new[i] = log[i]
                             ELSE IsCall(new, i) => new[i].run \notin stopped
  BY <1>1 DEF Follows
<1>4. k \in 1..Len(new) /\ new[k] = log[k] /\ IsCall(new, k)
  BY <1>1, <1>2, <1>3 DEF IsCall
<1>5. new[k].run \in stopped2
  BY <1>2, <1>4 DEF Follows
<1>6. ASSUME NEW j \in (k+1)..Len(new), IsCall(new, j)
      PROVE  new[j].run # new[k].run
  <2>1. j \in 1..Len(new)
    BY <1>1, <1>2
  <2>2. CASE j <= Len(log)
    <3>1. j \in (k+1)..Len(log) /\ new[j] = log[j]
      BY <1>1, <1>2, <1>3, <2>1, <2>2
    <3>2. IsCall(log, j)
      BY <1>6, <3>1 DEF IsCall
    <3>3. QED BY <1>2, <1>4, <3>1, <3>2
  <2>3. CASE ~(j <= Len(log))
    BY <1>2, <1>3, <1>4, <1>6, <2>1, <2>3
  <2>4. QED BY <2>2, <2>3
<1>7. QED BY <1>1, <1>4, <1>5, <1>6 DEF LastOf

\* So a row of calls that is still there is still a row.
LEMMA RowKept ==
  ASSUME NEW log \in Seq(Entry), NEW new \in Seq(Entry), NEW stopped, NEW stopped2,
         Follows(log, stopped, new, stopped2), NEW p, NEW q, NEW sig,
         InARow(log, stopped, p, q, sig), q[1] <= Len(new)
  PROVE  /\ InARow(new, stopped2, p, q, sig)
         /\ Named(new, p, q, sig) = Named(log, p, q, sig)
         /\ p[1] \in 1..q[1] /\ q[1] \in 1..Len(log)
         /\ \A k \in 1..q[1] : new[k] = log[k]
<1>1. /\ DOMAIN log = 1..Len(log) /\ DOMAIN new = 1..Len(new)
      /\ Len(log) \in Nat /\ Len(new) \in Nat
  BY LenProperties
<1>2. p \in Places(log) /\ q \in Places(log) /\ NotAfter(p, q)
  BY DEF InARow, Named, Between
<1>3. p[1] \in 1..q[1] /\ q[1] \in 1..Len(log)
  <2>1. p[1] \in 1..Len(log) /\ q[1] \in 1..Len(log)
    BY <1>2, PlacesAre
  <2>2. p[1] <= q[1]
    BY <1>2, <2>1 DEF NotAfter
  <2>3. QED BY <1>1, <2>1, <2>2
<1>4. \A k \in 1..q[1] : k \in 1..Len(log) /\ k \in 1..Len(new) /\ new[k] = log[k]
  BY <1>1, <1>3 DEF Follows
<1>5. \A x : x[1] \in 1..q[1] => (x \in Places(new) <=> x \in Places(log))
  <2>1. ASSUME NEW x, x[1] \in 1..q[1]
        PROVE  x \in Places(new) <=> x \in Places(log)
    <3>1. new[x[1]] = log[x[1]] /\ (IsCall(new, x[1]) <=> IsCall(log, x[1]))
      BY <1>4, <2>1 DEF IsCall
    <3>2. x[1] \in 1..Len(log) /\ x[1] \in 1..Len(new)
      BY <1>4, <2>1
    <3>3. x \in Places(log) => x = <<x[1], x[2]>>
      BY PlacesAre
    <3>4. x \in Places(new) => x = <<x[1], x[2]>>
      BY PlacesAre
    <3>5. <<x[1], x[2]>> \in Places(log) <=>
             x[1] \in 1..Len(log) /\ IsCall(log, x[1]) /\ x[2] \in 1..Len(log[x[1]].calls)
      BY PlacesAre
    <3>6. <<x[1], x[2]>> \in Places(new) <=>
             x[1] \in 1..Len(new) /\ IsCall(new, x[1]) /\ x[2] \in 1..Len(new[x[1]].calls)
      BY PlacesAre
    <3>7. CASE x = <<x[1], x[2]>>
      BY <3>1, <3>2, <3>5, <3>6, <3>7
    <3>8. QED BY <3>3, <3>4, <3>7
  <2>2. QED BY <2>1
<1>6. \A x \in Places(log) \cup Places(new) : NotAfter(x, q) => x[1] \in 1..q[1]
  <2>1. ASSUME NEW x \in Places(log) \cup Places(new), NotAfter(x, q)
        PROVE  x[1] \in 1..q[1]
    <3>1. x[1] \in Nat /\ 1 <= x[1]
      BY PlacesAre, <1>1
    <3>2. QED BY <1>3, <2>1, <3>1 DEF NotAfter
  <2>2. QED BY <2>1
<1>7. Between(new, p, q) = Between(log, p, q)
  BY <1>5, <1>6 DEF Between
<1>8. \A x \in Between(log, p, q) : x[1] \in 1..q[1]
  BY <1>6 DEF Between
<1>9. Named(new, p, q, sig) = Named(log, p, q, sig)
  BY <1>4, <1>7, <1>8 DEF Named
<1>10. p \in Places(new)
  BY <1>2, <1>3, <1>5
<1>11. \A x \in Between(log, p, q) :
          x[1] \in LastOf(log, stopped) => x[1] \in LastOf(new, stopped2)
  BY <1>1, <1>4, <1>8, LastOfKept
<1>12. InARow(new, stopped2, p, q, sig)
  BY <1>7, <1>9, <1>10, <1>11 DEF InARow
<1>13. QED BY <1>3, <1>4, <1>9, <1>12

\* A reminder that is still there is still earned.
LEMMA EarnedKept ==
  ASSUME NEW log \in Seq(Entry), NEW new \in Seq(Entry), NEW stopped, NEW stopped2,
         Follows(log, stopped, new, stopped2), NEW n \in DOMAIN new, n <= Len(log),
         EarnedAt(log, stopped, n)
  PROVE  EarnedAt(new, stopped2, n)
<1>1. /\ DOMAIN log = 1..Len(log) /\ DOMAIN new = 1..Len(new)
      /\ Len(log) \in Nat /\ Len(new) \in Nat
  BY LenProperties
<1>2. \A k \in 1..n : new[k] = log[k] /\ (IsCall(new, k) <=> IsCall(log, k))
  BY <1>1 DEF Follows, IsCall
<1>3. PICK p, q \in Places(log) :
        /\ InARow(log, stopped, p, q, log[n].sig)
        /\ Cardinality(Named(log, p, q, log[n].sig)) \in RemindAt
        /\ q[1] < n /\ \A k \in (q[1]+1)..n : ~IsCall(log, k)
        /\ NoUser(log, p[1], n)
  BY DEF EarnedAt
<1>4. q[1] \in 1..Len(log) /\ q[1] <= Len(new)
  BY <1>1, <1>3, PlacesAre
<1>5. /\ InARow(new, stopped2, p, q, log[n].sig)
      /\ Named(new, p, q, log[n].sig) = Named(log, p, q, log[n].sig)
      /\ p[1] \in 1..q[1]
  BY <1>3, <1>4, RowKept
<1>6. new[n] = log[n]
  BY <1>1, <1>2
<1>7. \A k \in (q[1]+1)..n : ~IsCall(new, k)
  BY <1>1, <1>2, <1>3, <1>4
<1>8. NoUser(new, p[1], n)
  BY <1>1, <1>2, <1>3, <1>5 DEF NoUser
<1>9. p \in Places(new) /\ q \in Places(new)
  BY <1>5 DEF InARow, Named, Between
<1>10. QED BY <1>3, <1>5, <1>6, <1>7, <1>8, <1>9 DEF EarnedAt

\* The count stays backed while the transcript grows: what is new is no user's,
\* and the batches among it wait for their count.
LEMMA BackedKept ==
  ASSUME NEW log \in Seq(Entry), NEW new \in Seq(Entry), NEW stopped, NEW stopped2,
         Follows(log, stopped, new, stopped2), Len(log) <= Len(new),
         NEW open, NEW open2, NEW sig, NEW n, Backed(log, stopped, open, sig, n),
         NoUser(new, Len(log) + 1, Len(new)),
         \A k \in open : k \in DOMAIN log =>
             log[k].calls = <<>> \/ k \in LastOf(new, stopped2) \cup open2,
         \A k \in open2 : k \in open \/ ~(k <= Len(log)),
         \A k \in (Len(log) + 1)..Len(new) : IsCall(new, k) => k \in open2
  PROVE  Backed(new, stopped2, open2, sig, n)
<1>1. /\ DOMAIN log = 1..Len(log) /\ DOMAIN new = 1..Len(new)
      /\ Len(log) \in Nat /\ Len(new) \in Nat
  BY LenProperties
<1>2. PICK p, q \in Places(log) :
        /\ InARow(log, stopped, p, q, sig)
        /\ n <= Cardinality(Named(log, p, q, sig))
        /\ NoUser(log, p[1], Len(log))
        /\ q[1] \notin open
        /\ \A x \in Places(log) :
              NotAfter(x, q) \/ x[1] \in LastOf(log, stopped) \cup open
  BY DEF Backed
<1>3. q[1] \in 1..Len(log) /\ q[1] <= Len(new)
  BY <1>1, <1>2, PlacesAre
<1>4. /\ InARow(new, stopped2, p, q, sig)
      /\ Named(new, p, q, sig) = Named(log, p, q, sig)
      /\ p[1] \in 1..q[1]
  BY <1>2, <1>3, RowKept
<1>5. p \in Places(new) /\ q \in Places(new)
  BY <1>4 DEF InARow, Named, Between
<1>6. \A k \in 1..Len(log) : k \in 1..Len(new) /\ new[k] = log[k]
                             /\ (IsCall(new, k) <=> IsCall(log, k))
  BY <1>1 DEF Follows, IsCall
<1>7. NoUser(new, p[1], Len(new))
  <2>1. ASSUME NEW k \in p[1]..Len(new)
        PROVE  new[k].kind = "message" => new[k].msg.role # "user"
    <3>1. CASE k <= Len(log)
      BY <1>1, <1>2, <1>3, <1>4, <1>6, <3>1 DEF NoUser
    <3>2. CASE ~(k <= Len(log))
      <4>1. k \in (Len(log) + 1)..Len(new)
        BY <1>1, <1>3, <1>4, <3>2
      <4>2. QED BY <4>1 DEF NoUser
    <3>3. QED BY <3>1, <3>2
  <2>2. QED BY <2>1 DEF NoUser
<1>8. q[1] \notin open2
  BY <1>1, <1>2, <1>3
<1>9. ASSUME NEW x \in Places(new), ~NotAfter(x, q)
      PROVE  x[1] \in LastOf(new, stopped2) \cup open2
  <2>1. x = <<x[1], x[2]>> /\ x[1] \in 1..Len(new) /\ IsCall(new, x[1])
        /\ x[2] \in 1..Len(new[x[1]].calls)
    BY PlacesAre
  <2>2. CASE x[1] <= Len(log)
    <3>1. x[1] \in 1..Len(log)
      BY <1>1, <2>1, <2>2
    <3>2. new[x[1]] = log[x[1]] /\ IsCall(log, x[1])
      BY <1>6, <2>1, <3>1
    <3>3. x \in Places(log)
      <4>1. <<x[1], x[2]>> \in Places(log)
        BY <2>1, <3>1, <3>2, PlacesAre
      <4>2. QED BY <2>1, <4>1
    <3>4. CASE x[1] \in LastOf(log, stopped)
      BY <1>6, <1>1, <2>1, <3>4, LastOfKept
    <3>5. CASE x[1] \in open
      <4>1. log[x[1]].calls # <<>>
        <5>1. Len(log[x[1]].calls) \in Nat /\ Len(log[x[1]].calls) # 0
          <6>1. log[x[1]].calls \in Seq(Call)
            BY <3>1, <3>2, PlacesAre
          <6>2. Len(log[x[1]].calls) \in Nat
            BY <6>1, LenProperties
          <6>3. QED BY <2>1, <3>2, <6>2
        <5>2. Len(<<>>) = 0
          BY EmptySeq
        <5>3. QED BY <5>1, <5>2
      <4>2. QED BY <1>1, <3>1, <3>5, <4>1
    <3>6. QED BY <1>2, <1>9, <3>3, <3>4, <3>5
  <2>3. CASE ~(x[1] <= Len(log))
    <3>1. x[1] \in (Len(log) + 1)..Len(new)
      BY <1>1, <2>1, <2>3
    <3>2. QED BY <2>1, <3>1
  <2>4. QED BY <2>2, <2>3
<1>10. QED BY <1>2, <1>4, <1>5, <1>7, <1>8, <1>9 DEF Backed

\* At most one batch waits for its count, and it is the last one.
LEMMA OneUncounted ==
  ASSUME messages \in Seq(Entry), NEW k, Landed(k)
  PROVE  /\ Uncounted = {k} /\ k \in 1..Len(messages) /\ IsCall(messages, k)
         /\ \A j \in 1..Len(messages) : IsCall(messages, j) => j <= k
<1>1. DOMAIN messages = 1..Len(messages) /\ Len(messages) \in Nat
  BY LenProperties
<1>2. /\ k \in 1..Len(messages) /\ IsCall(messages, k)
      /\ \A j \in (k+1)..Len(messages) : ~IsCall(messages, j)
  BY <1>1 DEF Landed
<1>3. \A j \in 1..Len(messages) : IsCall(messages, j) => j <= k
  BY <1>1, <1>2
<1>4. ASSUME NEW j, Landed(j)
      PROVE  j = k
  <2>1. /\ j \in 1..Len(messages) /\ IsCall(messages, j)
        /\ \A i \in (j+1)..Len(messages) : ~IsCall(messages, i)
    BY <1>1, <1>4 DEF Landed
  <2>2. j <= k
    BY <1>3, <2>1
  <2>3. ~(j < k)
    BY <1>1, <1>2, <2>1
  <2>4. QED BY <1>1, <1>2, <2>1, <2>2, <2>3
<1>5. k \in Uncounted
  BY DEF Uncounted, Landed
<1>6. Uncounted = {k}
  BY <1>4, <1>5 DEF Uncounted
<1>7. QED BY <1>2, <1>3, <1>6

\* The calls of one batch from the a-th to the i-th.
LEMMA BatchPlaces ==
  ASSUME messages \in Seq(Entry), NEW k \in 1..Len(messages), IsCall(messages, k),
         NEW i \in 1..Len(messages[k].calls), NEW a \in 1..i
  PROVE  /\ Between(messages, <<k, a>>, <<k, i>>) = {k} \X (a..i)
         /\ IsFiniteSet({k} \X (a..i)) /\ Cardinality({k} \X (a..i)) = i - a + 1
<1>1. Len(messages) \in Nat /\ Len(messages[k].calls) \in Nat /\ k \in Nat
  <2>1. messages[k].calls \in Seq(Call)
    BY PlacesAre
  <2>2. QED BY <2>1, LenProperties
<1>2. ASSUME NEW x \in Between(messages, <<k, a>>, <<k, i>>)
      PROVE  x \in {k} \X (a..i)
  <2>1. x \in Places(messages) /\ NotAfter(<<k, a>>, x) /\ NotAfter(x, <<k, i>>)
    BY DEF Between
  <2>2. x = <<x[1], x[2]>> /\ x[1] \in Nat /\ x[2] \in Nat
    BY <2>1, PlacesAre
  <2>3. x[1] = k /\ a <= x[2] /\ x[2] <= i
    BY <1>1, <2>1, <2>2 DEF NotAfter
  <2>4. x[2] \in a..i
    BY <1>1, <2>2, <2>3
  <2>5. QED BY <2>2, <2>3, <2>4
<1>3. ASSUME NEW x \in {k} \X (a..i)
      PROVE  x \in Between(messages, <<k, a>>, <<k, i>>)
  <2>1. PICK j \in a..i : x = <<k, j>>
    OBVIOUS
  <2>2. j \in 1..Len(messages[k].calls)
    BY <1>1
  <2>3. <<k, j>> \in Places(messages)
    BY <2>2, PlacesAre
  <2>4. NotAfter(<<k, a>>, <<k, j>>) /\ NotAfter(<<k, j>>, <<k, i>>)
    BY <1>1 DEF NotAfter
  <2>5. QED BY <2>1, <2>3, <2>4 DEF Between
<1>4. IsFiniteSet(a..i) /\ Cardinality(a..i) = i - a + 1
  <2>1. a \in Int /\ i \in Int /\ ~(a > i)
    BY <1>1
  <2>2. QED BY <2>1, FS_Interval
<1>5. IsFiniteSet({k}) /\ Cardinality({k}) = 1
  BY FS_Singleton
<1>6. /\ IsFiniteSet({k} \X (a..i))
      /\ Cardinality({k} \X (a..i)) = Cardinality({k}) * Cardinality(a..i)
  BY <1>4, <1>5, FS_Product
<1>7. Cardinality({k} \X (a..i)) = i - a + 1
  BY <1>1, <1>4, <1>5, <1>6
<1>8. QED BY <1>2, <1>3, <1>6, <1>7

\* What the guard counts for a call of the batch is there: the calls of the
\* batch before it, and those of the count it goes on from.
LEMMA CountIsThere ==
  ASSUME messages \in Seq(Entry), repeatCount \in Nat, CountIsBacked, NEW k,
         Landed(k), NoUser(messages, k, Len(messages)),
         NEW i \in 1..Len(messages[k].calls)
  PROVE  LET cs == messages[k].calls IN
         /\ CountAt(cs, i) \in Nat /\ 1 <= CountAt(cs, i)
         /\ \E p \in Places(messages) :
               /\ InARow(messages, abandoned, p, <<k, i>>, cs[i].sig)
               /\ CountAt(cs, i) <= Cardinality(Named(messages, p, <<k, i>>, cs[i].sig))
               /\ NoUser(messages, p[1], Len(messages))
<1> DEFINE cs == messages[k].calls
           q  == <<k, i>>
           n  == RunLength(cs, i)
           chain == n = i /\ cs[i].sig = repeatSignature /\ repeatCount > 0
<1>1. /\ k \in 1..Len(messages) /\ IsCall(messages, k) /\ Uncounted = {k}
      /\ \A j \in 1..Len(messages) : IsCall(messages, j) => j <= k
  BY OneUncounted
<1>2. cs \in Seq(Call)
  BY <1>1, PlacesAre
<1>3. Len(messages) \in Nat /\ Len(cs) \in Nat /\ k \in Nat /\ i \in Nat
  BY <1>1, <1>2, LenProperties
<1>4. n \in 1..i /\ \A j \in (i - n + 1)..i : cs[j].sig = cs[i].sig
  BY <1>2, RunLengthIs
<1>5. CountAt(cs, i) = IF chain THEN n + repeatCount ELSE n
  BY <1>3, <1>4 DEF CountAt
<1>6. CountAt(cs, i) \in Nat /\ 1 <= CountAt(cs, i)
  BY <1>3, <1>4, <1>5
<1> HIDE DEF n
<1>7. CASE ~chain
  <2> DEFINE p == <<k, i - n + 1>>
  <2>1. i - n + 1 \in 1..i /\ i - (i - n + 1) + 1 = n
    BY <1>3, <1>4
  <2>2. /\ Between(messages, p, q) = {k} \X ((i - n + 1)..i)
        /\ Cardinality({k} \X ((i - n + 1)..i)) = n
    BY <1>1, <2>1, BatchPlaces
  <2>3. Named(messages, p, q, cs[i].sig) = {k} \X ((i - n + 1)..i)
    BY <1>4, <2>2 DEF Named
  <2>4. p \in Places(messages)
    BY <1>1, <1>3, <2>1, PlacesAre
  <2>5. q \in {k} \X ((i - n + 1)..i)
    BY <1>3, <2>1
  <2>6. InARow(messages, abandoned, p, q, cs[i].sig)
    BY <2>2, <2>3, <2>4, <2>5 DEF InARow
  <2>7. CountAt(cs, i) <= Cardinality(Named(messages, p, q, cs[i].sig))
    <3>1. CountAt(cs, i) = n
      BY <1>5, <1>7
    <3>2. Cardinality(Named(messages, p, q, cs[i].sig)) = n
      BY <2>2, <2>3, Zenon
    <3>3. n \in Nat
      BY <1>3, <1>4
    <3>4. QED BY <3>1, <3>2, <3>3
  <2>8. QED BY <1>6, <2>4, <2>6, <2>7
<1>8. CASE chain
  <2> DEFINE sig == cs[i].sig
  <2>1. PICK p, o \in Places(messages) :
          /\ InARow(messages, abandoned, p, o, sig)
          /\ repeatCount <= Cardinality(Named(messages, p, o, sig))
          /\ NoUser(messages, p[1], Len(messages))
          /\ o[1] \notin Uncounted
          /\ \A x \in Places(messages) :
                NotAfter(x, o) \/ x[1] \in LastOf(messages, abandoned) \cup Uncounted
    BY <1>8 DEF CountIsBacked, Backed
  <2> DEFINE S0 == Named(messages, p, o, sig)
             S1 == {k} \X (1..i)
             N  == Named(messages, p, q, sig)
  <2>2. \A x \in Places(messages) :
           /\ x = <<x[1], x[2]>> /\ x[1] \in Nat /\ x[2] \in Nat /\ x[1] <= k
           /\ x[1] = k => x[2] \in 1..Len(cs)
    BY <1>1, <1>3, PlacesAre
  <2>3. o[1] < k
    BY <1>1, <1>3, <2>1, <2>2
  <2>4. q \in Places(messages)
    BY <1>1, PlacesAre
  <2>5. \A x \in Places(messages) : NotAfter(x, o) => NotAfter(x, q)
    BY <1>3, <2>2, <2>3 DEF NotAfter
  <2>6. p \in Places(messages) /\ NotAfter(p, o)
    BY <2>1 DEF InARow, Named, Between
  <2>7. p[1] <= o[1]
    BY <2>2, <2>6 DEF NotAfter
  <2>8. /\ Between(messages, <<k, 1>>, q) = S1
        /\ IsFiniteSet(S1) /\ Cardinality(S1) = i
    <3>1. 1 \in 1..i /\ i - 1 + 1 = i
      BY <1>3
    <3>2. /\ Between(messages, <<k, 1>>, q) = S1
          /\ IsFiniteSet(S1) /\ Cardinality(S1) = i - 1 + 1
      BY <1>1, <3>1, BatchPlaces
    <3>3. QED BY <3>1, <3>2
  <2>9. \A x \in S1 : /\ x \in Places(messages) /\ x[1] = k /\ x[2] \in 1..i
                      /\ NotAfter(x, q)
    BY <2>8 DEF Between
  <2>10. S1 \subseteq N
    <3>0. \A j \in 1..i : cs[j].sig = sig
      BY <1>3, <1>4, <1>8
    <3>1. ASSUME NEW x \in S1
          PROVE  x \in N
      <4>1. NotAfter(p, x)
        BY <1>3, <2>2, <2>3, <2>7, <2>9 DEF NotAfter
      <4>2. messages[x[1]].calls[x[2]].sig = sig
        BY <2>9, <3>0
      <4>3. QED BY <2>9, <4>1, <4>2 DEF Named, Between
    <3>2. QED BY <3>1
  <2>11. S0 \subseteq N
    BY <2>5 DEF Named, Between
  <2>12. S0 \cap S1 = {}
    <3>1. ASSUME NEW x \in S0, x \in S1
          PROVE  FALSE
      <4>1. NotAfter(x, o) /\ x[1] = k /\ x \in Places(messages)
        BY <2>9, <3>1 DEF Named, Between
      <4>2. QED BY <1>3, <2>1, <2>2, <2>3, <4>1 DEF NotAfter
    <3>2. QED BY <3>1
  <2>13. i + repeatCount <= Cardinality(N)
    <3>1. IsFiniteSet(N) /\ IsFiniteSet(S0)
      <4>1. N \subseteq Places(messages) /\ S0 \subseteq Places(messages)
        BY DEF Named, Between
      <4> HIDE DEF N, S0
      <4>2. QED BY <4>1, PlacesFinite
    <3> HIDE DEF N, S0, S1
    <3>2. /\ IsFiniteSet(S0 \cup S1)
          /\ Cardinality(S0 \cup S1)
               = Cardinality(S0) + Cardinality(S1) - Cardinality(S0 \cap S1)
      BY <2>8, <3>1, FS_Union
    <3>3. Cardinality(S0 \cap S1) = 0
      BY <2>12, FS_EmptySet
    <3>4. S0 \cup S1 \subseteq N
      BY <2>10, <2>11
    <3>5. Cardinality(S0 \cup S1) <= Cardinality(N)
      BY <3>1, <3>4, FS_Subset
    <3>6. /\ Cardinality(S0) \in Nat /\ Cardinality(N) \in Nat
          /\ Cardinality(S0 \cup S1) \in Nat
      BY <3>1, <3>2, FS_CardinalityType
    <3>7. repeatCount <= Cardinality(S0)
      BY <2>1 DEF S0
    <3>8. QED BY <1>3, <2>8, <3>2, <3>3, <3>5, <3>6, <3>7
  <2>14. InARow(messages, abandoned, p, q, sig)
    <3>1. q \in N
      BY <1>3, <2>10
    <3>2. ASSUME NEW x \in Between(messages, p, q)
          PROVE  x \in N \/ x[1] \in LastOf(messages, abandoned)
      <4>1. x \in Places(messages) /\ NotAfter(p, x) /\ NotAfter(x, q)
        BY DEF Between
      <4>2. CASE NotAfter(x, o)
        <5>1. x \in Between(messages, p, o)
          BY <4>1, <4>2 DEF Between
        <5>2. x \in S0 \/ x[1] \in LastOf(messages, abandoned)
          BY <2>1, <5>1 DEF InARow
        <5>3. QED BY <2>11, <5>2
      <4>3. CASE x[1] \in Uncounted
        <5>1. x[1] = k
          BY <1>1, <4>3
        <5>2. x[2] <= i /\ x[2] \in 1..Len(cs)
          BY <1>3, <2>2, <4>1, <5>1 DEF NotAfter
        <5>3. x[2] \in 1..i /\ x = <<k, x[2]>>
          BY <1>3, <2>2, <4>1, <5>1, <5>2
        <5>4. x \in S1
          BY <5>3
        <5>5. QED BY <2>10, <5>4
      <4>4. QED BY <2>1, <4>1, <4>2, <4>3
    <3>3. QED BY <2>6, <3>1, <3>2 DEF InARow
  <2>15. CountAt(cs, i) <= Cardinality(N)
    <3>1. CountAt(cs, i) = i + repeatCount
      BY <1>5, <1>8
    <3>2. QED BY <2>13, <3>1
  <2>16. QED BY <1>6, <2>1, <2>6, <2>14, <2>15
<1>9. QED BY <1>7, <1>8

\* The live run is about to count its batch.
AtCount == runningInner /\ pc[runId] = "landed"

\* One continuation is queued at a time.
OneQueued == \A q, r \in Runs : pc[q] \in Queued /\ pc[r] \in Queued => q = r

EarnGrounds == OwnerInv /\ NothingLeftOver /\ AbortEndsTheRun /\ OneQueued

\* What is added to the transcript stands behind it.
LEMMA GrownBy ==
  ASSUME NEW log \in Seq(Entry), NEW s \in Seq(Entry), NEW new, new = log \o s
  PROVE  /\ new \in Seq(Entry) /\ Len(new) = Len(log) + Len(s)
         /\ Len(log) <= Len(new) /\ Len(log) \in Nat /\ Len(s) \in Nat
         /\ \A k \in 1..Len(log) : new[k] = log[k]
         /\ \A k \in (Len(log) + 1)..Len(new) :
               k - Len(log) \in 1..Len(s) /\ new[k] = s[k - Len(log)]
<1>1. Len(log) \in Nat /\ Len(s) \in Nat
  BY LenProperties
<1>2. /\ new \in Seq(Entry) /\ Len(new) = Len(log) + Len(s)
      /\ \A i \in 1..(Len(log) + Len(s)) :
            new[i] = IF i <= Len(log) THEN log[i] ELSE s[i - Len(log)]
  BY ConcatProperties
<1>3. QED BY <1>1, <1>2

\* What a run or the session writes are messages; either no user spoke or the
\* repeat guard starts anew.
LEMMA WrittenAre ==
  ASSUME NEW log \in Seq(Entry), NEW new, NEW r \in 0..MaxRuns, NEW ms \in Seq(Msg),
         new = log \o Written(r, ms)
  PROVE  /\ new \in Seq(Entry) /\ Len(log) <= Len(new)
         /\ \A k \in 1..Len(log) : new[k] = log[k]
         /\ \A k \in (Len(log) + 1)..Len(new) : new[k].kind = "message"
         /\ ~HasUser(ms) => NoUser(new, Len(log) + 1, Len(new))
<1>1. Len(ms) \in Nat /\ DOMAIN ms = 1..Len(ms)
  BY LenProperties
<1>2. Written(r, ms) \in Seq(Entry) /\ Len(Written(r, ms)) = Len(ms)
  BY WrittenType
<1>3. \A i \in 1..Len(ms) :
         /\ Written(r, ms)[i].kind = "message" /\ Written(r, ms)[i].msg = ms[i]
  BY <1>1 DEF Written
<1>4. /\ new \in Seq(Entry) /\ Len(log) <= Len(new)
      /\ \A k \in 1..Len(log) : new[k] = log[k]
      /\ \A k \in (Len(log) + 1)..Len(new) :
            k - Len(log) \in 1..Len(ms) /\ new[k] = Written(r, ms)[k - Len(log)]
  BY <1>2, GrownBy
<1>5. \A k \in (Len(log) + 1)..Len(new) :
         /\ k - Len(log) \in 1..Len(ms) /\ new[k].kind = "message"
         /\ new[k].msg = ms[k - Len(log)]
  BY <1>3, <1>4
<1>6. ~HasUser(ms) => NoUser(new, Len(log) + 1, Len(new))
  BY <1>1, <1>5 DEF HasUser, NoUser
<1>7. QED BY <1>4, <1>5, <1>6

\* With the transport that runs every tool itself, a step follows on: it cuts
\* the transcript or adds to it, and nothing for a run that was stopped.
LEMMA StepFollows ==
  ASSUME OwnerInv, NothingLeftOver, "fallback" \notin Env, Next
  PROVE  Follows(messages, abandoned, messages', abandoned')
<1>1. Len(messages) \in Nat /\ DOMAIN messages = 1..Len(messages)
  BY LenProperties DEF OwnerInv, TypeInv, TypeOK
<1>2. messages' \in Seq(Entry)
  BY StepType DEF OwnerInv, TypeInv, TypeOK
<1>3. DOMAIN messages' \subseteq Nat
  BY <1>2, LenProperties
<1>4. abandoned \subseteq Runs /\ runId \in Nat /\ \A q \in abandoned : q <= runId
  BY DEF OwnerInv, TypeInv, TypeOK, RunsAreOrdered
<1> DEFINE Kept == \A i \in DOMAIN messages' :
                      IF i <= Len(messages) THEN messages'[i] = messages[i]
                                            ELSE messages'[i].run \notin abandoned
<1>5. ASSUME NEW who, Wrote(who), \A w \in who : w \notin abandoned
      PROVE  Kept
  BY <1>5 DEF Wrote
<1>6. ASSUME UNCHANGED messages
      PROVE  Kept
  BY <1>1, <1>6
<1>7. CASE CallerStep
  <2>1. runId + 1 \notin abandoned /\ 0 \notin abandoned
    BY <1>4 DEF Runs
  <2>2. runningInner => runId \notin abandoned
    BY DEF OwnerInv, OneLiveRun, Live
  <2>3. Kept
    <3>1. CASE Wrote({runId + 1})
      BY <1>5, <2>1, <3>1
    <3>2. CASE runningInner /\ Wrote({runId})
      BY <1>5, <2>2, <3>2
    <3>3. CASE Wrote({0})
      BY <1>5, <2>1, <3>3
    <3>4. CASE \A i \in DOMAIN messages' : i \in DOMAIN messages
                                           /\ messages'[i] = messages[i]
      BY <1>1, <3>4
    <3>5. QED
      BY <1>7, <3>1, <3>2, <3>3, <3>4, CallerStepWrites DEF OwnerInv
  <2>4. abandoned \subseteq abandoned'
    BY <1>7, CallerStepMoves DEF OwnerInv, StartRun, AbortBody
  <2>5. QED BY <2>3, <2>4 DEF Follows
<1>8. ASSUME NEW r \in Runs, RunStep(r)
      PROVE  Follows(messages, abandoned, messages', abandoned')
  <2>1. abandoned' = abandoned
    BY <1>8, RunStepMoves DEF control, Finally, Settle
  <2>2. CASE ~ (DrainNext(r) /\ isStaleRun(r))
    <3>1. UNCHANGED messages \/ (Live(r) /\ Wrote({r}))
      BY <1>8, <2>2, RunStepWritesOwn
    <3>2. Live(r) => r \notin abandoned
      BY DEF Live
    <3>3. ASSUME Live(r), Wrote({r})
          PROVE  Kept
      BY <1>5, <3>2, <3>3
    <3>4. Kept
      BY <1>6, <3>1, <3>3
    <3>5. QED BY <2>1, <3>4 DEF Follows
  <2>3. CASE DrainNext(r) /\ isStaleRun(r)
    <3>1. messages' = messages \o Written(r, <<Head(steerQueue)>>)
      BY <2>3 DEF DrainNext, Append_
    <3>2. /\ messages \in Seq(Entry) /\ r \in 0..MaxRuns
          /\ <<Head(steerQueue)>> \in Seq(Msg)
      <4>1. steerQueue \in Seq(Msg) /\ steerQueue # <<>>
        BY <2>3 DEF DrainNext, OwnerInv, TypeInv, TypeOK
      <4>2. Head(steerQueue) \in Msg
        BY <4>1, HeadTailProperties
      <4>3. QED
        BY <4>2, OneElement, BoundsAssumption DEF OwnerInv, TypeInv, TypeOK, Runs
    <3>3. /\ \A k \in 1..Len(messages) : messages'[k] = messages[k]
          /\ \A k \in (Len(messages) + 1)..Len(messages') : messages'[k].kind = "message"
      BY <3>1, <3>2, WrittenAre
    <3>4. DOMAIN messages' = 1..Len(messages') /\ Len(messages') \in Nat
      BY <1>2, LenProperties
    <3>5. QED BY <1>1, <2>1, <3>3, <3>4 DEF Follows, IsCall
  <2>4. QED BY <2>2, <2>3
<1>9. QED BY <1>7, <1>8 DEF Next

\* append() to the transcript.
LEMMA AppendGrows ==
  ASSUME messages \in Seq(Entry), NEW r \in 0..MaxRuns, NEW ms \in Seq(Msg),
         Append_(r, messages, ms, repeatSignature, repeatCount)
  PROVE  /\ Len(messages) <= Len(messages')
         /\ \A k \in (Len(messages) + 1)..Len(messages') :
               messages'[k].kind \in {"message", "toolResult"}
         /\ \/ repeatCount' = 0
            \/ UNCHANGED repeat /\ NoUser(messages', Len(messages) + 1, Len(messages'))
         /\ ~HasUser(ms) => NoUser(messages', Len(messages) + 1, Len(messages'))
<1>1. messages' = messages \o Written(r, ms)
  BY DEF Append_
<1>2. /\ Len(messages) <= Len(messages')
      /\ \A k \in (Len(messages) + 1)..Len(messages') : messages'[k].kind = "message"
      /\ ~HasUser(ms) => NoUser(messages', Len(messages) + 1, Len(messages'))
  BY <1>1, WrittenAre
<1>3. HasUser(ms) => repeatCount' = 0
  BY DEF Append_
<1>4. ~HasUser(ms) => UNCHANGED repeat
  BY DEF Append_, repeat
<1>5. QED BY <1>2, <1>3, <1>4

\* A step that records no batch, counts none and cuts nothing.
LEMMA QuietStep ==
  ASSUME messages \in Seq(Entry), messages' \in Seq(Entry), EarnInv,
         repeatCount \in Nat, Follows(messages, abandoned, messages', abandoned'),
         Len(messages) <= Len(messages'),
         \A k \in (Len(messages) + 1)..Len(messages') :
             messages'[k].kind \in {"message", "toolResult"},
         \/ repeatCount' = 0
         \/ UNCHANGED repeat /\ NoUser(messages', Len(messages) + 1, Len(messages')),
         \/ /\ AtCount' <=> AtCount
            /\ AtCount => /\ runId' = runId /\ turn'[runId] = turn[runId]
                          /\ NoUser(messages', Len(messages) + 1, Len(messages'))
         \/ /\ ~AtCount'
            /\ AtCount => turn[runId].calls = <<>> \/ runId \in abandoned'
  PROVE  EarnInv'
<1>1. /\ DOMAIN messages = 1..Len(messages) /\ DOMAIN messages' = 1..Len(messages')
      /\ Len(messages) \in Nat /\ Len(messages') \in Nat
  BY LenProperties
<1>2. \A k \in 1..Len(messages) :
         /\ k \in 1..Len(messages') /\ messages'[k] = messages[k]
         /\ IsCall(messages', k) <=> IsCall(messages, k)
  BY <1>1 DEF Follows, IsCall
<1>3. \A k \in (Len(messages) + 1)..Len(messages') :
         ~IsCall(messages', k) /\ messages'[k].kind # "reminder"
  BY DEF IsCall
<1>4. \A k \in 1..Len(messages') :
         k \in 1..Len(messages) \/ k \in (Len(messages) + 1)..Len(messages')
  BY <1>1
<1>5. AllEarned(messages', abandoned')
  <2>1. ASSUME NEW n \in DOMAIN messages', messages'[n].kind = "reminder"
        PROVE  EarnedAt(messages', abandoned', n)
    <3>1. n \in 1..Len(messages)
      BY <1>1, <1>3, <1>4, <2>1
    <3>2. EarnedAt(messages, abandoned, n)
      BY <1>1, <1>2, <2>1, <3>1 DEF EarnInv, AllEarned
    <3>3. n <= Len(messages)
      BY <1>1, <3>1
    <3>4. QED BY <3>2, <3>3, EarnedKept
  <2>2. QED BY <2>1 DEF AllEarned
<1>6. ASSUME AtCount <=> AtCount',
             AtCount => runId' = runId
      PROVE  \A k : (k \in Uncounted)' <=> k \in Uncounted
  <2>1. ASSUME NEW k \in Uncounted
        PROVE  (k \in Uncounted)'
    <3>1. /\ AtCount /\ k \in 1..Len(messages) /\ IsCall(messages, k)
          /\ \A j \in (k+1)..Len(messages) : ~IsCall(messages, j)
          /\ messages[k].run = runId
      BY <1>1 DEF Uncounted, Landed, AtCount
    <3>2. \A j \in (k+1)..Len(messages') : ~IsCall(messages', j)
      BY <1>1, <1>2, <1>3, <1>4, <3>1
    <3>3. k \in 1..Len(messages') /\ IsCall(messages', k) /\ messages'[k].run = runId
      BY <1>2, <3>1
    <3>4. QED BY <1>1, <1>6, <3>1, <3>2, <3>3 DEF Uncounted, Landed, AtCount
  <2>2. ASSUME NEW k, (k \in Uncounted)'
        PROVE  k \in Uncounted
    <3>1. /\ AtCount' /\ k \in 1..Len(messages') /\ IsCall(messages', k)
          /\ \A j \in (k+1)..Len(messages') : ~IsCall(messages', j)
          /\ messages'[k].run = runId'
      BY <1>1, <2>2 DEF Uncounted, Landed, AtCount
    <3>2. k \in 1..Len(messages)
      BY <1>3, <1>4, <3>1
    <3>3. \A j \in (k+1)..Len(messages) : ~IsCall(messages, j)
      BY <1>1, <1>2, <3>1, <3>2
    <3>4. QED BY <1>1, <1>2, <1>6, <3>1, <3>2, <3>3 DEF Uncounted, Landed, AtCount
  <2>3. QED BY <2>1, <2>2
<1>7. BatchIsLast'
  <2>1. SUFFICES ASSUME AtCount'
                 PROVE  \E k \in DOMAIN messages' :
                           /\ Landed(k)' /\ messages'[k].calls = turn'[runId'].calls
                           /\ NoUser(messages', k, Len(messages'))
    BY DEF BatchIsLast, AtCount
  <2>2. /\ AtCount /\ runId' = runId /\ turn'[runId] = turn[runId]
        /\ NoUser(messages', Len(messages) + 1, Len(messages'))
    BY <2>1
  <2>3. PICK k \in DOMAIN messages : /\ Landed(k) /\ messages[k].calls = turn[runId].calls
                                     /\ NoUser(messages, k, Len(messages))
    BY <2>2 DEF EarnInv, BatchIsLast, AtCount
  <2>4. k \in Uncounted
    BY <2>3 DEF Uncounted
  <2>5. (k \in Uncounted)'
    BY <1>6, <2>1, <2>2, <2>4
  <2>6. Landed(k)' /\ k \in DOMAIN messages'
    BY <2>5 DEF Uncounted
  <2>7. messages'[k].calls = turn'[runId'].calls
    BY <1>1, <1>2, <2>2, <2>3
  <2>8. NoUser(messages', k, Len(messages'))
    BY <1>1, <1>2, <1>4, <2>2, <2>3 DEF NoUser
  <2>9. QED BY <2>6, <2>7, <2>8
<1>8. CountIsBacked'
  <2>1. SUFFICES ASSUME repeatCount' > 0
                 PROVE  Backed(messages', abandoned', Uncounted', repeatSignature',
                               repeatCount')
    BY DEF CountIsBacked
  <2>2. UNCHANGED repeat /\ NoUser(messages', Len(messages) + 1, Len(messages'))
    BY <2>1
  <2>3. Backed(messages, abandoned, Uncounted, repeatSignature, repeatCount)
    BY <2>1, <2>2 DEF EarnInv, CountIsBacked, repeat
  <2>4. \A k \in Uncounted : k \in DOMAIN messages =>
           messages[k].calls = <<>> \/ k \in LastOf(messages', abandoned') \cup Uncounted'
    <3>1. CASE /\ AtCount' <=> AtCount
               /\ AtCount => runId' = runId
      BY <1>6, <3>1
    <3>2. ASSUME NEW k \in Uncounted, turn[runId].calls = <<>>
          PROVE  messages[k].calls = <<>>
      <4>1. AtCount
        BY DEF Uncounted, Landed, AtCount
      <4>2. PICK j \in DOMAIN messages :
               Landed(j) /\ messages[j].calls = turn[runId].calls
        BY <4>1 DEF EarnInv, BatchIsLast, AtCount
      <4>3. k = j
        BY <4>2, OneUncounted
      <4>4. QED BY <3>2, <4>2, <4>3
    <3>3. ASSUME NEW k \in Uncounted, runId \in abandoned'
          PROVE  k \in LastOf(messages', abandoned')
      <4>1. /\ k \in 1..Len(messages) /\ IsCall(messages, k)
            /\ \A j \in (k+1)..Len(messages) : ~IsCall(messages, j)
            /\ messages[k].run = runId
        BY <1>1 DEF Uncounted, Landed
      <4>2. \A j \in (k+1)..Len(messages') : ~IsCall(messages', j)
        BY <1>1, <1>2, <1>3, <1>4, <4>1
      <4>3. QED BY <1>1, <1>2, <3>3, <4>1, <4>2 DEF LastOf
    <3>4. Uncounted # {} => AtCount
      BY DEF Uncounted, Landed, AtCount
    <3>5. QED BY <3>1, <3>2, <3>3, <3>4
  <2>5. \A k \in Uncounted' : k \in Uncounted \/ ~(k <= Len(messages))
    <3>1. CASE AtCount'
      <4>1. (AtCount <=> AtCount') /\ (AtCount => runId' = runId)
        BY <3>1
      <4>2. QED BY <1>6, <4>1
    <3>2. CASE ~AtCount'
      <4>1. Uncounted' = {}
        BY <3>2 DEF Uncounted, Landed, AtCount
      <4>2. QED BY <4>1
    <3>3. QED BY <3>1, <3>2
  <2>6. Backed(messages', abandoned', Uncounted', repeatSignature, repeatCount)
    BY <1>3, <2>2, <2>3, <2>4, <2>5, BackedKept
  <2>7. QED BY <2>2, <2>6 DEF repeat
<1>9. QED BY <1>5, <1>7, <1>8 DEF EarnInv

\* Results are result entries.
LEMMA ResultsAre ==
  ASSUME NEW r \in 0..MaxRuns, NEW ids \in SUBSET Nat
  PROVE  \A i \in 1..Len(Results(r, ids)) : Results(r, ids)[i].kind = "toolResult"
<1>1. Results(r, ids) \in Seq(Entry) /\ Len(Results(r, ids)) \in 0..1
  BY ResultsType
<1>2. ids # {} =>
        Results(r, ids) = <<[kind |-> "toolResult", run |-> r, answers |-> ids]>>
  BY DEF Results
<1>3. ids = {} => Len(Results(r, ids)) = 0
  BY EmptySeq DEF Results
<1>4. QED BY <1>1, <1>2, <1>3

\* A turn of the live run lands: its batch is the last entry but the results,
\* and waits for its count.
LEMMA LandStep ==
  ASSUME OwnerInv, messages' \in Seq(Entry), EarnInv,
         Follows(messages, abandoned, messages', abandoned'),
         NEW r \in Runs, NEW cs \in Seq(Call), NEW done \in SUBSET Nat,
         pc[r] = "turn", ~isStaleRun(r), TurnLands(r, cs, done),
         UNCHANGED <<control, repeat>>
  PROVE  EarnInv'
<1> DEFINE a == [kind |-> "assistant", run |-> r, calls |-> cs]
<1>1. r = runId /\ runningInner /\ UNCHANGED <<runId, runningInner, abandoned>>
  BY StaleIsLate DEF InFlight, Parked, control
<1>2. messages \in Seq(Entry) /\ repeatCount \in Nat
      /\ r \in 0..MaxRuns
  BY BoundsAssumption DEF OwnerInv, TypeInv, TypeOK, Runs
<1>3. /\ DOMAIN messages = 1..Len(messages) /\ DOMAIN messages' = 1..Len(messages')
      /\ Len(messages) \in Nat /\ Len(messages') \in Nat
  BY <1>2, LenProperties
<1>0. PICK K \in Nat : K = Len(messages) + 1
  BY <1>3
<1>4. /\ messages' = messages \o Recorded(r, cs, done)
      /\ pc' = [pc EXCEPT ![r] = "landed"]
      /\ turn' = [turn EXCEPT ![r] = [calls |-> cs, missing |-> CallIds(cs) \ done]]
  BY DEF TurnLands, Park
<1>5. pc'[r] = "landed" /\ turn'[r].calls = cs
  BY <1>4 DEF OwnerInv, TypeInv, TypeOK
<1>6. /\ Recorded(r, cs, done) \in Seq(Entry) /\ Len(Recorded(r, cs, done)) \in 1..2
      /\ Recorded(r, cs, done)[1] = a
      /\ \A i \in 2..Len(Recorded(r, cs, done)) :
            Recorded(r, cs, done)[i].kind = "toolResult"
  <2>1. a \in Entry
    BY <1>2 DEF Entry
  <2>2. <<a>> \in Seq(Entry) /\ Len(<<a>>) = 1 /\ <<a>>[1] = a
    BY <2>1, OneElement
  <2>3. /\ Results(r, done) \in Seq(Entry) /\ Len(Results(r, done)) \in 0..1
        /\ \A i \in 1..Len(Results(r, done)) : Results(r, done)[i].kind = "toolResult"
    BY <1>2, ResultsType, ResultsAre
  <2>4. /\ Recorded(r, cs, done) \in Seq(Entry)
        /\ Len(Recorded(r, cs, done)) = 1 + Len(Results(r, done))
        /\ \A i \in 1..(1 + Len(Results(r, done))) :
              Recorded(r, cs, done)[i] =
                 IF i <= 1 THEN <<a>>[i] ELSE Results(r, done)[i - 1]
    BY <2>2, <2>3, ConcatProperties DEF Recorded
  <2>5. QED BY <2>2, <2>3, <2>4
<1>7. /\ Len(messages) < Len(messages') /\ K \in 1..Len(messages') /\ messages'[K] = a
      /\ \A k \in 1..Len(messages) : messages'[k] = messages[k]
      /\ \A k \in (K+1)..Len(messages') : messages'[k].kind = "toolResult"
  <2>1. /\ Len(messages') = Len(messages) + Len(Recorded(r, cs, done))
        /\ \A k \in 1..Len(messages) : messages'[k] = messages[k]
        /\ \A k \in K..Len(messages') :
              messages'[k] = Recorded(r, cs, done)[k - Len(messages)]
    BY <1>0, <1>2, <1>4, <1>6, GrownBy
  <2>2. K \in K..Len(messages') /\ K - Len(messages) = 1
    BY <1>0, <1>3, <1>6, <2>1
  <2>3. \A k \in (K+1)..Len(messages') :
           /\ k \in K..Len(messages')
           /\ k - Len(messages) \in 2..Len(Recorded(r, cs, done))
    BY <1>0, <1>3, <1>6, <2>1
  <2>4. messages'[K] = Recorded(r, cs, done)[K - Len(messages)]
    BY <2>1, <2>2
  <2>5. messages'[K] = a
    BY <1>6, <2>2, <2>4
  <2>6. Len(messages) < Len(messages') /\ K \in 1..Len(messages')
    BY <1>0, <1>3, <1>6, <2>1
  <2>7. \A k \in (K+1)..Len(messages') : messages'[k].kind = "toolResult"
    BY <1>6, <2>1, <2>3
  <2>8. QED BY <2>1, <2>5, <2>6, <2>7
<1> HIDE DEF a
<1>8. IsCall(messages', K) /\ messages'[K].run = r /\ messages'[K].calls = cs
      /\ messages'[K].kind = "assistant"
  BY <1>7 DEF IsCall, a
<1>9. /\ \A k \in 1..Len(messages) : IsCall(messages', k) <=> IsCall(messages, k)
      /\ \A k \in (K+1)..Len(messages') :
            ~IsCall(messages', k) /\ messages'[k].kind \notin {"message", "reminder"}
  BY <1>0, <1>7 DEF IsCall
<1>10. \A k \in 1..Len(messages') : k \in 1..Len(messages) \/ k = K \/ k \in (K+1)..Len(messages')
  BY <1>0, <1>3
<1>11. Landed(K)'
  BY <1>1, <1>3, <1>5, <1>7, <1>8, <1>9 DEF Landed
<1>12. BatchIsLast'
  <2>1. NoUser(messages', K, Len(messages'))
    <3>1. \A k \in K..Len(messages') : k = K \/ k \in (K+1)..Len(messages')
      BY <1>0, <1>3
    <3>2. QED BY <1>8, <1>9, <3>1 DEF NoUser
  <2>2. messages'[K].calls = turn'[runId'].calls
    BY <1>1, <1>5, <1>8
  <2>3. QED BY <1>3, <1>7, <1>11, <2>1, <2>2 DEF BatchIsLast
<1>13. AllEarned(messages', abandoned')
  <2>1. ASSUME NEW n \in DOMAIN messages', messages'[n].kind = "reminder"
        PROVE  EarnedAt(messages', abandoned', n)
    <3>1. n \in 1..Len(messages)
      BY <1>3, <1>8, <1>9, <1>10, <2>1
    <3>2. EarnedAt(messages, abandoned, n)
      BY <1>3, <1>7, <2>1, <3>1 DEF EarnInv, AllEarned
    <3>3. n <= Len(messages)
      BY <1>3, <3>1
    <3>4. QED BY <1>2, <3>2, <3>3, EarnedKept
  <2>2. QED BY <2>1 DEF AllEarned
<1>14. CountIsBacked'
  <2>1. SUFFICES ASSUME repeatCount' > 0
                 PROVE  Backed(messages', abandoned', Uncounted', repeatSignature',
                               repeatCount')
    BY DEF CountIsBacked
  <2>2. Backed(messages, abandoned, Uncounted, repeatSignature, repeatCount)
    BY <2>1 DEF EarnInv, CountIsBacked, repeat
  <2>3. Uncounted = {}
    BY <1>1 DEF Uncounted, Landed
  <2>4. \A k \in Uncounted' : ~(k <= Len(messages))
    <3>1. ASSUME NEW k \in Uncounted', k <= Len(messages)
          PROVE  FALSE
      <4>1. k \in 1..Len(messages') /\ \A j \in (k+1)..Len(messages') : ~IsCall(messages', j)
        BY <1>3 DEF Uncounted, Landed
      <4>2. K \in (k+1)..Len(messages')
        BY <1>0, <1>3, <1>7, <3>1, <4>1
      <4>3. QED BY <1>8, <4>1, <4>2
    <3>2. QED BY <3>1
  <2>5. K \in Uncounted'
    BY <1>11, <1>3, <1>7 DEF Uncounted
  <2>6. \A k \in K..Len(messages') : IsCall(messages', k) => k \in Uncounted'
    <3>1. \A k \in K..Len(messages') : k = K \/ k \in (K+1)..Len(messages')
      BY <1>0, <1>3
    <3>2. QED BY <1>9, <2>5, <3>1
  <2>7. NoUser(messages', K, Len(messages'))
    <3>1. \A k \in K..Len(messages') : k = K \/ k \in (K+1)..Len(messages')
      BY <1>0, <1>3
    <3>2. QED BY <1>8, <1>9, <3>1 DEF NoUser
  <2>8. Len(messages) <= Len(messages')
    BY <1>3, <1>7
  <2>9. Backed(messages', abandoned', Uncounted', repeatSignature, repeatCount)
    BY <1>2, <2>2, <2>3, <2>4, <2>6, <2>7, <2>8, <1>0, BackedKept
  <2>10. QED BY <2>9 DEF repeat
<1>15. QED BY <1>12, <1>13, <1>14 DEF EarnInv

\* A rewind cuts the transcript and forgets the count with it.
LEMMA RewindStep ==
  ASSUME OwnerInv, messages' \in Seq(Entry), EarnInv, "cutInView" \notin Env,
         Follows(messages, abandoned, messages', abandoned'),
         NEW n \in DOMAIN messages, Rewind(n)
  PROVE  EarnInv'
<1>1. messages \in Seq(Entry)
  BY DEF OwnerInv, TypeInv, TypeOK
<1>2. /\ DOMAIN messages = 1..Len(messages) /\ DOMAIN messages' = 1..Len(messages')
      /\ Len(messages) \in Nat /\ Len(messages') \in Nat
  BY <1>1, LenProperties
<1>3. Len(messages') < n
  <2>1. n \in Int /\ \A i \in 1..(n - 1) : messages[i] \in Entry
    BY <1>1, <1>2, ElementOfSeq
  <2>2. Len(SubSeq(messages, 1, n - 1)) = n - 1
    BY <1>2, <2>1, SubSeqProperties
  <2>3. QED BY <2>1, <2>2 DEF Rewind
<1>4. ~runningInner' /\ repeatCount' = 0
  BY DEF Rewind
<1>5. ASSUME NEW k \in DOMAIN messages', messages'[k].kind = "reminder"
      PROVE  EarnedAt(messages', abandoned', k)
  <2>1. k <= Len(messages) /\ k \in DOMAIN messages /\ messages'[k] = messages[k]
    BY <1>2, <1>3 DEF Follows
  <2>2. EarnedAt(messages, abandoned, k)
    BY <1>5, <2>1 DEF EarnInv, AllEarned
  <2>3. QED BY <1>1, <2>1, <2>2, EarnedKept
<1>6. QED BY <1>4, <1>5 DEF EarnInv, AllEarned, CountIsBacked, BatchIsLast

\* The live run counts its batch: a reminder is earned by the calls that count,
\* and the new count is backed by them.
LEMMA CountStep ==
  ASSUME EarnGrounds, "fallback" \notin Env, messages' \in Seq(Entry), EarnInv,
         Follows(messages, abandoned, messages', abandoned'),
         NEW r \in Runs, TurnEnds(r)
  PROVE  EarnInv'
<1> DEFINE cs  == turn[r].calls
           rem == Reminder(r, cs)
           mid == messages \o rem
           n   == Len(cs)
           L   == Len(messages)
<1>1. pc[r] = "landed" /\ MayGoOn(r) /\ cs # <<>> /\ UNCHANGED <<control, counts>>
      /\ pc[r] \in InFlight
  BY DEF TurnEnds, InFlight, Parked
<1>2. r = runId /\ runningInner
  BY <1>1, StaleIsLate DEF EarnGrounds, MayGoOn
<1>3. NoteAndLoop(r)
  BY DEF TurnEnds, EarnGrounds, NothingLeftOver
<1>4. LoopTop(r, mid, <<>>, cs[n].sig, CountAt(cs, n))
  BY <1>1, <1>3 DEF NoteAndLoop
<1>5. /\ messages \in Seq(Entry) /\ repeatCount \in Nat /\ r \in 0..MaxRuns
      /\ cs \in Seq(Call) /\ steerQueue \in Seq(Msg)
  BY BoundsAssumption DEF EarnGrounds, OwnerInv, TypeInv, TypeOK, Runs
<1>6. /\ L \in Nat /\ DOMAIN messages = 1..L /\ n \in Nat \ {0}
      /\ DOMAIN cs = 1..n
      /\ DOMAIN messages' = 1..Len(messages') /\ Len(messages') \in Nat
  BY <1>1, <1>5, LenProperties, EmptySeq
<1>7. <<>> \o steerQueue = steerQueue
  BY <1>5, ConcatEmptySeq
<1>8. /\ messages' = mid \o Written(r, steerQueue)
      /\ repeatSignature' = (IF HasUser(steerQueue) THEN "none" ELSE cs[n].sig)
      /\ repeatCount' = IF HasUser(steerQueue) THEN 0 ELSE CountAt(cs, n)
      /\ pc' = [pc EXCEPT ![r] = "beforeStep"]
  BY <1>4, <1>7 DEF LoopTop, Append_
<1>9. pc'[r] = "beforeStep" /\ runId' = r
  BY <1>1, <1>2, <1>8 DEF EarnGrounds, OwnerInv, TypeInv, TypeOK, control
<1>10. rem \in Seq(Entry) /\ Len(rem) \in 0..1
  BY <1>5, ReminderType
<1> HIDE DEF rem
<1>11. /\ mid \in Seq(Entry) /\ Len(mid) = L + Len(rem)
       /\ \A k \in 1..L : mid[k] = messages[k]
       /\ Len(rem) = 1 => mid[L + 1] = rem[1]
  <2>1. /\ mid \in Seq(Entry) /\ Len(mid) = L + Len(rem)
        /\ \A k \in 1..L : mid[k] = messages[k]
        /\ \A k \in (L + 1)..Len(mid) : mid[k] = rem[k - L]
    BY <1>5, <1>10, GrownBy
  <2>2. Len(rem) = 1 => L + 1 \in (L + 1)..Len(mid) /\ L + 1 - L = 1
    BY <1>6, <2>1
  <2>3. QED BY <2>1, <2>2
<1> HIDE DEF mid
<1>12. /\ Len(mid) <= Len(messages')
       /\ \A k \in 1..Len(mid) : messages'[k] = mid[k]
       /\ \A k \in (Len(mid) + 1)..Len(messages') : messages'[k].kind = "message"
       /\ ~HasUser(steerQueue) => NoUser(messages', Len(mid) + 1, Len(messages'))
  <2>1. messages' = mid \o Written(r, steerQueue)
    BY <1>8
  <2>2. mid \in Seq(Entry) /\ r \in 0..MaxRuns /\ steerQueue \in Seq(Msg)
    BY <1>5, <1>11
  <2> DEFINE new == messages'
  <2>3. new = mid \o Written(r, steerQueue)
    BY <2>1
  <2> HIDE DEF new
  <2>4. /\ Len(mid) <= Len(new)
        /\ \A k \in 1..Len(mid) : new[k] = mid[k]
        /\ \A k \in (Len(mid) + 1)..Len(new) : new[k].kind = "message"
        /\ ~HasUser(steerQueue) => NoUser(new, Len(mid) + 1, Len(new))
    BY ONLY <2>2, <2>3, WrittenAre
  <2>5. QED BY <2>4 DEF new
<1>13. /\ L <= Len(messages') /\ \A k \in 1..L : messages'[k] = messages[k]
       /\ \A k \in (L + 1)..Len(messages') :
             \/ k = L + 1 /\ Len(rem) = 1 /\ messages'[k] = rem[1]
             \/ k \in (Len(mid) + 1)..Len(messages') /\ messages'[k].kind = "message"
  <2>1. \A k \in 1..L : k \in 1..Len(mid)
    BY <1>6, <1>10, <1>11
  <2>2. \A k \in (L + 1)..Len(messages') :
           \/ k = L + 1 /\ Len(rem) = 1 /\ k \in 1..Len(mid)
           \/ k \in (Len(mid) + 1)..Len(messages')
    <3>1. Len(mid) = L + Len(rem) /\ Len(rem) \in {0, 1} /\ L \in Nat
      BY <1>6, <1>10, <1>11
    <3>2. Len(messages') \in Nat
      BY <1>6
    <3> HIDE DEF L
    <3>3. CASE Len(rem) = 0
      BY <3>1, <3>2, <3>3
    <3>4. CASE Len(rem) = 1
      BY <3>1, <3>2, <3>4
    <3>5. QED BY <3>1, <3>3, <3>4
  <2>3. QED BY <1>6, <1>10, <1>11, <1>12, <2>1, <2>2
<1>14. PICK k \in 1..L : /\ Landed(k) /\ messages[k].calls = cs
                         /\ NoUser(messages, k, Len(messages))
  BY <1>1, <1>2, <1>6 DEF EarnInv, BatchIsLast
<1>15. /\ IsCall(messages, k) /\ Uncounted = {k}
       /\ \A j \in 1..L : IsCall(messages, j) => j <= k
  BY <1>5, <1>14, OneUncounted
<1>16. ASSUME NEW i \in 1..n
       PROVE  /\ CountAt(cs, i) \in Nat /\ 1 <= CountAt(cs, i)
              /\ \E p \in Places(messages) :
                    /\ InARow(messages, abandoned, p, <<k, i>>, cs[i].sig)
                    /\ CountAt(cs, i)
                         <= Cardinality(Named(messages, p, <<k, i>>, cs[i].sig))
                    /\ NoUser(messages, p[1], Len(messages))
  BY <1>5, <1>14, CountIsThere DEF EarnInv
<1>17. Len(rem) = 1 =>
         \E i \in 1..n : /\ CountAt(cs, i) \in RemindAt
                         /\ rem[1] = [kind |-> "reminder", run |-> r, sig |-> cs[i].sig]
  <2> DEFINE due == {i \in DOMAIN cs : CountAt(cs, i) \in RemindAt}
             i == CHOOSE i \in due : \A j \in due : j <= i
  <2>1. CASE due = {}
    BY <2>1, EmptySeq DEF rem, Reminder
  <2>2. CASE due # {}
    <3>1. due \subseteq 1..n
      BY <1>6
    <3>2. \E d \in due : \A j \in due : j <= d
      BY <1>6, <2>2, <3>1, LastPosition
    <3>3. i \in due
      BY <3>2
    <3>4. rem = <<[kind |-> "reminder", run |-> r, sig |-> cs[i].sig]>>
      BY <2>2 DEF rem, Reminder
    <3> HIDE DEF i
    <3>5. rem[1] = [kind |-> "reminder", run |-> r, sig |-> cs[i].sig]
      BY <3>4
    <3>6. QED BY <1>6, <3>3, <3>5
  <2>3. QED BY <2>1, <2>2
<1> HIDE DEF cs
<1>18. \A j \in (k+1)..Len(messages') : ~IsCall(messages', j)
  <2>1. ASSUME NEW j \in (k+1)..Len(messages'), IsCall(messages', j)
        PROVE  FALSE
    <3>1. j \in 1..L \/ j \in (L + 1)..Len(messages')
      BY <1>6, <1>14, <2>1
    <3>2. CASE j \in 1..L
      BY <1>13, <1>14, <1>15, <2>1, <3>2 DEF IsCall
    <3>3. CASE j \in (L + 1)..Len(messages')
      <4>1. messages'[j].kind \in {"message", "reminder"}
        <5>1. Len(rem) = 1 => rem[1].kind = "reminder"
          BY <1>17
        <5>2. QED BY <1>13, <3>3, <5>1
      <4>2. QED BY <2>1, <4>1 DEF IsCall
    <3>4. QED BY <3>1, <3>2, <3>3
  <2>2. QED BY <2>1
<1>19. AllEarned(messages', abandoned')
  <2>1. ASSUME NEW m \in DOMAIN messages', messages'[m].kind = "reminder"
        PROVE  EarnedAt(messages', abandoned', m)
    <3>1. CASE m \in 1..L
      <4>1. EarnedAt(messages, abandoned, m)
        BY <1>6, <1>13, <2>1, <3>1 DEF EarnInv, AllEarned
      <4>2. m <= Len(messages)
        BY <1>6, <3>1
      <4>3. QED BY <1>5, <4>1, <4>2, EarnedKept
    <3>2. CASE m \notin 1..L
      <4>1. m \in (L + 1)..Len(messages')
        BY <1>6, <2>1, <3>2
      <4>2. m = L + 1 /\ Len(rem) = 1 /\ messages'[m] = rem[1]
        BY <1>13, <2>1, <4>1
      <4>3. PICK i \in 1..n :
               /\ CountAt(cs, i) \in RemindAt
               /\ rem[1] = [kind |-> "reminder", run |-> r, sig |-> cs[i].sig]
        BY <1>17, <4>2
      <4>4. messages'[m].sig = cs[i].sig
        BY <4>2, <4>3
      <4>5. PICK p \in Places(messages) :
               /\ InARow(messages, abandoned, p, <<k, i>>, cs[i].sig)
               /\ CountAt(cs, i) <= Cardinality(Named(messages, p, <<k, i>>, cs[i].sig))
               /\ NoUser(messages, p[1], Len(messages))
        BY <1>16
      <4>6. PICK f \in Places(messages) :
               /\ InARow(messages, abandoned, f, <<k, i>>, cs[i].sig) /\ p[1] <= f[1]
               /\ Cardinality(Named(messages, f, <<k, i>>, cs[i].sig)) = CountAt(cs, i)
        BY <1>5, <1>16, <4>5, Exactly
      <4> DEFINE q == <<k, i>>
      <4>7. q[1] = k /\ k <= Len(messages')
        BY <1>6, <1>13
      <4>8. /\ InARow(messages', abandoned', f, q, cs[i].sig)
            /\ Named(messages', f, q, cs[i].sig) = Named(messages, f, q, cs[i].sig)
            /\ f[1] \in 1..q[1]
        BY <1>5, <4>6, <4>7, RowKept
      <4>9. f \in Places(messages') /\ q \in Places(messages')
        BY <4>8 DEF InARow, Named, Between
      <4>10. Cardinality(Named(messages', f, q, cs[i].sig)) \in RemindAt
        BY <4>3, <4>6, <4>8
      <4>11. NoUser(messages', f[1], m)
        <5>1. p[1] \in Nat /\ f[1] \in Nat /\ 1 <= f[1]
          BY PlacesAre, <1>5
        <5>2. \A j \in f[1]..m : j \in p[1]..L \/ j = m
          BY <1>6, <4>2, <4>6, <5>1
        <5>3. \A j \in f[1]..m : j \in 1..L \/ j = m
          BY <1>6, <4>2, <5>1
        <5>4. QED BY <1>13, <2>1, <4>5, <5>2, <5>3 DEF NoUser
      <4>12. q[1] < m /\ \A j \in (q[1] + 1)..m : ~IsCall(messages', j)
        BY <1>6, <1>18, <4>1, <4>2, <4>7
      <4> HIDE DEF q
      <4>13. QED BY <4>4, <4>8, <4>9, <4>10, <4>11, <4>12 DEF EarnedAt
    <3>3. QED BY <3>1, <3>2
  <2>2. QED BY <2>1 DEF AllEarned
<1>20. CountIsBacked'
  <2>1. SUFFICES ASSUME repeatCount' > 0
                 PROVE  Backed(messages', abandoned', Uncounted', repeatSignature',
                               repeatCount')
    BY DEF CountIsBacked
  <2>2. /\ ~HasUser(steerQueue) /\ repeatSignature' = cs[n].sig
        /\ repeatCount' = CountAt(cs, n)
    BY <1>8, <2>1
  <2>3. Uncounted' = {}
    BY <1>9 DEF Uncounted, Landed
  <2>4. n \in 1..n
    BY <1>6
  <2>5. PICK p \in Places(messages) :
           /\ InARow(messages, abandoned, p, <<k, n>>, cs[n].sig)
           /\ CountAt(cs, n) <= Cardinality(Named(messages, p, <<k, n>>, cs[n].sig))
           /\ NoUser(messages, p[1], Len(messages))
    BY <1>16, <2>4
  <2>6. \A x \in Places(messages) : NotAfter(x, <<k, n>>)
    <3>1. ASSUME NEW x \in Places(messages)
          PROVE  NotAfter(x, <<k, n>>)
      <4>1. x[1] \in 1..L /\ IsCall(messages, x[1]) /\ x[2] \in 1..Len(messages[x[1]].calls)
        BY <1>5, PlacesAre
      <4>2. x[1] <= k
        BY <1>15, <4>1
      <4>3. x[1] = k => x[2] <= n
        BY <1>6, <1>14, <4>1
      <4>4. QED BY <1>6, <4>1, <4>2, <4>3 DEF NotAfter
    <3>2. QED BY <3>1
  <2>7. <<k, n>> \in Places(messages)
    BY <2>5 DEF InARow, Named, Between
  <2>8. Backed(messages, abandoned, {}, cs[n].sig, CountAt(cs, n))
    BY <2>5, <2>6, <2>7 DEF Backed
  <2>9. NoUser(messages', L + 1, Len(messages'))
    <3>1. NoUser(messages', Len(mid) + 1, Len(messages'))
      BY <1>12, <2>2
    <3>2. Len(rem) = 1 => rem[1].kind = "reminder"
      BY <1>17
    <3>3. QED BY <1>13, <3>1, <3>2 DEF NoUser
  <2>10. \A j \in (L + 1)..Len(messages') : ~IsCall(messages', j)
    BY <1>6, <1>14, <1>18
  <2>11. Backed(messages', abandoned', {}, cs[n].sig, CountAt(cs, n))
    BY <1>5, <1>13, <2>8, <2>9, <2>10, BackedKept
  <2>12. QED BY <2>2, <2>3, <2>11
<1>21. BatchIsLast'
  BY <1>9 DEF BatchIsLast
<1>22. QED BY <1>19, <1>20, <1>21 DEF EarnInv

\* A step that leaves transcript and repeat guard alone.
LEMMA SameTranscript ==
  ASSUME messages \in Seq(Entry), EarnInv, repeatCount \in Nat,
         Follows(messages, abandoned, messages', abandoned'), UNCHANGED <<messages, repeat>>,
         \/ /\ AtCount' <=> AtCount
            /\ AtCount => runId' = runId /\ turn'[runId] = turn[runId]
         \/ /\ ~AtCount'
            /\ AtCount => turn[runId].calls = <<>> \/ runId \in abandoned'
  PROVE  EarnInv'
<1>1. Len(messages) \in Nat /\ messages' \in Seq(Entry) /\ Len(messages') = Len(messages)
  BY LenProperties
<1>2. (Len(messages) + 1)..Len(messages') = {}
  BY <1>1
<1>3. NoUser(messages', Len(messages) + 1, Len(messages'))
  BY <1>2 DEF NoUser
<1>4. \A k \in (Len(messages) + 1)..Len(messages') :
         messages'[k].kind \in {"message", "toolResult"}
  BY <1>2
<1>5. Len(messages) <= Len(messages') /\ UNCHANGED repeat
  BY <1>1
<1>6. QED BY <1>1, <1>3, <1>4, <1>5, QuietStep

\* What the session does - a run begun, a prompt given, a stop, a rewind - keeps
\* the count and the reminders backed.
LEMMA CallerEarns ==
  ASSUME EarnGrounds, "cutInView" \notin Env, messages' \in Seq(Entry), EarnInv,
         Follows(messages, abandoned, messages', abandoned'), CallerStep
  PROVE  EarnInv'
<1>1. /\ messages \in Seq(Entry) /\ repeatCount \in Nat /\ steerQueue \in Seq(Msg)
      /\ pc \in [Runs -> Parked] /\ runId \in 0..MaxRuns
  BY DEF EarnGrounds, OwnerInv, TypeInv, TypeOK
<1>2. ASSUME ~runningInner, NEW first \in Seq(Msg), StartRun(first)
      PROVE  EarnInv'
  <2>1. runId' = runId + 1 /\ runId + 1 \in Runs /\ runId' \in 0..MaxRuns
    BY <1>1, <1>2, BoundsAssumption DEF StartRun, Runs
  <2>2. Append_(runId', messages, first \o steerQueue, repeatSignature, repeatCount)
        /\ pc' = [pc EXCEPT ![runId'] = "beforeStep"]
    BY <1>2 DEF StartRun, LoopTop
  <2>3. first \o steerQueue \in Seq(Msg)
    BY <1>1, ConcatProperties
  <2>4. ~AtCount /\ ~AtCount'
    BY <1>1, <1>2, <2>1, <2>2 DEF AtCount
  <2>5. /\ Len(messages) <= Len(messages')
        /\ \A k \in (Len(messages) + 1)..Len(messages') :
              messages'[k].kind \in {"message", "toolResult"}
        /\ \/ repeatCount' = 0
           \/ UNCHANGED repeat /\ NoUser(messages', Len(messages) + 1, Len(messages'))
    BY <1>1, <2>1, <2>2, <2>3, AppendGrows
  <2>6. QED BY <1>1, <2>4, <2>5, QuietStep
<1>3. ASSUME UNCHANGED <<control, messages, repeat, pc, turn>>
      PROVE  EarnInv'
  BY <1>1, <1>3, SameTranscript DEF AtCount, control
<1>4. CASE \E role \in PromptRoles : Prompt(role) \/ Steer(role)
  <2>1. PICK role \in PromptRoles : Prompt(role) \/ Steer(role)
    BY <1>4
  <2>2. <<NewMsg(role)>> \in Seq(Msg)
    BY NewMsgType DEF EarnGrounds, OwnerInv
  <2>3. Queue(NewMsg(role)) \/ (~runningInner /\ StartRun(<<NewMsg(role)>>))
    BY <2>1 DEF Prompt, Steer
  <2>4. CASE Queue(NewMsg(role))
    BY <1>3, <2>4 DEF Queue
  <2>5. QED BY <1>2, <2>2, <2>3, <2>4
<1>5. CASE Continue
  <2>1. <<>> \in Seq(Msg)
    BY EmptySeq
  <2>2. QED BY <1>2, <1>5, <2>1 DEF Continue
<1>6. CASE AppendMessage
  <2> DEFINE ms == <<[id |-> 0, role |-> "context"]>>
  <2>1. ms \in Seq(Msg) /\ ~HasUser(ms)
    <3>1. [id |-> 0, role |-> "context"] \in Msg
      BY DEF Msg, Roles
    <3>2. \A i \in DOMAIN ms : ms[i].role = "context"
      OBVIOUS
    <3>3. ms \in Seq(Msg)
      BY <3>1, OneElement
    <3>4. QED BY <3>2, <3>3 DEF HasUser
  <2>2. Append_(0, messages, ms, repeatSignature, repeatCount)
        /\ UNCHANGED <<control, pc, turn>>
    BY <1>6 DEF AppendMessage
  <2> HIDE DEF ms
  <2>3. 0 \in 0..MaxRuns
    BY BoundsAssumption
  <2>4. /\ Len(messages) <= Len(messages')
        /\ \A k \in (Len(messages) + 1)..Len(messages') :
              messages'[k].kind \in {"message", "toolResult"}
        /\ \/ repeatCount' = 0
           \/ UNCHANGED repeat /\ NoUser(messages', Len(messages) + 1, Len(messages'))
        /\ NoUser(messages', Len(messages) + 1, Len(messages'))
    BY <1>1, <2>1, <2>2, <2>3, AppendGrows
  <2>5. (AtCount' <=> AtCount) /\ runId' = runId /\ turn'[runId] = turn[runId]
    BY <2>2 DEF AtCount, control
  <2>6. QED BY <1>1, <2>4, <2>5, QuietStep
<1>7. CASE Abort \/ Close
  <2>1. AbortBody /\ UNCHANGED <<repeat, pc, turn>>
    BY <1>7 DEF Abort, Close
  <2>2. CASE runningInner /\ isStreaming
    <3>1. /\ messages' = messages \o Results(runId, Unhealed)
          /\ runId' = runId /\ abandoned' = abandoned \cup {runId} /\ ~runningInner'
      BY <2>1, <2>2 DEF AbortBody
    <3>2. Unhealed \in SUBSET Nat
      BY <1>1, UnhealedType
    <3>3. /\ Results(runId, Unhealed) \in Seq(Entry)
          /\ \A i \in 1..Len(Results(runId, Unhealed)) :
                Results(runId, Unhealed)[i].kind = "toolResult"
      BY <1>1, <3>2, ResultsType, ResultsAre
    <3>4. /\ Len(messages) <= Len(messages')
          /\ \A k \in (Len(messages) + 1)..Len(messages') :
                /\ k - Len(messages) \in 1..Len(Results(runId, Unhealed))
                /\ messages'[k] = Results(runId, Unhealed)[k - Len(messages)]
      BY <1>1, <3>1, <3>3, GrownBy
    <3>5. \A k \in (Len(messages) + 1)..Len(messages') : messages'[k].kind = "toolResult"
      BY <3>3, <3>4
    <3>6. NoUser(messages', Len(messages) + 1, Len(messages'))
      BY <3>5 DEF NoUser
    <3>7. ~AtCount' /\ runId \in abandoned'
      BY <3>1 DEF AtCount
    <3>8. UNCHANGED repeat
      BY <2>1
    <3>9. QED BY <1>1, <3>4, <3>5, <3>6, <3>7, <3>8, QuietStep
  <2>3. CASE ~(runningInner /\ isStreaming)
    <3>1. UNCHANGED <<runId, runningInner, messages, repeat, pc, turn>>
      BY <2>1, <2>3 DEF AbortBody
    <3>2. (AtCount' <=> AtCount) /\ runId' = runId /\ turn'[runId] = turn[runId]
      BY <3>1 DEF AtCount
    <3>3. QED BY <1>1, <3>1, <3>2, SameTranscript
  <2>4. QED BY <2>2, <2>3
<1>8. CASE \E n \in DOMAIN messages : Rewind(n)
  BY <1>8, RewindStep DEF EarnGrounds
<1>9. QED BY <1>4, <1>5, <1>6, <1>7, <1>8 DEF CallerStep

\* So does every step of a run, late or live.
LEMMA RunEarns ==
  ASSUME EarnGrounds, "fallback" \notin Env, messages' \in Seq(Entry), EarnInv,
         Follows(messages, abandoned, messages', abandoned'),
         NEW r \in Runs, RunStep(r)
  PROVE  EarnInv'
<1>1. /\ messages \in Seq(Entry) /\ repeatCount \in Nat /\ steerQueue \in Seq(Msg)
      /\ pc \in [Runs -> Parked] /\ r \in 0..MaxRuns /\ DOMAIN turn = Runs
      /\ runningInner => runId \in Runs
  BY BoundsAssumption
     DEF EarnGrounds, OwnerInv, TypeInv, TypeOK, ARunIsNumbered, Runs
<1>2. pc[r] \in InFlight /\ ~isStaleRun(r) => r = runId /\ runningInner
  BY StaleIsLate DEF EarnGrounds
<1>3. runningInner => pc[runId] \in InFlight /\ runId \notin abandoned
  BY DEF EarnGrounds, OwnerInv, OneLiveRun, Live
<1>4. r = runId /\ runningInner => pc[r] \in InFlight /\ ~isStaleRun(r)
  BY <1>3, StaleIsLate DEF EarnGrounds
<1>5. ~abortRequested \/ ~runningInner
  BY DEF EarnGrounds, AbortEndsTheRun
\* A step of another run, or of none, that changes only where it is parked.
<1>6. ASSUME UNCHANGED <<messages, repeat, runId, runningInner>>,
             isStaleRun(r) \/ pc[r] \notin InFlight,
             NEW p, pc' = [pc EXCEPT ![r] = p],
             turn' = turn \/ \E t : turn' = [turn EXCEPT ![r] = t]
      PROVE  EarnInv'
  <2>1. runningInner => runId # r /\ pc'[runId] = pc[runId] /\ turn'[runId] = turn[runId]
    BY <1>1, <1>4, <1>6
  <2>2. AtCount' <=> AtCount
    BY <1>6, <2>1 DEF AtCount
  <2>3. AtCount => runId' = runId /\ turn'[runId] = turn[runId]
    BY <1>6, <2>1 DEF AtCount
  <2>4. UNCHANGED <<messages, repeat>>
    BY <1>6
  <2>5. QED BY <1>1, <2>2, <2>3, <2>4, SameTranscript
\* A step of the live run that is not about to count, nor becomes so.
<1>7. ASSUME UNCHANGED <<messages, repeat>>, pc[r] \in InFlight, ~isStaleRun(r),
             pc[r] # "landed" \/ turn[r].calls = <<>>,
             ~AtCount'
      PROVE  EarnInv'
  <2>1. AtCount => turn[runId].calls = <<>>
    BY <1>2, <1>7 DEF AtCount
  <2>2. UNCHANGED <<messages, repeat>>
    BY <1>7
  <2>3. QED BY <1>1, <1>7, <2>1, <2>2, SameTranscript
<1>8. CASE BeforeStepReturns(r)
  <2>1. /\ pc[r] = "beforeStep" /\ pc[r] \in InFlight
        /\ UNCHANGED <<control, messages, repeat, turn>>
        /\ \E p \in {"turn", "returned"} : pc' = [pc EXCEPT ![r] = p]
    BY <1>8 DEF BeforeStepReturns, Delivered, Park, InFlight, Parked
  <2>2. PICK p \in {"turn", "returned"} : pc' = [pc EXCEPT ![r] = p]
    BY <2>1
  <2>3. UNCHANGED <<messages, repeat, runId, runningInner>>
    BY <2>1 DEF control
  <2>4. CASE isStaleRun(r)
    BY <1>6, <2>1, <2>2, <2>3, <2>4
  <2>5. CASE ~isStaleRun(r)
    <3>1. ~AtCount'
      BY <1>1, <1>2, <2>1, <2>2, <2>3, <2>5 DEF AtCount
    <3>2. QED BY <1>7, <2>1, <2>5, <3>1
  <2>6. QED BY <2>4, <2>5
<1>9. CASE TurnReturns(r) \/ TurnFails(r)
  <2>1. PICK cs \in Seq(Call), done \in SUBSET Nat : TurnLands(r, cs, done)
    <3>1. \A cs \in Batches : cs \in Seq(Call) /\ CallIds(cs) \in SUBSET Nat
      BY BatchesType, CallIdsType DEF EarnGrounds, OwnerInv, TypeInv, TypeOK
    <3>2. <<>> \in Seq(Call)
      BY EmptySeq
    <3>3. CASE TurnReturns(r)
      <4>1. PICK cs \in Batches : \E done \in SUBSET CallIds(cs) : TurnLands(r, cs, done)
        BY <3>3 DEF TurnReturns
      <4>2. PICK done \in SUBSET CallIds(cs) : TurnLands(r, cs, done)
        BY <4>1
      <4>3. cs \in Seq(Call) /\ done \in SUBSET Nat
        BY <3>1
      <4>4. QED BY <4>2, <4>3
    <3>4. CASE TurnFails(r)
      BY <3>1, <3>2, <3>4 DEF TurnFails
    <3>5. QED BY <1>9, <3>3, <3>4
  <2>2. /\ pc[r] = "turn" /\ pc[r] \in InFlight /\ UNCHANGED <<control, repeat>>
    BY <1>9 DEF TurnReturns, TurnFails, Delivered, InFlight, Parked
  <2>3. CASE isStaleRun(r)
    <3>1. /\ messages' = messages /\ pc' = [pc EXCEPT ![r] = "landed"]
          /\ \E t : turn' = [turn EXCEPT ![r] = t]
      BY <2>1, <2>3 DEF TurnLands, Park
    <3>2. UNCHANGED <<messages, repeat, runId, runningInner>>
      BY <2>2, <3>1 DEF control
    <3>3. QED BY <1>6, <2>3, <3>1, <3>2
  <2>4. CASE ~isStaleRun(r)
    BY <2>1, <2>2, <2>4, LandStep DEF EarnGrounds
  <2>5. QED BY <2>3, <2>4
<1>10. CASE TurnThrows(r) \/ RunEnds(r)
  <2>1. /\ pc[r] \in {"turn", "returned"} /\ pc[r] \in InFlight
        /\ Finally(r) /\ UNCHANGED <<messages, repeat>>
    BY <1>10 DEF TurnThrows, RunEnds, Delivered, InFlight, Parked
  <2>2. /\ pc' = [pc EXCEPT ![r] = "ended"] /\ runId' = runId
        /\ \E t : turn' = [turn EXCEPT ![r] = t]
    BY <2>1 DEF Finally, Park
  <2>3. CASE isStaleRun(r)
    <3>1. UNCHANGED <<messages, repeat, runId, runningInner>>
      BY <2>1, <2>2, <2>3 DEF Finally
    <3>2. QED BY <1>6, <2>2, <2>3, <3>1
  <2>4. CASE ~isStaleRun(r)
    <3>1. ~runningInner'
      BY <2>1, <2>4 DEF Finally
    <3>2. ~AtCount'
      BY <3>1 DEF AtCount
    <3>3. QED BY <1>7, <2>1, <2>4, <3>2
  <2>5. QED BY <2>3, <2>4
<1>11. CASE TurnEnds(r)
  BY <1>11, CountStep
<1>12. CASE TextTurnEnds(r)
  <2>1. /\ pc[r] = "landed" /\ pc[r] \in InFlight
        /\ ~MayGoOn(r) \/ turn[r].calls = <<>>
        /\ pc' = [pc EXCEPT ![r] = "returned"] /\ \E t : turn' = [turn EXCEPT ![r] = t]
        /\ UNCHANGED <<messages, repeat, runId, runningInner>>
    BY <1>12 DEF TextTurnEnds, Park, InFlight, Parked, control
  <2>2. CASE isStaleRun(r)
    BY <1>6, <2>1, <2>2
  <2>3. CASE ~isStaleRun(r)
    <3>1. turn[r].calls = <<>>
      BY <1>2, <1>5, <2>1, <2>3 DEF MayGoOn
    <3>2. ~AtCount'
      BY <1>1, <1>2, <2>1, <2>3 DEF AtCount
    <3>3. QED BY <1>7, <2>1, <2>3, <3>1, <3>2
  <2>4. QED BY <2>2, <2>3
<1>13. CASE ToolReturns(r) \/ ToolsDone(r)
  BY <1>13 DEF ToolReturns, ToolsDone, Delivered, EarnGrounds, NothingLeftOver
<1>14. CASE DrainNext(r)
  <2>1. pc[r] = "returned" /\ pc[r] \in InFlight /\ steerQueue # <<>> /\ UNCHANGED control
    BY <1>14 DEF DrainNext, InFlight, Parked
  <2>2. ~AtCount
    BY <1>1, <2>1 DEF AtCount, EarnGrounds, OneQueued, Queued
  <2>3. PICK ms \in Seq(Msg) :
           Append_(r, messages, ms, repeatSignature, repeatCount)
    <3>1. <<>> \o steerQueue \in Seq(Msg)
      BY <1>1, EmptySeq, ConcatProperties
    <3>2. <<Head(steerQueue)>> \in Seq(Msg)
      BY <1>1, <2>1, HeadTailProperties, OneElement
    <3>3. QED BY <1>14, <3>1, <3>2 DEF DrainNext, LoopTop
  <2>4. runId' = runId /\ runningInner' = runningInner
        /\ (pc' = pc \/ pc' = [pc EXCEPT ![r] = "beforeStep"])
    BY <1>14, <2>1 DEF DrainNext, LoopTop, control
  <2>5. ~AtCount'
    BY <1>1, <2>2, <2>4 DEF AtCount
  <2>6. /\ Len(messages) <= Len(messages')
        /\ \A k \in (Len(messages) + 1)..Len(messages') :
              messages'[k].kind \in {"message", "toolResult"}
        /\ \/ repeatCount' = 0
           \/ UNCHANGED repeat /\ NoUser(messages', Len(messages) + 1, Len(messages'))
    BY <1>1, <2>3, AppendGrows
  <2>7. QED BY <1>1, <2>2, <2>5, <2>6, QuietStep
<1>15. CASE Settle(r)
  <2>1. /\ pc[r] \notin InFlight /\ pc' = [pc EXCEPT ![r] = "done"] /\ turn' = turn
        /\ UNCHANGED <<messages, repeat, runId, runningInner>>
    BY <1>15 DEF Settle, Park, InFlight, Parked
  <2>2. QED BY <1>6, <2>1
<1>16. QED
  BY <1>8, <1>9, <1>10, <1>11, <1>12, <1>13, <1>14, <1>15 DEF RunStep

\* What is queued is queued by a delivery, which waits for the queue to be empty,
\* or by the continuation before it.
LEMMA OneIsQueued == Spec => []OneQueued
<1>1. Init => OneQueued
  BY DEF Init, OneQueued, Queued
<1>2. ASSUME TypeInv, OneQueued, Next
      PROVE  OneQueued'
  <2>1. pc \in [Runs -> Parked]
    BY <1>2 DEF TypeInv, TypeOK
  <2>2. ASSUME NEW r, NEW p, pc' = [pc EXCEPT ![r] = p] \/ pc' = pc,
               \/ p \notin Queued
               \/ r \in Runs /\ pc[r] \in Queued
               \/ \A q \in Runs : pc[q] \notin Queued
        PROVE  OneQueued'
    BY <1>2, <2>1, <2>2 DEF OneQueued
  <2>3. CASE CallerStep
    <3>1. UNCHANGED pc \/ \E r : pc' = [pc EXCEPT ![r] = "beforeStep"]
      BY <1>2, <2>3, CallerStepMoves DEF StartRun, LoopTop
    <3>2. "beforeStep" \notin Queued
      BY DEF Queued
    <3>3. QED BY <2>2, <3>1, <3>2
  <2>4. ASSUME NEW r \in Runs, RunStep(r)
        PROVE  OneQueued'
    <3> USE DEF Park
    <3>1. ASSUME pc[r] \in Queued, NEW p, pc' = [pc EXCEPT ![r] = p] \/ pc' = pc
          PROVE  OneQueued'
      BY <2>2, <2>4, <3>1
    <3>2. ASSUME \A q \in Runs : pc[q] \notin Queued,
                 NEW p, pc' = [pc EXCEPT ![r] = p] \/ pc' = pc
          PROVE  OneQueued'
      BY <2>2, <3>2
    <3>3. CASE BeforeStepReturns(r) \/ TurnReturns(r) \/ TurnFails(r) \/ TurnThrows(r)
               \/ ToolReturns(r)
      <4>1. \A q \in Runs : pc[q] \notin Queued
        BY <3>3 DEF BeforeStepReturns, TurnReturns, TurnFails, TurnThrows, ToolReturns,
                    Delivered
      <4>2. \E p : pc' = [pc EXCEPT ![r] = p] \/ pc' = pc
        BY <3>3 DEF BeforeStepReturns, TurnReturns, TurnFails, TurnThrows, ToolReturns,
                    TurnLands, Finally
      <4>3. QED BY <3>2, <4>1, <4>2
    <3>4. CASE TurnEnds(r) \/ TextTurnEnds(r) \/ ToolsDone(r) \/ DrainNext(r)
               \/ RunEnds(r) \/ Settle(r)
      <4>1. pc[r] \in Queued
        BY <3>4 DEF TurnEnds, TextTurnEnds, ToolsDone, DrainNext, RunEnds, Settle, Queued
      <4>2. \E p : pc' = [pc EXCEPT ![r] = p] \/ pc' = pc
        BY <3>4 DEF TurnEnds, TextTurnEnds, ToolsDone, DrainNext, RunEnds, Settle,
                    NoteAndLoop, LoopTop, Finally
      <4>3. QED BY <3>1, <4>1, <4>2
    <3>5. QED BY <2>4, <3>3, <3>4 DEF RunStep
  <2>5. QED BY <1>2, <2>3, <2>4 DEF Next
<1>3. TypeInv /\ OneQueued /\ [Next]_vars => OneQueued'
  <2>1. UNCHANGED vars /\ OneQueued => OneQueued'
    BY DEF vars, OneQueued
  <2>2. QED BY <1>2, <2>1
<1>4. QED BY <1>1, <1>3, TypeInvariance, PTL DEF Spec

\* A reminder is earned (agent.ts 833-858: "any other call resets the count, and
\* so does a new prompt"): with one abandoned turn out at most, tools run by the
\* transport, and every cut taken over by a view read again, a reminder names a
\* call that RemindAt many calls in a row are.
THEOREM RemindersAreEarned ==
  ASSUME MaxLate <= 1, "fallback" \notin Env, "cutInView" \notin Env
  PROVE  Spec => []ReminderEarned
<1>1. Init => EarnInv
  <2>1. Init => messages = <<>> /\ repeatCount = 0 /\ ~runningInner
    BY DEF Init
  <2>2. DOMAIN <<>> = {}
    OBVIOUS
  <2>3. QED BY <2>1, <2>2 DEF EarnInv, AllEarned, CountIsBacked, BatchIsLast
<1>2. ASSUME EarnGrounds, EarnInv, [Next]_vars
      PROVE  EarnInv'
  <2>1. messages \in Seq(Entry) /\ repeatCount \in Nat
    BY <1>2 DEF EarnGrounds, OwnerInv, TypeInv, TypeOK
  <2>2. CASE Next
    <3>1. messages' \in Seq(Entry)
      BY <1>2, <2>2, StepType DEF EarnGrounds, OwnerInv, TypeInv, TypeOK
    <3>2. Follows(messages, abandoned, messages', abandoned')
      BY <1>2, <2>2, StepFollows DEF EarnGrounds
    <3>3. QED BY <1>2, <2>2, <3>1, <3>2, CallerEarns, RunEarns DEF Next
  <2>3. CASE UNCHANGED vars
    <3>1. UNCHANGED <<messages, abandoned, runId, runningInner, pc, turn,
                      repeatSignature, repeatCount>>
      BY <2>3 DEF vars, control, repeat
    <3>2. QED
      BY <1>2, <3>1 DEF EarnInv, CountIsBacked, BatchIsLast, Uncounted, Landed
  <2>4. QED BY <1>2, <2>2, <2>3
<1>3. ASSUME EarnInv
      PROVE  ReminderEarned
  <2>1. CallPlaces = Places(messages) /\ MayBeUncounted = LastOf(messages, abandoned)
    BY DEF CallPlaces, Places, MayBeUncounted, LastOf, IsCall
  <2>2. ASSUME NEW n \in DOMAIN messages, messages[n].kind = "reminder"
        PROVE  \E first, last \in CallPlaces :
                 LET row  == {p \in CallPlaces : NotAfter(first, p) /\ NotAfter(p, last)}
                     same == {p \in row : messages[p[1]].calls[p[2]].sig = messages[n].sig}
                 IN  /\ Cardinality(same) \in RemindAt
                     /\ \A p \in row \ same : p[1] \in MayBeUncounted
                     /\ last \in same /\ last[1] < n
                     /\ \A k \in (last[1]+1)..n : messages[k].kind # "assistant"
                     /\ \A k \in first[1]..n :
                          messages[k].kind = "message" => messages[k].msg.role # "user"
    <3>1. PICK p, q \in Places(messages) :
            /\ InARow(messages, abandoned, p, q, messages[n].sig)
            /\ Cardinality(Named(messages, p, q, messages[n].sig)) \in RemindAt
            /\ q[1] < n /\ \A k \in (q[1]+1)..n : ~IsCall(messages, k)
            /\ NoUser(messages, p[1], n)
      BY <1>3, <2>2 DEF EarnInv, AllEarned, EarnedAt
    <3> DEFINE row  == {x \in CallPlaces : NotAfter(p, x) /\ NotAfter(x, q)}
               same == {x \in row : messages[x[1]].calls[x[2]].sig = messages[n].sig}
    <3>2. row = Between(messages, p, q)
      BY <2>1 DEF Between
    <3>3. same = Named(messages, p, q, messages[n].sig)
      BY <3>2 DEF Named
    <3> HIDE DEF row, same
    <3>4. /\ Cardinality(same) \in RemindAt
          /\ \A x \in row \ same : x[1] \in MayBeUncounted
          /\ q \in same /\ q[1] < n
      BY <2>1, <3>1, <3>2, <3>3 DEF InARow
    <3>5. /\ \A k \in (q[1]+1)..n : messages[k].kind # "assistant"
          /\ \A k \in p[1]..n :
                messages[k].kind = "message" => messages[k].msg.role # "user"
      BY <3>1 DEF IsCall, NoUser
    <3>6. p \in CallPlaces /\ q \in CallPlaces
      BY <2>1, <3>1
    <3>7. QED BY <3>4, <3>5, <3>6 DEF row, same
  <2>3. QED BY <2>2 DEF ReminderEarned
<1>4. Spec => []OwnerInv
  BY OwnerInvariance
<1>5. Spec => []AbortEndsTheRun
  BY AbortEnds
<1>6. Spec => []NothingLeftOver
  BY LeftOverInvariance
<1>7. Spec => []OneQueued
  BY OneIsQueued
<1>8. OwnerInv /\ NothingLeftOver /\ AbortEndsTheRun /\ OneQueued <=> EarnGrounds
  BY DEF EarnGrounds
<1>9. EarnGrounds /\ EarnInv /\ [Next]_vars => EarnInv'
  BY <1>2
<1>10. EarnInv => ReminderEarned
  BY <1>3
<1>11. QED BY <1>1, <1>4, <1>5, <1>8, <1>9, <1>10, <1>6, <1>7, PTL DEF Spec

===============================================================================
