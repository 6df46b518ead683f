---------------------- MODULE SessionProcesses_proofs ----------------------
(***************************************************************************)
(* What holds of the processes that work for a session: its background     *)
(* commands (BackgroundCommands, the first part) and its MCP servers       *)
(* (McpAttachments, the second part), for any number of them.  The two     *)
(* share no state; what they have in common is that the session's close    *)
(* has to end them all.                                                    *)
(***************************************************************************)
EXTENDS BackgroundCommands, McpAttachments, FiniteSetTheorems, SequenceTheorems,
        NaturalsInduction, WellFoundedInduction, TLAPS

(***************************************************************************)
(* Background commands.  Processes and records correspond, from the first  *)
(* record to the last exit, and the agent is told of an end once and truly.*)
(***************************************************************************)

(***************************************************************************)
(* Where a record is says what its process may be, and the other way       *)
(* round.  What a command is killed for is decided once.                   *)
(***************************************************************************)
Before == {"none", "spawning", "rejected"}
Ended  == {"flushing", "decoding", "over"}

IdsAreFresh == \A c \in Commands : c > nextId => place[c] = "none"

RecordsFollow ==
    \A c \in Commands :
       /\ place[c] \in Before => process[c] # "immune"
                               /\ cause[c] \in {"none", "exited"}
       /\ place[c] = "none" => process[c] = "none"
       /\ process[c] = "none" => cause[c] = "none"
       /\ place[c] \in Ended => process[c] = "gone"

CausesFollow ==
    \A c \in Commands :
       /\ Alive(c) => cause[c] # "exited"
       /\ process[c] = "gone" => cause[c] # "none"
       /\ process[c] = "immune" => cause[c] \in {"killed", "timeout"}

\* What ends the process of a command that is to be signalled is decided before
\* the signal: by its kill, or by the close.
SignalsAreDecided ==
    \A c \in Commands : kill[c] # "none" \/ c \in targets =>
       /\ place[c] \notin Before
       /\ Alive(c) => cause[c] \in {"killed", "timeout"}

PlaceInv == /\ CommandsTypeOK /\ IdsAreFresh /\ RecordsFollow /\ CausesFollow
            /\ SignalsAreDecided

(***************************************************************************)
(* The slots: a spawn that is awaited holds one already.                   *)
(***************************************************************************)
Spawning == {c \in Commands : place[c] = "spawning"}
Slots == Records \cup Spawning
SlotsAreLimited == Cardinality(Slots) <= MaxSlots

\* A kill reports success only of a record that is settled.
KillsAreSettled ==
    \A c \in Commands : "killed" \in told[c] => place[c] \in {"decoding", "over"}

(***************************************************************************)
(* The close: it has taken every record but those made behind it.          *)
(***************************************************************************)
CloseTakesAll ==
    closing # "open" =>
      /\ Records \subseteq targets \cup late
      /\ closing = "closed" =>
           \A c \in Records \ late : /\ process[c] # "alive"
                                     /\ cause[c] \in {"killed", "timeout"}

AccountInv == PlaceInv /\ SlotsAreLimited /\ KillsAreSettled /\ CloseTakesAll

(***************************************************************************)
(* The marks and the causes: while the session is open they say the same.  *)
(***************************************************************************)
MarksAreTrue ==
    \A c \in Commands :
       /\ byTimeout[c] <=> cause[c] = "timeout"
       /\ cause[c] = "killed" => byUser[c]
       /\ byUser[c] /\ closing = "open" => kill[c] # "none"
       /\ kill[c] # "none" => cause[c] = "killed" /\ byUser[c]
       /\ timer[c] /\ Alive(c) => cause[c] = "none"
       /\ timer[c] => place[c] \notin Before

ToldIsTrue == \A c \in Commands : told[c] \subseteq {cause[c], "unsettled"}

ToldOnce ==
    closing = "open" =>
      \A c \in Commands :
         CASE kill[c] \in {"signalling", "waiting"} -> told[c] = {}
           [] kill[c] = "done" -> told[c] \in {{"killed"}, {"unsettled"}}
           [] kill[c] = "none" /\ place[c] = "over" ->
                told[c] \in {{"exited"}, {"timeout"}}
           [] OTHER -> told[c] = {}

EndsInv == PlaceInv /\ MarksAreTrue /\ ToldIsTrue /\ ToldOnce

USE DEF Commands

(***************************************************************************)
(* The operators the actions share.                                        *)
(***************************************************************************)
\* A signal ends live processes of its commands, or leaves them immune.
LEMMA SignalReaches ==
  ASSUME CommandsTypeOK, NEW cs \in SUBSET Commands, Signalled(cs)
  PROVE  /\ process' \in [Commands -> {"none", "alive", "immune", "gone"}]
         /\ \A c \in Commands :
              IF c \in cs /\ Alive(c) THEN process'[c] \in {"immune", "gone"}
                                     ELSE process'[c] = process[c]
<1>1. PICK deaf \in SUBSET (IF "outlive" \in Env THEN cs ELSE {}) :
        process' = [c \in Commands |->
                      IF c \in cs /\ Alive(c)
                        THEN IF c \in deaf THEN "immune" ELSE "gone"
                        ELSE process[c]]
  BY DEF Signalled
<1>2. QED BY <1>1 DEF CommandsTypeOK

\* Only what is undecided about a live process is decided.
LEMMA BlameDecides ==
  ASSUME CommandsTypeOK, NEW cs \in SUBSET Commands,
         NEW why \in {"exited", "timeout", "killed"},
         Blamed(cs, why)
  PROVE  /\ cause' \in [Commands -> {"none", "exited", "timeout", "killed"}]
         /\ \A c \in Commands :
              cause'[c] = IF c \in cs /\ Alive(c) /\ cause[c] = "none"
                            THEN why ELSE cause[c]
BY DEF Blamed, CommandsTypeOK

\* The completed commands stay within their limit.
LEMMA NewestType ==
  ASSUME NEW s \in Seq(Commands)
  PROVE  Newest(s) \in Seq(Commands) /\ Len(Newest(s)) <= MaxCompleted
<1> USE LimitAssumption DEF LimitAssumption
<1> DEFINE n == IF Len(s) > MaxCompleted THEN MaxCompleted ELSE Len(s)
<1>1. n \in 0 .. Len(s) /\ n <= MaxCompleted /\ n \in Nat
  OBVIOUS
<1>2. \A i \in 1 .. n : s[i] \in Commands
  <2> HIDE DEF n, Commands
  <2>1. \A i \in 1 .. n : i \in 1 .. Len(s)
    BY <1>1
  <2>2. QED BY <2>1, ElementOfSeq
<1>3. SubSeq(s, 1, n) \in Seq(Commands) /\ Len(SubSeq(s, 1, n)) = n
  <2> HIDE DEF n
  <2>1. SubSeq(s, 1, n) \in Seq(Commands)
        /\ Len(SubSeq(s, 1, n)) = IF 1 <= n THEN n - 1 + 1 ELSE 0
    BY <1>1, <1>2, SubSeqProperties
  <2>2. QED BY <1>1, <2>1
<1>4. QED BY <1>1, <1>3 DEF Newest

(***************************************************************************)
(* Types, records, processes and causes.                                   *)
(***************************************************************************)
LEMMA PlaceInit == CommandsInit => PlaceInv
<1> SUFFICES ASSUME CommandsInit PROVE PlaceInv
  OBVIOUS
<1>1. nextId \in 0 .. MaxStarts
  BY BoundAssumption DEF CommandsInit, BoundAssumption
<1>2. completed \in Seq(Commands) /\ Len(completed) <= MaxCompleted
  BY LimitAssumption DEF CommandsInit, LimitAssumption
<1>3. CommandsTypeOK
  BY <1>1, <1>2 DEF CommandsInit, CommandsTypeOK, Places
<1>4. QED BY <1>3
          DEF PlaceInv, CommandsInit, IdsAreFresh, RecordsFollow,
              CausesFollow, SignalsAreDecided, teardown, Alive, Before, Ended

LEMMA PlaceStart == PlaceInv /\ Start => PlaceInv'
<1> SUFFICES ASSUME PlaceInv, Start PROVE PlaceInv'
  OBVIOUS
<1>1. /\ nextId' = nextId + 1 /\ nextId' \in Commands /\ nextId' \in 0 .. MaxStarts
      /\ place' = [place EXCEPT ![nextId'] = "spawning"]
      /\ UNCHANGED <<process, record, completed, kill, teardown, cause, told>>
  BY BoundAssumption DEF Start, PlaceInv, CommandsTypeOK, BoundAssumption
<1>2. place[nextId'] = "none"
  BY <1>1 DEF PlaceInv, IdsAreFresh, CommandsTypeOK
<1>3. CommandsTypeOK'
  BY <1>1 DEF PlaceInv, CommandsTypeOK, record, teardown, Places
<1>4. IdsAreFresh'
  BY <1>1 DEF PlaceInv, CommandsTypeOK, IdsAreFresh
<1>5. RecordsFollow' /\ CausesFollow' /\ SignalsAreDecided'
  BY <1>1, <1>2 DEF PlaceInv, CommandsTypeOK, RecordsFollow, CausesFollow,
                    SignalsAreDecided, teardown, Alive, Before, Ended
<1>6. QED BY <1>3, <1>4, <1>5 DEF PlaceInv

LEMMA PlaceProcessStarts ==
  ASSUME PlaceInv, NEW c \in Commands, ProcessStarts(c)
  PROVE  PlaceInv'
<1>1. CommandsTypeOK'
  BY DEF ProcessStarts, PlaceInv, CommandsTypeOK, record, teardown
<1>2. QED BY <1>1
          DEF ProcessStarts, PlaceInv, CommandsTypeOK, IdsAreFresh, RecordsFollow,
              CausesFollow, SignalsAreDecided, teardown, Alive, Before, Ended

LEMMA PlaceSpawned ==
  ASSUME PlaceInv, NEW c \in Commands, Spawned(c)
  PROVE  PlaceInv'
<1>1. PICK timed \in BOOLEAN : timer' = [timer EXCEPT ![c] = timed]
  BY DEF Spawned
<1>2. CommandsTypeOK'
  BY <1>1 DEF Spawned, PlaceInv, CommandsTypeOK, teardown, Places
<1>3. QED BY <1>2
          DEF Spawned, PlaceInv, CommandsTypeOK, IdsAreFresh, RecordsFollow,
              CausesFollow, SignalsAreDecided, teardown, Alive, Before, Ended

LEMMA PlaceSpawnFails ==
  ASSUME PlaceInv, NEW c \in Commands, SpawnFails(c)
  PROVE  PlaceInv'
<1>1. CommandsTypeOK'
  BY DEF SpawnFails, PlaceInv, CommandsTypeOK, record, teardown, Places
<1>2. QED BY <1>1
          DEF SpawnFails, PlaceInv, CommandsTypeOK, IdsAreFresh, RecordsFollow,
              CausesFollow, SignalsAreDecided, teardown, Alive, Before, Ended

LEMMA PlaceExit ==
  ASSUME PlaceInv, NEW c \in Commands, Exit(c)
  PROVE  PlaceInv'
<1>1. /\ cause' \in [Commands -> {"none", "exited", "timeout", "killed"}]
      /\ \A d \in Commands :
           cause'[d] = IF d = c /\ cause[d] = "none" THEN "exited" ELSE cause[d]
  BY BlameDecides DEF Exit, PlaceInv
<1>2. process' = [process EXCEPT ![c] = "gone"] /\ Alive(c)
      /\ UNCHANGED <<nextId, place, kill, targets>>
  BY DEF Exit, teardown
<1>3. CommandsTypeOK'
  BY <1>1, <1>2 DEF Exit, PlaceInv, CommandsTypeOK, record, teardown
<1>4. QED BY <1>1, <1>2, <1>3
          DEF PlaceInv, CommandsTypeOK, IdsAreFresh, RecordsFollow,
              CausesFollow, SignalsAreDecided, teardown, Alive, Before, Ended

LEMMA PlaceExitSeen ==
  ASSUME PlaceInv, NEW c \in Commands, ExitSeen(c), "probeFails" \notin Env
  PROVE  PlaceInv'
<1>1. CommandsTypeOK'
  BY DEF ExitSeen, PlaceInv, CommandsTypeOK, record, teardown, Places
<1>2. QED BY <1>1
          DEF ExitSeen, HasEnded, PlaceInv, CommandsTypeOK, IdsAreFresh, RecordsFollow,
              CausesFollow, SignalsAreDecided, teardown, Alive, Before, Ended

LEMMA PlaceFinalize ==
  ASSUME PlaceInv, NEW c \in Commands, Finalize(c)
  PROVE  PlaceInv'
<1>1. <<c>> \o completed \in Seq(Commands)
  BY DEF PlaceInv, CommandsTypeOK
<1>2. completed' \in Seq(Commands) /\ Len(completed') <= MaxCompleted
  BY <1>1, NewestType DEF Finalize
<1>3. CommandsTypeOK'
  BY <1>2 DEF Finalize, PlaceInv, CommandsTypeOK, teardown, Places
<1>4. QED BY <1>3
          DEF Finalize, Unfinalized, PlaceInv, CommandsTypeOK, IdsAreFresh, RecordsFollow,
              CausesFollow, SignalsAreDecided, teardown, Alive, Before, Ended

LEMMA PlaceTold ==
  ASSUME PlaceInv, NEW c \in Commands, Told(c)
  PROVE  PlaceInv'
<1>1. told' \in [Commands -> SUBSET {"exited", "timeout", "killed", "unsettled"}]
  BY DEF Told, Notice, Reason, PlaceInv, CommandsTypeOK
<1>2. CommandsTypeOK'
  BY <1>1 DEF Told, PlaceInv, CommandsTypeOK, record, teardown, Places
<1>3. QED BY <1>2
          DEF Told, PlaceInv, CommandsTypeOK, IdsAreFresh, RecordsFollow,
              CausesFollow, SignalsAreDecided, teardown, Alive, Before, Ended

\* What a signal, and the decision that comes before it, leaves of the records.
LEMMA SignalFollows ==
  ASSUME PlaceInv, NEW cs \in SUBSET Commands, Signalled(cs),
         UNCHANGED <<nextId, place>>,
         cause' \in [Commands -> {"none", "exited", "timeout", "killed"}],
         \A c \in Commands :
            \/ cause'[c] = cause[c]
            \/ /\ Alive(c) /\ place[c] \notin Before
               /\ cause[c] = "none" /\ cause'[c] # "exited",
         \A c \in cs : Alive(c) => cause'[c] # "none",
         \A c \in Commands : kill'[c] # "none" => kill[c] # "none",
         targets' = targets
  PROVE  /\ process' \in [Commands -> {"none", "alive", "immune", "gone"}]
         /\ IdsAreFresh' /\ RecordsFollow' /\ CausesFollow' /\ SignalsAreDecided'
<1>1. /\ process' \in [Commands -> {"none", "alive", "immune", "gone"}]
      /\ \A c \in Commands :
           IF c \in cs /\ Alive(c) THEN process'[c] \in {"immune", "gone"}
                                  ELSE process'[c] = process[c]
  BY SignalReaches DEF PlaceInv
<1>2. IdsAreFresh'
  BY DEF PlaceInv, IdsAreFresh
<1>3. RecordsFollow'
  <2>1. ASSUME NEW c \in Commands
        PROVE  /\ place[c] \in Before => process'[c] # "immune"
                                       /\ cause'[c] \in {"none", "exited"}
               /\ place[c] = "none" => process'[c] = "none"
               /\ process'[c] = "none" => cause'[c] = "none"
               /\ place[c] \in Ended => process'[c] = "gone"
    <3>1. IF c \in cs /\ Alive(c) THEN process'[c] \in {"immune", "gone"}
                                 ELSE process'[c] = process[c]
      BY <1>1
    <3>2. c \in cs /\ Alive(c) => place[c] \notin Before
      BY DEF PlaceInv, RecordsFollow, CausesFollow, Alive
    <3>3. QED BY <3>1, <3>2 DEF PlaceInv, RecordsFollow, Alive, Ended, Before
  <2>2. QED BY <2>1 DEF RecordsFollow
<1>4. CausesFollow'
  BY <1>1 DEF PlaceInv, CommandsTypeOK, CausesFollow, Alive
<1>5. SignalsAreDecided'
  BY <1>1 DEF PlaceInv, SignalsAreDecided, Alive
<1>6. QED BY <1>1, <1>2, <1>3, <1>4, <1>5

LEMMA PlaceTimer ==
  ASSUME PlaceInv, NEW c \in Commands, TimerFires(c)
  PROVE  PlaceInv'
<1>1. /\ cause' \in [Commands -> {"none", "exited", "timeout", "killed"}]
      /\ \A d \in Commands :
           cause'[d] = IF d = c /\ Alive(c) /\ cause[c] = "none" THEN "timeout"
                                                             ELSE cause[d]
  BY BlameDecides DEF TimerFires, PlaceInv
<1>2. /\ process' \in [Commands -> {"none", "alive", "immune", "gone"}]
      /\ IdsAreFresh' /\ RecordsFollow' /\ CausesFollow' /\ SignalsAreDecided'
  <2>1. Signalled({c}) /\ UNCHANGED <<nextId, place, kill, targets>>
    BY DEF TimerFires, teardown
  <2>2. /\ {c} \in SUBSET Commands
        /\ \A d \in {c} : Alive(d) => cause'[d] # "none"
    BY <1>1
  <2>3. place[c] \notin Before
    BY DEF TimerFires, Records, Before
  <2>4. QED BY <1>1, <2>1, <2>2, <2>3, SignalFollows
<1>3. CommandsTypeOK'
  BY <1>1, <1>2 DEF TimerFires, PlaceInv, CommandsTypeOK, teardown
<1>4. QED BY <1>2, <1>3 DEF PlaceInv

LEMMA PlaceKill ==
  ASSUME PlaceInv, NEW c \in Commands, Kill(c)
  PROVE  PlaceInv'
<1>1. /\ cause' \in [Commands -> {"none", "exited", "timeout", "killed"}]
      /\ \A d \in Commands :
           cause'[d] = IF d = c /\ Alive(c) /\ cause[c] = "none" THEN "killed"
                                                             ELSE cause[d]
  BY BlameDecides DEF Kill, PlaceInv
<1>2. CommandsTypeOK'
  BY <1>1 DEF Kill, PlaceInv, CommandsTypeOK, teardown
<1>3. IdsAreFresh' /\ RecordsFollow' /\ CausesFollow'
  BY <1>1 DEF Kill, PlaceInv, CommandsTypeOK, IdsAreFresh, RecordsFollow, CausesFollow,
              Records, Alive, Before, Ended
<1>4. SignalsAreDecided'
  BY <1>1 DEF Kill, PlaceInv, CommandsTypeOK, SignalsAreDecided, CausesFollow, teardown,
              Records, Alive, Before
<1>5. QED BY <1>2, <1>3, <1>4 DEF PlaceInv

LEMMA PlaceKillSignalled ==
  ASSUME PlaceInv, NEW c \in Commands, KillSignalled(c)
  PROVE  PlaceInv'
<1>1. /\ kill[c] = "signalling" /\ kill' = [kill EXCEPT ![c] = "waiting"]
      /\ Signalled({c}) /\ UNCHANGED <<nextId, place, targets, cause>>
  BY DEF KillSignalled, teardown
<1>2. /\ process' \in [Commands -> {"none", "alive", "immune", "gone"}]
      /\ IdsAreFresh' /\ RecordsFollow' /\ CausesFollow' /\ SignalsAreDecided'
  <2>1. \A d \in Commands : kill'[d] # "none" => kill[d] # "none"
    BY <1>1 DEF PlaceInv, CommandsTypeOK
  <2>2. /\ {c} \in SUBSET Commands
        /\ \A d \in {c} : Alive(d) => cause'[d] # "none"
    BY <1>1 DEF PlaceInv, SignalsAreDecided
  <2>3. cause' \in [Commands -> {"none", "exited", "timeout", "killed"}]
    BY <1>1 DEF PlaceInv, CommandsTypeOK
  <2>4. QED BY <1>1, <2>1, <2>2, <2>3, SignalFollows
<1>3. CommandsTypeOK'
  BY <1>1, <1>2 DEF KillSignalled, PlaceInv, CommandsTypeOK, record, teardown
<1>4. QED BY <1>2, <1>3 DEF PlaceInv

LEMMA PlaceKillReturns ==
  ASSUME PlaceInv, NEW c \in Commands, KillReturns(c)
  PROVE  PlaceInv'
<1>1. /\ kill[c] = "waiting" /\ kill' = [kill EXCEPT ![c] = "done"]
      /\ \/ told' = [told EXCEPT ![c] = @ \cup {"killed"}]
         \/ told' = [told EXCEPT ![c] = @ \cup {"unsettled"}]
  BY DEF KillReturns
<1>2. CommandsTypeOK'
  BY <1>1 DEF KillReturns, PlaceInv, CommandsTypeOK, record, teardown
<1>3. QED BY <1>1, <1>2
          DEF KillReturns, PlaceInv, CommandsTypeOK, IdsAreFresh, RecordsFollow,
              CausesFollow, SignalsAreDecided, teardown, Alive, Before, Ended

LEMMA PlaceClose == PlaceInv /\ CloseCommands => PlaceInv'
<1> SUFFICES ASSUME PlaceInv, CloseCommands PROVE PlaceInv'
  OBVIOUS
<1>1. /\ cause' \in [Commands -> {"none", "exited", "timeout", "killed"}]
      /\ \A d \in Commands :
           cause'[d] = IF d \in Records /\ Alive(d) /\ cause[d] = "none"
                         THEN "killed" ELSE cause[d]
  BY BlameDecides DEF CloseCommands, Targets, Records, PlaceInv
<1>2. /\ targets' = Records /\ UNCHANGED <<nextId, place, process, kill>>
  BY DEF CloseCommands, Targets
<1>3. CommandsTypeOK'
  <2>1. byUser' \in [Commands -> BOOLEAN] /\ timer' \in [Commands -> BOOLEAN]
    BY DEF CloseCommands, PlaceInv, CommandsTypeOK
  <2>2. targets' \subseteq Commands
    BY <1>2 DEF Records
  <2>3. QED BY <1>1, <2>1, <2>2 DEF CloseCommands, PlaceInv, CommandsTypeOK
<1>4. IdsAreFresh' /\ RecordsFollow' /\ CausesFollow'
  BY <1>1, <1>2 DEF PlaceInv, CommandsTypeOK, IdsAreFresh, RecordsFollow, CausesFollow,
                    Records, Alive, Before, Ended
<1>5. SignalsAreDecided'
  BY <1>1, <1>2 DEF PlaceInv, CommandsTypeOK, SignalsAreDecided, CausesFollow, Records,
                    Alive, Before
<1>6. QED BY <1>3, <1>4, <1>5 DEF PlaceInv

LEMMA PlaceCloseSignalled == PlaceInv /\ CloseSignalled => PlaceInv'
<1> SUFFICES ASSUME PlaceInv, CloseSignalled PROVE PlaceInv'
  OBVIOUS
<1>1. Signalled(targets) /\ UNCHANGED <<nextId, place, kill, targets, cause>>
  BY DEF CloseSignalled
<1>2. /\ process' \in [Commands -> {"none", "alive", "immune", "gone"}]
      /\ IdsAreFresh' /\ RecordsFollow' /\ CausesFollow' /\ SignalsAreDecided'
  <2>1. \A d \in targets : Alive(d) => cause'[d] # "none"
    BY <1>1 DEF PlaceInv, CommandsTypeOK, SignalsAreDecided
  <2>2. /\ targets \in SUBSET Commands
        /\ cause' \in [Commands -> {"none", "exited", "timeout", "killed"}]
    BY <1>1 DEF PlaceInv, CommandsTypeOK
  <2>3. QED BY <1>1, <2>1, <2>2, SignalFollows
<1>3. CommandsTypeOK'
  BY <1>1, <1>2 DEF CloseSignalled, PlaceInv, CommandsTypeOK, record
<1>4. QED BY <1>2, <1>3 DEF PlaceInv

LEMMA PlaceCloseReturns == PlaceInv /\ CloseReturns => PlaceInv'
<1> SUFFICES ASSUME PlaceInv, CloseReturns PROVE PlaceInv'
  OBVIOUS
<1>1. CommandsTypeOK'
  BY DEF CloseReturns, PlaceInv, CommandsTypeOK, record
<1>2. QED BY <1>1
          DEF CloseReturns, PlaceInv, CommandsTypeOK, IdsAreFresh, RecordsFollow,
              CausesFollow, SignalsAreDecided, Alive, Before, Ended

LEMMA PlaceStutter == PlaceInv /\ UNCHANGED commandVars => PlaceInv'
BY DEF commandVars, record, teardown, PlaceInv, CommandsTypeOK, IdsAreFresh,
       RecordsFollow,
       CausesFollow, SignalsAreDecided, Alive

LEMMA PlaceStep ==
  ASSUME "probeFails" \notin Env
  PROVE  PlaceInv /\ [CommandsNext]_commandVars => PlaceInv'
BY PlaceStart, PlaceProcessStarts, PlaceSpawned, PlaceSpawnFails, PlaceExit, PlaceExitSeen,
   PlaceFinalize, PlaceTold, PlaceTimer, PlaceKill, PlaceKillSignalled,
   PlaceKillReturns, PlaceClose, PlaceCloseSignalled, PlaceCloseReturns,
   PlaceStutter
DEF CommandsNext

(***************************************************************************)
(* Slots, successful kills and the close.                                  *)
(***************************************************************************)
LEMMA SlotsAreFinite == IsFiniteSet(Slots) /\ IsFiniteSet(Records)
<1>1. IsFiniteSet(Commands)
  BY BoundAssumption, FS_Interval DEF BoundAssumption
<1>2. Slots \in SUBSET Commands /\ Records \in SUBSET Commands
  BY DEF Slots, Records, Spawning
<1> HIDE DEF Commands
<1>3. QED BY <1>1, <1>2, FS_Subset

LEMMA SlotsShrink ==
  ASSUME SlotsAreLimited, Slots' \subseteq Slots
  PROVE  SlotsAreLimited'
<1>1. /\ Cardinality(Slots') <= Cardinality(Slots)
      /\ Cardinality(Slots) \in Nat /\ IsFiniteSet(Slots')
  BY SlotsAreFinite, FS_Subset, FS_CardinalityType
<1>2. Cardinality(Slots') \in Nat
  BY <1>1, FS_CardinalityType
<1>3. QED BY <1>1, <1>2, LimitAssumption DEF SlotsAreLimited, LimitAssumption

\* A command that is accepted takes a slot that is free while nothing spawns.
LEMMA StartTakesOne ==
  ASSUME PlaceInv, Start, "startsTogether" \notin Env
  PROVE  SlotsAreLimited'
<1>1. Spawning = {} /\ Cardinality(Records) < MaxSlots
  BY DEF Start, FreeSlot, Spawning
<1>2. Slots' = Records \cup {nextId'}
  <2>1. nextId' \in Commands /\ place' = [place EXCEPT ![nextId'] = "spawning"]
        /\ place[nextId'] = "none"
    BY BoundAssumption
       DEF Start, PlaceInv, CommandsTypeOK, IdsAreFresh, BoundAssumption
  <2>2. QED BY <1>1, <2>1 DEF Slots, Records, Spawning, PlaceInv, CommandsTypeOK
<1>3. Cardinality(Slots') <= Cardinality(Records) + 1 /\ Cardinality(Records) \in Nat
  <2>1. Cardinality(Records) \in Nat
    BY SlotsAreFinite, FS_CardinalityType
  <2>2. Cardinality(Records \cup {nextId'}) =
          IF nextId' \in Records THEN Cardinality(Records)
                                 ELSE Cardinality(Records) + 1
    BY SlotsAreFinite, FS_AddElement
  <2>3. QED BY <1>2, <2>1, <2>2
<1>4. Cardinality(Slots') \in Nat
  <2>1. IsFiniteSet(Slots')
    BY SlotsAreFinite, <1>2, FS_AddElement
  <2>2. QED BY <2>1, FS_CardinalityType
<1>5. QED BY <1>1, <1>3, <1>4, LimitAssumption DEF SlotsAreLimited, LimitAssumption

\* A step that takes no slot, tells of no kill and leaves the close alone.
LEMMA AccountStays ==
  ASSUME AccountInv,
         \A c \in Commands : place'[c] = "spawning" => place[c] = "spawning",
         \A c \in Commands : place'[c] \in {"running", "flushing"} =>
                               place[c] \in {"running", "flushing"},
         \A c \in Commands : place[c] \in {"decoding", "over"} =>
                               place'[c] \in {"decoding", "over"},
         \A c \in Commands : "killed" \in told'[c] => "killed" \in told[c],
         \A c \in Records : process'[c] = "alive" => process[c] = "alive",
         \A c \in Commands : cause[c] # "none" => cause'[c] = cause[c],
         UNCHANGED teardown
  PROVE  SlotsAreLimited' /\ KillsAreSettled' /\ CloseTakesAll'
<1>1. Spawning' \subseteq Spawning /\ Records' \subseteq Records
  BY DEF Spawning, Records
<1>2. SlotsAreLimited'
  BY <1>1, SlotsShrink DEF AccountInv, Slots
<1>3. KillsAreSettled'
  BY DEF AccountInv, KillsAreSettled
<1>4. CloseTakesAll'
  <2>1. SUFFICES ASSUME closing # "open" PROVE CloseTakesAll'
    BY DEF CloseTakesAll, teardown
  <2>2. Records' \subseteq targets' \cup late'
    BY <1>1, <2>1 DEF AccountInv, CloseTakesAll, teardown
  <2>3. ASSUME closing = "closed", NEW c \in Records' \ late
        PROVE  process'[c] # "alive" /\ cause'[c] \in {"killed", "timeout"}
    <3>1. c \in Records \ late /\ c \in Commands
      BY <1>1, <2>3 DEF Records
    <3>2. QED BY <2>1, <2>3, <3>1 DEF AccountInv, CloseTakesAll
  <2>4. QED BY <2>2, <2>3 DEF CloseTakesAll, teardown
<1>5. QED BY <1>2, <1>3, <1>4

LEMMA AccountInit == CommandsInit => AccountInv
<1> SUFFICES ASSUME CommandsInit PROVE AccountInv
  OBVIOUS
<1>1. PlaceInv
  BY PlaceInit
<1>2. Slots = {}
  BY DEF CommandsInit, Slots, Records, Spawning
<1>3. Cardinality(Slots) = 0
  BY <1>2, FS_EmptySet
<1>4. SlotsAreLimited
  BY <1>3, LimitAssumption DEF SlotsAreLimited, LimitAssumption
<1>5. KillsAreSettled /\ CloseTakesAll
  BY DEF CommandsInit, KillsAreSettled, CloseTakesAll
<1>6. QED BY <1>1, <1>4, <1>5 DEF AccountInv

LEMMA AccountStep ==
  ASSUME "probeFails" \notin Env, "startsTogether" \notin Env
  PROVE  AccountInv /\ [CommandsNext]_commandVars => AccountInv'
<1> SUFFICES ASSUME AccountInv, [CommandsNext]_commandVars PROVE AccountInv'
  OBVIOUS
<1>1. PlaceInv' /\ PlaceInv /\ CommandsTypeOK
  BY PlaceStep DEF AccountInv, PlaceInv
<1>2. SlotsAreLimited' /\ KillsAreSettled' /\ CloseTakesAll'
  <2>1. CASE Start
    <3>1. SlotsAreLimited'
      BY <1>1, <2>1, StartTakesOne
    <3>2. \A c \in Commands : place[c] \in {"decoding", "over"} => place'[c] = place[c]
      <4>1. nextId' \in Commands /\ place[nextId'] = "none"
            /\ place' = [place EXCEPT ![nextId'] = "spawning"]
        BY <2>1, <1>1, BoundAssumption
           DEF Start, PlaceInv, CommandsTypeOK, IdsAreFresh, BoundAssumption
      <4>2. QED BY <4>1, <1>1 DEF CommandsTypeOK
    <3>3. KillsAreSettled'
      BY <2>1, <3>2 DEF Start, AccountInv, KillsAreSettled
    <3>4. Records' = Records
      <4>1. nextId' \in Commands /\ place[nextId'] = "none"
            /\ place' = [place EXCEPT ![nextId'] = "spawning"]
        BY <2>1, <1>1, BoundAssumption
           DEF Start, PlaceInv, CommandsTypeOK, IdsAreFresh, BoundAssumption
      <4>2. QED BY <4>1, <1>1 DEF CommandsTypeOK, Records
    <3>5. CloseTakesAll'
      BY <2>1, <3>4 DEF Start, AccountInv, CloseTakesAll, teardown
    <3>6. QED BY <3>1, <3>3, <3>5
  <2>2. ASSUME NEW c \in Commands, Spawned(c)
        PROVE  SlotsAreLimited' /\ KillsAreSettled' /\ CloseTakesAll'
    <3>1. place[c] = "spawning" /\ place' = [place EXCEPT ![c] = "running"]
          /\ UNCHANGED <<told, process, cause, closing, targets>>
          /\ late' = IF closing = "open" THEN late ELSE late \cup {c}
      BY <2>2 DEF Spawned
    <3>2. Slots' \subseteq Slots /\ Records' = Records \cup {c}
      BY <3>1, <1>1 DEF CommandsTypeOK, Slots, Records, Spawning
    <3>3. SlotsAreLimited'
      BY <3>2, SlotsShrink DEF AccountInv
    <3>4. KillsAreSettled'
      BY <3>1, <1>1 DEF CommandsTypeOK, AccountInv, KillsAreSettled
    <3>5. CloseTakesAll'
      BY <3>1, <3>2 DEF AccountInv, CloseTakesAll
    <3>6. QED BY <3>3, <3>4, <3>5
  <2>3. ASSUME NEW c \in Commands, SpawnFails(c)
        PROVE  SlotsAreLimited' /\ KillsAreSettled' /\ CloseTakesAll'
    BY <1>1, <2>3, AccountStays DEF SpawnFails, CommandsTypeOK
  <2>17. ASSUME NEW c \in Commands, ProcessStarts(c)
         PROVE  SlotsAreLimited' /\ KillsAreSettled' /\ CloseTakesAll'
    BY <1>1, <2>17, AccountStays DEF ProcessStarts, CommandsTypeOK, Records
  <2>4. ASSUME NEW c \in Commands, Exit(c)
        PROVE  SlotsAreLimited' /\ KillsAreSettled' /\ CloseTakesAll'
    <3>1. \A d \in Commands : cause[d] # "none" => cause'[d] = cause[d]
      BY <1>1, <2>4, BlameDecides DEF Exit
    <3>2. QED BY <1>1, <2>4, <3>1, AccountStays DEF Exit, CommandsTypeOK, Records
  <2>5. ASSUME NEW c \in Commands, ExitSeen(c)
        PROVE  SlotsAreLimited' /\ KillsAreSettled' /\ CloseTakesAll'
    BY <1>1, <2>5, AccountStays DEF ExitSeen, CommandsTypeOK
  <2>6. ASSUME NEW c \in Commands, Finalize(c)
        PROVE  SlotsAreLimited' /\ KillsAreSettled' /\ CloseTakesAll'
    BY <1>1, <2>6, AccountStays DEF Finalize, Unfinalized, CommandsTypeOK
  <2>7. ASSUME NEW c \in Commands, Told(c)
        PROVE  SlotsAreLimited' /\ KillsAreSettled' /\ CloseTakesAll'
    <3>1. \A d \in Commands : "killed" \in told'[d] => "killed" \in told[d]
      BY <1>1, <2>7 DEF Told, Notice, Reason, CommandsTypeOK
    <3>2. QED BY <1>1, <2>7, <3>1, AccountStays DEF Told, CommandsTypeOK
  <2>8. ASSUME NEW c \in Commands, TimerFires(c)
        PROVE  SlotsAreLimited' /\ KillsAreSettled' /\ CloseTakesAll'
    <3>1. \A d \in Commands : cause[d] # "none" => cause'[d] = cause[d]
      BY <1>1, <2>8, BlameDecides DEF TimerFires
    <3>2. \A d \in Commands : process'[d] = "alive" => process[d] = "alive"
      <4>1. Signalled({c}) /\ {c} \in SUBSET Commands
        BY <2>8 DEF TimerFires
      <4>2. QED BY <1>1, <4>1, SignalReaches DEF Alive
    <3>3. QED BY <2>8, <3>1, <3>2, AccountStays DEF TimerFires, Records
  <2>9. ASSUME NEW c \in Commands, Kill(c)
        PROVE  SlotsAreLimited' /\ KillsAreSettled' /\ CloseTakesAll'
    <3>1. \A d \in Commands : cause[d] # "none" => cause'[d] = cause[d]
      BY <1>1, <2>9, BlameDecides DEF Kill
    <3>2. QED BY <2>9, <3>1, AccountStays DEF Kill
  <2>10. ASSUME NEW c \in Commands, KillSignalled(c)
         PROVE  SlotsAreLimited' /\ KillsAreSettled' /\ CloseTakesAll'
    <3>1. \A d \in Commands : process'[d] = "alive" => process[d] = "alive"
      <4>1. Signalled({c}) /\ {c} \in SUBSET Commands
        BY <2>10 DEF KillSignalled
      <4>2. QED BY <1>1, <4>1, SignalReaches DEF Alive
    <3>2. QED BY <2>10, <3>1, AccountStays DEF KillSignalled, Records
  <2>11. ASSUME NEW c \in Commands, KillReturns(c)
         PROVE  SlotsAreLimited' /\ KillsAreSettled' /\ CloseTakesAll'
    <3>1. UNCHANGED <<place, process, cause, teardown>>
      BY <2>11 DEF KillReturns
    <3>2. SlotsAreLimited' /\ CloseTakesAll'
      BY <3>1 DEF AccountInv, SlotsAreLimited, CloseTakesAll, Slots, Records,
                  Spawning, teardown
    <3>3. KillsAreSettled'
      <4>1. \A d \in Commands : "killed" \in told'[d] =>
              "killed" \in told[d] \/ (d = c /\ IsSettled(c))
        <5>1. CASE IsSettled(c) /\ told' = [told EXCEPT ![c] = @ \cup {"killed"}]
          BY <1>1, <5>1 DEF CommandsTypeOK
        <5>2. CASE told' = [told EXCEPT ![c] = @ \cup {"unsettled"}]
          <6>1. /\ told'[c] = told[c] \cup {"unsettled"}
                /\ \A d \in Commands : d # c => told'[d] = told[d]
            BY <1>1, <5>2 DEF CommandsTypeOK
          <6>2. "killed" \in told'[c] => "killed" \in told[c]
            BY <6>1
          <6>3. \A d \in Commands : "killed" \in told'[d] => "killed" \in told[d]
            BY <6>1, <6>2
          <6>4. QED BY <6>3 DEF IsSettled
        <5>3. QED BY <2>11, <5>1, <5>2 DEF KillReturns
      <4>2. QED BY <3>1, <4>1 DEF IsSettled, AccountInv, KillsAreSettled
    <3>4. QED BY <3>2, <3>3
  <2>12. CASE CloseCommands
    <3>1. UNCHANGED <<place, told>> /\ closing' = "killing" /\ targets' = Records
      BY <2>12 DEF CloseCommands, Targets
    <3>2. SlotsAreLimited' /\ KillsAreSettled'
      BY <3>1 DEF AccountInv, SlotsAreLimited, KillsAreSettled, Slots, Records,
                  Spawning
    <3>3. CloseTakesAll'
      BY <3>1 DEF CloseTakesAll, Spawning, Records
    <3>4. QED BY <3>2, <3>3
  <2>13. CASE CloseSignalled
    <3>1. UNCHANGED <<place, told, targets, late>>
          /\ closing = "killing" /\ closing' = "waiting"
      BY <2>13 DEF CloseSignalled
    <3>2. SlotsAreLimited' /\ KillsAreSettled'
      BY <3>1 DEF AccountInv, SlotsAreLimited, KillsAreSettled, Slots, Records,
                  Spawning
    <3>3. CloseTakesAll'
      BY <3>1 DEF AccountInv, CloseTakesAll, Spawning, Records
    <3>4. QED BY <3>2, <3>3
  <2>14. CASE CloseReturns
    <3>1. UNCHANGED <<place, told, targets, late, process, cause>>
          /\ closing = "waiting" /\ closing' = "closed"
          /\ \A c \in targets : IsSettled(c) \/ process[c] = "immune"
      BY <2>14 DEF CloseReturns
    <3>2. SlotsAreLimited' /\ KillsAreSettled'
      BY <3>1 DEF AccountInv, SlotsAreLimited, KillsAreSettled, Slots, Records,
                  Spawning
    <3>3. \A c \in Records \ late : process[c] = "immune"
      BY <3>1 DEF AccountInv, CloseTakesAll, IsSettled, Records
    <3>4. \A c \in Records \ late : cause[c] \in {"killed", "timeout"}
      BY <3>3 DEF AccountInv, PlaceInv, CausesFollow, Records
    <3>5. CloseTakesAll'
      BY <3>1, <3>3, <3>4 DEF AccountInv, CloseTakesAll, Spawning, Records
    <3>6. QED BY <3>2, <3>5
  <2>15. CASE UNCHANGED commandVars
    BY <2>15, AccountStays DEF commandVars
  <2>16. QED
    BY <2>1, <2>2, <2>3, <2>4, <2>5, <2>6, <2>7, <2>8, <2>9, <2>10, <2>11,
       <2>12, <2>13, <2>14, <2>15, <2>17
    DEF CommandsNext
<1>3. QED BY <1>1, <1>2 DEF AccountInv

\* The processes that run hold slots.
LEMMA AccountImplies == AccountInv => ProcessesAreAccountedFor
<1> SUFFICES ASSUME AccountInv PROVE ProcessesAreAccountedFor
  OBVIOUS
<1>1. ProcessesAreKnown
  BY DEF AccountInv, PlaceInv, CommandsTypeOK, RecordsFollow, ProcessesAreKnown,
         Unrecorded, Alive, Places, Before, Ended
<1>2. ProcessesAreLimited
  <2> DEFINE Held == {c \in Commands : Alive(c) /\ place[c] # "rejected"}
  <2>1. Held \in SUBSET Slots
    BY <1>1 DEF ProcessesAreKnown, Unrecorded, Slots, Records, Spawning
  <2>2. Cardinality(Held) <= Cardinality(Slots) /\ IsFiniteSet(Held)
    BY <2>1, SlotsAreFinite, FS_Subset
  <2>3. Cardinality(Held) \in Nat /\ Cardinality(Slots) \in Nat
    BY <2>2, SlotsAreFinite, FS_CardinalityType
  <2>4. QED BY <2>2, <2>3, LimitAssumption
            DEF AccountInv, SlotsAreLimited, ProcessesAreLimited, LimitAssumption
<1>3. KilledIsOver
  BY DEF AccountInv, PlaceInv, RecordsFollow, KillsAreSettled, KilledIsOver, Records,
         Alive, Ended
<1>4. ClosedIsQuiet
  <2>1. \A c \in Commands : Alive(c) /\ ~ Unrecorded(c) => c \in Records
    BY <1>1 DEF ProcessesAreKnown, Records
  <2>2. QED BY <2>1 DEF AccountInv, CloseTakesAll, ClosedIsQuiet
<1>5. QED BY <1>1, <1>2, <1>3, <1>4
          DEF AccountInv, PlaceInv, ProcessesAreAccountedFor

\* As long as the machine answers its probes and commands are started one at a
\* time, what is limited, listed, killed and closed is what runs, but for what
\* has no record: a start on its way, or one that failed with its process
\* running; a close covers what was recorded when killAll looked (background.ts,
\* start, finalize and killAll; vm/shell.ts, spawn).
THEOREM RecordsMatchProcesses ==
  ASSUME "probeFails" \notin Env, "startsTogether" \notin Env
  PROVE  CommandsSpec => []ProcessesAreAccountedFor
BY AccountInit, AccountStep, AccountImplies, PTL DEF CommandsSpec

(***************************************************************************)
(* Marks, causes and what the agent hears.                                 *)
(***************************************************************************)
EndsPart == MarksAreTrue /\ ToldIsTrue /\ ToldOnce

LEMMA EndsInit == CommandsInit => EndsInv
<1> SUFFICES ASSUME CommandsInit PROVE EndsInv
  OBVIOUS
<1>1. PlaceInv
  BY PlaceInit
<1>2. MarksAreTrue /\ ToldIsTrue /\ ToldOnce
  BY DEF CommandsInit, MarksAreTrue, ToldIsTrue, ToldOnce
<1>3. QED BY <1>1, <1>2 DEF EndsInv

\* A step that decides nothing: no mark, cause, kill or word changes.
LEMMA NothingDecided ==
  ASSUME EndsInv,
         UNCHANGED <<byUser, byTimeout, kill, cause, told, closing>>,
         \A c \in Commands : timer'[c] => timer[c],
         \A c \in Commands : Alive(c)' => Alive(c),
         \A c \in Commands : place'[c] \in Before => place[c] \in Before,
         \A c \in Commands : place'[c] = "over" => place[c] = "over",
         \A c \in Commands : place[c] = "over" => place'[c] = "over"
  PROVE  EndsPart'
<1>1. MarksAreTrue'
  BY DEF EndsInv, MarksAreTrue
<1>2. ToldIsTrue'
  BY DEF EndsInv, ToldIsTrue
<1>3. ToldOnce'
  BY DEF EndsInv, ToldOnce
<1>4. QED BY <1>1, <1>2, <1>3 DEF EndsPart

LEMMA EndsStart == EndsInv /\ Start => EndsPart'
<1> SUFFICES ASSUME EndsInv, Start PROVE EndsPart'
  OBVIOUS
<1>1. /\ nextId' \in Commands /\ place[nextId'] = "none"
      /\ place' = [place EXCEPT ![nextId'] = "spawning"]
  BY BoundAssumption
     DEF Start, EndsInv, PlaceInv, CommandsTypeOK, IdsAreFresh, BoundAssumption
<1>2. QED BY <1>1, NothingDecided
          DEF Start, EndsInv, PlaceInv, CommandsTypeOK, record, teardown, Alive, Before

\* A process that starts is nobody's to tell of yet.
LEMMA EndsProcessStarts ==
  ASSUME EndsInv, NEW c \in Commands, ProcessStarts(c)
  PROVE  EndsPart'
<1>1. /\ place[c] = "spawning" /\ process[c] = "none"
      /\ process' = [process EXCEPT ![c] = "alive"]
      /\ UNCHANGED <<place, timer, byUser, byTimeout, kill, cause, told, closing>>
  BY DEF ProcessStarts, record, teardown
<1>2. \A d \in Commands : timer[d] => d # c
  BY <1>1 DEF EndsInv, MarksAreTrue, Before
<1>3. MarksAreTrue'
  BY <1>1, <1>2 DEF EndsInv, PlaceInv, CommandsTypeOK, MarksAreTrue, Alive
<1>4. ToldIsTrue' /\ ToldOnce'
  BY <1>1 DEF EndsInv, ToldIsTrue, ToldOnce
<1>5. QED BY <1>3, <1>4 DEF EndsPart

LEMMA EndsSpawned ==
  ASSUME EndsInv, NEW c \in Commands, Spawned(c)
  PROVE  EndsPart'
<1>1. PICK timed \in BOOLEAN : timer' = [timer EXCEPT ![c] = timed]
  BY DEF Spawned
<1>2. /\ place[c] = "spawning" /\ place' = [place EXCEPT ![c] = "running"]
      /\ UNCHANGED <<process, byUser, byTimeout, kill, cause, told, closing>>
      /\ place \in [Commands -> Places] /\ (Alive(c) => cause[c] = "none")
      /\ process \in [Commands -> {"none", "alive", "immune", "gone"}]
      /\ timer \in [Commands -> BOOLEAN]
  BY DEF Spawned, EndsInv, PlaceInv, CommandsTypeOK, RecordsFollow, CausesFollow,
         Before
<1>3. MarksAreTrue'
  BY <1>1, <1>2 DEF EndsInv, MarksAreTrue, Alive, Before
<1>4. ToldIsTrue' /\ ToldOnce'
  BY <1>2 DEF EndsInv, ToldIsTrue, ToldOnce
<1>5. QED BY <1>3, <1>4 DEF EndsPart

LEMMA EndsExit ==
  ASSUME EndsInv, NEW c \in Commands, Exit(c)
  PROVE  EndsPart'
<1>1. \A d \in Commands :
        cause'[d] = IF d = c /\ cause[d] = "none" THEN "exited" ELSE cause[d]
  BY BlameDecides DEF Exit, EndsInv, PlaceInv
<1>2. /\ process' = [process EXCEPT ![c] = "gone"]
      /\ UNCHANGED <<place, timer, byUser, byTimeout, kill, told, closing>>
      /\ process \in [Commands -> {"none", "alive", "immune", "gone"}]
  BY DEF Exit, record, teardown, EndsInv, PlaceInv, CommandsTypeOK
<1>3. MarksAreTrue'
  BY <1>1, <1>2 DEF EndsInv, MarksAreTrue, Alive
<1>4. ToldIsTrue'
  <2>1. \A d \in Commands : cause[d] = "none" => told[d] \subseteq {"unsettled"}
    BY DEF EndsInv, ToldIsTrue, PlaceInv, CommandsTypeOK
  <2>2. QED BY <1>1, <1>2, <2>1 DEF EndsInv, ToldIsTrue
<1>5. ToldOnce'
  BY <1>2 DEF EndsInv, ToldOnce
<1>6. QED BY <1>3, <1>4, <1>5 DEF EndsPart

\* The end of a command is announced, or its kill tells of it.
LEMMA EndsTold ==
  ASSUME EndsInv, NEW c \in Commands, Told(c)
  PROVE  EndsPart'
<1>1. /\ place[c] = "decoding" /\ place' = [place EXCEPT ![c] = "over"]
      /\ told' = [told EXCEPT ![c] = IF closing = "open" THEN @ \cup Notice(c)
                                                        ELSE @]
      /\ UNCHANGED <<process, timer, byUser, byTimeout, kill, cause, closing>>
      /\ place \in [Commands -> Places]
      /\ told \in [Commands -> SUBSET {"exited", "timeout", "killed", "unsettled"}]
  BY DEF Told, record, teardown, EndsInv, PlaceInv, CommandsTypeOK
<1>2. /\ process[c] = "gone" /\ cause[c] \in {"exited", "timeout", "killed"}
  BY <1>1 DEF EndsInv, PlaceInv, CommandsTypeOK, RecordsFollow, CausesFollow, Ended
<1>3. MarksAreTrue'
  BY <1>1 DEF EndsInv, MarksAreTrue, Alive, Before
<1>4. CASE closing # "open"
  BY <1>1, <1>3, <1>4 DEF EndsInv, EndsPart, ToldIsTrue, ToldOnce
<1>5. CASE closing = "open" /\ kill[c] # "none"
  <2>1. cause[c] = "killed" /\ byUser[c] /\ ~ byTimeout[c]
    BY <1>5 DEF EndsInv, MarksAreTrue
  <2>2. Notice(c) = {}
    BY <2>1 DEF Notice, Reason
  <2>3. told' = told
    BY <1>1, <1>5, <2>2
  <2>4. ToldIsTrue' /\ ToldOnce'
    BY <1>1, <1>5, <2>3 DEF EndsInv, ToldIsTrue, ToldOnce
  <2>5. QED BY <1>3, <2>4 DEF EndsPart
<1>6. CASE closing = "open" /\ kill[c] = "none"
  <2>1. ~ byUser[c] /\ cause[c] \in {"exited", "timeout"}
        /\ (byTimeout[c] <=> cause[c] = "timeout")
    BY <1>2, <1>6 DEF EndsInv, MarksAreTrue
  <2>2. Reason(c) = cause[c]
    BY <2>1 DEF Reason
  <2>3. Notice(c) = {cause[c]}
    BY <2>1, <2>2 DEF Notice
  <2>4. told[c] = {}
    BY <1>1, <1>6 DEF EndsInv, ToldOnce
  <2>5. told'[c] = {cause[c]} /\ \A d \in Commands : d # c => told'[d] = told[d]
    BY <1>1, <1>6, <2>3, <2>4
  <2>6. ToldIsTrue'
    BY <1>1, <2>5 DEF EndsInv, ToldIsTrue
  <2>7. ToldOnce'
    BY <1>1, <1>6, <2>1, <2>5 DEF EndsInv, ToldOnce
  <2>8. QED BY <1>3, <2>6, <2>7 DEF EndsPart
<1>7. QED BY <1>4, <1>5, <1>6

\* The timeout of a live process nobody has killed decides its cause.
LEMMA EndsTimer ==
  ASSUME EndsInv, NEW c \in Commands, TimerFires(c), "killLate" \notin Env
  PROVE  EndsPart'
<1>1. /\ timer[c] /\ Alive(c)
      /\ timer' = [timer EXCEPT ![c] = FALSE]
      /\ byTimeout' = [byTimeout EXCEPT ![c] = TRUE]
      /\ Signalled({c}) /\ {c} \in SUBSET Commands
      /\ UNCHANGED <<place, byUser, kill, told, closing>>
      /\ timer \in [Commands -> BOOLEAN] /\ byTimeout \in [Commands -> BOOLEAN]
  BY DEF TimerFires, teardown, EndsInv, PlaceInv, CommandsTypeOK
<1>2. cause[c] = "none"
  BY <1>1 DEF EndsInv, MarksAreTrue
<1>3. \A d \in Commands : cause'[d] = IF d = c THEN "timeout" ELSE cause[d]
  <2>1. \A d \in Commands :
          cause'[d] = IF d = c /\ Alive(d) /\ cause[d] = "none"
                        THEN "timeout" ELSE cause[d]
    BY BlameDecides DEF TimerFires, EndsInv, PlaceInv
  <2>2. QED BY <1>1, <1>2, <2>1
<1>4. \A d \in Commands : d # c => process'[d] = process[d]
  BY <1>1, SignalReaches DEF EndsInv, PlaceInv
<1>5. MarksAreTrue'
  BY <1>1, <1>2, <1>3, <1>4 DEF EndsInv, MarksAreTrue, Alive
<1>6. ToldIsTrue'
  <2>1. told[c] \subseteq {"unsettled"}
    BY <1>2 DEF EndsInv, ToldIsTrue, PlaceInv, CommandsTypeOK
  <2>2. QED BY <1>1, <1>3, <2>1 DEF EndsInv, ToldIsTrue
<1>7. ToldOnce'
  BY <1>1 DEF EndsInv, ToldOnce
<1>8. QED BY <1>5, <1>6, <1>7 DEF EndsPart

\* A kill of a live process that no timeout has ended decides its cause.
LEMMA EndsKill ==
  ASSUME EndsInv, NEW c \in Commands, Kill(c), "killLate" \notin Env,
         "killTwice" \notin Env
  PROVE  EndsPart'
<1>1. /\ closing = "open" /\ kill[c] = "none" /\ Alive(c) /\ ~ byTimeout[c]
      /\ c \in Records
      /\ byUser' = [byUser EXCEPT ![c] = TRUE]
      /\ timer' = [timer EXCEPT ![c] = FALSE]
      /\ kill' = [kill EXCEPT ![c] = "signalling"]
      /\ UNCHANGED <<place, process, byTimeout, told, closing>>
      /\ timer \in [Commands -> BOOLEAN] /\ byUser \in [Commands -> BOOLEAN]
      /\ kill \in [Commands -> {"none", "signalling", "waiting", "done"}]
  BY DEF Kill, teardown, EndsInv, PlaceInv, CommandsTypeOK
<1>2. cause[c] = "none"
  BY <1>1 DEF EndsInv, MarksAreTrue, PlaceInv, CommandsTypeOK, CausesFollow
<1>3. \A d \in Commands : cause'[d] = IF d = c THEN "killed" ELSE cause[d]
  <2>1. \A d \in Commands :
          cause'[d] = IF d = c /\ Alive(d) /\ cause[d] = "none"
                        THEN "killed" ELSE cause[d]
    BY BlameDecides DEF Kill, EndsInv, PlaceInv
  <2>2. QED BY <1>1, <1>2, <2>1
<1>4. MarksAreTrue'
  BY <1>1, <1>2, <1>3 DEF EndsInv, MarksAreTrue, Alive, Records, Before
<1>5. ToldIsTrue'
  <2>1. told[c] \subseteq {"unsettled"}
    BY <1>2 DEF EndsInv, ToldIsTrue, PlaceInv, CommandsTypeOK
  <2>2. QED BY <1>1, <1>3, <2>1 DEF EndsInv, ToldIsTrue
<1>6. ToldOnce'
  <2>1. told[c] = {}
    BY <1>1 DEF EndsInv, ToldOnce, Records
  <2>2. QED BY <1>1, <2>1 DEF EndsInv, ToldOnce
<1>7. QED BY <1>4, <1>5, <1>6 DEF EndsPart

LEMMA EndsKillSignalled ==
  ASSUME EndsInv, NEW c \in Commands, KillSignalled(c)
  PROVE  EndsPart'
<1>1. /\ kill[c] = "signalling" /\ kill' = [kill EXCEPT ![c] = "waiting"]
      /\ Signalled({c}) /\ {c} \in SUBSET Commands
      /\ UNCHANGED <<place, timer, byUser, byTimeout, cause, told, closing>>
      /\ kill \in [Commands -> {"none", "signalling", "waiting", "done"}]
  BY DEF KillSignalled, record, teardown, EndsInv, PlaceInv, CommandsTypeOK
<1>2. \A d \in Commands : Alive(d)' => Alive(d)
  BY <1>1, SignalReaches DEF EndsInv, PlaceInv, Alive
<1>3. MarksAreTrue'
  BY <1>1, <1>2 DEF EndsInv, MarksAreTrue
<1>4. ToldIsTrue' /\ ToldOnce'
  BY <1>1 DEF EndsInv, ToldIsTrue, ToldOnce
<1>5. QED BY <1>3, <1>4 DEF EndsPart

\* The kill tells of the end it decided, or that the process outlives it.
LEMMA EndsKillReturns ==
  ASSUME EndsInv, NEW c \in Commands, KillReturns(c)
  PROVE  EndsPart'
<1>1. /\ kill[c] = "waiting" /\ kill' = [kill EXCEPT ![c] = "done"]
      /\ UNCHANGED <<place, process, timer, byUser, byTimeout, cause, closing>>
      /\ kill \in [Commands -> {"none", "signalling", "waiting", "done"}]
      /\ told \in [Commands -> SUBSET {"exited", "timeout", "killed", "unsettled"}]
  BY DEF KillReturns, record, teardown, EndsInv, PlaceInv, CommandsTypeOK
<1>2. PICK word \in {"killed", "unsettled"} : told' = [told EXCEPT ![c] = @ \cup {word}]
  BY DEF KillReturns
<1>3. /\ told'[c] = told[c] \cup {word}
      /\ \A d \in Commands : d # c => told'[d] = told[d]
  BY <1>1, <1>2
<1>4. cause[c] = "killed"
  BY <1>1 DEF EndsInv, MarksAreTrue
<1>5. MarksAreTrue'
  BY <1>1 DEF EndsInv, MarksAreTrue, Alive
<1>6. ToldIsTrue'
  BY <1>1, <1>3, <1>4 DEF EndsInv, ToldIsTrue
<1>7. ToldOnce'
  <2>1. SUFFICES ASSUME closing = "open" PROVE ToldOnce'
    BY <1>1 DEF ToldOnce
  <2>2. told[c] = {}
    BY <1>1, <2>1 DEF EndsInv, ToldOnce
  <2>3. told'[c] \in {{"killed"}, {"unsettled"}} /\ kill'[c] = "done"
    BY <1>1, <1>3, <2>2
  <2>4. QED BY <1>1, <1>3, <2>3 DEF EndsInv, ToldOnce
<1>8. QED BY <1>5, <1>6, <1>7 DEF EndsPart

\* A close marks every record as killed, and tells the agent nothing.
LEMMA EndsClose == EndsInv /\ CloseCommands => EndsPart'
<1> SUFFICES ASSUME EndsInv, CloseCommands PROVE EndsPart'
  OBVIOUS
<1>1. /\ closing' = "killing" /\ UNCHANGED <<place, process, byTimeout, kill, told>>
      /\ byUser' = [d \in Commands |-> byUser[d] \/ d \in Records]
      /\ timer' = [d \in Commands |-> timer[d] /\ d \notin Records]
  BY DEF CloseCommands, Targets
<1>2. \A d \in Commands :
        cause'[d] = IF d \in Records /\ Alive(d) /\ cause[d] = "none"
                      THEN "killed" ELSE cause[d]
  BY BlameDecides DEF CloseCommands, Targets, Records, EndsInv, PlaceInv
<1>3. /\ \A d \in Commands : byUser'[d] <=> byUser[d] \/ d \in Records
      /\ \A d \in Commands : timer'[d] <=> timer[d] /\ d \notin Records
  BY <1>1
<1>4. MarksAreTrue'
  BY <1>1, <1>2, <1>3 DEF EndsInv, MarksAreTrue, Alive
<1>5. ToldIsTrue'
  <2>1. \A d \in Commands : cause[d] = "none" => told[d] \subseteq {"unsettled"}
    BY DEF EndsInv, ToldIsTrue, PlaceInv, CommandsTypeOK
  <2>2. QED BY <1>1, <1>2, <2>1 DEF EndsInv, ToldIsTrue
<1>6. ToldOnce'
  BY <1>1 DEF ToldOnce
<1>7. QED BY <1>4, <1>5, <1>6 DEF EndsPart

LEMMA EndsCloseSignalled == EndsInv /\ CloseSignalled => EndsPart'
<1> SUFFICES ASSUME EndsInv, CloseSignalled PROVE EndsPart'
  OBVIOUS
<1>1. /\ Signalled(targets) /\ targets \in SUBSET Commands /\ closing' = "waiting"
      /\ UNCHANGED <<place, timer, byUser, byTimeout, kill, cause, told>>
  BY DEF CloseSignalled, record, EndsInv, PlaceInv, CommandsTypeOK
<1>2. \A d \in Commands : Alive(d)' => Alive(d)
  BY <1>1, SignalReaches DEF EndsInv, PlaceInv, Alive
<1>3. MarksAreTrue'
  BY <1>1, <1>2 DEF EndsInv, MarksAreTrue
<1>4. ToldIsTrue' /\ ToldOnce'
  BY <1>1 DEF EndsInv, ToldIsTrue, ToldOnce
<1>5. QED BY <1>3, <1>4 DEF EndsPart

LEMMA EndsCloseReturns == EndsInv /\ CloseReturns => EndsPart'
<1> SUFFICES ASSUME EndsInv, CloseReturns PROVE EndsPart'
  OBVIOUS
<1>1. /\ closing' = "closed"
      /\ UNCHANGED <<place, process, timer, byUser, byTimeout, kill, cause, told>>
  BY DEF CloseReturns, record
<1>2. MarksAreTrue'
  BY <1>1 DEF EndsInv, MarksAreTrue, Alive
<1>3. ToldIsTrue' /\ ToldOnce'
  BY <1>1 DEF EndsInv, ToldIsTrue, ToldOnce
<1>4. QED BY <1>2, <1>3 DEF EndsPart

LEMMA EndsStep ==
  ASSUME "probeFails" \notin Env, "killLate" \notin Env, "killTwice" \notin Env
  PROVE  EndsInv /\ [CommandsNext]_commandVars => EndsInv'
<1> SUFFICES ASSUME EndsInv, [CommandsNext]_commandVars PROVE EndsInv'
  OBVIOUS
<1>1. PlaceInv' /\ CommandsTypeOK
  BY PlaceStep DEF EndsInv, PlaceInv
<1>2. EndsPart'
  <2>1. ASSUME NEW c \in Commands, SpawnFails(c) PROVE EndsPart'
    BY <1>1, <2>1, NothingDecided
       DEF SpawnFails, record, teardown, CommandsTypeOK, Alive, Before
  <2>2. ASSUME NEW c \in Commands, ExitSeen(c) PROVE EndsPart'
    BY <1>1, <2>2, NothingDecided
       DEF ExitSeen, record, teardown, CommandsTypeOK, Alive, Before
  <2>3. ASSUME NEW c \in Commands, Finalize(c) PROVE EndsPart'
    BY <1>1, <2>3, NothingDecided
       DEF Finalize, Unfinalized, teardown, CommandsTypeOK, Alive, Before
  <2>4. CASE UNCHANGED commandVars
    BY <2>4, NothingDecided DEF commandVars, record, teardown, Alive
  <2>5. QED
    BY <2>1, <2>2, <2>3, <2>4, EndsStart, EndsProcessStarts, EndsSpawned, EndsExit, EndsTold,
       EndsTimer, EndsKill, EndsKillSignalled, EndsKillReturns, EndsClose,
       EndsCloseSignalled, EndsCloseReturns
    DEF CommandsNext
<1>3. QED BY <1>1, <1>2 DEF EndsInv, EndsPart

LEMMA EndsImply == EndsInv => EndsAreTold
<1> SUFFICES ASSUME EndsInv PROVE EndsAreTold
  OBVIOUS
<1>1. EndIsToldOnce
  <2>1. SUFFICES ASSUME NEW c \in Commands, place[c] = "over", closing = "open"
        PROVE  CASE kill[c] \in {"signalling", "waiting"} -> told[c] = {}
                 [] "unsettled" \in told[c] ->
                      kill[c] = "done" /\ told[c] = {"unsettled"}
                 [] OTHER -> Cardinality(told[c]) = 1
    BY DEF EndIsToldOnce
  <2>2. kill[c] \in {"none", "signalling", "waiting", "done"}
    BY DEF EndsInv, PlaceInv, CommandsTypeOK
  <2>3. CASE kill[c] \in {"signalling", "waiting"}
    BY <2>1, <2>3 DEF EndsInv, ToldOnce
  <2>4. CASE kill[c] \in {"none", "done"}
    <3>1. told[c] \in {{"exited"}, {"timeout"}, {"killed"}, {"unsettled"}}
          /\ ("unsettled" \in told[c] => kill[c] = "done")
      BY <2>1, <2>4 DEF EndsInv, ToldOnce
    <3>2. Cardinality(told[c]) = 1
      <4>1. PICK word : told[c] = {word}
        BY <3>1
      <4>2. QED BY <4>1, FS_Singleton
    <3>3. QED BY <2>4, <3>1, <3>2
  <2>5. QED BY <2>2, <2>3, <2>4
<1>2. ReasonIsTheCause
  BY DEF EndsInv, ToldIsTrue, ReasonIsTheCause
<1>3. QED BY <1>1, <1>2 DEF EndsAreTold

\* As long as the machine answers its probes and nothing is killed whose process
\* has ended or whose timeout has fired, the agent hears of the end of a command
\* exactly once, and what it hears is what happened; only a command whose kill
\* reported that it did not settle ends unheard (finalize, kill and
\* notifyBackgroundCommand).
THEOREM EveryEndIsTold ==
  ASSUME "probeFails" \notin Env, "killLate" \notin Env, "killTwice" \notin Env
  PROVE  CommandsSpec => []EndsAreTold
BY EndsInit, EndsStep, EndsImply, PTL DEF CommandsSpec

-----------------------------------------------------------------------------
(***************************************************************************)
(* MCP servers.  Connections, calls, tools and prompts correspond, through *)
(* every replacement of the servers and the close of the session.          *)
(***************************************************************************)
\* What the proofs use of McpAssumption; the invariant carries it along.
Assumed ==
    /\ Servers \subseteq Nat \ {0}
    /\ NeedsAuth \subseteq Servers /\ Configs \subseteq SUBSET Servers
    /\ {MaxManagers, MaxConns} \subseteq Nat \ {0}
    /\ {MaxCalls, MaxAtOnce, MaxPrompts, MaxLosses, MaxChanges} \subseteq Nat

(***************************************************************************)
(* The wires of a session: its managers and connections, mn and cn.        *)
(***************************************************************************)
Phases == {"none", "open", "sweeping", "awaiting", "closed"}
ManRec ==
    [phase : Phases,
     config : SUBSET Servers, clients : [Servers -> 0 .. MaxConns],
     pending : [Servers -> 0 .. MaxConns], at : Servers \cup {0},
     found : SUBSET Servers, auth : SUBSET Servers, done : BOOLEAN]
ConnRec ==
    [m : 0 .. MaxManagers, s : Servers \cup {0}, auth : BOOLEAN,
     swept : BOOLEAN, st : {"none", "connecting", "open", "dead", "closing"}]
CallRec ==
    [st : {"none", "connecting", "sent"}, by : Agents, m : 0 .. MaxManagers,
     conn : 0 .. MaxConns, try : 1 .. 2, stopped : BOOLEAN]

WireTypes(mn, cn) ==
    Assumed /\ mn \in [Managers -> ManRec] /\ cn \in [Conns -> ConnRec]

\* A connection, from begun to closed, is one of its manager's.
ConnHeld(mn, r, c) ==
    /\ r.st # "none" =>
          /\ r.m \in Managers /\ r.s \in Servers
          /\ mn[r.m].phase # "none" /\ r.s \in mn[r.m].config
    /\ r.st = "connecting" =>
          mn[r.m].pending[r.s] = c /\ mn[r.m].phase # "closed"
    /\ r.st = "open" =>
          mn[r.m].clients[r.s] = c /\ mn[r.m].phase # "closed"

ConnsHeld(mn, cn) == \A c \in Conns : ConnHeld(mn, cn[c], c)

\* What a manager holds is there.
PendingIsThere(cn, m, s, c, d) ==
    c # 0 => cn[c].st = "connecting" /\ cn[c].m = m /\ cn[c].s = s /\ d = 0

ClientIsThere(cn, m, s, d) ==
    d # 0 => /\ cn[d].st \in {"open", "dead", "closing"}
             /\ cn[d].m = m /\ cn[d].s = s

HeldAreThere(mn, cn) ==
    \A m \in Managers, s \in Servers :
       /\ PendingIsThere(cn, m, s, mn[m].pending[s], mn[m].clients[s])
       /\ ClientIsThere(cn, m, s, mn[m].clients[s])

Wires(mn, cn) == WireTypes(mn, cn) /\ ConnsHeld(mn, cn) /\ HeldAreThere(mn, cn)

\* A discovery has not been further than where it is.
DiscoveryOK(r) ==
    /\ r.phase = "none" => r = NoManager
    /\ r.phase # "none" =>
         /\ r.done <=> r.at = 0
         /\ r.at \in r.config \cup {0}
         /\ r.auth \subseteq r.config /\ r.found \subseteq r.config
         /\ ~ r.done => \A u \in Servers : u > r.at =>
                           r.clients[u] = 0 /\ r.pending[u] = 0

\* A call waits for a connection on the way, or for an answer on one.
CallHeld(mn, cn, r) ==
    r.st # "none" =>
      /\ r.conn \in Conns /\ r.m = cn[r.conn].m
      /\ r.m \in Managers /\ mn[r.m].done
      /\ r.st = "connecting" => cn[r.conn].st = "connecting"
      /\ r.st = "sent" => cn[r.conn].st \in {"open", "closing"}

CallsHeld(mn, cn, cl) == \A k \in Calls : CallHeld(mn, cn, cl[k])

CallInv == call \in [Calls -> CallRec] /\ CallsHeld(man, conn, call)
DiscoveryInv == \A m \in Managers : DiscoveryOK(man[m])

(***************************************************************************)
(* The session.                                                            *)
(***************************************************************************)
SessionTypes ==
    /\ mcp \in Managers /\ host \in Managers /\ handled \in Managers
    /\ registry \in [Agents -> [Servers -> 0 .. MaxManagers]]
    /\ prompt \in [Prompts -> [st : {"none", "waiting", "left", "started", "dropped"},
                               on : 0 .. MaxManagers]]
    /\ ready \in BOOLEAN /\ streaming \in BOOLEAN
    /\ session \in {"open", "killing", "closing", "closed"}
    /\ config \subseteq Servers /\ granted \subseteq NeedsAuth
    /\ called \in 0 .. MaxCalls /\ hushed \subseteq NeedsAuth
    /\ signIn \in [s : NeedsAuth \cup {0}, st : {"none", "exchanging", "done"},
                   cancelled : BOOLEAN]
    /\ signIn.st # "none" => signIn.s \in NeedsAuth /\ changes > 0
    /\ losses \in Nat /\ changes \in Nat

\* What is found has been discovered.
RegistryInv ==
    \A a \in Agents, s \in Servers :
       registry[a][s] # 0 => man[registry[a][s]].done

OpenInv ==
    /\ man[mcp].phase # "none"
    /\ \A m \in Managers : Open(m) => m = mcp
    /\ session \in {"open", "killing"} => Open(mcp)
    /\ session \in {"closing", "closed"} => ~ Open(mcp)

\* A server that asks for a sign-in may: there was none, its end is on the way
\* to the session, or nobody was told of it.
Excused(s) ==
    s \notin granted \/ (signIn.st = "done" /\ signIn.s = s) \/ s \in hushed

ToolInv ==
    session = "open" =>
      /\ mcp = host /\ host = handled /\ man[mcp].config = config
      /\ \A a \in Agents, s \in Servers :
           registry[a][s] = IF man[mcp].done /\ s \in man[mcp].found THEN mcp ELSE 0
      /\ ready <=> man[mcp].done

AuthInv ==
    session = "open" =>
      /\ \A s \in man[mcp].auth : Excused(s)
      /\ \A c \in Conns : conn[c].st = "connecting" /\ conn[c].m = mcp /\ ~ conn[c].auth
                            => Excused(conn[c].s)

\* Servers have been replaced once at most, and that is over.
Undisturbed == changes = 0 \/ (changes = 1 /\ signIn.st # "none")

PromptInv ==
    /\ \A p \in Prompts : Waits(p) =>
          /\ prompt[p].on \in Managers /\ man[prompt[p].on].phase # "none"
          /\ ~ man[prompt[p].on].done
    /\ session = "open" =>
         /\ Undisturbed => (streaming => ready)
         /\ \A p \in Prompts :
              prompt[p].st = "waiting" /\ prompt[p].on # host => changes > 1

\* A call fails because a server failed, the user stopped it or replaced the
\* servers, or by what another one dropped: never on closed servers it found.
CallsFailForCause == undue \subseteq {"dropped"}

McpInv ==
    /\ SessionTypes /\ Wires(man, conn) /\ CallInv /\ DiscoveryInv
    /\ RegistryInv /\ OpenInv /\ ToolInv /\ AuthInv /\ PromptInv
    /\ CallsFailForCause


(***************************************************************************)
(* Choices.                                                                *)
(***************************************************************************)
LEMMA McpLeast ==
  ASSUME NEW S \in SUBSET Nat, S # {}
  PROVE  Min(S) \in S /\ \A y \in S : Min(S) <= y
<1>1. PICK x \in S : \A y \in S : ~ (<<y, x>> \in OpToRel(<, Nat))
  BY NatLessThanWellFounded, WFMin
<1>2. \A y \in S : ~ (y < x)
  BY <1>1 DEF OpToRel
<1>3. \E z \in S : \A y \in S : z <= y
  BY <1>2
<1>4. QED BY <1>3 DEF Min

\* A connection that is begun has a number that nothing refers to.
LEMMA SlotIsFree ==
  ASSUME Assumed, RoomFor(TRUE)
  PROVE  Slot \in Conns /\ conn[Slot].st = "none"
<1> DEFINE S == {c \in Conns : conn[c].st = "none"}
<1>1. S \in SUBSET Nat /\ S # {}
  BY DEF RoomFor, Conns, Assumed
<1>2. Min(S) \in S
  BY <1>1, McpLeast
<1>3. QED BY <1>2 DEF Slot

LEMMA NewManagerIsNew ==
  ASSUME Assumed, \E x \in Managers : man[x].phase = "none"
  PROVE  Unused \in Managers /\ man[Unused].phase = "none"
<1> DEFINE S == {m \in Managers : man[m].phase = "none"}
<1>1. S \in SUBSET Nat /\ S # {}
  BY DEF Managers, Assumed
<1>2. Min(S) \in S
  BY <1>1, McpLeast
<1>3. QED BY <1>2 DEF Unused

\* The next server is one of the configuration, behind this one.
LEMMA NextServer ==
  ASSUME Assumed, NEW cfg \in SUBSET Servers, NEW s \in Servers \cup {0},
         After(cfg, s) # {}
  PROVE  /\ Min(After(cfg, s)) \in cfg
         /\ Min(After(cfg, s)) \in Nat \ {0}
         /\ Min(After(cfg, s)) > s
<1>1. After(cfg, s) \in SUBSET Nat
  BY DEF After, Assumed
<1>2. Min(After(cfg, s)) \in After(cfg, s)
  BY <1>1, McpLeast
<1>3. QED BY <1>2 DEF After, Assumed

(***************************************************************************)
(* What may happen to the wires.                                           *)
(***************************************************************************)
LEMMA WireFacts ==
  ASSUME NEW mn, NEW cn, Wires(mn, cn)
  PROVE  /\ mn \in [Managers -> ManRec] /\ cn \in [Conns -> ConnRec] /\ Assumed
         /\ \A m \in Managers, s \in Servers :
              /\ mn[m].pending[s] \in Conns \cup {0}
              /\ mn[m].clients[s] \in Conns \cup {0}
              /\ PendingIsThere(cn, m, s, mn[m].pending[s], mn[m].clients[s])
              /\ ClientIsThere(cn, m, s, mn[m].clients[s])
         /\ \A c \in Conns : c # 0 /\ ConnHeld(mn, cn[c], c)
<1>1. mn \in [Managers -> ManRec] /\ cn \in [Conns -> ConnRec] /\ Assumed
  BY DEF Wires, WireTypes
<1>2. \A m \in Managers, s \in Servers :
         mn[m].pending[s] \in 0 .. MaxConns /\ mn[m].clients[s] \in 0 .. MaxConns
  BY <1>1 DEF ManRec
<1>3. 0 .. MaxConns = Conns \cup {0} /\ 0 \notin Conns
  BY <1>1 DEF Conns, Assumed
<1>4. QED BY <1>1, <1>2, <1>3 DEF Wires, HeldAreThere, ConnsHeld

\* Manager m waits for c, or holds c, as the connection to s.
Expecting(mn, m, s, c) == [mn EXCEPT ![m].pending[s] = c]
Holding(mn, m, s, c) == [mn EXCEPT ![m].clients[s] = c]

SameScan(q, r) ==
    q.at = r.at /\ q.found = r.found /\ q.auth = r.auth /\ q.done = r.done

LEMMA SetPending ==
  ASSUME NEW mn \in [Managers -> ManRec], NEW m \in Managers, NEW s \in Servers,
         NEW c \in 0 .. MaxConns
  PROVE  /\ Expecting(mn, m, s, c) \in [Managers -> ManRec]
         /\ \A x \in Managers :
              /\ x # m => Expecting(mn, m, s, c)[x] = mn[x]
              /\ Expecting(mn, m, s, c)[x].phase = mn[x].phase
              /\ Expecting(mn, m, s, c)[x].config = mn[x].config
              /\ SameScan(Expecting(mn, m, s, c)[x], mn[x])
              /\ Expecting(mn, m, s, c)[x].clients = mn[x].clients
              /\ \A t \in Servers :
                   Expecting(mn, m, s, c)[x].pending[t] =
                     IF x = m /\ t = s THEN c ELSE mn[x].pending[t]
<1> DEFINE f2 == [mn[m].pending EXCEPT ![s] = c]
           r2 == [mn[m] EXCEPT !.pending = f2]
           mn2 == [mn EXCEPT ![m] = r2]
<1>1. mn[m] \in ManRec /\ mn[m].pending \in [Servers -> 0 .. MaxConns]
  BY DEF ManRec
<1>2. f2 \in [Servers -> 0 .. MaxConns]
      /\ \A t \in Servers : f2[t] = IF t = s THEN c ELSE mn[m].pending[t]
  BY <1>1
<1> HIDE DEF f2
<1>3. r2 \in ManRec /\ r2.pending = f2 /\ r2.phase = mn[m].phase
      /\ SameScan(r2, mn[m]) /\ r2.config = mn[m].config /\ r2.clients = mn[m].clients
  BY <1>1, <1>2 DEF ManRec, SameScan
<1> HIDE DEF r2
<1>4. mn2 \in [Managers -> ManRec] /\ mn2[m] = r2
      /\ \A x \in Managers : x # m => mn2[x] = mn[x]
  BY <1>3
<1>5. mn2 = Expecting(mn, m, s, c)
  BY DEF mn2, r2, f2, Expecting
<1> HIDE DEF mn2
<1>6. ASSUME NEW x \in Managers
      PROVE  /\ x # m => mn2[x] = mn[x]
             /\ mn2[x].phase = mn[x].phase
             /\ mn2[x].config = mn[x].config /\ SameScan(mn2[x], mn[x])
             /\ mn2[x].clients = mn[x].clients
             /\ \A t \in Servers : mn2[x].pending[t] =
                                  IF x = m /\ t = s THEN c ELSE mn[x].pending[t]
  <2>1. CASE x = m
    BY <2>1, <1>2, <1>3, <1>4
  <2>2. CASE x # m
    BY <2>2, <1>4 DEF SameScan
  <2>3. QED BY <2>1, <2>2
<1>7. QED BY <1>4, <1>5, <1>6

LEMMA SetClients ==
  ASSUME NEW mn \in [Managers -> ManRec], NEW m \in Managers, NEW s \in Servers,
         NEW c \in 0 .. MaxConns
  PROVE  /\ Holding(mn, m, s, c) \in [Managers -> ManRec]
         /\ \A x \in Managers :
              /\ x # m => Holding(mn, m, s, c)[x] = mn[x]
              /\ Holding(mn, m, s, c)[x].phase = mn[x].phase
              /\ Holding(mn, m, s, c)[x].config = mn[x].config
              /\ SameScan(Holding(mn, m, s, c)[x], mn[x])
              /\ Holding(mn, m, s, c)[x].pending = mn[x].pending
              /\ \A t \in Servers :
                   Holding(mn, m, s, c)[x].clients[t] =
                     IF x = m /\ t = s THEN c ELSE mn[x].clients[t]
<1> DEFINE f2 == [mn[m].clients EXCEPT ![s] = c]
           r2 == [mn[m] EXCEPT !.clients = f2]
           mn2 == [mn EXCEPT ![m] = r2]
<1>1. mn[m] \in ManRec /\ mn[m].clients \in [Servers -> 0 .. MaxConns]
  BY DEF ManRec
<1>2. f2 \in [Servers -> 0 .. MaxConns]
      /\ \A t \in Servers : f2[t] = IF t = s THEN c ELSE mn[m].clients[t]
  BY <1>1
<1> HIDE DEF f2
<1>3. r2 \in ManRec /\ r2.clients = f2 /\ r2.phase = mn[m].phase
      /\ SameScan(r2, mn[m]) /\ r2.config = mn[m].config /\ r2.pending = mn[m].pending
  BY <1>1, <1>2 DEF ManRec, SameScan
<1> HIDE DEF r2
<1>4. mn2 \in [Managers -> ManRec] /\ mn2[m] = r2
      /\ \A x \in Managers : x # m => mn2[x] = mn[x]
  BY <1>3
<1>5. mn2 = Holding(mn, m, s, c)
  BY DEF mn2, r2, f2, Holding
<1> HIDE DEF mn2
<1>6. ASSUME NEW x \in Managers
      PROVE  /\ x # m => mn2[x] = mn[x]
             /\ mn2[x].phase = mn[x].phase
             /\ mn2[x].config = mn[x].config /\ SameScan(mn2[x], mn[x])
             /\ mn2[x].pending = mn[x].pending
             /\ \A t \in Servers : mn2[x].clients[t] =
                                  IF x = m /\ t = s THEN c ELSE mn[x].clients[t]
  <2>1. CASE x = m
    BY <2>1, <1>2, <1>3, <1>4
  <2>2. CASE x # m
    BY <2>2, <1>4 DEF SameScan
  <2>3. QED BY <2>1, <2>2
<1>7. QED BY <1>4, <1>5, <1>6

\* A connection is begun.
LEMMA BeginKeeps ==
  ASSUME NEW mn, NEW cn, Wires(mn, cn),
         NEW m \in Managers, NEW s \in Servers, NEW c \in Conns,
         mn[m].phase = "open", s \in mn[m].config,
         mn[m].clients[s] = 0, mn[m].pending[s] = 0, cn[c].st = "none"
  PROVE  Wires(Expecting(mn, m, s, c), [cn EXCEPT ![c] = Begun(m, s)])
<1> DEFINE mn2 == Expecting(mn, m, s, c)
           cn2 == [cn EXCEPT ![c] = Begun(m, s)]
<1>1. /\ mn \in [Managers -> ManRec] /\ cn \in [Conns -> ConnRec] /\ Assumed
      /\ \A x \in Managers, t \in Servers :
           /\ mn[x].pending[t] \in Conns \cup {0}
           /\ mn[x].clients[t] \in Conns \cup {0}
           /\ PendingIsThere(cn, x, t, mn[x].pending[t], mn[x].clients[t])
           /\ ClientIsThere(cn, x, t, mn[x].clients[t])
      /\ \A d \in Conns : d # 0 /\ ConnHeld(mn, cn[d], d)
  BY WireFacts
<1>2. Begun(m, s) \in ConnRec /\ Begun(m, s).m = m /\ Begun(m, s).s = s
      /\ Begun(m, s).st = "connecting"
  BY DEF Begun, ConnRec, Managers
<1>3. c \in 0 .. MaxConns
  BY <1>1 DEF Conns, Assumed
<1>4. /\ mn2 \in [Managers -> ManRec] /\ mn2[m].pending[s] = c
      /\ \A t \in Servers : t # s => mn2[m].pending[t] = mn[m].pending[t]
      /\ mn2[m].clients = mn[m].clients /\ mn2[m].phase = "open"
      /\ mn2[m].config = mn[m].config
      /\ \A x \in Managers : x # m => mn2[x] = mn[x]
  BY <1>1, <1>3, SetPending
<1>5. /\ cn2 \in [Conns -> ConnRec] /\ cn2[c] = Begun(m, s)
      /\ \A d \in Conns : d # c => cn2[d] = cn[d]
  BY <1>1, <1>2
<1> HIDE DEF mn2, cn2
<1>6. WireTypes(mn2, cn2)
  BY <1>1, <1>4, <1>5 DEF WireTypes
<1>7. ASSUME NEW d \in Conns PROVE ConnHeld(mn2, cn2[d], d)
  <2>1. CASE d = c
    BY <2>1, <1>2, <1>4, <1>5 DEF ConnHeld
  <2>2. CASE d # c
    <3>1. cn2[d] = cn[d] /\ ConnHeld(mn, cn[d], d) /\ d # 0
      BY <2>2, <1>1, <1>5
    <3>2. QED BY <3>1, <1>4 DEF ConnHeld
  <2>3. QED BY <2>1, <2>2
<1>8. ASSUME NEW x \in Managers, NEW t \in Servers
      PROVE  /\ PendingIsThere(cn2, x, t, mn2[x].pending[t], mn2[x].clients[t])
             /\ ClientIsThere(cn2, x, t, mn2[x].clients[t])
  <2>1. mn2[x].clients[t] = mn[x].clients[t]
    BY <1>4
  <2>2. ClientIsThere(cn2, x, t, mn2[x].clients[t])
    BY <2>1, <1>1, <1>5 DEF ClientIsThere
  <2>3. CASE x = m /\ t = s
    BY <2>2, <2>3, <1>2, <1>4, <1>5 DEF PendingIsThere
  <2>4. CASE ~ (x = m /\ t = s)
    <3>1. mn2[x].pending[t] = mn[x].pending[t]
      BY <2>4, <1>4
    <3>2. QED BY <3>1, <2>1, <2>2, <1>1, <1>5 DEF PendingIsThere
  <2>5. QED BY <2>2, <2>3, <2>4
<1>9. Wires(mn2, cn2)
  BY <1>6, <1>7, <1>8 DEF Wires, ConnsHeld, HeldAreThere
<1>10. QED BY <1>9 DEF mn2, cn2

\* A registered connection is forgotten and closed.
LEMMA DropKeeps ==
  ASSUME NEW mn, NEW cn, Wires(mn, cn), NEW m \in Managers, NEW s \in Servers
  PROVE  Wires(Holding(mn, m, s, 0), Dropped(cn, mn[m].clients[s]))
<1> DEFINE mn2 == Holding(mn, m, s, 0)
           c == mn[m].clients[s]
           cn2 == Dropped(cn, c)
<1>1. /\ mn \in [Managers -> ManRec] /\ cn \in [Conns -> ConnRec] /\ Assumed
      /\ \A x \in Managers, t \in Servers :
           /\ mn[x].pending[t] \in Conns \cup {0}
           /\ mn[x].clients[t] \in Conns \cup {0}
           /\ PendingIsThere(cn, x, t, mn[x].pending[t], mn[x].clients[t])
           /\ ClientIsThere(cn, x, t, mn[x].clients[t])
      /\ \A d \in Conns : d # 0 /\ ConnHeld(mn, cn[d], d)
  BY WireFacts
<1>2. NoConn \in ConnRec /\ NoConn.st = "none"
  BY <1>1 DEF NoConn, ConnRec, Assumed
<1>4. /\ mn2 \in [Managers -> ManRec]
      /\ \A x \in Managers :
           /\ mn2[x].phase = mn[x].phase /\ mn2[x].config = mn[x].config
           /\ mn2[x].pending = mn[x].pending
           /\ \A t \in Servers : mn2[x].clients[t] =
                IF x = m /\ t = s THEN 0 ELSE mn[x].clients[t]
  <2>1. 0 \in 0 .. MaxConns
    BY <1>1 DEF Conns, Assumed
  <2>2. mn \in [Managers -> ManRec]
    BY <1>1
  <2>3. QED BY <2>1, <2>2, SetClients
<1>5. /\ cn2 \in [Conns -> ConnRec]
      /\ \A d \in Conns : d # c => cn2[d] = cn[d]
      /\ c # 0 => /\ c \in Conns
                  /\ \/ cn2[c].st = "none"
                     \/ /\ cn2[c].st = "closing" /\ cn[c].st # "none"
                        /\ cn2[c].m = cn[c].m /\ cn2[c].s = cn[c].s
  <2>1. CASE c = 0
    BY <2>1, <1>1 DEF Dropped
  <2>2. CASE c # 0
    <3> DEFINE r == IF cn[c].st = "dead" THEN NoConn
                                         ELSE [cn[c] EXCEPT !.st = "closing"]
    <3>1. c \in Conns /\ cn[c] \in ConnRec /\ cn[c].st # "none"
      BY <2>2, <1>1 DEF ClientIsThere
    <3>2. r \in ConnRec
          /\ \/ r.st = "none"
             \/ r.st = "closing" /\ r.m = cn[c].m /\ r.s = cn[c].s
      <4>1. CASE cn[c].st = "dead"
        BY <4>1, <1>2
      <4>2. CASE cn[c].st # "dead"
        BY <4>2, <3>1 DEF ConnRec
      <4>3. QED BY <4>1, <4>2
    <3> HIDE DEF r
    <3>3. cn2 = [cn EXCEPT ![c] = r]
      BY <2>2, <3>1 DEF Dropped, r
    <3>4. QED BY <3>1, <3>2, <3>3, <1>1
  <2>3. QED BY <2>1, <2>2
<1> HIDE DEF mn2, cn2
<1>6. WireTypes(mn2, cn2)
  BY <1>1, <1>4, <1>5 DEF WireTypes
<1>7. ASSUME NEW d \in Conns PROVE ConnHeld(mn2, cn2[d], d)
  <2>1. CASE d = c
    <3>1. ConnHeld(mn, cn[c], c) /\ c # 0
      BY <2>1, <1>1
    <3>2. QED BY <2>1, <3>1, <1>4, <1>5 DEF ConnHeld
  <2>2. CASE d # c
    <3>1. cn2[d] = cn[d] /\ ConnHeld(mn, cn[d], d) /\ d # 0
      BY <2>2, <1>1, <1>5
    <3>2. QED BY <2>2, <3>1, <1>4 DEF ConnHeld
  <2>3. QED BY <2>1, <2>2
<1>8. ASSUME NEW x \in Managers, NEW t \in Servers
      PROVE  /\ PendingIsThere(cn2, x, t, mn2[x].pending[t], mn2[x].clients[t])
             /\ ClientIsThere(cn2, x, t, mn2[x].clients[t])
  <2>1. PendingIsThere(cn, x, t, mn[x].pending[t], mn[x].clients[t])
        /\ ClientIsThere(cn, x, t, mn[x].clients[t])
        /\ ClientIsThere(cn, m, s, c)
    BY <1>1
  <2>2. mn[x].pending[t] # c \/ c = 0
    BY <2>1 DEF PendingIsThere, ClientIsThere
  <2>3. PendingIsThere(cn2, x, t, mn2[x].pending[t], mn2[x].clients[t])
    BY <2>1, <2>2, <1>1, <1>4, <1>5 DEF PendingIsThere
  <2>4. CASE x = m /\ t = s
    BY <2>3, <2>4, <1>4 DEF ClientIsThere
  <2>5. CASE ~ (x = m /\ t = s)
    <3>1. mn2[x].clients[t] = mn[x].clients[t]
      BY <2>5, <1>4
    <3>2. mn[x].clients[t] # c \/ c = 0
      BY <2>1, <2>5 DEF ClientIsThere
    <3>3. QED BY <2>1, <2>3, <3>1, <3>2, <1>1, <1>5 DEF ClientIsThere
  <2>6. QED BY <2>4, <2>5
<1>9. Wires(mn2, cn2)
  BY <1>6, <1>7, <1>8 DEF Wires, ConnsHeld, HeldAreThere
<1>10. QED BY <1>9 DEF mn2, cn2

\* A connection on the way fails.
LEMMA CutKeeps ==
  ASSUME NEW mn, NEW cn, Wires(mn, cn), NEW c \in Conns, cn[c].st = "connecting"
  PROVE  Wires(Expecting(mn, cn[c].m, cn[c].s, 0),
               [cn EXCEPT ![c] = NoConn])
<1> DEFINE m == cn[c].m
           s == cn[c].s
           mn2 == Expecting(mn, m, s, 0)
           cn2 == [cn EXCEPT ![c] = NoConn]
<1>1. /\ mn \in [Managers -> ManRec] /\ cn \in [Conns -> ConnRec] /\ Assumed
      /\ \A x \in Managers, t \in Servers :
           /\ mn[x].pending[t] \in Conns \cup {0}
           /\ mn[x].clients[t] \in Conns \cup {0}
           /\ PendingIsThere(cn, x, t, mn[x].pending[t], mn[x].clients[t])
           /\ ClientIsThere(cn, x, t, mn[x].clients[t])
      /\ \A d \in Conns : d # 0 /\ ConnHeld(mn, cn[d], d)
  BY WireFacts
<1>2. NoConn \in ConnRec /\ NoConn.st = "none"
  BY <1>1 DEF NoConn, ConnRec, Assumed
<1>3. m \in Managers /\ s \in Servers /\ mn[m].pending[s] = c
  BY <1>1 DEF ConnHeld
<1>4. /\ mn2 \in [Managers -> ManRec]
      /\ \A x \in Managers :
           /\ mn2[x].phase = mn[x].phase /\ mn2[x].config = mn[x].config
           /\ mn2[x].clients = mn[x].clients
           /\ \A t \in Servers : mn2[x].pending[t] =
                IF x = m /\ t = s THEN 0 ELSE mn[x].pending[t]
  <2>1. 0 \in 0 .. MaxConns
    BY <1>1 DEF Conns, Assumed
  <2>2. mn \in [Managers -> ManRec] /\ m \in Managers /\ s \in Servers
    BY <1>1, <1>3
  <2>3. QED BY <2>1, <2>2, SetPending
<1>5. /\ cn2 \in [Conns -> ConnRec] /\ cn2[c] = NoConn
      /\ \A d \in Conns : d # c => cn2[d] = cn[d]
  BY <1>1, <1>2
<1> HIDE DEF mn2, cn2
<1>6. WireTypes(mn2, cn2)
  BY <1>1, <1>4, <1>5 DEF WireTypes
<1>7. ASSUME NEW d \in Conns PROVE ConnHeld(mn2, cn2[d], d)
  <2>1. CASE d = c
    BY <2>1, <1>2, <1>5 DEF ConnHeld
  <2>2. CASE d # c
    <3>1. cn2[d] = cn[d] /\ ConnHeld(mn, cn[d], d) /\ d # 0
      BY <2>2, <1>1, <1>5
    <3>2. QED BY <2>2, <3>1, <1>3, <1>4 DEF ConnHeld
  <2>3. QED BY <2>1, <2>2
<1>8. ASSUME NEW x \in Managers, NEW t \in Servers
      PROVE  /\ PendingIsThere(cn2, x, t, mn2[x].pending[t], mn2[x].clients[t])
             /\ ClientIsThere(cn2, x, t, mn2[x].clients[t])
  <2>1. PendingIsThere(cn, x, t, mn[x].pending[t], mn[x].clients[t])
        /\ ClientIsThere(cn, x, t, mn[x].clients[t])
    BY <1>1
  <2>2. mn[x].clients[t] # c /\ mn2[x].clients[t] = mn[x].clients[t]
    BY <2>1, <1>1, <1>4 DEF ClientIsThere
  <2>3. ClientIsThere(cn2, x, t, mn2[x].clients[t])
    BY <2>1, <2>2, <1>1, <1>5 DEF ClientIsThere
  <2>4. CASE x = m /\ t = s
    BY <2>3, <2>4, <1>3, <1>4 DEF PendingIsThere
  <2>5. CASE ~ (x = m /\ t = s)
    <3>1. mn2[x].pending[t] = mn[x].pending[t] /\ mn[x].pending[t] # c
      BY <2>1, <2>5, <1>1, <1>4 DEF PendingIsThere
    <3>2. QED BY <2>1, <2>2, <2>3, <3>1, <1>1, <1>5 DEF PendingIsThere
  <2>6. QED BY <2>4, <2>5
<1>9. Wires(mn2, cn2)
  BY <1>6, <1>7, <1>8 DEF Wires, ConnsHeld, HeldAreThere
<1>10. QED BY <1>9 DEF mn2, cn2

\* A connection that is registered is no more: it is forgotten.
LEMMA EndKeeps ==
  ASSUME NEW mn, NEW cn, Wires(mn, cn), NEW c \in Conns,
         cn[c].st \in {"open", "dead", "closing"}
  PROVE  mn[cn[c].m].clients[cn[c].s] = c =>
           Wires(Holding(mn, cn[c].m, cn[c].s, 0),
                 [cn EXCEPT ![c] = NoConn])
<1> DEFINE m == cn[c].m
           s == cn[c].s
           mn2 == Holding(mn, m, s, 0)
           cn2 == [cn EXCEPT ![c] = NoConn]
<1> HAVE mn[m].clients[s] = c
<1>1. /\ mn \in [Managers -> ManRec] /\ cn \in [Conns -> ConnRec] /\ Assumed
      /\ \A x \in Managers, t \in Servers :
           /\ mn[x].pending[t] \in Conns \cup {0}
           /\ mn[x].clients[t] \in Conns \cup {0}
           /\ PendingIsThere(cn, x, t, mn[x].pending[t], mn[x].clients[t])
           /\ ClientIsThere(cn, x, t, mn[x].clients[t])
      /\ \A d \in Conns : d # 0 /\ ConnHeld(mn, cn[d], d)
  BY WireFacts
<1>2. NoConn \in ConnRec /\ NoConn.st = "none"
  BY <1>1 DEF NoConn, ConnRec, Assumed
<1>3. m \in Managers /\ s \in Servers
  BY <1>1 DEF ConnHeld
<1>4. /\ mn2 \in [Managers -> ManRec]
      /\ \A x \in Managers :
           /\ mn2[x].phase = mn[x].phase /\ mn2[x].config = mn[x].config
           /\ mn2[x].pending = mn[x].pending
           /\ \A t \in Servers : mn2[x].clients[t] =
                IF x = m /\ t = s THEN 0 ELSE mn[x].clients[t]
  <2>1. 0 \in 0 .. MaxConns
    BY <1>1 DEF Conns, Assumed
  <2>2. mn \in [Managers -> ManRec] /\ m \in Managers /\ s \in Servers
    BY <1>1, <1>3
  <2>3. QED BY <2>1, <2>2, SetClients
<1>5. /\ cn2 \in [Conns -> ConnRec] /\ cn2[c] = NoConn
      /\ \A d \in Conns : d # c => cn2[d] = cn[d]
  BY <1>1, <1>2
<1> HIDE DEF mn2, cn2
<1>6. WireTypes(mn2, cn2)
  BY <1>1, <1>4, <1>5 DEF WireTypes
<1>7. ASSUME NEW d \in Conns PROVE ConnHeld(mn2, cn2[d], d)
  <2>1. CASE d = c
    BY <2>1, <1>2, <1>5 DEF ConnHeld
  <2>2. CASE d # c
    <3>1. cn2[d] = cn[d] /\ ConnHeld(mn, cn[d], d) /\ d # 0
      BY <2>2, <1>1, <1>5
    <3>2. QED BY <2>2, <3>1, <1>3, <1>4 DEF ConnHeld
  <2>3. QED BY <2>1, <2>2
<1>8. ASSUME NEW x \in Managers, NEW t \in Servers
      PROVE  /\ PendingIsThere(cn2, x, t, mn2[x].pending[t], mn2[x].clients[t])
             /\ ClientIsThere(cn2, x, t, mn2[x].clients[t])
  <2>1. PendingIsThere(cn, x, t, mn[x].pending[t], mn[x].clients[t])
        /\ ClientIsThere(cn, x, t, mn[x].clients[t])
    BY <1>1
  <2>2. mn[x].pending[t] # c /\ mn2[x].pending[t] = mn[x].pending[t]
    BY <2>1, <1>1, <1>4 DEF PendingIsThere
  <2>3. CASE x = m /\ t = s
    <3>1. mn2[x].clients[t] = 0 /\ mn2[x].pending[t] = mn[x].pending[t]
      BY <2>2, <2>3, <1>4
    <3>2. mn[x].pending[t] # 0 => cn2[mn[x].pending[t]] = cn[mn[x].pending[t]]
      BY <2>2, <1>1, <1>5
    <3>3. QED BY <2>1, <3>1, <3>2 DEF PendingIsThere, ClientIsThere
  <2>4. CASE ~ (x = m /\ t = s)
    <3>1. mn2[x].clients[t] = mn[x].clients[t] /\ mn[x].clients[t] # c
      BY <2>1, <2>4, <1>1, <1>4 DEF ClientIsThere
    <3>2. QED BY <2>1, <2>2, <3>1, <1>1, <1>5 DEF PendingIsThere, ClientIsThere
  <2>5. QED BY <2>3, <2>4
<1>9. Wires(mn2, cn2)
  BY <1>6, <1>7, <1>8 DEF Wires, ConnsHeld, HeldAreThere
<1>10. QED BY <1>9 DEF mn2, cn2

\* A connection that was dropped before is no more, or one that is registered is
\* marked: it has died, or is being closed.
LEMMA MarkKeeps ==
  ASSUME NEW mn, NEW cn, Wires(mn, cn), NEW c \in Conns,
         cn[c].st \in {"open", "dead", "closing"}, NEW r \in ConnRec,
         \/ mn[cn[c].m].clients[cn[c].s] # c /\ r = NoConn
         \/ r.m = cn[c].m /\ r.s = cn[c].s /\ r.st \in {"dead", "closing"}
  PROVE  Wires(mn, [cn EXCEPT ![c] = r])
<1> DEFINE m == cn[c].m
           s == cn[c].s
           cn2 == [cn EXCEPT ![c] = r]
<1>1. /\ mn \in [Managers -> ManRec] /\ cn \in [Conns -> ConnRec] /\ Assumed
      /\ \A x \in Managers, t \in Servers :
           /\ mn[x].pending[t] \in Conns \cup {0}
           /\ mn[x].clients[t] \in Conns \cup {0}
           /\ PendingIsThere(cn, x, t, mn[x].pending[t], mn[x].clients[t])
           /\ ClientIsThere(cn, x, t, mn[x].clients[t])
      /\ \A d \in Conns : d # 0 /\ ConnHeld(mn, cn[d], d)
  BY WireFacts
<1>2. NoConn \in ConnRec /\ NoConn.st = "none"
  BY <1>1 DEF NoConn, ConnRec, Assumed
<1>3. m \in Managers /\ s \in Servers /\ mn[m].phase # "none" /\ s \in mn[m].config
  BY <1>1 DEF ConnHeld
<1>5. /\ cn2 \in [Conns -> ConnRec] /\ cn2[c] = r
      /\ \A d \in Conns : d # c => cn2[d] = cn[d]
  BY <1>1
<1> HIDE DEF cn2
<1>6. WireTypes(mn, cn2)
  BY <1>1, <1>5 DEF WireTypes
<1>7. ASSUME NEW d \in Conns PROVE ConnHeld(mn, cn2[d], d)
  <2>1. CASE d = c
    BY <2>1, <1>2, <1>3, <1>5 DEF ConnHeld
  <2>2. CASE d # c
    BY <2>2, <1>1, <1>5
  <2>3. QED BY <2>1, <2>2
<1>8. ASSUME NEW x \in Managers, NEW t \in Servers
      PROVE  /\ PendingIsThere(cn2, x, t, mn[x].pending[t], mn[x].clients[t])
             /\ ClientIsThere(cn2, x, t, mn[x].clients[t])
  <2>1. PendingIsThere(cn, x, t, mn[x].pending[t], mn[x].clients[t])
        /\ ClientIsThere(cn, x, t, mn[x].clients[t])
    BY <1>1
  <2>2. mn[x].pending[t] # c
    BY <2>1, <1>1 DEF PendingIsThere
  <2>3. CASE mn[x].clients[t] = c
    <3>1. x = m /\ t = s
      BY <2>1, <2>3, <1>1 DEF ClientIsThere
    <3>2. QED BY <2>1, <2>2, <2>3, <3>1, <1>1, <1>5
             DEF PendingIsThere, ClientIsThere
  <2>4. CASE mn[x].clients[t] # c
    BY <2>1, <2>2, <2>4, <1>1, <1>5 DEF PendingIsThere, ClientIsThere
  <2>5. QED BY <2>3, <2>4
<1>9. Wires(mn, cn2)
  BY <1>6, <1>7, <1>8 DEF Wires, ConnsHeld, HeldAreThere
<1>10. QED BY <1>9 DEF cn2

Up(cn, c) == [cn EXCEPT ![c].st = "open"]

\* A connection on the way is there: it is registered.
LEMMA ConnectKeeps ==
  ASSUME NEW mn, NEW cn, Wires(mn, cn), NEW c \in Conns, cn[c].st = "connecting"
  PROVE  Wires(Holding(Expecting(mn, cn[c].m, cn[c].s, 0), cn[c].m, cn[c].s, c),
               Up(cn, c))
<1> DEFINE m == cn[c].m
           s == cn[c].s
           mn1 == Expecting(mn, m, s, 0)
           mn2 == Holding(mn1, m, s, c)
           cn2 == Up(cn, c)
<1>1. /\ mn \in [Managers -> ManRec] /\ cn \in [Conns -> ConnRec] /\ Assumed
      /\ \A x \in Managers, t \in Servers :
           /\ mn[x].pending[t] \in Conns \cup {0}
           /\ mn[x].clients[t] \in Conns \cup {0}
           /\ PendingIsThere(cn, x, t, mn[x].pending[t], mn[x].clients[t])
           /\ ClientIsThere(cn, x, t, mn[x].clients[t])
      /\ \A d \in Conns : d # 0 /\ ConnHeld(mn, cn[d], d)
  BY WireFacts
<1>3. m \in Managers /\ s \in Servers /\ mn[m].phase \notin {"none", "closed"}
      /\ s \in mn[m].config /\ mn[m].pending[s] = c
  BY <1>1 DEF ConnHeld
<1>4. /\ mn2 \in [Managers -> ManRec]
      /\ \A x \in Managers :
           /\ mn2[x].phase = mn[x].phase /\ mn2[x].config = mn[x].config
           /\ \A t \in Servers :
                /\ mn2[x].clients[t] = IF x = m /\ t = s THEN c ELSE mn[x].clients[t]
                /\ mn2[x].pending[t] = IF x = m /\ t = s THEN 0 ELSE mn[x].pending[t]
  <2>1. 0 \in 0 .. MaxConns /\ c \in 0 .. MaxConns
    BY <1>1 DEF Conns, Assumed
  <2>2. mn \in [Managers -> ManRec] /\ m \in Managers /\ s \in Servers
    BY <1>1, <1>3
  <2>3. /\ mn1 \in [Managers -> ManRec]
        /\ \A x \in Managers :
             /\ mn1[x].phase = mn[x].phase /\ mn1[x].config = mn[x].config
             /\ mn1[x].clients = mn[x].clients
             /\ \A t \in Servers : mn1[x].pending[t] =
                  IF x = m /\ t = s THEN 0 ELSE mn[x].pending[t]
    <3> HIDE DEF m, s
    <3>1. QED BY <2>1, <2>2, SetPending
  <2> HIDE DEF mn1
  <2>4. /\ mn2 \in [Managers -> ManRec]
        /\ \A x \in Managers :
             /\ mn2[x].phase = mn1[x].phase /\ mn2[x].config = mn1[x].config
             /\ mn2[x].pending = mn1[x].pending
             /\ \A t \in Servers : mn2[x].clients[t] =
                  IF x = m /\ t = s THEN c ELSE mn1[x].clients[t]
    <3>1. mn1 \in [Managers -> ManRec]
      BY <2>3
    <3>2. QED BY <2>1, <2>2, <3>1, SetClients
  <2> HIDE DEF mn2
  <2>5. QED BY <2>3, <2>4
<1>5. /\ cn2 \in [Conns -> ConnRec] /\ cn2[c].st = "open"
      /\ cn2[c].m = m /\ cn2[c].s = s
      /\ \A d \in Conns : d # c => cn2[d] = cn[d]
  <2>1. [cn[c] EXCEPT !.st = "open"] \in ConnRec
        /\ [cn[c] EXCEPT !.st = "open"].st = "open"
        /\ [cn[c] EXCEPT !.st = "open"].m = m
        /\ [cn[c] EXCEPT !.st = "open"].s = s
    BY <1>1 DEF ConnRec
  <2>2. QED BY <2>1, <1>1 DEF Up
<1> HIDE DEF mn1, mn2, cn2
<1>6. WireTypes(mn2, cn2)
  BY <1>1, <1>4, <1>5 DEF WireTypes
<1>7. ASSUME NEW d \in Conns PROVE ConnHeld(mn2, cn2[d], d)
  <2>1. CASE d = c
    BY <2>1, <1>3, <1>4, <1>5 DEF ConnHeld
  <2>2. CASE d # c
    <3>1. cn2[d] = cn[d] /\ ConnHeld(mn, cn[d], d) /\ d # 0
      BY <2>2, <1>1, <1>5
    <3>2. PendingIsThere(cn, m, s, c, mn[m].clients[s])
      BY <1>1, <1>3
    <3>3. mn[m].clients[s] = 0
      BY <3>2, <1>1 DEF PendingIsThere
    <3>4. QED BY <2>2, <3>1, <3>3, <1>3, <1>4 DEF ConnHeld
  <2>3. QED BY <2>1, <2>2
<1>8. ASSUME NEW x \in Managers, NEW t \in Servers
      PROVE  /\ PendingIsThere(cn2, x, t, mn2[x].pending[t], mn2[x].clients[t])
             /\ ClientIsThere(cn2, x, t, mn2[x].clients[t])
  <2>1. PendingIsThere(cn, x, t, mn[x].pending[t], mn[x].clients[t])
        /\ ClientIsThere(cn, x, t, mn[x].clients[t])
    BY <1>1
  <2>2. CASE x = m /\ t = s
    BY <2>2, <1>3, <1>4, <1>5 DEF PendingIsThere, ClientIsThere
  <2>3. CASE ~ (x = m /\ t = s)
    <3>1. /\ mn2[x].pending[t] = mn[x].pending[t]
          /\ mn2[x].clients[t] = mn[x].clients[t]
      BY <2>3, <1>4
    <3>2. mn[x].pending[t] # c /\ mn[x].clients[t] # c
      BY <2>1, <2>3, <1>1 DEF PendingIsThere, ClientIsThere
    <3>3. QED BY <2>1, <3>1, <3>2, <1>1, <1>5 DEF PendingIsThere, ClientIsThere
  <2>4. QED BY <2>2, <2>3
<1>9. Wires(mn2, cn2)
  BY <1>6, <1>7, <1>8 DEF Wires, ConnsHeld, HeldAreThere
<1>10. QED BY <1>9 DEF mn1, mn2, cn2

\* A manager moves on and holds what it holds.
LEMMA ManagerKeeps ==
  ASSUME NEW mn, NEW cn, Wires(mn, cn), NEW mn2 \in [Managers -> ManRec],
         \A x \in Managers :
            /\ mn2[x].clients = mn[x].clients /\ mn2[x].pending = mn[x].pending
            /\ mn2[x].config = mn[x].config
            /\ mn[x].phase # "none" => mn2[x].phase # "none"
            /\ mn2[x].phase = "closed" => mn[x].phase = "closed"
  PROVE  Wires(mn2, cn)
<1>1. /\ mn \in [Managers -> ManRec] /\ cn \in [Conns -> ConnRec] /\ Assumed
      /\ \A x \in Managers, t \in Servers :
           /\ mn[x].pending[t] \in Conns \cup {0}
           /\ mn[x].clients[t] \in Conns \cup {0}
           /\ PendingIsThere(cn, x, t, mn[x].pending[t], mn[x].clients[t])
           /\ ClientIsThere(cn, x, t, mn[x].clients[t])
      /\ \A d \in Conns : d # 0 /\ ConnHeld(mn, cn[d], d)
  BY WireFacts
<1>6. WireTypes(mn2, cn)
  BY <1>1 DEF WireTypes
<1>7. ASSUME NEW d \in Conns PROVE ConnHeld(mn2, cn[d], d)
  BY <1>1 DEF ConnHeld
<1>8. ASSUME NEW x \in Managers, NEW t \in Servers
      PROVE  /\ PendingIsThere(cn, x, t, mn2[x].pending[t], mn2[x].clients[t])
             /\ ClientIsThere(cn, x, t, mn2[x].clients[t])
  BY <1>1
<1>9. QED BY <1>6, <1>7, <1>8 DEF Wires, ConnsHeld, HeldAreThere

\* There is a new manager, which holds nothing yet.
LEMMA NewKeeps ==
  ASSUME NEW mn, NEW cn, Wires(mn, cn), NEW m \in Managers, mn[m].phase = "none",
         NEW r \in ManRec, r.clients = NoMap, r.pending = NoMap
  PROVE  Wires([mn EXCEPT ![m] = r], cn)
<1> DEFINE mn2 == [mn EXCEPT ![m] = r]
<1>1. /\ mn \in [Managers -> ManRec] /\ cn \in [Conns -> ConnRec] /\ Assumed
      /\ \A x \in Managers, t \in Servers :
           /\ mn[x].pending[t] \in Conns \cup {0}
           /\ mn[x].clients[t] \in Conns \cup {0}
           /\ PendingIsThere(cn, x, t, mn[x].pending[t], mn[x].clients[t])
           /\ ClientIsThere(cn, x, t, mn[x].clients[t])
      /\ \A d \in Conns : d # 0 /\ ConnHeld(mn, cn[d], d)
  BY WireFacts
<1>2. mn2 \in [Managers -> ManRec] /\ mn2[m] = r
      /\ \A x \in Managers : x # m => mn2[x] = mn[x]
  BY <1>1
<1> HIDE DEF mn2
<1>6. WireTypes(mn2, cn)
  BY <1>1, <1>2 DEF WireTypes
<1>7. ASSUME NEW d \in Conns PROVE ConnHeld(mn2, cn[d], d)
  <2>1. ConnHeld(mn, cn[d], d)
    BY <1>1
  <2>2. QED BY <2>1, <1>2 DEF ConnHeld
<1>8. ASSUME NEW x \in Managers, NEW t \in Servers
      PROVE  /\ PendingIsThere(cn, x, t, mn2[x].pending[t], mn2[x].clients[t])
             /\ ClientIsThere(cn, x, t, mn2[x].clients[t])
  <2>1. CASE x = m
    BY <2>1, <1>2 DEF PendingIsThere, ClientIsThere, NoMap
  <2>2. CASE x # m
    BY <2>2, <1>1, <1>2
  <2>3. QED BY <2>1, <2>2
<1>9. Wires(mn2, cn)
  BY <1>6, <1>7, <1>8 DEF Wires, ConnsHeld, HeldAreThere
<1>10. QED BY <1>9 DEF mn2

\* A manager is closed: it forgets what it held, which was closed before.
LEMMA ClosedKeeps ==
  ASSUME NEW mn, NEW cn, Wires(mn, cn), NEW m \in Managers,
         NEW r \in ManRec, r.config = mn[m].config, mn[m].phase # "none",
         r.phase = "closed", r.clients = NoMap, r.pending = mn[m].pending,
         \A t \in Servers :
            /\ mn[m].pending[t] = 0
            /\ mn[m].clients[t] # 0 => cn[mn[m].clients[t]].st # "open",
         NEW cn2 \in [Conns -> ConnRec],
         \A c \in Conns :
            \/ cn2[c] = cn[c]
            \/ cn2[c] = NoConn /\ \E t \in Servers : mn[m].clients[t] = c
  PROVE  Wires([mn EXCEPT ![m] = r], cn2)
<1> DEFINE mn2 == [mn EXCEPT ![m] = r]
<1>1. /\ mn \in [Managers -> ManRec] /\ cn \in [Conns -> ConnRec] /\ Assumed
      /\ \A x \in Managers, t \in Servers :
           /\ mn[x].pending[t] \in Conns \cup {0}
           /\ mn[x].clients[t] \in Conns \cup {0}
           /\ PendingIsThere(cn, x, t, mn[x].pending[t], mn[x].clients[t])
           /\ ClientIsThere(cn, x, t, mn[x].clients[t])
      /\ \A d \in Conns : d # 0 /\ ConnHeld(mn, cn[d], d)
  BY WireFacts
<1>2. NoConn \in ConnRec /\ NoConn.st = "none"
  BY <1>1 DEF NoConn, ConnRec, Assumed
<1>3. mn2 \in [Managers -> ManRec] /\ mn2[m] = r
      /\ \A x \in Managers : x # m => mn2[x] = mn[x]
  BY <1>1
<1> HIDE DEF mn2
<1>6. WireTypes(mn2, cn2)
  BY <1>1, <1>3 DEF WireTypes
<1>7. ASSUME NEW d \in Conns PROVE ConnHeld(mn2, cn2[d], d)
  <2>1. CASE cn2[d] = cn[d]
    <3>1. ConnHeld(mn, cn[d], d) /\ d # 0
      BY <1>1
    <3>2. QED BY <2>1, <3>1, <1>3 DEF ConnHeld
  <2>2. CASE cn2[d] = NoConn
    BY <2>2, <1>2 DEF ConnHeld
  <2>3. QED BY <2>1, <2>2
<1>8. ASSUME NEW x \in Managers, NEW t \in Servers
      PROVE  /\ PendingIsThere(cn2, x, t, mn2[x].pending[t], mn2[x].clients[t])
             /\ ClientIsThere(cn2, x, t, mn2[x].clients[t])
  <2>1. CASE x = m
    BY <2>1, <1>3 DEF PendingIsThere, ClientIsThere, NoMap
  <2>2. CASE x # m
    <3>1. PendingIsThere(cn, x, t, mn[x].pending[t], mn[x].clients[t])
          /\ ClientIsThere(cn, x, t, mn[x].clients[t])
      BY <1>1
    <3>2. ASSUME NEW d \in Conns, cn[d].m = x PROVE cn2[d] = cn[d]
      <4>1. SUFFICES ASSUME NEW u \in Servers, mn[m].clients[u] = d PROVE FALSE
        OBVIOUS
      <4>2. ClientIsThere(cn, m, u, d) /\ d # 0
        BY <4>1, <1>1
      <4>3. QED BY <4>2, <3>2, <2>2 DEF ClientIsThere
    <3>3. mn2[x] = mn[x] /\ mn[x].pending[t] \in Conns \cup {0}
          /\ mn[x].clients[t] \in Conns \cup {0}
      BY <2>2, <1>1, <1>3
    <3>4. QED BY <3>1, <3>2, <3>3 DEF PendingIsThere, ClientIsThere
  <2>3. QED BY <2>1, <2>2
<1>9. Wires(mn2, cn2)
  BY <1>6, <1>7, <1>8 DEF Wires, ConnsHeld, HeldAreThere
<1>10. QED BY <1>9 DEF mn2

(***************************************************************************)
(* A discovery goes on.                                                    *)
(***************************************************************************)
\* It is behind server s, and has asked nobody further on.
Behind(r, s) ==
    /\ r.phase # "none" /\ ~ r.done
    /\ r.auth \subseteq r.config /\ r.found \subseteq r.config
    /\ \A u \in Servers : u > s => r.clients[u] = 0 /\ r.pending[u] = 0

\* What it leaves of a manager alone.
SameBut(r, next, over) ==
    /\ next \in ManRec /\ next.phase = r.phase /\ next.config = r.config
    /\ next.found = r.found /\ next.auth = r.auth
    /\ next.done <=> over

\* It asks for the next server.
GoesOn(r, s, next) ==
    /\ SameBut(r, next, FALSE) /\ DiscoveryOK(next)
    /\ next.at \in r.config /\ next.at > s
    /\ next.clients = r.clients
    /\ next.pending = [r.pending EXCEPT ![next.at] = Slot]

LEMMA OnwardOver ==
  ASSUME NEW m \in Managers, NEW rec \in ManRec, NEW s \in Servers \cup {0},
         Behind(rec, s), Over(rec, s)
  PROVE  /\ SameBut(rec, Onward(m, rec, s), TRUE)
         /\ DiscoveryOK(Onward(m, rec, s))
         /\ Onward(m, rec, s).clients = rec.clients
         /\ Onward(m, rec, s).pending = rec.pending
<1> DEFINE next == [rec EXCEPT !.at = 0, !.done = TRUE]
<1>1. Onward(m, rec, s) = next
  BY DEF Onward
<1>2. /\ next \in ManRec /\ next.phase = rec.phase /\ next.config = rec.config
      /\ next.found = rec.found /\ next.auth = rec.auth /\ next.done /\ next.at = 0
      /\ next.clients = rec.clients /\ next.pending = rec.pending
  BY DEF ManRec
<1> HIDE DEF next
<1>3. DiscoveryOK(next)
  BY <1>2 DEF DiscoveryOK, Behind
<1>4. SameBut(rec, next, TRUE)
  BY <1>2 DEF SameBut
<1>5. QED BY <1>1, <1>2, <1>3, <1>4

LEMMA OnwardOn ==
  ASSUME Assumed, NEW m \in Managers, NEW rec \in ManRec, NEW s \in Servers \cup {0},
         Behind(rec, s), ~ Over(rec, s), RoomFor(TRUE)
  PROVE  GoesOn(rec, s, Onward(m, rec, s))
<1> DEFINE t == Min(After(rec.config, s))
           pend == [rec.pending EXCEPT ![t] = Slot]
           next == [rec EXCEPT !.at = t, !.pending = pend]
<1>1. Onward(m, rec, s) = next
  BY DEF Onward
<1>2. rec.config \in SUBSET Servers /\ rec.pending \in [Servers -> 0 .. MaxConns]
      /\ rec.clients \in [Servers -> 0 .. MaxConns]
  BY DEF ManRec
<1>3. t \in rec.config /\ t \in Nat \ {0} /\ t > s
  BY <1>2, NextServer DEF Over
<1>4. Slot \in 0 .. MaxConns
  BY SlotIsFree DEF Conns, Assumed
<1>5. /\ pend \in [Servers -> 0 .. MaxConns]
      /\ \A u \in Servers : u # t => pend[u] = rec.pending[u]
  BY <1>2, <1>4
<1> HIDE DEF t, pend
<1>6. /\ next \in ManRec /\ next.phase = rec.phase /\ next.config = rec.config
      /\ next.found = rec.found /\ next.auth = rec.auth /\ next.done = rec.done
      /\ next.at = t /\ next.clients = rec.clients /\ next.pending = pend
  BY <1>2, <1>3, <1>5 DEF ManRec
<1> HIDE DEF next
<1>7. \A u \in Servers : u > t => u > s /\ u # t
  BY <1>3 DEF Assumed
<1>8. DiscoveryOK(next)
  BY <1>3, <1>5, <1>6, <1>7 DEF DiscoveryOK, Behind
<1>9. SameBut(rec, next, FALSE)
  BY <1>6 DEF SameBut, Behind
<1>10. QED BY <1>1, <1>3, <1>6, <1>8, <1>9 DEF pend, GoesOn

\* Going on leaves the manager as it is, and begins one connection at most.
GoneOn(cs, m, rec, s, next) ==
    /\ DiscoveryOK(next) /\ SameBut(rec, next, Over(rec, s))
    /\ Over(rec, s) => OnwardConn(cs, m, next) = cs
    /\ ~ Over(rec, s) =>
         /\ Slot \in Conns /\ cs[Slot].st = "none" /\ next.at \in rec.config
         /\ OnwardConn(cs, m, next) = [cs EXCEPT ![Slot] = Begun(m, next.at)]

LEMMA OnwardKeeps ==
  ASSUME NEW mn, NEW cs, NEW m \in Managers, NEW s \in Servers \cup {0},
         NEW rec \in ManRec, mn \in [Managers -> ManRec],
         Wires([mn EXCEPT ![m] = rec], cs),
         Behind(rec, s), RoomFor(~ Over(rec, s)),
         \A c \in Conns : conn[c].st = "none" => cs[c].st = "none"
  PROVE  /\ Wires([mn EXCEPT ![m] = Onward(m, rec, s)],
                  OnwardConn(cs, m, Onward(m, rec, s)))
         /\ GoneOn(cs, m, rec, s, Onward(m, rec, s))
<1> DEFINE mid == [mn EXCEPT ![m] = rec]
           next == Onward(m, rec, s)
           mn2 == [mn EXCEPT ![m] = next]
<1>1. /\ mid \in [Managers -> ManRec] /\ mid[m] = rec
      /\ \A x \in Managers : x # m => mid[x] = mn[x]
      /\ Assumed /\ cs \in [Conns -> ConnRec]
  BY DEF Wires, WireTypes
<1>2. CASE Over(rec, s)
  <2>1. /\ SameBut(rec, next, TRUE) /\ DiscoveryOK(next)
        /\ next.clients = rec.clients /\ next.pending = rec.pending
    BY <1>2, OnwardOver
  <2>2. /\ next \in ManRec /\ next.phase = rec.phase /\ next.config = rec.config
        /\ next.done
    BY <2>1 DEF SameBut
  <2> HIDE DEF next
  <2>3. /\ mn2 \in [Managers -> ManRec] /\ mn2[m] = next
        /\ \A x \in Managers : x # m => mn2[x] = mn[x]
    BY <2>2
  <2>4. OnwardConn(cs, m, next) = cs
    BY <2>2 DEF OnwardConn
  <2> HIDE DEF mn2
  <2>5. \A x \in Managers :
            /\ mn2[x].clients = mid[x].clients /\ mn2[x].pending = mid[x].pending
            /\ mn2[x].config = mid[x].config /\ mn2[x].phase = mid[x].phase
    BY <1>1, <2>1, <2>2, <2>3
  <2> HIDE DEF mid
  <2>6. Wires(mid, cs)
    BY DEF mid
  <2>7. Wires(mn2, cs)
    BY <2>3, <2>5, <2>6, ManagerKeeps
  <2>8. SameBut(rec, next, Over(rec, s))
    BY <1>2, <2>1 DEF SameBut
  <2>9. GoneOn(cs, m, rec, s, next)
    BY <1>2, <2>1, <2>4, <2>8 DEF GoneOn
  <2>10. QED BY <2>4, <2>7, <2>9 DEF mn2, next
<1>3. CASE ~ Over(rec, s)
  <2> DEFINE t == next.at
             at == [mid EXCEPT ![m] = [rec EXCEPT !.at = t]]
  <2>0. RoomFor(TRUE)
    BY <1>3
  <2>1. /\ SameBut(rec, next, FALSE) /\ DiscoveryOK(next)
        /\ t \in rec.config /\ t > s /\ next.clients = rec.clients
        /\ next.pending = [rec.pending EXCEPT ![t] = Slot]
    <3>1. GoesOn(rec, s, Onward(m, rec, s))
      BY <1>1, <1>3, <2>0, OnwardOn
    <3>2. QED BY <3>1 DEF GoesOn
  <2>2. /\ next \in ManRec /\ next.phase = rec.phase /\ next.config = rec.config
        /\ ~ next.done
    BY <2>1 DEF SameBut
  <2>3. Slot \in Conns /\ conn[Slot].st = "none"
    BY <1>1, <2>0, SlotIsFree
  <2>4. t \in Servers /\ rec.phase = "open" /\ rec.clients[t] = 0 /\ rec.pending[t] = 0
    BY <1>3, <2>1 DEF Behind, Over, ManRec
  <2>5. OnwardConn(cs, m, next) = [cs EXCEPT ![Slot] = Begun(m, t)]
    BY <2>2 DEF OnwardConn
  <2>6. Onward(m, rec, s) = [rec EXCEPT !.at = t, !.pending[t] = Slot]
    BY <1>3 DEF Onward, ManRec
  <2>7. mn2 = Expecting(at, m, t, Slot)
    BY <1>1, <2>6 DEF Expecting
  <2> HIDE DEF next, t
  <2>8. /\ [rec EXCEPT !.at = t] \in ManRec
        /\ [rec EXCEPT !.at = t].clients = rec.clients
        /\ [rec EXCEPT !.at = t].pending = rec.pending
        /\ [rec EXCEPT !.at = t].config = rec.config
        /\ [rec EXCEPT !.at = t].phase = rec.phase
    BY <2>4 DEF ManRec
  <2>9. /\ at \in [Managers -> ManRec] /\ at[m] = [rec EXCEPT !.at = t]
        /\ \A x \in Managers : x # m => at[x] = mid[x]
    BY <1>1, <2>8
  <2> HIDE DEF at, mn2
  <2>10. \A x \in Managers :
            /\ at[x].clients = mid[x].clients /\ at[x].pending = mid[x].pending
            /\ at[x].config = mid[x].config /\ at[x].phase = mid[x].phase
    BY <1>1, <2>8, <2>9
  <2> HIDE DEF mid
  <2>11. Wires(mid, cs)
    BY DEF mid
  <2>12. Wires(at, cs)
    BY <2>9, <2>10, <2>11, ManagerKeeps
  <2>13. cs[Slot].st = "none" /\ at[m].phase = "open" /\ t \in at[m].config
         /\ at[m].clients[t] = 0 /\ at[m].pending[t] = 0
    BY <2>1, <2>3, <2>4, <2>8, <2>9
  <2>14. Wires(Expecting(at, m, t, Slot), [cs EXCEPT ![Slot] = Begun(m, t)])
    BY <2>3, <2>4, <2>12, <2>13, BeginKeeps
  <2>15. Wires(mn2, OnwardConn(cs, m, next))
    BY <2>5, <2>7, <2>14
  <2>16. SameBut(rec, next, Over(rec, s))
    BY <1>3, <2>1 DEF SameBut
  <2>17. GoneOn(cs, m, rec, s, next)
    BY <1>3, <2>1, <2>3, <2>5, <2>13, <2>16 DEF GoneOn, t
  <2>18. QED BY <2>15, <2>17 DEF mn2, next
<1>4. QED BY <1>2, <1>3

(***************************************************************************)
(* A discovery goes on: what that does to the session.                     *)
(***************************************************************************)
\* What an event at server s has made of manager m and of the connections.
Discovered(m, rec, cs, s) ==
    /\ m \in Managers /\ s \in Servers /\ rec \in ManRec
    /\ Behind(rec, s) /\ ~ man[m].done
    /\ rec.config = man[m].config /\ rec.phase = man[m].phase
    /\ Wires([man EXCEPT ![m] = rec], cs)
    /\ \A c \in Conns :
         \/ cs[c] = conn[c]
         \/ conn[c].m = m /\ conn[c].st # "none" /\ cs[c].st # "connecting"
    /\ session = "open" /\ m = mcp => \A x \in rec.auth : Excused(x)
    /\ losses' \in Nat

\* How the next state follows.
GoneFrom(m, rec, cs, s) ==
    /\ Wires(man', conn') /\ man' \in [Managers -> ManRec]
    /\ man'[m].phase = man[m].phase /\ man'[m].config = man[m].config
    /\ man'[m].found = rec.found /\ man'[m].auth = rec.auth
    /\ man'[m].done <=> Over(rec, s)
    /\ \A x \in Managers : x # m => man'[x] = man[x]
    /\ DiscoveryInv'
    /\ \A c \in Conns :
         \/ conn'[c] = cs[c]
         \/ cs[c].st = "none" /\ \E t \in Servers : conn'[c] = Begun(m, t)

LEMMA DiscoversWires ==
  ASSUME McpInv, NEW m, NEW rec, NEW cs, NEW s,
         Discovered(m, rec, cs, s), Discovers(m, rec, cs, s)
  PROVE  GoneFrom(m, rec, cs, s)
<1> DEFINE next == Onward(m, rec, s)
<1>1. /\ m \in Managers /\ s \in Servers \cup {0} /\ rec \in ManRec
      /\ Behind(rec, s) /\ Wires([man EXCEPT ![m] = rec], cs)
      /\ rec.config = man[m].config /\ rec.phase = man[m].phase
  BY DEF Discovered
<1>2. man \in [Managers -> ManRec]
  BY DEF McpInv, Wires, WireTypes
<1>3. \A c \in Conns : conn[c].st = "none" => cs[c].st = "none"
  BY DEF Discovered
<1>4. /\ man' = [man EXCEPT ![m] = next]
      /\ conn' = OnwardConn(cs, m, next)
      /\ RoomFor(~ Over(rec, s))
  BY DEF Discovers
<1>5. Wires([man EXCEPT ![m] = next], OnwardConn(cs, m, next))
      /\ GoneOn(cs, m, rec, s, next)
  BY <1>1, <1>2, <1>3, <1>4, OnwardKeeps
<1> HIDE DEF next
<1>6. /\ DiscoveryOK(next) /\ next \in ManRec /\ next.phase = rec.phase
      /\ next.config = rec.config /\ next.found = rec.found /\ next.auth = rec.auth
      /\ next.done <=> Over(rec, s)
  BY <1>5 DEF GoneOn, SameBut
<1>7. /\ man' \in [Managers -> ManRec] /\ man'[m] = next
      /\ \A x \in Managers : x # m => man'[x] = man[x]
  BY <1>1, <1>2, <1>4, <1>6
<1>8. DiscoveryInv'
  BY <1>6, <1>7 DEF DiscoveryInv, McpInv
<1>9. ASSUME NEW c \in Conns
      PROVE  \/ conn'[c] = cs[c]
             \/ cs[c].st = "none" /\ \E t \in Servers : conn'[c] = Begun(m, t)
  <2>1. CASE Over(rec, s)
    BY <2>1, <1>4, <1>5 DEF GoneOn
  <2>2. CASE ~ Over(rec, s)
    <3>1. /\ Slot \in Conns /\ cs[Slot].st = "none" /\ next.at \in rec.config
          /\ conn' = [cs EXCEPT ![Slot] = Begun(m, next.at)]
      BY <2>2, <1>4, <1>5 DEF GoneOn
    <3>2. cs \in [Conns -> ConnRec] /\ next.at \in Servers
      BY <3>1, <1>1 DEF Wires, WireTypes, ManRec
    <3>3. QED BY <3>1, <3>2
  <2>3. QED BY <2>1, <2>2
<1>10. QED BY <1>1, <1>4, <1>5, <1>6, <1>7, <1>8, <1>9 DEF GoneFrom

\* A call is on a manager that has discovered its tools: one that has not is
\* none of its business.
LEMMA DiscoversCalls ==
  ASSUME McpInv, NEW m, NEW rec, NEW cs, NEW s,
         Discovered(m, rec, cs, s), Discovers(m, rec, cs, s)
  PROVE  CallInv'
<1>1. GoneFrom(m, rec, cs, s)
  BY DiscoversWires
<1>2. call' = call /\ call \in [Calls -> CallRec] /\ CallsHeld(man, conn, call)
  BY DEF Discovers, McpInv, CallInv
<1>3. ASSUME NEW k \in Calls, call[k].st # "none"
      PROVE  LET c == call[k].conn IN
             /\ conn'[c] = conn[c] /\ man'[conn[c].m] = man[conn[c].m]
  <2> DEFINE c == call[k].conn
  <2>1. c \in Conns /\ conn[c].m \in Managers /\ man[conn[c].m].done
        /\ conn[c].st # "none"
    BY <1>2, <1>3 DEF CallsHeld, CallHeld, CallRec
  <2>2. conn[c].m # m /\ cs[c] = conn[c]
    BY <2>1 DEF Discovered
  <2>3. QED BY <2>1, <2>2, <1>1 DEF GoneFrom
<1>4. CallsHeld(man', conn', call)
  BY <1>2, <1>3 DEF CallsHeld, CallHeld
<1>5. QED BY <1>2, <1>4 DEF CallInv

\* The rest of the session, as a discovery leaves it.
LEMMA DiscoversRest ==
  ASSUME McpInv, NEW m, NEW rec, NEW cs, NEW s,
         Discovered(m, rec, cs, s), Discovers(m, rec, cs, s)
  PROVE  /\ <<mcp, host, handled, session, config, granted, signIn, changes,
              called, undue, hushed>>'
              = <<mcp, host, handled, session, config, granted, signIn, changes,
                  called, undue, hushed>>
         /\ IF Over(rec, s)
            THEN /\ registry' = Added(registry, Hears(m), m, rec.found)
                 /\ ready' = (ready \/ host = m)
                 /\ prompt' = Woken(m)
                 /\ streaming' = (streaming \/ \E p \in Prompts :
                       prompt[p].st = "waiting" /\ prompt'[p].st = "started")
            ELSE /\ registry' = registry /\ ready' = ready /\ prompt' = prompt
                 /\ streaming' = streaming
<1> DEFINE next == Onward(m, rec, s)
<1>1. m \in Managers /\ man \in [Managers -> ManRec]
  BY DEF Discovered, McpInv, Wires, WireTypes
<1>2. /\ man' = [man EXCEPT ![m] = next]
      /\ IF next.done
         THEN /\ registry' = Added(registry, Hears(m), m, next.found)
              /\ ready' = (ready \/ host = m)
              /\ prompt' = Woken(m)
              /\ streaming' = (streaming \/ \E p \in Prompts :
                    prompt[p].st = "waiting" /\ prompt'[p].st = "started")
         ELSE UNCHANGED <<registry, ready, prompt, streaming>>
      /\ UNCHANGED <<parts, call, session, user, changes, history>>
  BY DEF Discovers
<1> HIDE DEF next
<1>3. man'[m] = next
  BY <1>1, <1>2
<1>4. /\ man'[m].found = rec.found
      /\ man'[m].done <=> Over(rec, s)
  BY DiscoversWires DEF GoneFrom
<1>5. UNCHANGED <<mcp, host, handled, session, config, granted, signIn, changes,
                  called, undue, hushed>>
  BY <1>2 DEF parts, user, history
<1>6. CASE Over(rec, s)
  BY <1>2, <1>3, <1>4, <1>5, <1>6
<1>7. CASE ~ Over(rec, s)
  BY <1>2, <1>3, <1>4, <1>5, <1>7
<1>8. QED BY <1>6, <1>7

LEMMA DiscoversTools ==
  ASSUME McpInv, NEW m, NEW rec, NEW cs, NEW s,
         Discovered(m, rec, cs, s), Discovers(m, rec, cs, s)
  PROVE  /\ registry' \in [Agents -> [Servers -> 0 .. MaxManagers]]
         /\ RegistryInv' /\ OpenInv' /\ ToolInv' /\ ready' \in BOOLEAN
<1>1. /\ man'[m].phase = man[m].phase /\ man'[m].config = man[m].config
      /\ man'[m].found = rec.found
      /\ man'[m].done <=> Over(rec, s)
      /\ \A x \in Managers : x # m => man'[x] = man[x]
  BY DiscoversWires DEF GoneFrom
<1>2. /\ mcp' = mcp /\ host' = host /\ handled' = handled /\ session' = session
      /\ config' = config
      /\ Over(rec, s) => /\ registry' = Added(registry, Hears(m), m, rec.found)
                         /\ ready' = (ready \/ host = m)
      /\ ~ Over(rec, s) => registry' = registry /\ ready' = ready
  BY DiscoversRest
<1>3. /\ m \in Managers /\ ~ man[m].done /\ mcp \in Managers
      /\ registry \in [Agents -> [Servers -> 0 .. MaxManagers]]
      /\ ready \in BOOLEAN /\ m \in 0 .. MaxManagers /\ m # 0
      /\ \A x \in 0 .. MaxManagers : x # 0 => x \in Managers
  BY DEF Discovered, McpInv, SessionTypes, Managers, Wires, WireTypes, Assumed
<1>4. OpenInv'
  BY <1>1, <1>2, <1>3 DEF OpenInv, McpInv, Open
<1>5. /\ registry' \in [Agents -> [Servers -> 0 .. MaxManagers]]
      /\ \A a \in Agents, t \in Servers :
           registry'[a][t] = IF Over(rec, s) /\ a \in Hears(m) /\ t \in rec.found
                             THEN m ELSE registry[a][t]
  BY <1>2, <1>3 DEF Added
<1>6. RegistryInv'
  <2> SUFFICES ASSUME NEW a \in Agents, NEW t \in Servers, registry'[a][t] # 0
               PROVE  man'[registry'[a][t]].done
    BY DEF RegistryInv
  <2>1. CASE Over(rec, s) /\ a \in Hears(m) /\ t \in rec.found
    BY <2>1, <1>1, <1>5
  <2>2. CASE ~ (Over(rec, s) /\ a \in Hears(m) /\ t \in rec.found)
    <3>1. registry'[a][t] = registry[a][t]
      BY <2>2, <1>5
    <3>2. man[registry[a][t]].done /\ registry[a][t] \in Managers
      BY <3>1, <1>3 DEF McpInv, RegistryInv
    <3>3. QED BY <3>1, <3>2, <1>1, <1>3
  <2>3. QED BY <2>1, <2>2
<1>7. ToolInv'
  <2> SUFFICES ASSUME session = "open" PROVE ToolInv'
    BY <1>2 DEF ToolInv
  <2>1. /\ mcp = host /\ host = handled /\ man[mcp].config = config
        /\ \A a \in Agents, t \in Servers :
             registry[a][t] = IF man[mcp].done /\ t \in man[mcp].found THEN mcp ELSE 0
        /\ ready <=> man[mcp].done
    BY DEF McpInv, ToolInv
  <2>2. Hears(m) = IF m = mcp THEN Agents ELSE {}
    BY <2>1 DEF Hears, Agents
  <2>3. CASE m = mcp
    <3>1. \A a \in Agents, t \in Servers :
             registry'[a][t] = IF man'[mcp].done /\ t \in man'[mcp].found
                               THEN mcp ELSE 0
      BY <2>1, <2>2, <2>3, <1>1, <1>3, <1>5
    <3>2. ready' <=> man'[mcp].done
      <4>1. ~ ready /\ host = m
        BY <2>1, <2>3, <1>3
      <4>2. CASE Over(rec, s)
        BY <4>1, <4>2, <2>3, <1>1, <1>2
      <4>3. CASE ~ Over(rec, s)
        BY <4>1, <4>3, <2>3, <1>1, <1>2
      <4>4. QED BY <4>2, <4>3
    <3>3. QED BY <3>1, <3>2, <2>1, <2>3, <1>1, <1>2 DEF ToolInv
  <2>4. CASE m # mcp
    <3>1. man'[mcp] = man[mcp] /\ \A a \in Agents, t \in Servers :
             registry'[a][t] = registry[a][t]
      BY <2>2, <2>4, <1>1, <1>3, <1>5
    <3>2. ready' <=> ready
      BY <2>1, <2>4, <1>2, <1>3
    <3>3. QED BY <3>1, <3>2, <2>1, <1>2 DEF ToolInv
  <2>5. QED BY <2>3, <2>4
<1>8. ready' \in BOOLEAN
  BY <1>2, <1>3
<1>9. QED BY <1>4, <1>5, <1>6, <1>7, <1>8

LEMMA DiscoversAuth ==
  ASSUME McpInv, NEW m, NEW rec, NEW cs, NEW s,
         Discovered(m, rec, cs, s), Discovers(m, rec, cs, s)
  PROVE  AuthInv'
<1>1. mcp' = mcp /\ session' = session /\ \A x : Excused(x)' <=> Excused(x)
  BY DiscoversRest DEF Excused
<1> SUFFICES ASSUME session = "open" PROVE AuthInv'
  BY <1>1 DEF AuthInv
<1>2. /\ \A x \in man[mcp].auth : Excused(x)
      /\ \A c \in Conns : conn[c].st = "connecting" /\ conn[c].m = mcp
                          /\ ~ conn[c].auth => Excused(conn[c].s)
  BY DEF McpInv, AuthInv
<1>3. /\ man'[m].auth = rec.auth
      /\ \A x \in Managers : x # m => man'[x] = man[x]
      /\ \A c \in Conns :
           \/ conn'[c] = cs[c]
           \/ cs[c].st = "none" /\ \E t \in Servers : conn'[c] = Begun(m, t)
  BY DiscoversWires DEF GoneFrom
<1>4. mcp \in Managers
  BY DEF McpInv, SessionTypes
<1>5. \A x \in man'[mcp].auth : Excused(x)
  BY <1>2, <1>3, <1>4 DEF Discovered
<1>6. ASSUME NEW c \in Conns, conn'[c].st = "connecting", conn'[c].m = mcp,
             ~ conn'[c].auth
      PROVE  Excused(conn'[c].s)
  <2>1. CASE conn'[c] = cs[c]
    BY <2>1, <1>2, <1>6 DEF Discovered
  <2>2. CASE \E t \in Servers : conn'[c] = Begun(m, t)
    <3>1. PICK t \in Servers : conn'[c] = Begun(m, t)
      BY <2>2
    <3>2. conn'[c].s = t /\ conn'[c].auth = (t \in NeedsAuth => t \in granted)
      BY <3>1 DEF Begun
    <3>3. t \notin granted
      BY <3>2, <1>6
    <3>4. QED BY <3>2, <3>3 DEF Excused
  <2>3. QED BY <2>1, <2>2, <1>3
<1>7. QED BY <1>1, <1>5, <1>6 DEF AuthInv

\* A prompt that goes on awaited this discovery; its host has been given
\* another one since only when servers were replaced twice.
LEMMA DiscoversPrompts ==
  ASSUME McpInv, NEW m, NEW rec, NEW cs, NEW s,
         Discovered(m, rec, cs, s), Discovers(m, rec, cs, s)
  PROVE  SessionTypes' /\ PromptInv'
<1>1. /\ man'[m].phase = man[m].phase
      /\ man'[m].done <=> Over(rec, s)
      /\ \A x \in Managers : x # m => man'[x] = man[x]
  BY DiscoversWires DEF GoneFrom
<1>2. /\ mcp' = mcp /\ host' = host /\ handled' = handled /\ session' = session
      /\ config' = config /\ granted' = granted /\ signIn' = signIn
      /\ changes' = changes /\ called' = called /\ hushed' = hushed
      /\ Over(rec, s) =>
           /\ ready' = (ready \/ host = m)
           /\ prompt' = Woken(m)
           /\ streaming' = (streaming \/ \E p \in Prompts :
                 prompt[p].st = "waiting" /\ prompt'[p].st = "started")
      /\ ~ Over(rec, s) => /\ ready' = ready /\ prompt' = prompt
                           /\ streaming' = streaming
  BY DiscoversRest
<1> DEFINE PromptRec == [st : {"none", "waiting", "left", "started", "dropped"},
                         on : 0 .. MaxManagers]
<1>3. /\ prompt \in [Prompts -> PromptRec] /\ ready \in BOOLEAN
      /\ streaming \in BOOLEAN /\ Assumed /\ changes \in Nat
  BY DEF McpInv, SessionTypes, Wires, WireTypes
<1>4. \A p \in Prompts :
         /\ prompt'[p] \in PromptRec
         /\ \/ prompt'[p] = prompt[p] /\ (Over(rec, s) /\ Waits(p) => prompt[p].on # m)
            \/ /\ Over(rec, s) /\ Waits(p) /\ prompt[p].on = m
               /\ prompt'[p].st \in {"started", "dropped"}
               /\ prompt'[p].st = "started" =>
                    session = "open" /\ prompt[p].st = "waiting"
  <2> TAKE p \in Prompts
  <2>1. CASE Over(rec, s)
    <3> DEFINE st == IF session = "open" /\ prompt[p].st = "waiting"
                     THEN "started" ELSE "dropped"
    <3>1. [NoPrompt EXCEPT !.st = st] \in PromptRec
          /\ [NoPrompt EXCEPT !.st = st].st = st
      BY <1>3 DEF NoPrompt, Assumed
    <3>2. prompt'[p] = IF Waits(p) /\ prompt[p].on = m
                       THEN [NoPrompt EXCEPT !.st = st] ELSE prompt[p]
      BY <2>1, <1>2 DEF Woken
    <3> HIDE DEF PromptRec
    <3>3. QED BY <2>1, <3>1, <3>2, <1>3
  <2>2. CASE ~ Over(rec, s)
    BY <2>2, <1>2, <1>3
  <2>3. QED BY <2>1, <2>2
<1>5. prompt' \in [Prompts -> PromptRec]
  <2>1. CASE Over(rec, s)
    BY <2>1, <1>2, <1>4 DEF Woken
  <2>2. CASE ~ Over(rec, s)
    BY <2>2, <1>2, <1>3
  <2>3. QED BY <2>1, <2>2
<1>6. SessionTypes'
  <2>1. registry' \in [Agents -> [Servers -> 0 .. MaxManagers]] /\ ready' \in BOOLEAN
    BY DiscoversTools
  <2>2. streaming' \in BOOLEAN
    BY <1>2, <1>3
  <2>3. losses' \in Nat
    BY DEF Discovered
  <2>4. QED BY <2>1, <2>2, <2>3, <1>2, <1>5 DEF McpInv, SessionTypes
<1> HIDE DEF PromptRec
<1>7. PromptInv
  BY DEF McpInv
<1>8. m \in Managers /\ ~ man[m].done
  BY DEF Discovered
<1>9. ASSUME NEW p \in Prompts, Waits(p)'
      PROVE  /\ prompt'[p].on \in Managers /\ man'[prompt'[p].on].phase # "none"
             /\ ~ man'[prompt'[p].on].done
  <2>1. prompt'[p] = prompt[p] /\ Waits(p) /\ (Over(rec, s) => prompt[p].on # m)
    BY <1>4, <1>9 DEF Waits
  <2>2. /\ prompt[p].on \in Managers /\ man[prompt[p].on].phase # "none"
        /\ ~ man[prompt[p].on].done
    BY <2>1, <1>7 DEF PromptInv
  <2>3. QED BY <2>1, <2>2, <1>1
<1>10. ASSUME session = "open", streaming', ~ streaming, ~ ready'
       PROVE  changes > 1
              /\ \E p \in Prompts : prompt[p].st = "waiting" /\ prompt[p].on # host
  <2>1. Over(rec, s) /\ host # m
    BY <1>2, <1>3, <1>10
  <2>2. PICK p \in Prompts : prompt[p].st = "waiting" /\ prompt'[p].st = "started"
    BY <2>1, <1>2, <1>10
  <2>3. prompt[p].on = m
    BY <2>2, <1>4
  <2>4. QED BY <2>1, <2>2, <2>3, <1>7, <1>10 DEF PromptInv
<1>11. ASSUME session = "open", Undisturbed, streaming'
       PROVE  ready'
  <2>1. ~ (changes > 1)
    BY <1>11, <1>3 DEF Undisturbed
  <2>2. CASE streaming
    BY <2>2, <1>2, <1>3, <1>7, <1>11 DEF PromptInv
  <2>3. CASE ~ streaming
    BY <2>1, <2>3, <1>10, <1>11
  <2>4. QED BY <2>2, <2>3
<1>12. ASSUME session = "open", NEW p \in Prompts, prompt'[p].st = "waiting",
              prompt'[p].on # host
       PROVE  changes > 1
  BY <1>4, <1>7, <1>12 DEF PromptInv
<1>13. PromptInv'
  BY <1>2, <1>9, <1>11, <1>12 DEF PromptInv, Undisturbed
<1>15. QED BY <1>6, <1>13

LEMMA DiscoversKeeps ==
  ASSUME McpInv, NEW m, NEW rec, NEW cs, NEW s,
         Discovered(m, rec, cs, s), Discovers(m, rec, cs, s)
  PROVE  McpInv'
<1>1. Wires(man', conn') /\ DiscoveryInv'
  BY DiscoversWires DEF GoneFrom
<1>2. CallInv'
  BY DiscoversCalls
<1>3. RegistryInv' /\ OpenInv' /\ ToolInv'
  BY DiscoversTools
<1>4. AuthInv'
  BY DiscoversAuth
<1>5. SessionTypes' /\ PromptInv'
  BY DiscoversPrompts
<1>6. CallsFailForCause'
  BY DiscoversRest DEF McpInv, CallsFailForCause
<1>7. QED BY <1>1, <1>2, <1>3, <1>4, <1>5, <1>6 DEF McpInv

(***************************************************************************)
(* Steps of connections and calls beside a discovery.                      *)
(***************************************************************************)
\* They leave what managers have discovered, and the session, as they are.
Quiet ==
    /\ \A x \in Managers :
         /\ man'[x].done = man[x].done /\ man'[x].config = man[x].config
         /\ man'[x].auth = man[x].auth
         /\ x = mcp => man'[x].found = man[x].found
         /\ man'[x].phase = "none" <=> man[x].phase = "none"
         /\ man'[x].phase = "open" <=> man[x].phase = "open"
    /\ \A c \in Conns :
         conn'[c].st = "connecting" =>
           \/ conn'[c] = conn[c]
           \/ \E x \in Managers, t \in Servers : conn'[c] = Begun(x, t)
    /\ UNCHANGED <<parts, ready, registry, conv, user, changes, hushed>>
    /\ undue' \subseteq {"dropped"}
    /\ called' \in 0 .. MaxCalls /\ losses' \in Nat

LEMMA QuietKeeps ==
  ASSUME McpInv, Wires(man', conn'), CallInv', DiscoveryInv', Quiet
  PROVE  McpInv'
<1>1. /\ mcp' = mcp /\ host' = host /\ handled' = handled /\ ready' = ready
      /\ registry' = registry /\ streaming' = streaming /\ session' = session
      /\ prompt' = prompt /\ config' = config /\ granted' = granted
      /\ signIn' = signIn /\ changes' = changes /\ hushed' = hushed
  BY DEF Quiet, parts, conv, user
<1>2. SessionTypes'
  BY <1>1 DEF McpInv, SessionTypes, Quiet
<1>3. /\ mcp \in Managers /\ Assumed
      /\ registry \in [Agents -> [Servers -> 0 .. MaxManagers]]
  BY DEF McpInv, SessionTypes, Wires, WireTypes
<1>4. RegistryInv'
  <2> SUFFICES ASSUME NEW a \in Agents, NEW t \in Servers, registry[a][t] # 0
               PROVE  man'[registry[a][t]].done
    BY <1>1 DEF RegistryInv
  <2>1. man[registry[a][t]].done /\ registry[a][t] \in Managers
    BY <1>3 DEF McpInv, RegistryInv, Managers, Assumed
  <2>2. QED BY <2>1 DEF Quiet
<1>5. OpenInv'
  <2>1. OpenInv
    BY DEF McpInv
  <2>2. \A x \in Managers : Open(x)' <=> Open(x)
    BY DEF Open, Quiet
  <2>3. man'[mcp].phase # "none"
    BY <2>1, <1>3 DEF OpenInv, Quiet
  <2>4. Open(mcp)' <=> Open(mcp)
    BY <2>2, <1>1, <1>3 DEF Open
  <2>5. QED BY <2>1, <2>2, <2>3, <2>4, <1>1, <1>3 DEF OpenInv
<1>6. ToolInv'
  <2>1. /\ man'[mcp].done = man[mcp].done /\ man'[mcp].config = man[mcp].config
        /\ man'[mcp].found = man[mcp].found
    BY <1>3 DEF Quiet
  <2>2. QED BY <2>1, <1>1 DEF McpInv, ToolInv
<1>7. AuthInv'
  <2> SUFFICES ASSUME session = "open" PROVE AuthInv'
    BY <1>1 DEF AuthInv
  <2>1. \A x : Excused(x)' <=> Excused(x)
    BY <1>1 DEF Excused
  <2>2. /\ \A x \in man[mcp].auth : Excused(x)
        /\ \A c \in Conns : conn[c].st = "connecting" /\ conn[c].m = mcp
                            /\ ~ conn[c].auth => Excused(conn[c].s)
    BY DEF McpInv, AuthInv
  <2>3. man'[mcp].auth = man[mcp].auth
    BY <1>3 DEF Quiet
  <2>4. ASSUME NEW c \in Conns, conn'[c].st = "connecting", conn'[c].m = mcp,
               ~ conn'[c].auth
        PROVE  Excused(conn'[c].s)
    <3>1. CASE conn'[c] = conn[c]
      BY <3>1, <2>2, <2>4
    <3>2. CASE \E x \in Managers, t \in Servers : conn'[c] = Begun(x, t)
      <4>1. PICK x \in Managers, t \in Servers : conn'[c] = Begun(x, t)
        BY <3>2
      <4>2. conn'[c].s = t /\ conn'[c].auth = (t \in NeedsAuth => t \in granted)
        BY <4>1 DEF Begun
      <4>3. t \notin granted
        BY <4>2, <2>4
      <4>4. QED BY <4>2, <4>3 DEF Excused
    <3>3. QED BY <3>1, <3>2, <2>4 DEF Quiet
  <2>5. QED BY <2>1, <2>2, <2>3, <2>4, <1>1 DEF AuthInv
<1>8. PromptInv'
  <2>1. \A p \in Prompts : Waits(p)' <=> Waits(p)
    BY <1>1 DEF Waits
  <2>2. PromptInv
    BY DEF McpInv
  <2>3. ASSUME NEW p \in Prompts, Waits(p)'
        PROVE  /\ prompt'[p].on \in Managers /\ man'[prompt'[p].on].phase # "none"
               /\ ~ man'[prompt'[p].on].done
    BY <2>1, <2>2, <2>3, <1>1 DEF PromptInv, Quiet
  <2>4. QED BY <2>2, <2>3, <1>1 DEF PromptInv, Undisturbed
<1>9. CallsFailForCause'
  BY <1>1 DEF Quiet, CallsFailForCause
<1>10. QED BY <1>2, <1>4, <1>5, <1>6, <1>7, <1>8, <1>9 DEF McpInv

LEMMA InvFacts ==
  ASSUME McpInv
  PROVE  /\ Wires(man, conn) /\ man \in [Managers -> ManRec] /\ Assumed
         /\ conn \in [Conns -> ConnRec] /\ call \in [Calls -> CallRec]
         /\ CallsHeld(man, conn, call)
         /\ \A c \in Conns : conn[c] \in ConnRec /\ c # 0 /\ ConnHeld(man, conn[c], c)
         /\ \A x \in Managers : DiscoveryOK(man[x]) /\ (Open(x) => x = mcp)
         /\ \A x \in Managers, s \in Servers :
              /\ man[x].pending[s] \in Conns \cup {0}
              /\ man[x].clients[s] \in Conns \cup {0}
              /\ PendingIsThere(conn, x, s, man[x].pending[s], man[x].clients[s])
              /\ ClientIsThere(conn, x, s, man[x].clients[s])
         /\ undue \subseteq {"dropped"} /\ called \in 0 .. MaxCalls
         /\ losses \in Nat /\ mcp \in Managers
<1>1. Wires(man, conn) /\ CallInv /\ DiscoveryInv /\ CallsFailForCause
      /\ SessionTypes /\ OpenInv
  BY DEF McpInv
<1>2. QED
  BY <1>1, WireFacts
     DEF CallInv, DiscoveryInv, CallsFailForCause, SessionTypes, OpenInv

\* A manager whose servers have changed, and nothing else, is still where its
\* discovery is: nothing further on has been asked.
LEMMA DiscoveryStays ==
  ASSUME NEW r \in ManRec, NEW q \in ManRec, DiscoveryOK(r),
         q.phase = r.phase, q.phase # "none", q.config = r.config, SameScan(q, r),
         \A u \in Servers : ~ r.done /\ u > r.at =>
            q.clients[u] = 0 /\ q.pending[u] = 0
  PROVE  DiscoveryOK(q)
BY DEF DiscoveryOK, SameScan

LEMMA ConnectedKeeps ==
  ASSUME McpInv, NEW c \in Conns, Connected(c)
  PROVE  McpInv'
<1> DEFINE m == conn[c].m
           s == conn[c].s
           mid == Expecting(man, m, s, 0)
<1>1. /\ Wires(man, conn) /\ man \in [Managers -> ManRec] /\ Assumed
      /\ conn \in [Conns -> ConnRec] /\ call \in [Calls -> CallRec]
      /\ CallsHeld(man, conn, call) /\ conn[c] \in ConnRec
      /\ \A x \in Managers : DiscoveryOK(man[x])
      /\ undue \subseteq {"dropped"} /\ called \in 0 .. MaxCalls /\ losses \in Nat
  BY InvFacts
<1>2. /\ conn[c].st = "connecting" /\ c # 0
      /\ m \in Managers /\ s \in Servers /\ man[m].pending[s] = c
      /\ man[m].phase \notin {"none", "closed"}
  BY InvFacts DEF Connected, ConnHeld
<1>3. /\ conn' = [conn EXCEPT ![c].st = "open"]
      /\ man' = [man EXCEPT ![m].pending[s] = 0, ![m].clients[s] = c]
      /\ call' = [k \in Calls |->
            IF k \notin Waiting(c) THEN call[k]
            ELSE IF call[k].stopped
                 THEN NoCall ELSE [call[k] EXCEPT !.st = "sent"]]
      /\ UNCHANGED <<parts, ready, registry, conv, user, losses, changes, history>>
  BY DEF Connected
<1>4. man' = Holding(mid, m, s, c)
  BY <1>3 DEF Expecting, Holding
<1>5. Wires(man', conn')
  <2>1. conn' = Up(conn, c)
    BY <1>3 DEF Up
  <2>2. Wires(Holding(Expecting(man, m, s, 0), m, s, c), Up(conn, c))
    BY <1>1, <1>2, ConnectKeeps
  <2>3. QED BY <2>1, <2>2, <1>4
<1>6. /\ man' \in [Managers -> ManRec]
      /\ \A x \in Managers :
           /\ x # m => man'[x] = man[x]
           /\ man'[x].phase = man[x].phase /\ man'[x].config = man[x].config
           /\ SameScan(man'[x], man[x])
           /\ \A t \in Servers : t # s => /\ man'[x].clients[t] = man[x].clients[t]
                                          /\ man'[x].pending[t] = man[x].pending[t]
  <2>1. 0 \in 0 .. MaxConns /\ c \in 0 .. MaxConns
    BY <1>1 DEF Conns, Assumed
  <2>2. man \in [Managers -> ManRec] /\ m \in Managers /\ s \in Servers
    BY <1>1, <1>2
  <2>3. /\ mid \in [Managers -> ManRec]
        /\ \A x \in Managers :
             /\ x # m => mid[x] = man[x]
             /\ mid[x].phase = man[x].phase /\ mid[x].config = man[x].config
             /\ SameScan(mid[x], man[x]) /\ mid[x].clients = man[x].clients
             /\ \A t \in Servers : t # s => mid[x].pending[t] = man[x].pending[t]
    BY <2>1, <2>2, SetPending
  <2> HIDE DEF mid
  <2>4. mid \in [Managers -> ManRec]
    BY <2>3
  <2>5. /\ man' \in [Managers -> ManRec]
        /\ \A x \in Managers :
             /\ x # m => man'[x] = mid[x]
             /\ man'[x].phase = mid[x].phase /\ man'[x].config = mid[x].config
             /\ SameScan(man'[x], mid[x]) /\ man'[x].pending = mid[x].pending
             /\ \A t \in Servers : t # s => man'[x].clients[t] = mid[x].clients[t]
    BY <2>1, <2>2, <2>4, <1>4, SetClients
  <2>6. QED BY <2>3, <2>5 DEF SameScan
<1> HIDE DEF mid
<1>7. DiscoveryInv'
  <2> SUFFICES ASSUME NEW x \in Managers PROVE DiscoveryOK(man'[x])
    BY DEF DiscoveryInv
  <2>1. CASE x # m
    BY <2>1, <1>1, <1>6
  <2>2. CASE x = m
    <3>1. DiscoveryOK(man[m]) /\ man[m] \in ManRec /\ man'[m] \in ManRec
      BY <1>1, <1>2, <1>6
    <3>2. \A u \in Servers : ~ man[m].done /\ u > man[m].at => u # s
      BY <3>1, <1>2 DEF DiscoveryOK
    <3>3. \A u \in Servers : ~ man[m].done /\ u > man[m].at =>
            man'[m].clients[u] = 0 /\ man'[m].pending[u] = 0
      BY <3>1, <3>2, <1>2, <1>6 DEF DiscoveryOK
    <3>4. QED BY <2>2, <3>1, <3>3, <1>2, <1>6, DiscoveryStays
  <2>3. QED BY <2>1, <2>2
<1>8. /\ conn' \in [Conns -> ConnRec] /\ conn'[c].st = "open" /\ conn'[c].m = m
      /\ \A d \in Conns : d # c => conn'[d] = conn[d]
  <2>1. [conn[c] EXCEPT !.st = "open"] \in ConnRec
        /\ [conn[c] EXCEPT !.st = "open"].st = "open"
        /\ [conn[c] EXCEPT !.st = "open"].m = m
    BY <1>1 DEF ConnRec
  <2>2. QED BY <2>1, <1>1, <1>3
<1>9. CallInv'
  <2>1. ASSUME NEW k \in Calls
        PROVE  /\ call'[k] \in CallRec
               /\ \/ call'[k] = call[k] /\ k \notin Waiting(c)
                  \/ call'[k].st = "none"
                  \/ /\ k \in Waiting(c) /\ call'[k].st = "sent"
                     /\ call'[k].conn = c /\ call'[k].m = call[k].m
    <3>1. NoCall \in CallRec /\ NoCall.st = "none"
      BY <1>1 DEF NoCall, CallRec, Agents, Assumed
    <3>2. /\ [call[k] EXCEPT !.st = "sent"] \in CallRec
          /\ [call[k] EXCEPT !.st = "sent"].st = "sent"
          /\ [call[k] EXCEPT !.st = "sent"].conn = call[k].conn
          /\ [call[k] EXCEPT !.st = "sent"].m = call[k].m
      BY <1>1 DEF CallRec
    <3>3. k \in Waiting(c) => call[k].conn = c
      BY DEF Waiting
    <3>4. QED BY <3>1, <3>2, <3>3, <1>1, <1>3
  <2>2. call' \in [Calls -> CallRec]
    BY <2>1, <1>3
  <2>3. ASSUME NEW k \in Calls, call'[k].st # "none"
        PROVE  LET d == call'[k].conn IN
               /\ d \in Conns /\ call'[k].m = conn'[d].m
               /\ conn'[d].m \in Managers /\ man'[conn'[d].m].done
               /\ call'[k].st = "connecting" => conn'[d].st = "connecting"
               /\ call'[k].st = "sent" => conn'[d].st \in {"open", "closing"}
    <3>1. CASE call'[k] = call[k] /\ k \notin Waiting(c)
      <4> DEFINE d == call[k].conn
      <4>1. /\ d \in Conns /\ call[k].m = conn[d].m
            /\ conn[d].m \in Managers /\ man[conn[d].m].done
            /\ call[k].st = "connecting" => conn[d].st = "connecting"
            /\ call[k].st = "sent" => conn[d].st \in {"open", "closing"}
        BY <3>1, <2>3, <1>1 DEF CallsHeld, CallHeld
      <4>2. d # c
        BY <3>1, <2>3, <4>1, <1>1, <1>2 DEF Waiting, CallRec
      <4>3. conn'[d] = conn[d] /\ man'[conn[d].m].done
        BY <4>1, <4>2, <1>6, <1>8 DEF SameScan
      <4>4. QED BY <3>1, <4>1, <4>3
    <3>2. CASE /\ k \in Waiting(c) /\ call'[k].st = "sent"
               /\ call'[k].conn = c /\ call'[k].m = call[k].m
      <4>1. call[k].st # "none" /\ call[k].conn = c
        BY <3>2 DEF Waiting
      <4>2. call[k].m = m /\ man[m].done
        BY <4>1, <1>1 DEF CallsHeld, CallHeld
      <4>3. QED BY <3>2, <4>2, <1>2, <1>6, <1>8 DEF SameScan
    <3>3. QED BY <3>1, <3>2, <2>1, <2>3
  <2>4. QED BY <2>2, <2>3 DEF CallInv, CallsHeld, CallHeld
<1>10. Quiet
  <2>1. called' = called /\ undue' = undue /\ hushed' = hushed /\ losses' = losses
    BY <1>3 DEF history
  <2>2. \A d \in Conns : conn'[d].st = "connecting" => conn'[d] = conn[d]
    BY <1>8
  <2>3. QED BY <2>1, <2>2, <1>1, <1>3, <1>6 DEF Quiet, SameScan
<1>11. QED BY <1>5, <1>7, <1>9, <1>10, QuietKeeps

\* A manager that is at a server is discovering; what happens there concerns
\* that server only.
LEMMA AtServer ==
  ASSUME McpInv, NEW m \in Managers, NEW s \in Servers, man[m].at = s
  PROVE  /\ man[m].phase # "none" /\ ~ man[m].done /\ s \in man[m].config
         /\ man[m].auth \subseteq man[m].config /\ man[m].found \subseteq man[m].config
         /\ \A u \in Servers : u > s => man[m].clients[u] = 0 /\ man[m].pending[u] = 0
         /\ session = "open" /\ m = mcp => \A x \in man[m].auth : Excused(x)
<1>1. DiscoveryOK(man[m]) /\ s # 0
  BY InvFacts DEF Assumed
<1>2. man[m].phase # "none"
  BY <1>1 DEF DiscoveryOK, NoManager
<1>3. session = "open" /\ m = mcp => \A x \in man[m].auth : Excused(x)
  BY DEF McpInv, AuthInv
<1>4. QED BY <1>1, <1>2, <1>3 DEF DiscoveryOK

LEMMA DiscoveredHere ==
  ASSUME McpInv, NEW m \in Managers, NEW s \in Servers, man[m].at = s,
         NEW rec \in ManRec, NEW cs, Wires([man EXCEPT ![m] = rec], cs),
         rec.phase = man[m].phase, rec.config = man[m].config, rec.done = man[m].done,
         \A t \in Servers : t # s => /\ rec.clients[t] = man[m].clients[t]
                                     /\ rec.pending[t] = man[m].pending[t],
         rec.found \subseteq man[m].found \cup {s},
         rec.auth \subseteq man[m].auth \cup {s},
         session = "open" /\ m = mcp /\ s \in rec.auth =>
            s \in man[m].auth \/ Excused(s),
         \A c \in Conns :
           \/ cs[c] = conn[c]
           \/ conn[c].m = m /\ conn[c].st # "none" /\ cs[c].st # "connecting",
         losses' \in Nat
  PROVE  Discovered(m, rec, cs, s)
<1>1. /\ man[m].phase # "none" /\ ~ man[m].done /\ s \in man[m].config
      /\ man[m].auth \subseteq man[m].config /\ man[m].found \subseteq man[m].config
      /\ \A u \in Servers : u > s => man[m].clients[u] = 0 /\ man[m].pending[u] = 0
      /\ session = "open" /\ m = mcp => \A x \in man[m].auth : Excused(x)
  BY AtServer
<1>2. \A u \in Servers : u > s => u # s
  BY InvFacts DEF Assumed
<1>3. Behind(rec, s)
  BY <1>1, <1>2 DEF Behind
<1>4. session = "open" /\ m = mcp => \A x \in rec.auth : Excused(x)
  BY <1>1
<1>5. QED BY <1>1, <1>3, <1>4 DEF Discovered

\* Who is told that the connection is refused asks again, or gives up.
LEMMA RefusedDiscovers ==
  ASSUME McpInv, NEW c \in Conns, Refused(c), man[conn[c].m].at = conn[c].s
  PROVE  McpInv'
<1> DEFINE m == conn[c].m
           s == conn[c].s
           rec == [man[m] EXCEPT !.pending[s] = 0]
           rec2 == [rec EXCEPT !.auth = IF conn[c].auth THEN @ \ {s} ELSE @ \cup {s}]
           cs == [conn EXCEPT ![c] = NoConn]
           mid == Expecting(man, m, s, 0)
           mid2 == [man EXCEPT ![m] = rec2]
<1>1. /\ Wires(man, conn) /\ man \in [Managers -> ManRec] /\ Assumed
      /\ conn \in [Conns -> ConnRec] /\ losses \in Nat /\ conn[c] \in ConnRec
  BY InvFacts
<1>2. /\ conn[c].st = "connecting" /\ c # 0
      /\ m \in Managers /\ s \in Servers
  BY InvFacts DEF Refused, ConnHeld
<1>3. Discovers(m, rec2, cs, s) /\ losses' \in Nat
  BY <1>1 DEF Refused
<1>4. Wires(mid, cs)
  BY <1>1, <1>2, CutKeeps
<1>5. rec \in ManRec /\ rec.phase = man[m].phase /\ rec.config = man[m].config
      /\ rec.done = man[m].done /\ rec.found = man[m].found
      /\ rec.auth = man[m].auth /\ rec.clients = man[m].clients
      /\ \A t \in Servers : t # s => rec.pending[t] = man[m].pending[t]
  <2> DEFINE pend == [man[m].pending EXCEPT ![s] = 0]
  <2>1. man[m] \in ManRec /\ man[m].pending \in [Servers -> 0 .. MaxConns]
    BY <1>1, <1>2 DEF ManRec
  <2>2. pend \in [Servers -> 0 .. MaxConns]
        /\ \A t \in Servers : t # s => pend[t] = man[m].pending[t]
    <3>1. 0 \in 0 .. MaxConns
      BY <1>1 DEF Assumed
    <3>2. QED BY <2>1, <3>1
  <2>3. rec = [man[m] EXCEPT !.pending = pend]
    OBVIOUS
  <2> HIDE DEF pend, rec
  <2>4. QED BY <2>1, <2>2, <2>3 DEF ManRec
<1>6. mid = [man EXCEPT ![m] = rec]
  BY DEF Expecting
<1> HIDE DEF rec
<1>7. /\ rec2 \in ManRec /\ rec2.phase = rec.phase /\ rec2.config = rec.config
      /\ rec2.done = rec.done /\ rec2.found = rec.found
      /\ rec2.clients = rec.clients /\ rec2.pending = rec.pending
      /\ rec2.auth = IF conn[c].auth THEN rec.auth \ {s} ELSE rec.auth \cup {s}
  BY <1>2, <1>5 DEF ManRec
<1> HIDE DEF rec2
<1>8. /\ mid2 \in [Managers -> ManRec]
      /\ \A x \in Managers :
           /\ mid2[x].clients = mid[x].clients /\ mid2[x].pending = mid[x].pending
           /\ mid2[x].config = mid[x].config /\ mid2[x].phase = mid[x].phase
  BY <1>1, <1>2, <1>5, <1>6, <1>7
<1> HIDE DEF mid2, mid
<1>9. Wires(mid2, cs)
  BY <1>4, <1>8, ManagerKeeps
<1>10. session = "open" /\ m = mcp /\ s \in rec2.auth =>
         s \in man[m].auth \/ Excused(s)
  <2> SUFFICES ASSUME session = "open", m = mcp, s \in rec2.auth, ~ conn[c].auth
               PROVE  Excused(s)
    BY <1>5, <1>7
  <2>1. AuthInv
    BY DEF McpInv
  <2>2. QED BY <2>1, <1>2 DEF AuthInv
<1>11. \A d \in Conns :
         \/ cs[d] = conn[d]
         \/ conn[d].m = m /\ conn[d].st # "none" /\ cs[d].st # "connecting"
  BY <1>1, <1>2 DEF NoConn
<1> HIDE DEF cs
<1>12. Discovered(m, rec2, cs, s)
  <2>1. man[m].at = s
    OBVIOUS
  <2>2. Wires([man EXCEPT ![m] = rec2], cs)
    BY <1>9 DEF mid2
  <2>3. rec2.found \subseteq man[m].found \cup {s}
        /\ rec2.auth \subseteq man[m].auth \cup {s}
    BY <1>5, <1>7
  <2>4. \A t \in Servers : t # s => /\ rec2.clients[t] = man[m].clients[t]
                                    /\ rec2.pending[t] = man[m].pending[t]
    BY <1>5, <1>7
  <2> HIDE DEF m, s
  <2>5. QED BY <2>1, <2>2, <2>3, <2>4, <1>2, <1>3, <1>5, <1>7, <1>10, <1>11,
               DiscoveredHere
<1>13. QED BY <1>3, <1>12, DiscoversKeeps

\* Such a step changes the servers of one manager, which has discovered them
\* or is not further than they are.
LEMMA WireStep ==
  ASSUME McpInv, NEW m \in Managers, man' \in [Managers -> ManRec],
         \A x \in Managers : x # m => man'[x] = man[x],
         man[m].phase # "none", man'[m].phase = man[m].phase,
         man'[m].config = man[m].config, SameScan(man'[m], man[m]),
         \A u \in Servers : ~ man[m].done /\ u > man[m].at =>
            man'[m].clients[u] = 0 /\ man'[m].pending[u] = 0,
         \A c \in Conns : conn'[c].st = "connecting" =>
           \/ conn'[c] = conn[c]
           \/ \E x \in Managers, t \in Servers : conn'[c] = Begun(x, t),
         UNCHANGED <<parts, ready, registry, conv, user, changes, hushed>>,
         undue' \subseteq {"dropped"}, called' \in 0 .. MaxCalls, losses' \in Nat,
         Wires(man', conn'), CallInv'
  PROVE  McpInv'
<1>1. \A x \in Managers : DiscoveryOK(man[x]) /\ man[x] \in ManRec
  BY InvFacts
<1>2. DiscoveryOK(man'[m])
  BY <1>1, DiscoveryStays
<1>3. DiscoveryInv'
  BY <1>1, <1>2 DEF DiscoveryInv
<1>4. Quiet
  BY DEF Quiet, SameScan
<1>5. QED BY <1>3, <1>4, QuietKeeps

LEMMA RefusedFails ==
  ASSUME McpInv, NEW c \in Conns, Refused(c), man[conn[c].m].at # conn[c].s
  PROVE  McpInv'
<1> DEFINE m == conn[c].m
           s == conn[c].s
           cs == [conn EXCEPT ![c] = NoConn]
<1>1. /\ Wires(man, conn) /\ man \in [Managers -> ManRec] /\ Assumed
      /\ conn \in [Conns -> ConnRec] /\ losses \in Nat /\ conn[c] \in ConnRec
      /\ call \in [Calls -> CallRec] /\ CallsHeld(man, conn, call)
      /\ undue \subseteq {"dropped"} /\ called \in 0 .. MaxCalls
  BY InvFacts
<1>2. /\ conn[c].st = "connecting" /\ c # 0
      /\ m \in Managers /\ s \in Servers /\ man[m].phase # "none"
  BY InvFacts DEF Refused, ConnHeld
<1>3. /\ man' = [man EXCEPT ![m] = [man[m] EXCEPT !.pending[s] = 0]]
      /\ conn' = cs /\ losses' \in Nat
      /\ call' = [k \in Calls |-> IF k \in Waiting(c) THEN NoCall ELSE call[k]]
      /\ UNCHANGED <<parts, ready, registry, conv, user, changes, history>>
  BY <1>1 DEF Refused
<1>4. man' = Expecting(man, m, s, 0)
  BY <1>3 DEF Expecting
<1>5. Wires(man', conn')
  <2>1. Wires(Expecting(man, m, s, 0), cs)
    BY <1>1, <1>2, CutKeeps
  <2>2. QED BY <2>1, <1>3, <1>4
<1>6. /\ man' \in [Managers -> ManRec]
      /\ \A x \in Managers :
           /\ x # m => man'[x] = man[x]
           /\ man'[x].phase = man[x].phase /\ man'[x].config = man[x].config
           /\ SameScan(man'[x], man[x]) /\ man'[x].clients = man[x].clients
           /\ \A t \in Servers : man'[x].pending[t] \in {0, man[x].pending[t]}
  <2>1. 0 \in 0 .. MaxConns
    BY <1>1 DEF Assumed
  <2>2. man \in [Managers -> ManRec] /\ m \in Managers /\ s \in Servers
    BY <1>1, <1>2
  <2> HIDE DEF m, s
  <2>3. QED BY <2>1, <2>2, <1>4, SetPending
<1>7. \A d \in Conns : conn'[d] = IF d = c THEN NoConn ELSE conn[d]
  BY <1>1, <1>3
<1>8. CallInv'
  <2>1. NoCall \in CallRec /\ NoCall.st = "none"
    BY <1>1 DEF NoCall, CallRec, Agents, Assumed
  <2>2. call' \in [Calls -> CallRec]
    BY <2>1, <1>1, <1>3
  <2>3. ASSUME NEW k \in Calls, call'[k].st # "none"
        PROVE  LET d == call'[k].conn IN
               /\ d \in Conns /\ call'[k].m = conn'[d].m
               /\ conn'[d].m \in Managers /\ man'[conn'[d].m].done
               /\ call'[k].st = "connecting" => conn'[d].st = "connecting"
               /\ call'[k].st = "sent" => conn'[d].st \in {"open", "closing"}
    <3> DEFINE d == call[k].conn
    <3>1. call'[k] = call[k] /\ k \notin Waiting(c)
      BY <2>1, <2>3, <1>3
    <3>2. /\ d \in Conns /\ call[k].m = conn[d].m
          /\ conn[d].m \in Managers /\ man[conn[d].m].done
          /\ call[k].st = "connecting" => conn[d].st = "connecting"
          /\ call[k].st = "sent" => conn[d].st \in {"open", "closing"}
      BY <3>1, <2>3, <1>1 DEF CallsHeld, CallHeld
    <3>3. d # c
      BY <3>1, <3>2, <2>3, <1>1, <1>2 DEF Waiting, CallRec
    <3>4. QED BY <3>1, <3>2, <3>3, <1>6, <1>7 DEF SameScan
  <2>4. QED BY <2>2, <2>3 DEF CallInv, CallsHeld, CallHeld
<1>9. \A u \in Servers : ~ man[m].done /\ u > man[m].at =>
         man'[m].clients[u] = 0 /\ man'[m].pending[u] = 0
  <2>1. DiscoveryOK(man[m])
    BY <1>2, InvFacts
  <2>2. QED BY <2>1, <1>2, <1>6 DEF DiscoveryOK
<1>10. \A d \in Conns : conn'[d].st = "connecting" => conn'[d] = conn[d]
  BY <1>7 DEF NoConn
<1>11. called' = called /\ undue' = undue /\ hushed' = hushed
  BY <1>3 DEF history
<1> HIDE DEF m, s
<1>12. QED
  BY <1>1, <1>2, <1>3, <1>5, <1>6, <1>8, <1>9, <1>10, <1>11, WireStep

LEMMA ListedKeeps ==
  ASSUME McpInv, NEW m \in Managers, Listed(m)
  PROVE  McpInv'
<1> DEFINE s == man[m].at
           rec == [man[m] EXCEPT !.found = @ \cup {s}, !.auth = @ \ {s}]
           mid == [man EXCEPT ![m] = rec]
<1>1. /\ Wires(man, conn) /\ man \in [Managers -> ManRec] /\ Assumed
      /\ losses \in Nat
  BY InvFacts
<1>2. s \in Servers
  BY <1>1 DEF Listed, ManRec
<1>3. Discovers(m, rec, conn, s) /\ losses' \in Nat
  BY <1>1 DEF Listed
<1>4. /\ rec \in ManRec /\ rec.phase = man[m].phase /\ rec.config = man[m].config
      /\ rec.done = man[m].done /\ rec.found = man[m].found \cup {s}
      /\ rec.auth = man[m].auth \ {s}
      /\ rec.clients = man[m].clients /\ rec.pending = man[m].pending
  BY <1>1, <1>2 DEF ManRec
<1> HIDE DEF rec
<1>5. /\ mid \in [Managers -> ManRec]
      /\ \A x \in Managers :
           /\ mid[x].clients = man[x].clients /\ mid[x].pending = man[x].pending
           /\ mid[x].config = man[x].config /\ mid[x].phase = man[x].phase
  BY <1>1, <1>4
<1> HIDE DEF mid
<1>6. Wires(mid, conn)
  BY <1>1, <1>5, ManagerKeeps
<1>7. Discovered(m, rec, conn, s)
  <2>1. Wires([man EXCEPT ![m] = rec], conn) /\ man[m].at = s
    BY <1>6 DEF mid
  <2> HIDE DEF s
  <2>2. QED BY <2>1, <1>2, <1>3, <1>4, DiscoveredHere
<1>8. QED BY <1>3, <1>7, DiscoversKeeps

\* The connection of the server a discovery is at is no more: the server is
\* passed over.
PassedOver(r, s) == [r EXCEPT !.clients[s] = 0, !.auth = @ \ {s}]

LEMMA ListDiscovers ==
  ASSUME McpInv, NEW m \in Managers, NEW s \in Servers, man[m].at = s, NEW cs,
         Wires(Holding(man, m, s, 0), cs),
         \A c \in Conns :
           \/ cs[c] = conn[c]
           \/ conn[c].m = m /\ conn[c].st # "none" /\ cs[c].st # "connecting",
         losses' \in Nat,
         Discovers(m, PassedOver(man[m], s), cs, s)
  PROVE  McpInv'
<1> DEFINE rec == [man[m] EXCEPT !.clients[s] = 0]
           rec2 == [rec EXCEPT !.auth = @ \ {s}]
           mid == Holding(man, m, s, 0)
           mid2 == [man EXCEPT ![m] = rec2]
<1>1. man \in [Managers -> ManRec] /\ Assumed
  BY InvFacts
<1>2. rec2 = PassedOver(man[m], s)
  BY DEF PassedOver
<1>3. rec \in ManRec /\ rec.phase = man[m].phase /\ rec.config = man[m].config
      /\ rec.done = man[m].done /\ rec.found = man[m].found
      /\ rec.auth = man[m].auth /\ rec.pending = man[m].pending
      /\ \A t \in Servers : t # s => rec.clients[t] = man[m].clients[t]
  <2> DEFINE regs == [man[m].clients EXCEPT ![s] = 0]
  <2>1. man[m] \in ManRec /\ man[m].clients \in [Servers -> 0 .. MaxConns]
    BY <1>1 DEF ManRec
  <2>2. regs \in [Servers -> 0 .. MaxConns]
        /\ \A t \in Servers : t # s => regs[t] = man[m].clients[t]
    <3>1. 0 \in 0 .. MaxConns
      BY <1>1 DEF Assumed
    <3>2. QED BY <2>1, <3>1
  <2>3. rec = [man[m] EXCEPT !.clients = regs]
    OBVIOUS
  <2> HIDE DEF regs, rec
  <2>4. QED BY <2>1, <2>2, <2>3 DEF ManRec
<1>4. mid = [man EXCEPT ![m] = rec]
  BY DEF Holding
<1> HIDE DEF rec
<1>5. /\ rec2 \in ManRec /\ rec2.phase = rec.phase /\ rec2.config = rec.config
      /\ rec2.done = rec.done /\ rec2.found = rec.found
      /\ rec2.clients = rec.clients /\ rec2.pending = rec.pending
      /\ rec2.auth = rec.auth \ {s}
  BY <1>3 DEF ManRec
<1> HIDE DEF rec2
<1>6. /\ mid2 \in [Managers -> ManRec]
      /\ \A x \in Managers :
           /\ mid2[x].clients = mid[x].clients /\ mid2[x].pending = mid[x].pending
           /\ mid2[x].config = mid[x].config /\ mid2[x].phase = mid[x].phase
  BY <1>1, <1>3, <1>4, <1>5
<1>7. Wires(mid, cs)
  OBVIOUS
<1> HIDE DEF mid2, mid
<1>8. Wires(mid2, cs)
  BY <1>6, <1>7, ManagerKeeps
<1>9. Discovered(m, rec2, cs, s)
  <2>1. Wires([man EXCEPT ![m] = rec2], cs)
    BY <1>8 DEF mid2
  <2>2. rec2.found \subseteq man[m].found \cup {s}
        /\ rec2.auth \subseteq man[m].auth \cup {s}
        /\ s \notin rec2.auth
    BY <1>3, <1>5
  <2>3. \A t \in Servers : t # s => /\ rec2.clients[t] = man[m].clients[t]
                                    /\ rec2.pending[t] = man[m].pending[t]
    BY <1>3, <1>5
  <2>4. QED BY <2>1, <2>2, <2>3, <1>3, <1>5, DiscoveredHere
<1>10. QED BY <1>2, <1>9, DiscoversKeeps

LEMMA ListFailsKeeps ==
  ASSUME McpInv, NEW m \in Managers, ListFails(m)
  PROVE  McpInv'
<1> DEFINE s == man[m].at
           d == man[m].clients[s]
           cs == Dropped(conn, d)
<1>1. /\ Wires(man, conn) /\ man \in [Managers -> ManRec] /\ Assumed
      /\ losses \in Nat /\ conn \in [Conns -> ConnRec]
  BY InvFacts
<1>2. s \in Servers /\ d # 0
  BY <1>1 DEF ListFails, ManRec
<1>3. Discovers(m, PassedOver(man[m], s), cs, s) /\ losses' \in Nat
  BY <1>1 DEF ListFails, PassedOver
<1>4. d \in Conns /\ ClientIsThere(conn, m, s, d)
  BY <1>2, InvFacts
<1>5. \A c \in Conns :
        \/ cs[c] = conn[c]
        \/ conn[c].m = m /\ conn[c].st # "none" /\ cs[c].st # "connecting"
  <2> TAKE c \in Conns
  <2>1. CASE c # d
    BY <2>1, <1>1, <1>2 DEF Dropped
  <2>2. CASE c = d
    <3>1. conn[c].m = m /\ conn[c].st # "none" /\ conn[c] \in ConnRec
      BY <2>2, <1>1, <1>2, <1>4 DEF ClientIsThere
    <3>2. cs[c] = IF conn[c].st = "dead" THEN NoConn
                  ELSE [conn[c] EXCEPT !.st = "closing"]
      BY <2>2, <1>1, <1>2 DEF Dropped
    <3>3. NoConn.st = "none" /\ [conn[c] EXCEPT !.st = "closing"].st = "closing"
      BY <3>1 DEF NoConn, ConnRec
    <3>4. QED BY <3>1, <3>2, <3>3
  <2>3. QED BY <2>1, <2>2
<1>6. Wires(Holding(man, m, s, 0), cs)
  BY <1>1, <1>2, DropKeeps
<1>7. man[m].at = s
  OBVIOUS
<1> HIDE DEF cs, s
<1>8. QED BY <1>2, <1>3, <1>5, <1>6, <1>7, ListDiscovers

LEMMA ClosedDiscovers ==
  ASSUME McpInv, NEW c \in Conns, Closed(c), Listing(conn[c].m, c)
  PROVE  McpInv'
<1> DEFINE m == conn[c].m
           s == conn[c].s
           cs == [conn EXCEPT ![c] = NoConn]
<1>1. /\ Wires(man, conn) /\ man \in [Managers -> ManRec] /\ Assumed
      /\ losses \in Nat /\ conn \in [Conns -> ConnRec]
  BY InvFacts
<1>2. conn[c].st = "closing" /\ c # 0 /\ m \in Managers
  BY InvFacts DEF Closed, ConnHeld
<1>3. man[m].at \in Servers /\ man[m].clients[man[m].at] = c
  BY <1>1, <1>2 DEF Listing, ManRec
<1>4. man[m].at = s /\ s \in Servers /\ man[m].clients[s] = c
  <2>1. ClientIsThere(conn, m, man[m].at, c)
    BY <1>2, <1>3, InvFacts
  <2>2. QED BY <2>1, <1>2, <1>3 DEF ClientIsThere
<1>5. Discovers(m, PassedOver(man[m], s), cs, s) /\ losses' \in Nat
  BY <1>1 DEF Closed, PassedOver
<1>6. Wires(Holding(man, m, s, 0), cs)
  <2>1. man[conn[c].m].clients[conn[c].s] = c
    BY <1>4
  <2>2. QED BY <2>1, <1>1, <1>2, EndKeeps
<1>7. \A d \in Conns :
        \/ cs[d] = conn[d]
        \/ conn[d].m = m /\ conn[d].st # "none" /\ cs[d].st # "connecting"
  BY <1>1, <1>2 DEF NoConn
<1> HIDE DEF cs, s, m
<1>8. QED BY <1>2, <1>4, <1>5, <1>6, <1>7, ListDiscovers

(***************************************************************************)
(* Calls and what they wait for.                                           *)
(***************************************************************************)
LEMMA DroppedFacts ==
  ASSUME Assumed, NEW cs \in [Conns -> ConnRec], NEW d \in Conns \cup {0}
  PROVE  /\ Dropped(cs, d) \in [Conns -> ConnRec]
         /\ \A e \in Conns :
              \/ Dropped(cs, d)[e] = cs[e]
              \/ e = d /\ cs[e].st = "dead" /\ Dropped(cs, d)[e].st = "none"
              \/ /\ e = d /\ cs[e].st # "dead" /\ Dropped(cs, d)[e].st = "closing"
                 /\ Dropped(cs, d)[e].m = cs[e].m /\ Dropped(cs, d)[e].s = cs[e].s
<1>1. CASE d = 0
  BY <1>1 DEF Dropped
<1>2. CASE d # 0
  <2> DEFINE r == IF cs[d].st = "dead" THEN NoConn
                                       ELSE [cs[d] EXCEPT !.st = "closing"]
  <2>1. d \in Conns /\ cs[d] \in ConnRec
    BY <1>2
  <2>2. NoConn \in ConnRec /\ NoConn.st = "none"
    BY DEF NoConn, ConnRec, Assumed
  <2>3. /\ [cs[d] EXCEPT !.st = "closing"] \in ConnRec
        /\ [cs[d] EXCEPT !.st = "closing"].st = "closing"
        /\ [cs[d] EXCEPT !.st = "closing"].m = cs[d].m
        /\ [cs[d] EXCEPT !.st = "closing"].s = cs[d].s
    BY <2>1 DEF ConnRec
  <2>4. /\ r \in ConnRec
        /\ \/ cs[d].st = "dead" /\ r.st = "none"
           \/ /\ cs[d].st # "dead" /\ r.st = "closing"
              /\ r.m = cs[d].m /\ r.s = cs[d].s
    BY <2>2, <2>3
  <2>5. Dropped(cs, d) = [cs EXCEPT ![d] = r]
    BY <1>2, <2>1 DEF Dropped
  <2> HIDE DEF r
  <2>6. QED BY <2>1, <2>4, <2>5
<1>3. QED BY <1>1, <1>2

\* A call goes on with the connection it has, or has been given one, or ends;
\* the connections X have been taken from theirs.
LEMMA CallsMove ==
  ASSUME McpInv, call' \in [Calls -> CallRec],
         \A x \in Managers : man'[x].done = man[x].done, NEW X,
         \A d \in Conns : d \notin X =>
            /\ conn[d].st = "connecting" =>
                  conn'[d].st = "connecting" /\ conn'[d].m = conn[d].m
            /\ conn[d].st \in {"open", "closing"} =>
                  conn'[d].st \in {"open", "closing"} /\ conn'[d].m = conn[d].m,
         \A k \in Calls :
            \/ call'[k].st = "none"
            \/ /\ call'[k].st = call[k].st /\ call'[k].conn = call[k].conn
               /\ call'[k].m = call[k].m /\ call[k].conn \notin X
            \/ CallHeld(man', conn', call'[k])
  PROVE  CallInv'
<1>1. \A k \in Calls : CallHeld(man, conn, call[k])
  BY InvFacts DEF CallsHeld
<1>2. ASSUME NEW k \in Calls PROVE CallHeld(man', conn', call'[k])
  <2>1. CASE call'[k].st = "none"
    BY <2>1 DEF CallHeld
  <2>2. CASE /\ call'[k].st = call[k].st /\ call'[k].conn = call[k].conn
             /\ call'[k].m = call[k].m /\ call[k].conn \notin X
             /\ call[k].st # "none"
    <3>1. CallHeld(man, conn, call[k])
      BY <1>1
    <3>2. call[k].st \in {"connecting", "sent"}
      BY <2>2, InvFacts DEF CallRec
    <3>3. CASE call[k].st = "connecting"
      BY <2>2, <3>1, <3>3 DEF CallHeld
    <3>4. CASE call[k].st = "sent"
      BY <2>2, <3>1, <3>4 DEF CallHeld
    <3>5. QED BY <3>2, <3>3, <3>4
  <2>3. QED BY <2>1, <2>2
<1>3. QED BY <1>2 DEF CallInv, CallsHeld

\* A second attempt shares the connection that is on the way, or begins one.
Retries(m, s, cs) ==
    /\ man' = [man EXCEPT ![m].clients[s] = 0, ![m].pending[s] = NextConn(m, s)]
    /\ conn' = IF man[m].pending[s] = 0
               THEN [cs EXCEPT ![Slot] = Begun(m, s)] ELSE cs

LEMMA RetryWires ==
  ASSUME Assumed, man \in [Managers -> ManRec], conn \in [Conns -> ConnRec],
         NEW m \in Managers, NEW s \in Servers, NEW cs,
         Wires(Holding(man, m, s, 0), cs), man[m].phase = "open",
         s \in man[m].config, RoomFor(man[m].pending[s] = 0),
         \A c \in Conns : conn[c].st = "none" => cs[c].st = "none",
         Retries(m, s, cs)
  PROVE  /\ Wires(man', conn')
         /\ NextConn(m, s) \in Conns /\ conn'[NextConn(m, s)].st = "connecting"
         /\ conn'[NextConn(m, s)].m = m
         /\ \A d \in Conns : \/ conn'[d] = cs[d]
                             \/ cs[d].st = "none" /\ conn'[d] = Begun(m, s)
         /\ \A x \in Managers :
              /\ x # m => man'[x] = man[x]
              /\ man'[x].phase = man[x].phase /\ man'[x].config = man[x].config
              /\ SameScan(man'[x], man[x])
<1> DEFINE mid == Holding(man, m, s, 0)
           p == NextConn(m, s)
<1>1. /\ mid \in [Managers -> ManRec]
      /\ \A x \in Managers :
           /\ x # m => mid[x] = man[x]
           /\ mid[x].phase = man[x].phase /\ mid[x].config = man[x].config
           /\ SameScan(mid[x], man[x]) /\ mid[x].pending = man[x].pending
           /\ \A t \in Servers :
                mid[x].clients[t] = IF x = m /\ t = s THEN 0 ELSE man[x].clients[t]
  <2>1. 0 \in 0 .. MaxConns
    BY DEF Assumed
  <2>2. QED BY <2>1, SetClients
<1>2. man' = Expecting(mid, m, s, p)
  BY DEF Retries, Holding, Expecting
<1>3. Wires(mid, cs) /\ cs \in [Conns -> ConnRec]
  BY DEF Wires, WireTypes
<1> HIDE DEF mid
<1>4. CASE man[m].pending[s] # 0
  <2>1. p = mid[m].pending[s] /\ p # 0
    BY <1>1, <1>4 DEF NextConn
  <2>2. p \in Conns /\ PendingIsThere(cs, m, s, p, mid[m].clients[s])
    BY <1>3, <2>1, WireFacts
  <2>3. p \in 0 .. MaxConns
    BY <2>2 DEF Conns, Assumed
  <2> HIDE DEF p
  <2>4. /\ man' \in [Managers -> ManRec]
        /\ \A x \in Managers :
             /\ x # m => man'[x] = mid[x]
             /\ man'[x].phase = mid[x].phase /\ man'[x].config = mid[x].config
             /\ SameScan(man'[x], mid[x]) /\ man'[x].clients = mid[x].clients
             /\ \A t \in Servers :
                  man'[x].pending[t] = IF x = m /\ t = s THEN p ELSE mid[x].pending[t]
    BY <1>1, <1>2, <2>3, SetPending
  <2>5. \A x \in Managers : man'[x].pending = mid[x].pending
    <3> TAKE x \in Managers
    <3>1. /\ man'[x].pending \in [Servers -> 0 .. MaxConns]
          /\ mid[x].pending \in [Servers -> 0 .. MaxConns]
      BY <1>1, <2>4 DEF ManRec
    <3>2. \A t \in Servers : man'[x].pending[t] = mid[x].pending[t]
      BY <2>1, <2>4
    <3>3. QED BY <3>1, <3>2
  <2>6. Wires(man', cs)
    <3>1. \A x \in Managers :
            /\ man'[x].clients = mid[x].clients /\ man'[x].pending = mid[x].pending
            /\ man'[x].config = mid[x].config /\ man'[x].phase = mid[x].phase
      BY <2>4, <2>5
    <3>2. man' \in [Managers -> ManRec] /\ Wires(mid, cs)
      BY <2>4, <1>3
    <3>3. QED BY <3>1, <3>2, ManagerKeeps
  <2>7. conn' = cs /\ cs[p].st = "connecting" /\ cs[p].m = m
    BY <1>4, <2>1, <2>2 DEF Retries, PendingIsThere
  <2>8. QED BY <1>1, <2>2, <2>4, <2>6, <2>7 DEF SameScan, p
<1>5. CASE man[m].pending[s] = 0
  <2>1. p = Slot /\ RoomFor(TRUE)
    BY <1>5 DEF NextConn
  <2>2. Slot \in Conns /\ cs[Slot].st = "none"
    BY <2>1, SlotIsFree
  <2>3. p \in 0 .. MaxConns /\ p \in Conns /\ cs[p].st = "none"
    BY <2>1, <2>2 DEF Conns, Assumed
  <2>4. conn' = [cs EXCEPT ![p] = Begun(m, s)]
    BY <1>5, <2>1 DEF Retries
  <2> HIDE DEF p
  <2>5. mid[m].phase = "open" /\ s \in mid[m].config
        /\ mid[m].clients[s] = 0 /\ mid[m].pending[s] = 0
    BY <1>1, <1>5
  <2>6. Wires(Expecting(mid, m, s, p), [cs EXCEPT ![p] = Begun(m, s)])
    BY <1>3, <2>3, <2>5, BeginKeeps
  <2>7. \A x \in Managers :
          /\ x # m => man'[x] = mid[x]
          /\ man'[x].phase = mid[x].phase /\ man'[x].config = mid[x].config
          /\ SameScan(man'[x], mid[x])
    <3>1. mid \in [Managers -> ManRec]
      BY <1>1
    <3>2. QED BY <1>2, <2>3, <3>1, SetPending
  <2>8. Begun(m, s).st = "connecting" /\ Begun(m, s).m = m
    BY DEF Begun
  <2>9. Wires(man', conn')
    BY <1>2, <2>4, <2>6
  <2>10. \A x \in Managers :
              /\ x # m => man'[x] = man[x]
              /\ man'[x].phase = man[x].phase /\ man'[x].config = man[x].config
              /\ SameScan(man'[x], man[x])
    BY <1>1, <2>7 DEF SameScan
  <2>11. conn'[p] = Begun(m, s) /\ \A d \in Conns : d # p => conn'[d] = cs[d]
    BY <1>3, <2>3, <2>4
  <2>12. QED BY <2>3, <2>8, <2>9, <2>10, <2>11 DEF p
<1>6. QED BY <1>4, <1>5

(***************************************************************************)
(* A connection is no more.                                                *)
(***************************************************************************)
First(c) == {k \in Sent(c) : call[k].try = 1}
Again(c) == IF Open(conn[c].m) THEN First(c) ELSE {}
Lose(c) == [conn EXCEPT ![c] = IF man[conn[c].m].clients[conn[c].s] = c /\ First(c) = {}
                               THEN [@ EXCEPT !.st = "dead"] ELSE NoConn]

\* What becomes of it, for nobody's sake or for that of first attempts.
LEMMA LoseFacts ==
  ASSUME McpInv, NEW c \in Conns, conn[c].st \in {"open", "closing"}
  PROVE  /\ Lose(c) \in [Conns -> ConnRec]
         /\ \A d \in Conns : d # c => Lose(c)[d] = conn[d]
         /\ Lose(c)[c].st \in {"dead", "none"}
         /\ First(c) = {} => Wires(man, Lose(c))
         /\ First(c) # {} =>
              LET m == conn[c].m  s == conn[c].s IN
              Wires(Holding(man, m, s, 0),
                    IF man[m].clients[s] = c THEN Lose(c)
                    ELSE Dropped(Lose(c), man[m].clients[s]))
<1> DEFINE m == conn[c].m
           s == conn[c].s
           mine == man[m].clients[s]
           dead == [conn[c] EXCEPT !.st = "dead"]
           r == IF mine = c /\ First(c) = {} THEN dead ELSE NoConn
<1>1. /\ Wires(man, conn) /\ Assumed /\ conn \in [Conns -> ConnRec]
      /\ conn[c] \in ConnRec /\ m \in Managers /\ s \in Servers
  BY InvFacts DEF ConnHeld
<1>2. /\ NoConn \in ConnRec /\ NoConn.st = "none" /\ dead \in ConnRec
      /\ dead.st = "dead" /\ dead.m = m /\ dead.s = s
  BY <1>1 DEF NoConn, ConnRec, Assumed
<1>3. Lose(c) = [conn EXCEPT ![c] = r]
  BY DEF Lose
<1> HIDE DEF dead
<1>4. r \in ConnRec /\ r.st \in {"dead", "none"}
      /\ \/ mine # c /\ r = NoConn
         \/ First(c) # {} /\ r = NoConn
         \/ r.m = m /\ r.s = s /\ r.st \in {"dead", "closing"}
  BY <1>2
<1> HIDE DEF r
<1>5. /\ Lose(c) \in [Conns -> ConnRec] /\ Lose(c)[c] = r
      /\ \A d \in Conns : d # c => Lose(c)[d] = conn[d]
  BY <1>1, <1>3, <1>4
<1>6. (mine # c /\ r = NoConn) \/ (r.m = m /\ r.s = s /\ r.st \in {"dead", "closing"})
         => Wires(man, Lose(c))
  <2> SUFFICES ASSUME \/ mine # c /\ r = NoConn
                      \/ r.m = m /\ r.s = s /\ r.st \in {"dead", "closing"}
               PROVE  Wires(man, Lose(c))
    OBVIOUS
  <2>1. \/ man[conn[c].m].clients[conn[c].s] # c /\ r = NoConn
        \/ r.m = conn[c].m /\ r.s = conn[c].s /\ r.st \in {"dead", "closing"}
    OBVIOUS
  <2>2. conn[c].st \in {"open", "dead", "closing"}
    OBVIOUS
  <2>3. Wires(man, [conn EXCEPT ![c] = r])
    BY <1>1, <1>4, <2>1, <2>2, MarkKeeps
  <2>4. QED BY <1>3, <2>3
<1>7. First(c) = {} => Wires(man, Lose(c))
  BY <1>4, <1>6
<1>8. ASSUME First(c) # {}
      PROVE  Wires(Holding(man, m, s, 0),
                   IF mine = c THEN Lose(c) ELSE Dropped(Lose(c), mine))
  <2>1. r = NoConn
    BY <1>8 DEF r
  <2>2. CASE mine = c
    <3>1. Wires(Holding(man, m, s, 0), [conn EXCEPT ![c] = NoConn])
      BY <1>1, <2>2, EndKeeps
    <3>2. QED BY <2>1, <2>2, <3>1, <1>3
  <2>3. CASE mine # c
    <3>1. Wires(man, Lose(c))
      BY <2>1, <2>3, <1>6
    <3>2. Wires(Holding(man, m, s, 0), Dropped(Lose(c), mine))
      BY <1>1, <3>1, DropKeeps
    <3>3. QED BY <2>3, <3>2
  <2>4. QED BY <2>2, <2>3
<1>9. QED BY <1>4, <1>5, <1>7, <1>8

\* The connections after the end of c, before a next attempt.
Rest(c) ==
    LET mine == man[conn[c].m].clients[conn[c].s] IN
    IF First(c) = {} \/ mine = c THEN Lose(c) ELSE Dropped(Lose(c), mine)

LEMMA RestFacts ==
  ASSUME McpInv, NEW c \in Conns, conn[c].st \in {"open", "closing"}
  PROVE  /\ Rest(c) \in [Conns -> ConnRec]
         /\ \A d \in Conns :
              /\ conn[d].st = "none" => Rest(c)[d].st = "none"
              /\ conn[d].st = "connecting" => Rest(c)[d] = conn[d]
              /\ Rest(c)[d].st = "connecting" => Rest(c)[d] = conn[d]
              /\ conn[d].st \in {"open", "closing"} /\ d # c =>
                   Rest(c)[d].st \in {"open", "closing"} /\ Rest(c)[d].m = conn[d].m
         /\ First(c) = {} => Wires(man, Rest(c))
         /\ First(c) # {} => Wires(Holding(man, conn[c].m, conn[c].s, 0), Rest(c))
<1> DEFINE mine == man[conn[c].m].clients[conn[c].s]
<1>1. /\ Lose(c) \in [Conns -> ConnRec]
      /\ \A d \in Conns : d # c => Lose(c)[d] = conn[d]
      /\ Lose(c)[c].st \in {"dead", "none"}
      /\ First(c) = {} => Wires(man, Lose(c))
      /\ First(c) # {} =>
           Wires(Holding(man, conn[c].m, conn[c].s, 0),
                 IF mine = c THEN Lose(c) ELSE Dropped(Lose(c), mine))
  BY LoseFacts
<1>2. CASE First(c) = {} \/ mine = c
  <2>1. Rest(c) = Lose(c)
    BY <1>2 DEF Rest
  <2>2. QED BY <1>1, <1>2, <2>1
<1>3. CASE First(c) # {} /\ mine # c
  <2>1. Rest(c) = Dropped(Lose(c), mine)
    BY <1>3 DEF Rest
  <2>2. /\ Assumed /\ mine \in Conns \cup {0} /\ conn[c].m \in Managers
        /\ conn[c].s \in Servers
        /\ ClientIsThere(conn, conn[c].m, conn[c].s, mine)
    BY InvFacts DEF ConnHeld
  <2> HIDE DEF mine
  <2>3. /\ Rest(c) \in [Conns -> ConnRec]
        /\ \A e \in Conns :
             \/ Rest(c)[e] = Lose(c)[e]
             \/ e = mine /\ Lose(c)[e].st = "dead" /\ Rest(c)[e].st = "none"
             \/ /\ e = mine /\ Lose(c)[e].st # "dead" /\ Rest(c)[e].st = "closing"
                /\ Rest(c)[e].m = Lose(c)[e].m /\ Rest(c)[e].s = Lose(c)[e].s
    BY <1>1, <2>1, <2>2, DroppedFacts
  <2>4. mine # 0 => conn[mine].st \in {"open", "dead", "closing"}
    BY <2>2 DEF ClientIsThere
  <2>5. \A d \in Conns : d # 0
    BY InvFacts
  <2>6. Wires(Holding(man, conn[c].m, conn[c].s, 0), Rest(c))
    BY <1>1, <1>3, <2>1
  <2>7. QED BY <1>1, <1>3, <2>3, <2>4, <2>5, <2>6
<1>4. QED BY <1>2, <1>3

NextTry(r, p) == [r EXCEPT !.st = "connecting", !.try = 2, !.conn = p]

LEMMA NextTryFacts ==
  ASSUME NEW r \in CallRec, NEW p \in 0 .. MaxConns
  PROVE  /\ NextTry(r, p) \in CallRec /\ NextTry(r, p).st = "connecting"
         /\ NextTry(r, p).conn = p /\ NextTry(r, p).m = r.m
<1> DEFINE r1 == [r EXCEPT !.st = "connecting"]
           r2 == [r1 EXCEPT !.try = 2]
           r3 == [r2 EXCEPT !.conn = p]
<1>1. r1 \in CallRec /\ r1.st = "connecting" /\ r1.m = r.m
  BY DEF CallRec
<1>2. NextTry(r, p) = r3
  BY DEF NextTry
<1> HIDE DEF r1
<1>3. r2 \in CallRec /\ r2.st = "connecting" /\ r2.m = r.m
  BY <1>1 DEF CallRec
<1> HIDE DEF r2
<1>4. r3 \in CallRec /\ r3.st = "connecting" /\ r3.m = r.m /\ r3.conn = p
  BY <1>3 DEF CallRec
<1> HIDE DEF r3
<1>5. QED BY <1>2, <1>4

LEMMA ExpectingSame ==
  ASSUME NEW mn \in [Managers -> ManRec], NEW m \in Managers, NEW s \in Servers
  PROVE  Expecting(mn, m, s, mn[m].pending[s]) = mn
<1> DEFINE r == mn[m]
           pend == [r.pending EXCEPT ![s] = r.pending[s]]
<1>1. r \in ManRec /\ r.pending \in [Servers -> 0 .. MaxConns]
  BY DEF ManRec
<1>2. pend = r.pending
  BY <1>1
<1>3. [r EXCEPT !.pending = r.pending] = r
  BY <1>1 DEF ManRec
<1>4. Expecting(mn, m, s, mn[m].pending[s]) = [mn EXCEPT ![m] = [r EXCEPT !.pending = pend]]
  BY DEF Expecting
<1> HIDE DEF pend
<1>5. Expecting(mn, m, s, mn[m].pending[s]) = [mn EXCEPT ![m] = r]
  BY <1>2, <1>3, <1>4
<1>6. QED BY <1>5

\* How the wires follow.
GoneWiresFrom(c) ==
    LET m == conn[c].m  p == NextConn(conn[c].m, conn[c].s) IN
    /\ Wires(man', conn') /\ man' \in [Managers -> ManRec]
    /\ \A x \in Managers :
         /\ x # m => man'[x] = man[x]
         /\ man'[x].phase = man[x].phase /\ man'[x].config = man[x].config
         /\ SameScan(man'[x], man[x])
    /\ First(c) = {} => man' = man
    /\ \A d \in Conns : \/ conn'[d] = Rest(c)[d]
                        \/ /\ Rest(c)[d].st = "none"
                           /\ \E x \in Managers, t \in Servers : conn'[d] = Begun(x, t)
    /\ Again(c) # {} => p \in Conns /\ conn'[p].st = "connecting" /\ conn'[p].m = m

LEMMA GoneWires ==
  ASSUME McpInv, NEW c \in Conns, conn[c].st \in {"open", "closing"},
         NEW b, Gone(c, b)
  PROVE  GoneWiresFrom(c)
<1> DEFINE m == conn[c].m
           s == conn[c].s
           p == NextConn(m, s)
           mid == Holding(man, m, s, 0)
<1>1. /\ Wires(man, conn) /\ man \in [Managers -> ManRec] /\ Assumed
      /\ conn \in [Conns -> ConnRec] /\ m \in Managers /\ s \in Servers
      /\ man[m].phase # "none" /\ s \in man[m].config
  BY InvFacts DEF ConnHeld
<1>2. /\ Rest(c) \in [Conns -> ConnRec]
      /\ \A d \in Conns : conn[d].st = "none" => Rest(c)[d].st = "none"
      /\ First(c) = {} => Wires(man, Rest(c))
      /\ First(c) # {} => Wires(mid, Rest(c))
  BY RestFacts
<1>3. /\ RoomFor(Again(c) # {} /\ man[m].pending[s] = 0)
      /\ conn' = IF Again(c) # {} /\ man[m].pending[s] = 0
                 THEN [Rest(c) EXCEPT ![Slot] = Begun(m, s)] ELSE Rest(c)
      /\ man' = IF First(c) = {} THEN man
                ELSE [man EXCEPT ![m].clients[s] = 0,
                         ![m].pending[s] = IF Again(c) # {} THEN p ELSE @]
  BY DEF Gone, First, Again, Rest, Lose, NextConn
<1>4. Again(c) \subseteq First(c)
  BY DEF Again
<1>5. CASE First(c) = {}
  <2>1. man' = man /\ conn' = Rest(c) /\ Again(c) = {}
    BY <1>3, <1>4, <1>5
  <2>2. QED BY <2>1, <1>1, <1>2, <1>5 DEF GoneWiresFrom, SameScan
<1>6. CASE First(c) # {} /\ Again(c) = {}
  <2>1. conn' = Rest(c)
        /\ man' = Expecting(mid, m, s, mid[m].pending[s])
    BY <1>3, <1>6 DEF Holding, Expecting
  <2>2. /\ mid \in [Managers -> ManRec]
        /\ \A x \in Managers :
             /\ x # m => mid[x] = man[x]
             /\ mid[x].phase = man[x].phase /\ mid[x].config = man[x].config
             /\ SameScan(mid[x], man[x])
    <3>1. 0 \in 0 .. MaxConns
      BY <1>1 DEF Assumed
    <3>2. man \in [Managers -> ManRec] /\ m \in Managers /\ s \in Servers
      BY <1>1
    <3> HIDE DEF m, s
    <3>3. QED BY <3>1, <3>2, SetClients
  <2>3. Wires(mid, Rest(c))
    BY <1>2, <1>6
  <2> HIDE DEF mid
  <2>4. man' = mid
    <3> HIDE DEF m, s
    <3>1. QED BY <2>1, <2>2, <1>1, ExpectingSame
  <2>5. QED BY <2>1, <2>2, <2>3, <2>4, <1>6 DEF GoneWiresFrom
<1>7. CASE Again(c) # {}
  <2>1. man[m].phase = "open"
    BY <1>7 DEF Again, Open
  <2>2. First(c) # {}
    BY <1>4, <1>7
  <2>3. RoomFor(man[m].pending[s] = 0)
    BY <1>3, <1>7
  <2>4. Retries(m, s, Rest(c))
    BY <1>3, <1>7, <2>2 DEF Retries
  <2>5. Wires(Holding(man, m, s, 0), Rest(c))
    BY <1>2, <2>2
  <2> HIDE DEF m, s, p, mid
  <2>6. /\ Wires(man', conn')
        /\ NextConn(m, s) \in Conns /\ conn'[NextConn(m, s)].st = "connecting"
        /\ conn'[NextConn(m, s)].m = m
        /\ \A d \in Conns : \/ conn'[d] = Rest(c)[d]
                            \/ Rest(c)[d].st = "none" /\ conn'[d] = Begun(m, s)
        /\ \A x \in Managers :
              /\ x # m => man'[x] = man[x]
              /\ man'[x].phase = man[x].phase /\ man'[x].config = man[x].config
              /\ SameScan(man'[x], man[x])
    BY <1>1, <1>2, <2>1, <2>3, <2>4, <2>5, RetryWires
  <2>7. man' \in [Managers -> ManRec]
    BY <2>6 DEF Wires, WireTypes
  <2>8. QED BY <1>1, <2>2, <2>6, <2>7 DEF GoneWiresFrom, m, s
<1>8. QED BY <1>5, <1>6, <1>7

LEMMA GoneKeeps ==
  ASSUME McpInv, NEW c \in Conns, conn[c].st \in {"open", "closing"},
         NEW b, Gone(c, b), losses' \in Nat,
         UNCHANGED <<parts, ready, registry, conv, user, changes>>
  PROVE  McpInv'
<1> DEFINE m == conn[c].m
           s == conn[c].s
           p == NextConn(m, s)
           again(k) == [call[k] EXCEPT !.st = "connecting", !.try = 2, !.conn = p]
<1>1. /\ Wires(man, conn) /\ man \in [Managers -> ManRec] /\ Assumed
      /\ conn \in [Conns -> ConnRec] /\ m \in Managers
      /\ call \in [Calls -> CallRec] /\ CallsHeld(man, conn, call)
      /\ man[m].phase # "none" /\ DiscoveryOK(man[m])
      /\ undue \subseteq {"dropped"} /\ called \in 0 .. MaxCalls
  BY InvFacts DEF ConnHeld
<1>2. /\ Wires(man', conn') /\ man' \in [Managers -> ManRec]
      /\ \A x \in Managers :
           /\ x # m => man'[x] = man[x]
           /\ man'[x].phase = man[x].phase /\ man'[x].config = man[x].config
           /\ SameScan(man'[x], man[x])
      /\ First(c) = {} => man' = man
      /\ \A d \in Conns : \/ conn'[d] = Rest(c)[d]
                          \/ /\ Rest(c)[d].st = "none"
                             /\ \E x \in Managers, t \in Servers : conn'[d] = Begun(x, t)
      /\ Again(c) # {} => p \in Conns /\ conn'[p].st = "connecting" /\ conn'[p].m = m
  BY GoneWires DEF GoneWiresFrom
<1>3. \A d \in Conns :
        /\ conn[d].st = "none" => Rest(c)[d].st = "none"
        /\ conn[d].st = "connecting" => Rest(c)[d] = conn[d]
        /\ Rest(c)[d].st = "connecting" => Rest(c)[d] = conn[d]
        /\ conn[d].st \in {"open", "closing"} /\ d # c =>
             Rest(c)[d].st \in {"open", "closing"} /\ Rest(c)[d].m = conn[d].m
  BY RestFacts
<1>4. /\ call' = [k \in Calls |->
            IF k \in Again(c) THEN again(k)
            ELSE IF k \in Sent(c) THEN NoCall ELSE call[k]]
      /\ called' = called /\ hushed' = hushed
      /\ undue' = undue \cup
          (IF Sent(c) \ Again(c) = {} \/ b THEN {}
           ELSE IF Open(m) THEN {"dropped"}
           ELSE IF m = mcp /\ session = "open" THEN {"closed"} ELSE {})
  BY DEF Gone, First, Again, NextConn
<1> HIDE DEF p
<1>5. undue' \subseteq {"dropped"}
  <2>1. m = mcp /\ session = "open" => Open(m)
    BY DEF McpInv, OpenInv
  <2>2. QED BY <2>1, <1>1, <1>4
<1>6. ASSUME NEW k \in Again(c)
      PROVE  /\ k \in Calls /\ again(k) \in CallRec
             /\ CallHeld(man', conn', again(k))
             /\ man[m].done
  <2>1. k \in Calls /\ call[k].st = "sent" /\ call[k].conn = c /\ call[k] \in CallRec
    BY <1>1, <1>6 DEF Again, First, Sent
  <2>2. p \in Conns /\ conn'[p].st = "connecting" /\ conn'[p].m = m
    BY <1>2, <1>6
  <2>3. call[k].m = m /\ man[m].done
    BY <2>1, <1>1 DEF CallsHeld, CallHeld
  <2>4. p \in 0 .. MaxConns
    BY <2>2 DEF Conns
  <2>5. /\ again(k) \in CallRec /\ again(k).st = "connecting" /\ again(k).conn = p
        /\ again(k).m = m
    <3>1. again(k) = NextTry(call[k], p) /\ call[k] \in CallRec
      BY <2>1 DEF NextTry
    <3> HIDE DEF again
    <3>2. QED BY <3>1, <2>3, <2>4, NextTryFacts
  <2> HIDE DEF again
  <2>6. man'[m].done
    BY <2>3, <1>1, <1>2 DEF SameScan
  <2>7. QED BY <2>1, <2>2, <2>3, <2>5, <2>6, <1>1 DEF CallHeld
<1>7. NoCall \in CallRec /\ NoCall.st = "none"
  BY <1>1 DEF NoCall, CallRec, Agents, Assumed
<1>8. Again(c) \subseteq Calls
  BY <1>6
<1> HIDE DEF again
<1>9. call' \in [Calls -> CallRec]
  BY <1>1, <1>4, <1>6, <1>7
<1>10. CallInv'
  <2>1. \A x \in Managers : man'[x].done = man[x].done
    BY <1>2 DEF SameScan
  <2>2. \A d \in Conns : d \notin {c} =>
            /\ conn[d].st = "connecting" =>
                  conn'[d].st = "connecting" /\ conn'[d].m = conn[d].m
            /\ conn[d].st \in {"open", "closing"} =>
                  conn'[d].st \in {"open", "closing"} /\ conn'[d].m = conn[d].m
    BY <1>2, <1>3
  <2>3. ASSUME NEW k \in Calls
        PROVE  \/ call'[k].st = "none"
               \/ /\ call'[k].st = call[k].st /\ call'[k].conn = call[k].conn
                  /\ call'[k].m = call[k].m /\ call[k].conn \notin {c}
               \/ CallHeld(man', conn', call'[k])
    <3>1. CASE k \in Again(c)
      BY <3>1, <1>4, <1>6
    <3>2. CASE k \notin Again(c) /\ k \in Sent(c)
      BY <3>2, <1>4, <1>7
    <3>3. CASE k \notin Again(c) /\ k \notin Sent(c)
      <4>1. call'[k] = call[k]
        BY <3>3, <1>4
      <4>2. CallHeld(man, conn, call[k]) /\ call[k].st \in {"none", "connecting", "sent"}
        BY <1>1 DEF CallsHeld, CallRec
      <4>3. call[k].st # "none" => call[k].conn # c
        BY <3>3, <4>2 DEF CallHeld, Sent
      <4>4. QED BY <4>1, <4>3
    <3>4. QED BY <3>1, <3>2, <3>3
  <2>4. QED BY <2>1, <2>2, <2>3, <1>9, CallsMove
<1>11. \A u \in Servers : ~ man[m].done /\ u > man[m].at =>
          man'[m].clients[u] = 0 /\ man'[m].pending[u] = 0
  <2>1. CASE First(c) = {}
    BY <2>1, <1>1, <1>2 DEF DiscoveryOK
  <2>2. CASE First(c) # {}
    <3>1. PICK k \in Calls : call[k].st = "sent" /\ call[k].conn = c
      BY <2>2 DEF First, Sent
    <3>2. man[m].done
      BY <3>1, <1>1 DEF CallsHeld, CallHeld
    <3>3. QED BY <3>2
  <2>3. QED BY <2>1, <2>2
<1>12. \A d \in Conns : conn'[d].st = "connecting" =>
         \/ conn'[d] = conn[d]
         \/ \E x \in Managers, t \in Servers : conn'[d] = Begun(x, t)
  BY <1>2, <1>3
<1>13. UNCHANGED <<parts, ready, registry, conv, user, changes, hushed>>
  BY <1>4
<1>14. called' \in 0 .. MaxCalls
  BY <1>1, <1>4
<1> HIDE DEF m, s
<1>15. QED
  BY <1>1, <1>2, <1>5, <1>10, <1>11, <1>12, <1>13, <1>14, WireStep

LEMMA LostKeeps ==
  ASSUME McpInv, NEW c \in Conns, Lost(c)
  PROVE  McpInv'
<1>1. /\ conn[c].st = "open" /\ losses' = losses + 1 /\ Gone(c, TRUE)
      /\ UNCHANGED <<parts, ready, registry, conv, user, changes>>
  BY DEF Lost
<1>2. losses' \in Nat
  BY <1>1, InvFacts
<1>3. QED BY <1>1, <1>2, GoneKeeps

LEMMA ClosedConnKeeps ==
  ASSUME McpInv, NEW c \in Conns, Closed(c)
  PROVE  McpInv'
<1>1. CASE Listing(conn[c].m, c)
  BY <1>1, ClosedDiscovers
<1>2. CASE ~ Listing(conn[c].m, c)
  <2>1. /\ conn[c].st = "closing" /\ Gone(c, FALSE) /\ losses' = losses
        /\ UNCHANGED <<parts, ready, registry, conv, user, changes>>
    BY <1>2 DEF Closed
  <2>2. losses' \in Nat
    BY <2>1, InvFacts
  <2>3. QED BY <2>1, <2>2, GoneKeeps
<1>3. QED BY <1>1, <1>2

(***************************************************************************)
(* Calls.                                                                  *)
(***************************************************************************)
\* What an agent finds in an open session is a tool its server has offered, of
\* the manager in force.
LEMMA FoundIsOpen ==
  ASSUME McpInv, session = "open", NEW a \in Agents, NEW s \in Servers,
         registry[a][s] # 0
  PROVE  /\ registry[a][s] = mcp /\ mcp \in Managers /\ man[mcp].phase = "open"
         /\ man[mcp].done /\ s \in man[mcp].config
<1>1. registry[a][s] = mcp /\ man[mcp].done /\ s \in man[mcp].found
  BY DEF McpInv, ToolInv
<1>2. mcp \in Managers /\ man[mcp].phase = "open"
  BY DEF McpInv, SessionTypes, OpenInv, Open
<1>3. man[mcp].found \subseteq man[mcp].config
  BY <1>2, InvFacts DEF DiscoveryOK
<1>4. QED BY <1>1, <1>2, <1>3

\* A call begins: it is sent, or waits for a connection.
NewCall(a, m, st, c, n) ==
    [[[[NoCall EXCEPT !.by = a, !.m = m] EXCEPT !.st = st] EXCEPT !.conn = c]
       EXCEPT !.try = n]

LEMMA NewCallFacts ==
  ASSUME Assumed, NEW a \in Agents, NEW m \in 0 .. MaxManagers,
         NEW st \in {"none", "connecting", "sent"}, NEW c \in 0 .. MaxConns,
         NEW n \in 1 .. 2
  PROVE  /\ NewCall(a, m, st, c, n) \in CallRec
         /\ NewCall(a, m, st, c, n).st = st /\ NewCall(a, m, st, c, n).conn = c
         /\ NewCall(a, m, st, c, n).m = m
BY DEF NewCall, NoCall, CallRec

\* One call changes; the connections others wait for stay.
LEMMA OneCallMoves ==
  ASSUME McpInv, NEW k \in Calls, NEW r \in CallRec, call' = [call EXCEPT ![k] = r],
         r.st = "none" \/ CallHeld(man', conn', r),
         \A x \in Managers : man'[x].done = man[x].done,
         \A d \in Conns :
            /\ conn[d].st = "connecting" =>
                  conn'[d].st = "connecting" /\ conn'[d].m = conn[d].m
            /\ conn[d].st \in {"open", "closing"} =>
                  conn'[d].st \in {"open", "closing"} /\ conn'[d].m = conn[d].m
  PROVE  CallInv'
<1> DEFINE X == {}
<1>1. call \in [Calls -> CallRec]
  BY InvFacts
<1>2. call' \in [Calls -> CallRec]
  BY <1>1
<1>3. ASSUME NEW j \in Calls
      PROVE  \/ call'[j].st = "none"
             \/ /\ call'[j].st = call[j].st /\ call'[j].conn = call[j].conn
                /\ call'[j].m = call[j].m /\ call[j].conn \notin X
             \/ CallHeld(man', conn', call'[j])
  <2>1. CASE j = k
    BY <2>1, <1>1
  <2>2. CASE j # k
    BY <2>2, <1>1
  <2>3. QED BY <2>1, <2>2
<1>4. \A d \in Conns : d \notin X =>
            /\ conn[d].st = "connecting" =>
                  conn'[d].st = "connecting" /\ conn'[d].m = conn[d].m
            /\ conn[d].st \in {"open", "closing"} =>
                  conn'[d].st \in {"open", "closing"} /\ conn'[d].m = conn[d].m
  OBVIOUS
<1> HIDE DEF X
<1>5. QED BY <1>2, <1>3, <1>4, CallsMove

\* One call changes and no connection.
LEMMA OneCallKeeps ==
  ASSUME McpInv, NEW k \in Calls, NEW r \in CallRec, call' = [call EXCEPT ![k] = r],
         r.st = "none" \/ CallHeld(man, conn, r), called' \in 0 .. MaxCalls,
         UNCHANGED <<wires, parts, ready, registry, conv, user, losses, changes,
                     undue, hushed>>
  PROVE  McpInv'
<1>1. man' = man /\ conn' = conn
  BY DEF wires
<1>2. /\ Wires(man, conn) /\ undue \subseteq {"dropped"} /\ losses \in Nat
      /\ \A x \in Managers : DiscoveryOK(man[x])
  BY InvFacts
<1>3. CallInv'
  BY <1>1, OneCallMoves
<1>4. Wires(man', conn') /\ DiscoveryInv'
  BY <1>1, <1>2 DEF DiscoveryInv
<1>5. Quiet
  BY <1>1, <1>2 DEF Quiet
<1>6. QED BY <1>3, <1>4, <1>5, QuietKeeps

LEMMA AnsweredKeeps ==
  ASSUME McpInv, NEW k \in Calls, Answered(k)
  PROVE  McpInv'
<1>1. NoCall \in CallRec /\ NoCall.st = "none"
  BY InvFacts DEF NoCall, CallRec, Agents, Assumed
<1>2. called \in 0 .. MaxCalls
  BY InvFacts
<1>3. /\ call' = [call EXCEPT ![k] = NoCall] /\ called' = called
      /\ UNCHANGED <<wires, parts, ready, registry, conv, user, losses, changes,
                     undue, hushed>>
  BY DEF Answered, history
<1>4. QED BY <1>1, <1>2, <1>3, OneCallKeeps

\* A call that goes through what is registered, or waits with others.
LEMMA CallToolShares ==
  ASSUME McpInv, NEW k \in Calls, NEW a \in Agents, NEW s \in Servers,
         CallTool(k, a, s),
         \/ man[mcp].clients[s] # 0 /\ conn[man[mcp].clients[s]].st # "dead"
         \/ man[mcp].pending[s] # 0
  PROVE  McpInv'
<1> DEFINE c == man[mcp].clients[s]
           p == man[mcp].pending[s]
           begins == [NoCall EXCEPT !.by = a, !.m = mcp]
<1>1. /\ registry[a][s] = mcp /\ mcp \in Managers /\ man[mcp].phase = "open"
      /\ man[mcp].done /\ s \in man[mcp].config
  BY FoundIsOpen DEF CallTool
<1>2. /\ Assumed /\ called \in 0 .. MaxCalls /\ c \in Conns \cup {0}
      /\ p \in Conns \cup {0} /\ PendingIsThere(conn, mcp, s, p, c)
      /\ ClientIsThere(conn, mcp, s, c)
  BY <1>1, InvFacts
<1>3. /\ called < MaxCalls /\ called' = called + 1
      /\ IF c # 0 /\ conn[c].st # "dead"
         THEN call' = [call EXCEPT ![k] = [begins EXCEPT !.st = "sent", !.conn = c]]
         ELSE call' = [call EXCEPT ![k] =
                         [begins EXCEPT !.st = "connecting", !.conn = p]]
      /\ UNCHANGED <<wires, parts, ready, registry, conv, user, losses, changes,
                     undue, hushed>>
  BY <1>1 DEF CallTool, Open
<1>4. called' \in 0 .. MaxCalls
  BY <1>2, <1>3 DEF Assumed
<1>5. mcp \in 0 .. MaxManagers /\ 1 \in 1 .. 2
  BY <1>1 DEF Managers
<1>6. ASSUME NEW st \in {"connecting", "sent"}, NEW d \in Conns,
             [begins EXCEPT !.st = st, !.conn = d] \in CallRec,
             conn[d].m = mcp,
             st = "connecting" => conn[d].st = "connecting",
             st = "sent" => conn[d].st \in {"open", "closing"},
             call' = [call EXCEPT ![k] = [begins EXCEPT !.st = st, !.conn = d]]
      PROVE  McpInv'
  <2> DEFINE r == [begins EXCEPT !.st = st, !.conn = d]
  <2>1. r.st = st /\ r.conn = d /\ r.m = mcp
    BY DEF NoCall
  <2>2. r \in CallRec /\ call' = [call EXCEPT ![k] = r]
    BY <1>6
  <2> HIDE DEF r
  <2>3. CallHeld(man, conn, r)
    BY <2>1, <1>1, <1>6 DEF CallHeld
  <2>4. QED BY <2>2, <2>3, <1>3, <1>4, OneCallKeeps
<1>7. \A d \in Conns : d \in 0 .. MaxConns
  BY DEF Conns
<1>8. \A st \in {"connecting", "sent"}, d \in Conns :
         [begins EXCEPT !.st = st, !.conn = d] \in CallRec
  BY <1>2, <1>5, <1>7 DEF NoCall, CallRec
<1> HIDE DEF c, p, begins
<1>9. CASE c # 0 /\ conn[c].st # "dead"
  <2>1. c \in Conns /\ conn[c].m = mcp /\ conn[c].st \in {"open", "closing"}
    BY <1>9, <1>2 DEF ClientIsThere
  <2>2. QED BY <2>1, <1>3, <1>6, <1>8, <1>9
<1>10. CASE ~ (c # 0 /\ conn[c].st # "dead")
  <2>1. p # 0
    BY <1>10 DEF p, c
  <2>2. p \in Conns /\ conn[p].m = mcp /\ conn[p].st = "connecting"
    BY <2>1, <1>2 DEF PendingIsThere
  <2>3. QED BY <2>2, <1>3, <1>6, <1>8, <1>10
<1>11. QED BY <1>9, <1>10

\* A call tries again, or for the first time where nothing is left: what is
\* registered is dropped, and it waits for the next connection.
LEMMA CallRetries ==
  ASSUME McpInv, NEW k \in Calls, NEW m \in Managers, NEW s \in Servers,
         man[m].phase = "open", man[m].done, s \in man[m].config,
         RoomFor(man[m].pending[s] = 0),
         Retries(m, s, Dropped(conn, man[m].clients[s])),
         NEW r \in CallRec, r.st = "connecting", r.conn = NextConn(m, s), r.m = m,
         call' = [call EXCEPT ![k] = r],
         called' \in 0 .. MaxCalls, losses' \in Nat, undue' = undue,
         UNCHANGED <<parts, ready, registry, conv, user, changes, hushed>>
  PROVE  McpInv'
<1> DEFINE d0 == man[m].clients[s]
           cs == Dropped(conn, d0)
<1>1. /\ Wires(man, conn) /\ man \in [Managers -> ManRec] /\ Assumed
      /\ conn \in [Conns -> ConnRec] /\ d0 \in Conns \cup {0}
      /\ ClientIsThere(conn, m, s, d0) /\ undue \subseteq {"dropped"}
      /\ \A d \in Conns : d # 0
  BY InvFacts
<1>2. Wires(Holding(man, m, s, 0), cs)
  BY <1>1, DropKeeps
<1>3. \A e \in Conns :
        \/ cs[e] = conn[e]
        \/ e = d0 /\ conn[e].st = "dead" /\ cs[e].st = "none"
        \/ /\ e = d0 /\ conn[e].st # "dead" /\ cs[e].st = "closing"
           /\ cs[e].m = conn[e].m /\ cs[e].s = conn[e].s
  BY <1>1, DroppedFacts
<1>4. \A e \in Conns :
        /\ conn[e].st = "none" => cs[e].st = "none"
        /\ conn[e].st = "connecting" => cs[e] = conn[e]
        /\ cs[e].st = "connecting" => cs[e] = conn[e]
        /\ conn[e].st \in {"open", "closing"} =>
             cs[e].st \in {"open", "closing"} /\ cs[e].m = conn[e].m
  BY <1>1, <1>3 DEF ClientIsThere
<1>5. Retries(m, s, cs)
  OBVIOUS
<1> HIDE DEF cs, d0
<1>6. /\ Wires(man', conn')
      /\ NextConn(m, s) \in Conns /\ conn'[NextConn(m, s)].st = "connecting"
      /\ conn'[NextConn(m, s)].m = m
      /\ \A d \in Conns : \/ conn'[d] = cs[d]
                          \/ cs[d].st = "none" /\ conn'[d] = Begun(m, s)
      /\ \A x \in Managers :
              /\ x # m => man'[x] = man[x]
              /\ man'[x].phase = man[x].phase /\ man'[x].config = man[x].config
              /\ SameScan(man'[x], man[x])
  BY <1>1, <1>2, <1>4, <1>5, RetryWires
<1>7. \A d \in Conns :
        /\ conn[d].st = "connecting" =>
              conn'[d].st = "connecting" /\ conn'[d].m = conn[d].m
        /\ conn[d].st \in {"open", "closing"} =>
              conn'[d].st \in {"open", "closing"} /\ conn'[d].m = conn[d].m
        /\ conn'[d].st = "connecting" =>
             \/ conn'[d] = conn[d]
             \/ \E x \in Managers, t \in Servers : conn'[d] = Begun(x, t)
  BY <1>4, <1>6
<1>8. CallHeld(man', conn', r)
  BY <1>6 DEF CallHeld, SameScan
<1>9. CallInv'
  <2>1. \A x \in Managers : man'[x].done = man[x].done
    BY <1>6 DEF SameScan
  <2>2. QED BY <2>1, <1>7, <1>8, OneCallMoves
<1>10. man' \in [Managers -> ManRec]
  BY <1>6 DEF Wires, WireTypes
<1>11. undue' \subseteq {"dropped"}
  BY <1>1
<1>12. QED BY <1>6, <1>7, <1>9, <1>10, <1>11, WireStep

\* A call where nothing is registered that answers.
LEMMA CallToolBegins ==
  ASSUME McpInv, NEW k \in Calls, NEW a \in Agents, NEW s \in Servers,
         CallTool(k, a, s), man[mcp].pending[s] = 0,
         man[mcp].clients[s] = 0 \/ conn[man[mcp].clients[s]].st = "dead"
  PROVE  McpInv'
<1> DEFINE c == man[mcp].clients[s]
           n == IF c = 0 THEN 1 ELSE 2
           begins == [NoCall EXCEPT !.by = a, !.m = mcp]
           r == [begins EXCEPT !.st = "connecting", !.conn = Slot, !.try = n]
<1>1. /\ registry[a][s] = mcp /\ mcp \in Managers /\ man[mcp].phase = "open"
      /\ man[mcp].done /\ s \in man[mcp].config
  BY FoundIsOpen DEF CallTool
<1>2. /\ Assumed /\ called \in 0 .. MaxCalls /\ losses \in Nat
  BY InvFacts
<1>3. /\ called < MaxCalls /\ called' = called + 1 /\ RoomFor(TRUE)
      /\ call' = [call EXCEPT ![k] = r]
      /\ man' = [man EXCEPT ![mcp].clients[s] = 0, ![mcp].pending[s] = Slot]
      /\ conn' = [Dropped(conn, c) EXCEPT ![Slot] = Begun(mcp, s)]
      /\ undue' = undue /\ losses' = losses
      /\ UNCHANGED <<parts, ready, registry, conv, user, changes, hushed>>
  BY <1>1 DEF CallTool, Open
<1>4. called' \in 0 .. MaxCalls /\ losses' \in Nat
  BY <1>2, <1>3 DEF Assumed
<1>5. NextConn(mcp, s) = Slot
  BY DEF NextConn
<1>6. Retries(mcp, s, Dropped(conn, c))
  BY <1>3, <1>5 DEF Retries
<1>7. Slot \in 0 .. MaxConns /\ mcp \in 0 .. MaxManagers /\ n \in 1 .. 2
  BY <1>1, <1>2, <1>3, SlotIsFree DEF Conns, Managers, Assumed
<1>8. r \in CallRec /\ r.st = "connecting" /\ r.conn = Slot /\ r.m = mcp
  <2> HIDE DEF n
  <2>1. QED BY <1>2, <1>7 DEF NoCall, CallRec
<1>9. RoomFor(man[mcp].pending[s] = 0)
  BY <1>3 DEF RoomFor
<1>10. r.conn = NextConn(mcp, s)
  BY <1>5, <1>8
<1> HIDE DEF r, n
<1>11. QED BY <1>1, <1>3, <1>4, <1>6, <1>8, <1>9, <1>10, CallRetries

LEMMA CallToolKeeps ==
  ASSUME McpInv, NEW k \in Calls, NEW a \in Agents, NEW s \in Servers,
         CallTool(k, a, s)
  PROVE  McpInv'
BY CallToolShares, CallToolBegins

LEMMA ProtocolErrorKeeps ==
  ASSUME McpInv, NEW k \in Calls, ProtocolError(k)
  PROVE  McpInv'
<1> DEFINE c == call[k].conn
           m == conn[c].m
           s == conn[c].s
           p == NextConn(m, s)
           r == NextTry(call[k], p)
<1>1. /\ Assumed /\ called \in 0 .. MaxCalls /\ losses \in Nat
      /\ man \in [Managers -> ManRec] /\ call[k] \in CallRec
      /\ CallHeld(man, conn, call[k])
  BY InvFacts DEF CallsHeld
<1>2. /\ call[k].st = "sent" /\ Open(m) /\ losses' = losses + 1
      /\ RoomFor(man[m].pending[s] = 0)
      /\ call' = [call EXCEPT ![k] = r]
      /\ man' = [man EXCEPT ![m].clients[s] = 0, ![m].pending[s] = p]
      /\ conn' = IF man[m].pending[s] # 0 THEN Dropped(conn, man[m].clients[s])
                 ELSE [Dropped(conn, man[m].clients[s]) EXCEPT ![Slot] = Begun(m, s)]
      /\ called' = called /\ undue' = undue
      /\ UNCHANGED <<parts, ready, registry, conv, user, changes, hushed>>
  BY DEF ProtocolError, NextConn, NextTry, history
<1>3. /\ c \in Conns /\ m \in Managers /\ man[m].done /\ call[k].m = m
      /\ conn[c].st \in {"open", "closing"}
  BY <1>1, <1>2 DEF CallHeld
<1>4. s \in Servers /\ s \in man[m].config /\ man[m].phase = "open"
  BY <1>2, <1>3, InvFacts DEF ConnHeld, Open
<1>5. Retries(m, s, Dropped(conn, man[m].clients[s]))
  BY <1>2 DEF Retries
<1>6. p \in 0 .. MaxConns
  <2>1. CASE man[m].pending[s] = 0
    <3>1. RoomFor(TRUE)
      BY <2>1, <1>2
    <3>2. QED BY <2>1, <3>1, <1>1, SlotIsFree DEF NextConn, Conns
  <2>2. CASE man[m].pending[s] # 0
    BY <2>2, <1>3, <1>4, InvFacts DEF NextConn, Conns
  <2>3. QED BY <2>1, <2>2
<1> HIDE DEF p
<1>7. r \in CallRec /\ r.st = "connecting" /\ r.conn = p /\ r.m = m
  BY <1>1, <1>3, <1>6, NextTryFacts
<1>8. losses' \in Nat /\ called' \in 0 .. MaxCalls
  <2>1. losses' = losses + 1 /\ called' = called
    BY <1>2
  <2>2. losses \in Nat /\ called \in 0 .. MaxCalls
    BY <1>1
  <2>3. QED BY <2>1, <2>2
<1>9. r.conn = NextConn(m, s)
  BY <1>7 DEF p
<1> HIDE DEF r, m, s
<1>10. QED BY <1>2, <1>3, <1>4, <1>5, <1>7, <1>8, <1>9, CallRetries

(***************************************************************************)
(* A manager is closed.                                                    *)
(***************************************************************************)
\* Calls stay as they are, and the connections they wait for.
LEMMA CallsStay ==
  ASSUME McpInv, call' = call,
         \A x \in Managers : man'[x].done = man[x].done,
         \A d \in Conns :
            /\ conn[d].st = "connecting" =>
                  conn'[d].st = "connecting" /\ conn'[d].m = conn[d].m
            /\ conn[d].st \in {"open", "closing"} =>
                  conn'[d].st \in {"open", "closing"} /\ conn'[d].m = conn[d].m
  PROVE  CallInv'
<1> DEFINE X == {}
<1>1. call' \in [Calls -> CallRec]
  BY InvFacts
<1>2. \A k \in Calls :
        \/ call'[k].st = "none"
        \/ /\ call'[k].st = call[k].st /\ call'[k].conn = call[k].conn
           /\ call'[k].m = call[k].m /\ call[k].conn \notin X
        \/ CallHeld(man', conn', call'[k])
  OBVIOUS
<1>3. \A d \in Conns : d \notin X =>
            /\ conn[d].st = "connecting" =>
                  conn'[d].st = "connecting" /\ conn'[d].m = conn[d].m
            /\ conn[d].st \in {"open", "closing"} =>
                  conn'[d].st \in {"open", "closing"} /\ conn'[d].m = conn[d].m
  OBVIOUS
<1> HIDE DEF X
<1>4. QED BY <1>1, <1>2, <1>3, CallsMove

LEMMA SweepNextKeeps ==
  ASSUME McpInv, NEW m \in Managers, SweepNext(m)
  PROVE  McpInv'
<1>1. PICK c \in Registered(m) :
         /\ conn[c].st = "open"
         /\ conn' = [conn EXCEPT ![c].st = "closing", ![c].swept = TRUE]
  BY DEF SweepNext
<1>2. /\ man' = man /\ call' = call /\ losses' = losses
      /\ called' = called /\ undue' = undue
      /\ UNCHANGED <<parts, ready, registry, conv, user, changes, hushed>>
  BY DEF SweepNext, history
<1>3. /\ Wires(man, conn) /\ conn \in [Conns -> ConnRec]
      /\ undue \subseteq {"dropped"} /\ losses \in Nat /\ called \in 0 .. MaxCalls
      /\ \A x \in Managers : DiscoveryOK(man[x])
  BY InvFacts
<1>4. c \in Conns
  BY <1>1, InvFacts DEF Registered
<1> DEFINE r1 == [conn[c] EXCEPT !.st = "closing"]
           r == [r1 EXCEPT !.swept = TRUE]
<1>5. conn' = [conn EXCEPT ![c] = r]
  BY <1>1, <1>3, <1>4
<1>6. r1 \in ConnRec /\ r1.st = "closing" /\ r1.m = conn[c].m /\ r1.s = conn[c].s
  BY <1>3, <1>4 DEF ConnRec
<1> HIDE DEF r1
<1>7. r \in ConnRec /\ r.st = "closing" /\ r.m = conn[c].m /\ r.s = conn[c].s
  BY <1>6 DEF ConnRec
<1> HIDE DEF r
<1>8. Wires(man', conn')
  <2>1. conn[c].st \in {"open", "dead", "closing"}
    BY <1>1
  <2>2. \/ man[conn[c].m].clients[conn[c].s] # c /\ r = NoConn
        \/ r.m = conn[c].m /\ r.s = conn[c].s /\ r.st \in {"dead", "closing"}
    BY <1>7
  <2>3. Wires(man, [conn EXCEPT ![c] = r])
    BY <1>3, <1>4, <1>7, <2>1, <2>2, MarkKeeps
  <2>4. QED BY <2>3, <1>2, <1>5
<1>9. \A d \in Conns : conn'[d] = IF d = c THEN r ELSE conn[d]
  BY <1>3, <1>5
<1>10. CallInv'
  BY <1>1, <1>2, <1>7, <1>9, CallsStay
<1>11. DiscoveryInv'
  BY <1>2, <1>3 DEF DiscoveryInv
<1>12. Quiet
  BY <1>2, <1>3, <1>7, <1>9 DEF Quiet
<1>13. QED BY <1>8, <1>10, <1>11, <1>12, QuietKeeps

\* A manager that is being closed gets on with it.
Paced(m, phase) == [man EXCEPT ![m] = [man[m] EXCEPT !.phase = phase]]

LEMMA PacedKeeps ==
  ASSUME McpInv, NEW m \in Managers, NEW ph \in {"sweeping", "awaiting"},
         man[m].phase \in {"sweeping", "awaiting"},
         man' = Paced(m, ph), conn' = conn, call' = call, losses' = losses,
         called' = called, undue' = undue,
         UNCHANGED <<parts, ready, registry, conv, user, changes, hushed>>
  PROVE  McpInv'
<1> DEFINE r == [man[m] EXCEPT !.phase = ph]
<1>1. /\ Wires(man, conn) /\ man \in [Managers -> ManRec]
      /\ undue \subseteq {"dropped"} /\ losses \in Nat /\ called \in 0 .. MaxCalls
      /\ \A x \in Managers : DiscoveryOK(man[x]) /\ man[x] \in ManRec
  BY InvFacts
<1>2. /\ r \in ManRec /\ r.phase = ph /\ r.config = man[m].config
      /\ r.clients = man[m].clients /\ r.pending = man[m].pending
      /\ SameScan(r, man[m])
  BY <1>1 DEF ManRec, Phases, SameScan
<1>3. man' = [man EXCEPT ![m] = r]
  BY DEF Paced
<1> HIDE DEF r
<1>4. /\ man' \in [Managers -> ManRec] /\ man'[m] = r
      /\ \A x \in Managers : x # m => man'[x] = man[x]
  BY <1>1, <1>2, <1>3
<1>5. /\ DiscoveryOK(r)
  BY <1>1, <1>2 DEF DiscoveryOK, SameScan
<1>6. Wires(man', conn)
  <2>1. \A x \in Managers :
            /\ man'[x].clients = man[x].clients /\ man'[x].pending = man[x].pending
            /\ man'[x].config = man[x].config
            /\ man[x].phase # "none" => man'[x].phase # "none"
            /\ man'[x].phase = "closed" => man[x].phase = "closed"
    BY <1>2, <1>4
  <2>2. QED BY <2>1, <1>1, <1>4, ManagerKeeps
<1>7. DiscoveryInv'
  BY <1>1, <1>4, <1>5 DEF DiscoveryInv
<1>8. Quiet
  BY <1>1, <1>2, <1>4 DEF Quiet, SameScan
<1>9. CallInv'
  <2>1. \A x \in Managers : man'[x].done = man[x].done
    BY <1>2, <1>4 DEF SameScan
  <2>2. QED BY <2>1, CallsStay
<1>10. QED BY <1>6, <1>7, <1>8, <1>9, QuietKeeps

LEMMA SweepAgainKeeps ==
  ASSUME McpInv, NEW m \in Managers, SweepAgain(m)
  PROVE  McpInv'
<1>1. /\ man[m].phase \in {"sweeping", "awaiting"}
      /\ man' = Paced(m, "sweeping") /\ conn' = conn /\ call' = call
      /\ losses' = losses /\ called' = called /\ undue' = undue
      /\ UNCHANGED <<parts, ready, registry, conv, user, changes, hushed>>
  BY DEF SweepAgain, history, Paced
<1>2. QED BY <1>1, PacedKeeps

\* Nothing is on the way and everything registered has ended.
LEMMA SweepEndsClosed ==
  ASSUME McpInv, NEW m \in Managers, SweepEnds(m), ~ OnTheWay(m)
  PROVE  McpInv'
<1> DEFINE fnd == IF m = mcp THEN man[m].found ELSE {}
           r1 == [man[m] EXCEPT !.phase = "closed"]
           r2 == [r1 EXCEPT !.clients = NoMap]
           r == [r2 EXCEPT !.found = fnd]
           cs == [c \in Conns |-> IF c \in Registered(m) /\ conn[c].st = "dead"
                                  THEN NoConn ELSE conn[c]]
<1>1. /\ Wires(man, conn) /\ man \in [Managers -> ManRec] /\ Assumed
      /\ conn \in [Conns -> ConnRec]
      /\ undue \subseteq {"dropped"} /\ losses \in Nat /\ called \in 0 .. MaxCalls
      /\ \A x \in Managers : DiscoveryOK(man[x]) /\ man[x] \in ManRec
      /\ \A x \in Managers, s \in Servers :
           /\ man[x].pending[s] \in Conns \cup {0}
           /\ man[x].clients[s] \in Conns \cup {0}
  BY InvFacts
<1>2. /\ man[m].phase = "sweeping"
      /\ \A c \in Registered(m) : conn[c].st # "open"
      /\ man' = [man EXCEPT ![m] = r] /\ conn' = cs /\ call' = call
      /\ losses' = losses /\ called' = called /\ undue' = undue
      /\ UNCHANGED <<parts, ready, registry, conv, user, changes, hushed>>
  <2>1. man' = [man EXCEPT ![m].phase = "closed", ![m].clients = NoMap,
                           ![m].found = IF m = mcp THEN @ ELSE {}]
    BY DEF SweepEnds
  <2>2. man' = [man EXCEPT ![m] = r]
    BY <2>1, <1>1
  <2>3. QED BY <2>2 DEF SweepEnds, history
<1>3. NoMap \in [Servers -> 0 .. MaxConns] /\ \A t \in Servers : NoMap[t] = 0
  BY <1>1 DEF NoMap, Assumed
<1>4. fnd \subseteq man[m].found /\ fnd \in SUBSET Servers
  BY <1>1 DEF ManRec
<1>5. r1 \in ManRec /\ r1.phase = "closed" /\ r1.config = man[m].config
      /\ r1.pending = man[m].pending /\ r1.at = man[m].at /\ r1.auth = man[m].auth
      /\ r1.done = man[m].done
  BY <1>1 DEF ManRec, Phases
<1> HIDE DEF r1
<1>6. r2 \in ManRec /\ r2.phase = "closed" /\ r2.config = man[m].config
      /\ r2.pending = man[m].pending /\ r2.at = man[m].at /\ r2.auth = man[m].auth
      /\ r2.done = man[m].done /\ r2.clients = NoMap
  BY <1>3, <1>5 DEF ManRec
<1> HIDE DEF r2
<1>7. r \in ManRec /\ r.phase = "closed" /\ r.config = man[m].config
      /\ r.pending = man[m].pending /\ r.at = man[m].at /\ r.auth = man[m].auth
      /\ r.done = man[m].done /\ r.clients = NoMap /\ r.found = fnd
  BY <1>4, <1>6 DEF ManRec
<1> HIDE DEF r
<1>8. /\ man'[m] = r /\ \A x \in Managers : x # m => man'[x] = man[x]
  BY <1>1, <1>2
<1>9. DiscoveryOK(r)
  <2>1. \A t \in Servers : r.pending[t] = 0
    BY <1>7 DEF OnTheWay
  <2>2. DiscoveryOK(man[m])
    BY <1>1
  <2>3. QED BY <2>1, <2>2, <1>2, <1>3, <1>4, <1>7 DEF DiscoveryOK
<1>10. NoConn \in ConnRec /\ NoConn.st = "none"
  BY <1>1 DEF NoConn, ConnRec, Assumed
<1>11. /\ cs \in [Conns -> ConnRec]
       /\ \A c \in Conns :
            \/ cs[c] = conn[c]
            \/ /\ cs[c] = NoConn /\ conn[c].st = "dead"
               /\ \E t \in Servers : man[m].clients[t] = c
  BY <1>1, <1>10 DEF Registered
<1> HIDE DEF cs
<1>12. Wires([man EXCEPT ![m] = r], cs)
  <2>1. \A t \in Servers :
            /\ man[m].pending[t] = 0
            /\ man[m].clients[t] # 0 => conn[man[m].clients[t]].st # "open"
    BY <1>2 DEF OnTheWay, Registered
  <2>2. \A c \in Conns :
            \/ cs[c] = conn[c]
            \/ cs[c] = NoConn /\ \E t \in Servers : man[m].clients[t] = c
    BY <1>11
  <2>3. man[m].phase # "none"
    BY <1>2
  <2>4. Wires(man, conn) /\ cs \in [Conns -> ConnRec]
    BY <1>1, <1>11
  <2>5. QED BY <2>1, <2>2, <2>3, <2>4, <1>7, ClosedKeeps
<1>13. Wires(man', conn') /\ DiscoveryInv'
  BY <1>1, <1>2, <1>8, <1>9, <1>12 DEF DiscoveryInv
<1>14. CallInv'
  <2>1. \A x \in Managers : man'[x].done = man[x].done
    BY <1>7, <1>8
  <2>2. \A d \in Conns :
            /\ conn[d].st = "connecting" =>
                  conn'[d].st = "connecting" /\ conn'[d].m = conn[d].m
            /\ conn[d].st \in {"open", "closing"} =>
                  conn'[d].st \in {"open", "closing"} /\ conn'[d].m = conn[d].m
    BY <1>2, <1>11
  <2>3. QED BY <2>1, <2>2, <1>2, CallsStay
<1>15. Quiet
  <2>1. \A d \in Conns : conn'[d].st = "connecting" => conn'[d] = conn[d]
    BY <1>2, <1>10, <1>11
  <2>2. m = mcp => r.found = man[m].found
    BY <1>7
  <2>3. QED BY <2>1, <2>2, <1>1, <1>2, <1>7, <1>8 DEF Quiet
<1>16. QED BY <1>13, <1>14, <1>15, QuietKeeps

LEMMA SweepEndsKeeps ==
  ASSUME McpInv, NEW m \in Managers, SweepEnds(m)
  PROVE  McpInv'
<1>1. CASE OnTheWay(m)
  <2>1. /\ man[m].phase \in {"sweeping", "awaiting"}
        /\ man' = Paced(m, "awaiting") /\ conn' = conn /\ call' = call
        /\ losses' = losses /\ called' = called /\ undue' = undue
        /\ UNCHANGED <<parts, ready, registry, conv, user, changes, hushed>>
    BY <1>1 DEF SweepEnds, history, Paced
  <2>2. QED BY <2>1, PacedKeeps
<1>2. CASE ~ OnTheWay(m)
  BY <1>2, SweepEndsClosed
<1>3. QED BY <1>1, <1>2

(***************************************************************************)
(* The session.                                                            *)
(***************************************************************************)
LEMMA SameWires ==
  ASSUME McpInv, UNCHANGED wires
  PROVE  /\ Wires(man', conn') /\ DiscoveryInv'
         /\ call' = call => CallInv'
<1>1. man' = man /\ conn' = conn
  BY DEF wires
<1>2. Wires(man, conn) /\ DiscoveryInv /\ CallInv
  BY DEF McpInv
<1>3. Wires(man', conn') /\ DiscoveryInv'
  BY <1>1, <1>2 DEF DiscoveryInv
<1>4. call' = call => CallInv'
  BY <1>1, <1>2 DEF CallInv
<1>5. QED BY <1>3, <1>4

LEMMA PromptKeeps ==
  ASSUME McpInv, NEW p \in Prompts, Prompt(p)
  PROVE  McpInv'
<1>1. /\ session = "open"
      /\ prompt' = [prompt EXCEPT ![p] =
            [st |-> IF ready THEN "started" ELSE "waiting",
             on |-> IF ready THEN 0 ELSE host]]
      /\ streaming' = (streaming \/ ready)
      /\ call' = call /\ man' = man /\ conn' = conn
      /\ mcp' = mcp /\ host' = host /\ handled' = handled /\ ready' = ready
      /\ registry' = registry /\ session' = session
      /\ config' = config /\ granted' = granted /\ signIn' = signIn
      /\ losses' = losses /\ changes' = changes /\ called' = called
      /\ undue' = undue /\ hushed' = hushed
  BY DEF Prompt, wires, parts, user, history
<1>2. /\ SessionTypes /\ RegistryInv /\ OpenInv /\ ToolInv /\ AuthInv /\ PromptInv
      /\ CallsFailForCause
  BY DEF McpInv
<1>3. Wires(man', conn') /\ DiscoveryInv' /\ CallInv'
  BY <1>1, SameWires DEF wires
<1>4. /\ host \in Managers /\ host = mcp /\ (ready <=> man[host].done)
      /\ man[host].phase # "none"
  BY <1>1, <1>2 DEF SessionTypes, ToolInv, OpenInv
<1> DEFINE r == [st |-> IF ready THEN "started" ELSE "waiting",
                 on |-> IF ready THEN 0 ELSE host]
<1>5. /\ r.st \in {"started", "waiting"} /\ r.on \in 0 .. MaxManagers
      /\ r.st = "waiting" => r.on = host /\ ~ ready
      /\ r \in [st : {"none", "waiting", "left", "started", "dropped"},
                on : 0 .. MaxManagers]
  <2>1. 0 \in 0 .. MaxManagers /\ host \in 0 .. MaxManagers
    BY <1>4, InvFacts DEF Managers, Assumed
  <2>2. QED BY <1>4, <2>1
<1>6. /\ prompt' = [prompt EXCEPT ![p] = r]
      /\ prompt \in [Prompts -> [st : {"none", "waiting", "left", "started", "dropped"},
                               on : 0 .. MaxManagers]]
  BY <1>1, <1>2 DEF SessionTypes
<1> HIDE DEF r
<1>7. prompt' \in [Prompts -> [st : {"none", "waiting", "left", "started", "dropped"},
                               on : 0 .. MaxManagers]]
      /\ \A q \in Prompts : prompt'[q] = IF q = p THEN r ELSE prompt[q]
  BY <1>5, <1>6
<1>8. SessionTypes'
  BY <1>1, <1>2, <1>7 DEF SessionTypes
<1>9. RegistryInv' /\ OpenInv' /\ ToolInv' /\ AuthInv' /\ CallsFailForCause'
  BY <1>1, <1>2
     DEF RegistryInv, OpenInv, Open, ToolInv, AuthInv, Excused, CallsFailForCause
<1>10. PromptInv'
  <2>1. ASSUME NEW q \in Prompts, Waits(q)'
        PROVE  /\ prompt'[q].on \in Managers /\ man[prompt'[q].on].phase # "none"
               /\ ~ man[prompt'[q].on].done
    <3>1. CASE q = p
      BY <3>1, <2>1, <1>4, <1>5, <1>7 DEF Waits
    <3>2. CASE q # p
      BY <3>2, <2>1, <1>2, <1>7 DEF Waits, PromptInv
    <3>3. QED BY <3>1, <3>2
  <2>2. \A q \in Prompts :
           prompt'[q].st = "waiting" /\ prompt'[q].on # host => changes > 1
    BY <1>1, <1>2, <1>5, <1>7 DEF PromptInv
  <2>3. Undisturbed => (streaming' => ready)
    BY <1>1, <1>2 DEF PromptInv
  <2>4. QED BY <2>1, <2>2, <2>3, <1>1 DEF PromptInv, Undisturbed
<1>12. QED BY <1>3, <1>8, <1>9, <1>10 DEF McpInv

\* Calls are stopped: their requests end, or their waits will.
LEMMA StoppedFacts ==
  ASSUME McpInv, NEW as, call' = Stopped(as), UNCHANGED wires
  PROVE  CallInv'
<1>1. call \in [Calls -> CallRec] /\ NoCall \in CallRec /\ NoCall.st = "none"
  BY InvFacts DEF NoCall, CallRec, Agents, Assumed
<1>2. man' = man /\ conn' = conn
  BY DEF wires
<1> DEFINE r(k) == [call[k] EXCEPT !.stopped = TRUE]
           X == {}
<1>3. \A k \in Calls : /\ r(k) \in CallRec /\ r(k).st = call[k].st
                       /\ r(k).m = call[k].m /\ r(k).conn = call[k].conn
  BY <1>1 DEF CallRec
<1>4. call' = [k \in Calls |-> IF k \notin Pending(as) THEN call[k]
                               ELSE IF call[k].st = "sent" THEN NoCall ELSE r(k)]
  BY DEF Stopped
<1> HIDE DEF r
<1>5. call' \in [Calls -> CallRec]
  BY <1>1, <1>3, <1>4
<1>6. \A k \in Calls :
        \/ call'[k].st = "none"
        \/ /\ call'[k].st = call[k].st /\ call'[k].conn = call[k].conn
           /\ call'[k].m = call[k].m /\ call[k].conn \notin X
        \/ CallHeld(man', conn', call'[k])
  BY <1>1, <1>3, <1>4
<1> HIDE DEF X
<1>7. QED BY <1>2, <1>5, <1>6, CallsMove

\* A run ends, or is stopped.
LEMMA RunOverKeeps ==
  ASSUME McpInv, RunEnds \/ Stop
  PROVE  McpInv'
<1>1. /\ streaming' = FALSE /\ UNCHANGED wires
      /\ man' = man /\ conn' = conn
      /\ mcp' = mcp /\ host' = host /\ handled' = handled /\ ready' = ready
      /\ registry' = registry /\ session' = session /\ prompt' = prompt
      /\ config' = config /\ granted' = granted /\ signIn' = signIn
      /\ losses' = losses /\ changes' = changes /\ called' = called
      /\ undue' = undue /\ hushed' = hushed
      /\ call' = call \/ call' = Stopped({"main"})
  BY DEF RunEnds, Stop, wires, parts, user, history
<1>2. /\ SessionTypes /\ RegistryInv /\ OpenInv /\ ToolInv /\ AuthInv /\ PromptInv
      /\ CallsFailForCause
  BY DEF McpInv
<1>3. Wires(man', conn') /\ DiscoveryInv' /\ CallInv'
  BY <1>1, SameWires, StoppedFacts
<1>4. /\ SessionTypes' /\ RegistryInv' /\ OpenInv' /\ ToolInv' /\ AuthInv'
      /\ CallsFailForCause'
  BY <1>1, <1>2
     DEF SessionTypes, RegistryInv, OpenInv, Open, ToolInv, AuthInv, Excused,
         CallsFailForCause
<1>5. PromptInv'
  BY <1>1, <1>2 DEF PromptInv, Waits, Undisturbed
<1>6. QED BY <1>1, <1>3, <1>4, <1>5 DEF McpInv

LEMMA CloseKeeps ==
  ASSUME McpInv, Close
  PROVE  McpInv'
<1>1. /\ streaming' = FALSE /\ UNCHANGED wires
      /\ session = "open" /\ session' = "killing"
      /\ man' = man /\ conn' = conn
      /\ mcp' = mcp /\ host' = host /\ handled' = handled /\ ready' = ready
      /\ registry' = registry /\ prompt' = prompt
      /\ config' = config /\ granted' = granted /\ signIn' = signIn
      /\ losses' = losses /\ changes' = changes /\ called' = called
      /\ undue' = undue /\ hushed' = hushed
      /\ call' = Stopped(Agents)
  BY DEF Close, wires, parts, user, history
<1>2. /\ SessionTypes /\ RegistryInv /\ OpenInv /\ PromptInv /\ CallsFailForCause
  BY DEF McpInv
<1>3. Wires(man', conn') /\ DiscoveryInv' /\ CallInv'
  BY <1>1, SameWires, StoppedFacts
<1>4. /\ SessionTypes' /\ RegistryInv' /\ OpenInv' /\ ToolInv' /\ AuthInv'
      /\ CallsFailForCause'
  BY <1>1, <1>2
     DEF SessionTypes, RegistryInv, OpenInv, Open, ToolInv, AuthInv, CallsFailForCause
<1>5. PromptInv'
  BY <1>1, <1>2 DEF PromptInv, Waits
<1>6. QED BY <1>1, <1>3, <1>4, <1>5 DEF McpInv

LEMMA CloseResolvesKeeps ==
  ASSUME McpInv, CloseResolves
  PROVE  McpInv'
<1>1. /\ streaming' = streaming /\ UNCHANGED wires
      /\ session = "closing" /\ session' = "closed"
      /\ man' = man /\ conn' = conn /\ call' = call
      /\ mcp' = mcp /\ host' = host /\ handled' = handled /\ ready' = ready
      /\ registry' = registry /\ prompt' = prompt
      /\ config' = config /\ granted' = granted /\ signIn' = signIn
      /\ losses' = losses /\ changes' = changes /\ called' = called
      /\ undue' = undue /\ hushed' = hushed
  BY DEF CloseResolves, wires, parts, user, history
<1>2. /\ SessionTypes /\ RegistryInv /\ OpenInv /\ PromptInv /\ CallsFailForCause
  BY DEF McpInv
<1>3. Wires(man', conn') /\ DiscoveryInv' /\ CallInv'
  BY <1>1, SameWires
<1>4. /\ SessionTypes' /\ RegistryInv' /\ OpenInv' /\ ToolInv' /\ AuthInv'
      /\ CallsFailForCause'
  BY <1>1, <1>2
     DEF SessionTypes, RegistryInv, OpenInv, Open, ToolInv, AuthInv, CallsFailForCause
<1>5. PromptInv'
  BY <1>1, <1>2 DEF PromptInv, Waits
<1>6. QED BY <1>1, <1>3, <1>4, <1>5 DEF McpInv

\* Pool's last manager is no longer open.
LEMMA CloseServersKeeps ==
  ASSUME McpInv, CloseServers
  PROVE  McpInv'
<1> DEFINE r == [man[mcp] EXCEPT !.phase = "sweeping"]
<1>1. /\ streaming' = streaming /\ conn' = conn /\ call' = call
      /\ session = "killing" /\ session' = "closing"
      /\ mcp' = mcp /\ host' = host /\ handled' = handled /\ ready' = ready
      /\ registry' = registry /\ prompt' = prompt
      /\ config' = config /\ granted' = granted /\ signIn' = signIn
      /\ losses' = losses /\ changes' = changes /\ called' = called
      /\ undue' = undue /\ hushed' = hushed
      /\ man' = [man EXCEPT ![mcp] = r]
  BY DEF CloseServers, parts, user, history
<1>2. /\ SessionTypes /\ RegistryInv /\ OpenInv /\ PromptInv /\ CallsFailForCause
  BY DEF McpInv
<1>3. /\ Wires(man, conn) /\ man \in [Managers -> ManRec] /\ mcp \in Managers
      /\ \A x \in Managers : DiscoveryOK(man[x]) /\ (Open(x) => x = mcp)
      /\ man[mcp].phase = "open" /\ Assumed
  BY <1>1, <1>2, InvFacts DEF OpenInv, Open
<1>4. /\ r \in ManRec /\ r.phase = "sweeping" /\ r.config = man[mcp].config
      /\ r.clients = man[mcp].clients /\ r.pending = man[mcp].pending
      /\ SameScan(r, man[mcp])
  BY <1>3 DEF ManRec, Phases, SameScan
<1> HIDE DEF r
<1>5. /\ man' \in [Managers -> ManRec] /\ man'[mcp] = r
      /\ \A x \in Managers : x # mcp => man'[x] = man[x]
  BY <1>1, <1>3, <1>4
<1>6. DiscoveryInv'
  BY <1>3, <1>4, <1>5 DEF DiscoveryInv, DiscoveryOK, SameScan
<1>7. Wires(man', conn')
  <2>1. \A x \in Managers :
            /\ man'[x].clients = man[x].clients /\ man'[x].pending = man[x].pending
            /\ man'[x].config = man[x].config
            /\ man[x].phase # "none" => man'[x].phase # "none"
            /\ man'[x].phase = "closed" => man[x].phase = "closed"
    BY <1>4, <1>5
  <2>2. Wires(man', conn)
    BY <2>1, <1>3, <1>5, ManagerKeeps
  <2>3. QED BY <2>2, <1>1
<1>8. \A x \in Managers : /\ man'[x].done = man[x].done
                          /\ man'[x].phase = "none" <=> man[x].phase = "none"
  BY <1>3, <1>4, <1>5 DEF SameScan
<1>9. CallInv'
  BY <1>1, <1>8, CallsStay
<1>10. SessionTypes' /\ ToolInv' /\ AuthInv' /\ CallsFailForCause'
  BY <1>1, <1>2 DEF SessionTypes, ToolInv, AuthInv, CallsFailForCause
<1>11. OpenInv'
  <2>1. \A x \in Managers : man'[x].phase # "open"
    BY <1>3, <1>4, <1>5 DEF Open
  <2>2. man'[mcp].phase # "none"
    BY <1>4, <1>5
  <2>3. QED BY <2>1, <2>2, <1>1, <1>3 DEF OpenInv, Open
<1>12. RegistryInv'
  <2> SUFFICES ASSUME NEW a \in Agents, NEW t \in Servers, registry[a][t] # 0
               PROVE  man'[registry[a][t]].done
    BY <1>1 DEF RegistryInv
  <2>1. man[registry[a][t]].done /\ registry[a][t] \in Managers
    BY <1>2, <1>3 DEF RegistryInv, SessionTypes, Managers, Assumed
  <2>2. QED BY <2>1, <1>8
<1>13. PromptInv'
  BY <1>1, <1>2, <1>8 DEF PromptInv, Waits
<1>15. QED BY <1>6, <1>7, <1>9, <1>10, <1>11, <1>12, <1>13 DEF McpInv

LEMMA LeftFacts ==
  ASSUME SessionTypes
  PROVE  /\ Left \in [Prompts -> [st : {"none", "waiting", "left", "started", "dropped"},
                                  on : 0 .. MaxManagers]]
         /\ \A p \in Prompts : /\ Left[p].on = prompt[p].on
                               /\ Left[p].st # "waiting"
                               /\ Left[p].st \in {"waiting", "left"} <=> Waits(p)
<1> DEFINE R == [st : {"none", "waiting", "left", "started", "dropped"},
                 on : 0 .. MaxManagers]
<1>1. prompt \in [Prompts -> R]
  BY DEF SessionTypes
<1>2. ASSUME NEW p \in Prompts
      PROVE  LET q == [prompt[p] EXCEPT !.st = "left"] IN
             q \in R /\ q.st = "left" /\ q.on = prompt[p].on
  BY <1>1
<1>3. QED BY <1>1, <1>2 DEF Left, Waits

LEMMA RebuildKeeps ==
  ASSUME McpInv, Rebuild
  PROVE  McpInv'
<1>1. /\ streaming = FALSE /\ streaming' = FALSE /\ UNCHANGED wires
      /\ session = "open" /\ session' = session
      /\ man' = man /\ conn' = conn /\ call' = call
      /\ mcp' = mcp /\ host' = mcp /\ handled' = handled
      /\ ready' = (man[mcp].done \/ config = {})
      /\ registry' = IF man[mcp].done
                     THEN Added(registry, Agents, mcp, man[mcp].found) ELSE registry
      /\ prompt' = Left
      /\ config' = config /\ granted' = granted /\ signIn' = signIn
      /\ losses' = losses /\ changes' = changes + 1 /\ called' = called
      /\ undue' = undue /\ hushed' = hushed
  BY DEF Rebuild, wires, user, history, McpInv, SessionTypes
<1>2. /\ SessionTypes /\ RegistryInv /\ OpenInv /\ ToolInv /\ AuthInv /\ PromptInv
      /\ CallsFailForCause /\ Assumed
  BY InvFacts DEF McpInv
<1>3. Wires(man', conn') /\ DiscoveryInv' /\ CallInv'
  BY <1>1, SameWires
<1>4. /\ mcp \in Managers /\ mcp = host /\ host = handled /\ man[mcp].config = config
      /\ (ready <=> man[mcp].done) /\ man[mcp].phase # "none"
      /\ registry \in [Agents -> [Servers -> 0 .. MaxManagers]]
      /\ \A a \in Agents, s \in Servers :
           registry[a][s] = IF man[mcp].done /\ s \in man[mcp].found THEN mcp ELSE 0
  BY <1>1, <1>2 DEF SessionTypes, ToolInv, OpenInv
<1>5. ready' = ready
  <2>1. config = {} => man[mcp].done
    BY <1>4, InvFacts DEF DiscoveryOK
  <2>2. ready \in BOOLEAN
    BY <1>2 DEF SessionTypes
  <2>3. QED BY <2>1, <2>2, <1>1, <1>4
<1>6. registry' = registry
  <2>1. CASE man[mcp].done
    <3>1. registry' = [a \in Agents |-> [s \in Servers |->
              IF s \in man[mcp].found THEN mcp ELSE registry[a][s]]]
      BY <2>1, <1>1 DEF Added
    <3>2. \A a \in Agents : registry'[a] \in [Servers -> 0 .. MaxManagers]
                            /\ \A s \in Servers : registry'[a][s] = registry[a][s]
      BY <2>1, <3>1, <1>4 DEF Managers
    <3>3. \A a \in Agents : registry'[a] = registry[a]
      BY <3>2, <1>4
    <3>4. QED BY <3>1, <3>3, <1>4
  <2>2. CASE ~ man[mcp].done
    BY <2>2, <1>1
  <2>3. QED BY <2>1, <2>2
<1>7. /\ prompt' \in [Prompts -> [st : {"none", "waiting", "left", "started", "dropped"},
                                  on : 0 .. MaxManagers]]
      /\ \A p \in Prompts : /\ prompt'[p].on = prompt[p].on
                            /\ prompt'[p].st # "waiting"
                            /\ Waits(p)' <=> Waits(p)
  BY <1>1, <1>2, LeftFacts DEF Waits
<1>8. SessionTypes'
  <2>1. changes' \in Nat /\ changes' > 0
    BY <1>1, <1>2 DEF SessionTypes
  <2>2. QED BY <2>1, <1>1, <1>2, <1>4, <1>5, <1>6, <1>7 DEF SessionTypes
<1>9. RegistryInv' /\ OpenInv' /\ ToolInv' /\ AuthInv' /\ CallsFailForCause'
  BY <1>1, <1>2, <1>4, <1>5, <1>6
     DEF RegistryInv, OpenInv, Open, ToolInv, AuthInv, Excused, CallsFailForCause
<1>10. PromptInv'
  <2>1. \A q \in Prompts : Waits(q)' =>
           /\ prompt'[q].on \in Managers /\ man[prompt'[q].on].phase # "none"
           /\ ~ man[prompt'[q].on].done
    BY <1>2, <1>7 DEF PromptInv
  <2>2. QED BY <2>1, <1>1, <1>7 DEF PromptInv
<1>12. QED BY <1>3, <1>8, <1>9, <1>10 DEF McpInv

(***************************************************************************)
(* Sign-ins.                                                               *)
(***************************************************************************)
\* A step of a sign-in leaves the session alone, and no server of it asks for
\* one with less reason than before.
LEMMA SignInQuiet ==
  ASSUME McpInv, UNCHANGED <<wires, parts, ready, registry, prompt, others, config,
                             called, undue>>,
         granted' \subseteq NeedsAuth, hushed' \subseteq NeedsAuth,
         signIn' \in [s : NeedsAuth \cup {0}, st : {"none", "exchanging", "done"},
                      cancelled : BOOLEAN],
         signIn'.st # "none" => signIn'.s \in NeedsAuth /\ changes' > 0,
         changes' \in Nat, changes' >= changes,
         \A s \in Servers :
            session = "open" /\ s \in config => (Excused(s) => Excused(s)'),
         Undisturbed' => Undisturbed
  PROVE  McpInv'
<1>1. /\ streaming' = streaming /\ session' = session /\ UNCHANGED wires
      /\ man' = man /\ conn' = conn /\ call' = call
      /\ mcp' = mcp /\ host' = host /\ handled' = handled /\ ready' = ready
      /\ registry' = registry /\ prompt' = prompt
      /\ config' = config /\ losses' = losses /\ called' = called /\ undue' = undue
  BY DEF wires, parts, others
<1>2. /\ SessionTypes /\ RegistryInv /\ OpenInv /\ ToolInv /\ AuthInv /\ PromptInv
      /\ CallsFailForCause /\ Assumed
  BY InvFacts DEF McpInv
<1>3. Wires(man', conn') /\ DiscoveryInv' /\ CallInv'
  BY <1>1, SameWires
<1>4. SessionTypes'
  BY <1>1, <1>2 DEF SessionTypes
<1>5. RegistryInv' /\ OpenInv' /\ ToolInv' /\ CallsFailForCause'
  BY <1>1, <1>2
     DEF RegistryInv, OpenInv, Open, ToolInv, CallsFailForCause
<1>6. AuthInv'
  <2> SUFFICES ASSUME session = "open" PROVE AuthInv'
    BY <1>1 DEF AuthInv
  <2>1. ASSUME NEW s \in man[mcp].auth PROVE Excused(s)'
    <3>1. s \in Servers /\ Excused(s) /\ s \in config
      BY <1>2, InvFacts DEF SessionTypes, ManRec, AuthInv, DiscoveryOK, ToolInv, OpenInv
    <3>2. QED BY <3>1
  <2>2. ASSUME NEW c \in Conns, conn[c].st = "connecting", conn[c].m = mcp,
               ~ conn[c].auth
        PROVE  Excused(conn[c].s)'
    <3>1. conn[c].s \in Servers /\ Excused(conn[c].s) /\ conn[c].s \in config
      BY <1>2, <2>2, InvFacts DEF AuthInv, ConnHeld, ToolInv
    <3>2. PICK t \in Servers : t = conn[c].s
      BY <3>1
    <3>3. Excused(t)'
      BY <3>1, <3>2
    <3>4. QED BY <3>2, <3>3, <1>1 DEF Excused
  <2>3. QED BY <2>1, <2>2, <1>1 DEF AuthInv, Excused
<1>7. PromptInv'
  <2>1. changes > 1 => changes' > 1
    BY <1>2 DEF SessionTypes
  <2>2. \A p \in Prompts : Waits(p)' <=> Waits(p)
    BY <1>1 DEF Waits
  <2>3. QED BY <2>1, <2>2, <1>1, <1>2 DEF PromptInv
<1>9. QED BY <1>3, <1>4, <1>5, <1>6, <1>7 DEF McpInv

LEMMA BeginSignInKeeps ==
  ASSUME McpInv, NEW s \in NeedsAuth, BeginSignIn(s)
  PROVE  McpInv'
<1>1. /\ signIn.st = "none" /\ changes' = changes + 1
      /\ signIn' = [NoSignIn EXCEPT !.s = s, !.st = "exchanging"]
      /\ granted' = granted /\ hushed' = hushed
      /\ UNCHANGED <<wires, parts, ready, registry, prompt, others, config,
                     called, undue>>
  BY DEF BeginSignIn, history
<1>2. granted \subseteq NeedsAuth /\ hushed \subseteq NeedsAuth /\ changes \in Nat
  BY DEF McpInv, SessionTypes
<1>3. /\ signIn' \in [s : NeedsAuth \cup {0}, st : {"none", "exchanging", "done"},
                      cancelled : BOOLEAN]
      /\ signIn'.st = "exchanging" /\ signIn'.s = s
  BY <1>1 DEF NoSignIn
<1>4. changes' \in Nat /\ changes' >= changes /\ changes' > 0
  BY <1>1, <1>2
<1>5. \A x \in Servers : Excused(x) => Excused(x)'
  BY <1>1 DEF Excused
<1>6. Undisturbed' => Undisturbed
  BY <1>1, <1>2 DEF Undisturbed
<1>7. QED BY <1>1, <1>2, <1>3, <1>4, <1>5, <1>6, SignInQuiet

LEMMA CancelSignInKeeps ==
  ASSUME McpInv, CancelSignIn
  PROVE  McpInv'
<1>1. /\ signIn.st = "exchanging" /\ changes' = changes
      /\ signIn' = [signIn EXCEPT !.cancelled = TRUE]
      /\ granted' = granted /\ hushed' = hushed
      /\ UNCHANGED <<wires, parts, ready, registry, prompt, others, config,
                     called, undue>>
  BY DEF CancelSignIn, still, history
<1>2. /\ granted \subseteq NeedsAuth /\ hushed \subseteq NeedsAuth /\ changes \in Nat
      /\ signIn \in [s : NeedsAuth \cup {0}, st : {"none", "exchanging", "done"},
                     cancelled : BOOLEAN]
      /\ signIn.s \in NeedsAuth /\ changes > 0
  BY <1>1 DEF McpInv, SessionTypes
<1>3. /\ signIn' \in [s : NeedsAuth \cup {0}, st : {"none", "exchanging", "done"},
                      cancelled : BOOLEAN]
      /\ signIn'.st = "exchanging" /\ signIn'.s = signIn.s
  BY <1>1, <1>2
<1>4. changes' \in Nat /\ changes' >= changes
  BY <1>1, <1>2
<1>5. \A x \in Servers : Excused(x) => Excused(x)'
  BY <1>1 DEF Excused
<1>6. Undisturbed' => Undisturbed
  BY <1>1 DEF Undisturbed
<1>7. QED BY <1>1, <1>2, <1>3, <1>4, <1>5, <1>6, SignInQuiet

LEMMA ExchangeFailsKeeps ==
  ASSUME McpInv, ExchangeFails
  PROVE  McpInv'
<1>1. /\ signIn.st = "exchanging" /\ changes' = changes /\ signIn' = NoSignIn
      /\ granted' = granted /\ hushed' = hushed
      /\ UNCHANGED <<wires, parts, ready, registry, prompt, others, config,
                     called, undue>>
  BY DEF ExchangeFails, still, history
<1>2. /\ granted \subseteq NeedsAuth /\ hushed \subseteq NeedsAuth /\ changes \in Nat
  BY <1>1 DEF McpInv, SessionTypes
<1>3. /\ signIn' \in [s : NeedsAuth \cup {0}, st : {"none", "exchanging", "done"},
                      cancelled : BOOLEAN]
      /\ signIn'.st = "none"
  BY <1>1 DEF NoSignIn
<1>4. changes' \in Nat /\ changes' >= changes
  BY <1>1, <1>2
<1>5. \A x \in Servers : Excused(x) => Excused(x)'
  BY <1>1 DEF Excused
<1>6. Undisturbed' => Undisturbed
  BY <1>1, <1>3 DEF Undisturbed
<1>7. QED BY <1>1, <1>2, <1>3, <1>4, <1>5, <1>6, SignInQuiet

LEMMA ExchangedKeeps ==
  ASSUME McpInv, Exchanged
  PROVE  McpInv'
<1>1. /\ signIn.st = "exchanging" /\ changes' = changes
      /\ granted' = granted \cup {signIn.s}
      /\ \/ signIn' = NoSignIn /\ hushed' = hushed \cup {signIn.s}
         \/ signIn' = [signIn EXCEPT !.st = "done"] /\ hushed' = hushed
      /\ UNCHANGED <<wires, parts, ready, registry, prompt, others, config,
                     called, undue>>
  BY DEF Exchanged, still
<1>2. /\ granted \subseteq NeedsAuth /\ hushed \subseteq NeedsAuth /\ changes \in Nat
      /\ signIn \in [s : NeedsAuth \cup {0}, st : {"none", "exchanging", "done"},
                     cancelled : BOOLEAN]
      /\ signIn.s \in NeedsAuth /\ changes > 0
  BY <1>1 DEF McpInv, SessionTypes
<1>3. granted' \subseteq NeedsAuth /\ hushed' \subseteq NeedsAuth
  BY <1>1, <1>2
<1>4. /\ signIn' \in [s : NeedsAuth \cup {0}, st : {"none", "exchanging", "done"},
                      cancelled : BOOLEAN]
      /\ \/ signIn'.st = "none" /\ hushed' = hushed \cup {signIn.s}
         \/ signIn'.st = "done" /\ signIn'.s = signIn.s /\ hushed' = hushed
  <2>1. CASE signIn' = NoSignIn /\ hushed' = hushed \cup {signIn.s}
    BY <2>1 DEF NoSignIn
  <2>2. CASE signIn' = [signIn EXCEPT !.st = "done"] /\ hushed' = hushed
    BY <2>2, <1>2
  <2>3. QED BY <2>1, <2>2, <1>1
<1>5. changes' \in Nat /\ changes' >= changes
  BY <1>1, <1>2
<1>6. \A x \in Servers : Excused(x) => Excused(x)'
  BY <1>1, <1>4 DEF Excused
<1>7. Undisturbed' => Undisturbed
  BY <1>1, <1>2 DEF Undisturbed
<1>8. QED BY <1>1, <1>2, <1>3, <1>4, <1>5, <1>6, <1>7, SignInQuiet

(***************************************************************************)
(* A manager takes the place of another.                                   *)
(***************************************************************************)
\* How the wires follow: there is one more manager, at its first server, and
\* the one before is being closed.
SwapFrom(m, cfg) ==
    /\ Wires(man', conn') /\ DiscoveryInv'
    /\ m \in Managers /\ man[m].phase = "none"
    /\ man'[m].phase = "open" /\ man'[m].config = cfg
    /\ man'[m].found = {} /\ man'[m].auth = {} /\ (man'[m].done <=> cfg = {})
    /\ \A x \in Managers : x # m =>
         /\ man'[x].done = man[x].done
         /\ man'[x].phase = "none" <=> man[x].phase = "none"
         /\ man'[x].phase # "open"
    /\ \A c \in Conns :
         \/ conn'[c] = conn[c]
         \/ conn[c].st = "none" /\ \E t \in Servers : conn'[c] = Begun(m, t)

LEMMA SwapWires ==
  ASSUME McpInv, session = "open", NEW cfg \in SUBSET Servers, NEW b, Swap(cfg, b)
  PROVE  SwapFrom(Unused, cfg)
<1> DEFINE m == Unused
           rec == Created(m, cfg)
           old == [man[mcp] EXCEPT !.phase = "sweeping"]
           mid == [man EXCEPT ![mcp] = old]
           r0 == [NoManager EXCEPT !.phase = "open", !.config = cfg]
<1>1. /\ Wires(man, conn) /\ man \in [Managers -> ManRec] /\ Assumed
      /\ conn \in [Conns -> ConnRec] /\ mcp \in Managers
      /\ \A x \in Managers : /\ DiscoveryOK(man[x]) /\ man[x] \in ManRec
                             /\ Open(x) => x = mcp
  BY InvFacts
<1>2. man[mcp].phase = "open"
  BY DEF McpInv, OpenInv, Open
<1>3. /\ \E x \in Managers : man[x].phase = "none"
      /\ RoomFor(cfg # {})
      /\ man' = [x \in Managers |->
                  IF x = m THEN rec
                  ELSE IF x = mcp /\ Open(x) THEN [man[x] EXCEPT !.phase = "sweeping"]
                  ELSE man[x]]
      /\ conn' = OnwardConn(conn, m, rec)
  BY DEF Swap
<1>4. m \in Managers /\ man[m].phase = "none" /\ m # mcp
  BY <1>1, <1>2, <1>3, NewManagerIsNew
<1>5. /\ old \in ManRec /\ old.phase = "sweeping" /\ old.config = man[mcp].config
      /\ old.clients = man[mcp].clients /\ old.pending = man[mcp].pending
      /\ SameScan(old, man[mcp])
  BY <1>1 DEF ManRec, Phases, SameScan
<1>6. man' = [mid EXCEPT ![m] = rec]
  BY <1>1, <1>2, <1>3, <1>4 DEF Open
<1> HIDE DEF old, rec
<1>7. /\ mid \in [Managers -> ManRec] /\ mid[mcp] = old
      /\ \A x \in Managers : x # mcp => mid[x] = man[x]
  BY <1>1, <1>5
<1> HIDE DEF mid
<1>8. Wires(mid, conn)
  <2>1. \A x \in Managers :
            /\ mid[x].clients = man[x].clients /\ mid[x].pending = man[x].pending
            /\ mid[x].config = man[x].config
            /\ man[x].phase # "none" => mid[x].phase # "none"
            /\ mid[x].phase = "closed" => man[x].phase = "closed"
    BY <1>5, <1>7
  <2>2. QED BY <2>1, <1>1, <1>7, ManagerKeeps
<1>9. NoMap \in [Servers -> 0 .. MaxConns] /\ \A t \in Servers : NoMap[t] = 0
  BY <1>1 DEF NoMap, Assumed
<1>10. /\ r0 \in ManRec /\ r0.phase = "open" /\ r0.config = cfg
       /\ r0.clients = NoMap /\ r0.pending = NoMap
       /\ r0.found = {} /\ r0.auth = {} /\ ~ r0.done
  BY <1>9 DEF NoManager, ManRec, Phases
<1>11. rec = Onward(m, r0, 0)
  BY DEF rec, Created
<1> HIDE DEF r0
<1>12. Behind(r0, 0)
  BY <1>9, <1>10 DEF Behind
<1>13. Over(r0, 0) <=> cfg = {}
  <2>1. \A t \in cfg : t \in Nat /\ t > 0
    BY <1>1 DEF Assumed
  <2>2. After(cfg, 0) = cfg
    BY <2>1 DEF After
  <2>3. QED BY <2>2, <1>10 DEF Over
<1>14. Wires([mid EXCEPT ![m] = r0], conn)
  <2>1. mid[m].phase = "none"
    BY <1>4, <1>7
  <2> HIDE DEF m
  <2>2. QED BY <2>1, <1>4, <1>8, <1>10, NewKeeps
<1>15. /\ Wires([mid EXCEPT ![m] = Onward(m, r0, 0)],
                OnwardConn(conn, m, Onward(m, r0, 0)))
       /\ GoneOn(conn, m, r0, 0, Onward(m, r0, 0))
  <2>1. RoomFor(~ Over(r0, 0))
    BY <1>3, <1>13 DEF RoomFor
  <2> DEFINE z == 0
  <2>2. z \in Servers \cup {0}
    OBVIOUS
  <2>3. Behind(r0, z) /\ RoomFor(~ Over(r0, z))
    BY <1>12, <2>1
  <2> HIDE DEF z, m
  <2>4. /\ Wires([mid EXCEPT ![m] = Onward(m, r0, z)],
                 OnwardConn(conn, m, Onward(m, r0, z)))
        /\ GoneOn(conn, m, r0, z, Onward(m, r0, z))
    BY <2>2, <2>3, <1>4, <1>7, <1>10, <1>14, OnwardKeeps
  <2>5. QED BY <2>4 DEF z
<1>16. Wires(man', conn') /\ GoneOn(conn, m, r0, 0, rec)
  BY <1>3, <1>6, <1>11, <1>15
<1>17. /\ DiscoveryOK(rec) /\ SameBut(r0, rec, Over(r0, 0))
       /\ conn' = conn \/ /\ Slot \in Conns /\ conn[Slot].st = "none"
                          /\ rec.at \in r0.config
                          /\ conn' = [conn EXCEPT ![Slot] = Begun(m, rec.at)]
  BY <1>3, <1>16 DEF GoneOn
<1>18. /\ rec \in ManRec /\ rec.phase = "open" /\ rec.config = cfg
       /\ rec.found = {} /\ rec.auth = {} /\ (rec.done <=> cfg = {})
  BY <1>10, <1>13, <1>17 DEF SameBut
<1>19. /\ man'[m] = rec /\ \A x \in Managers : x # m => man'[x] = mid[x]
  BY <1>4, <1>6, <1>7, <1>18
<1>20. DiscoveryInv'
  <2>1. DiscoveryOK(old)
    BY <1>1, <1>2, <1>5 DEF DiscoveryOK, SameScan
  <2>2. QED BY <2>1, <1>1, <1>7, <1>17, <1>19 DEF DiscoveryInv
<1>21. \A c \in Conns :
         \/ conn'[c] = conn[c]
         \/ conn[c].st = "none" /\ \E t \in Servers : conn'[c] = Begun(m, t)
  <2>1. rec.at \in r0.config => rec.at \in Servers
    BY <1>10
  <2> HIDE DEF m
  <2>2. QED BY <2>1, <1>1, <1>17
<1>22. \A x \in Managers : x # m =>
         /\ man'[x].done = man[x].done
         /\ man'[x].phase = "none" <=> man[x].phase = "none"
         /\ man'[x].phase # "open"
  BY <1>1, <1>2, <1>5, <1>7, <1>19 DEF SameScan, Open
<1> HIDE DEF m
<1>23. SwapFrom(m, cfg)
  BY <1>4, <1>16, <1>18, <1>19, <1>20, <1>21, <1>22 DEF SwapFrom
<1>24. QED BY <1>23 DEF m

\* The servers are replaced, because they have changed or because of a sign-in.
Because(cfg) ==
    \/ changes' = changes + 1 /\ signIn' = signIn
    \/ changes' = changes /\ signIn.st = "done" /\ signIn' = NoSignIn

LEMMA SwapKeeps ==
  ASSUME McpInv, session = "open", NEW cfg \in SUBSET Servers, Swap(cfg, streaming),
         config' = cfg, Because(cfg),
         UNCHANGED <<call, streaming, session, granted, losses, history>>
  PROVE  McpInv'
<1> DEFINE m == Unused
<1>1. SwapFrom(m, cfg)
  BY SwapWires
<1>2. /\ SessionTypes /\ RegistryInv /\ OpenInv /\ ToolInv /\ AuthInv /\ PromptInv
      /\ CallsFailForCause /\ Assumed /\ CallsHeld(man, conn, call)
      /\ call \in [Calls -> CallRec]
      /\ \A x \in Managers : DiscoveryOK(man[x])
      /\ \A c \in Conns : ConnHeld(man, conn[c], c)
  BY InvFacts DEF McpInv
<1>3. /\ mcp' = m /\ host' = m /\ handled' = m
      /\ ready' = (cfg = {})
      /\ IF streaming
         THEN /\ registry' = Removed(registry, IF man[mcp].done THEN man[mcp].found
                                                                ELSE {})
              /\ prompt' = prompt
         ELSE registry' = NoTools /\ prompt' = Left
  BY DEF Swap
<1> HIDE DEF m
<1>4. /\ Wires(man', conn') /\ DiscoveryInv'
      /\ m \in Managers /\ man[m].phase = "none"
      /\ man'[m].phase = "open" /\ man'[m].config = cfg
      /\ man'[m].found = {} /\ man'[m].auth = {} /\ (man'[m].done <=> cfg = {})
      /\ \A x \in Managers : x # m =>
           /\ man'[x].done = man[x].done
           /\ man'[x].phase = "none" <=> man[x].phase = "none"
           /\ man'[x].phase # "open"
      /\ \A c \in Conns :
           \/ conn'[c] = conn[c]
           \/ conn[c].st = "none" /\ \E t \in Servers : conn'[c] = Begun(m, t)
  BY <1>1 DEF SwapFrom
<1>5. ~ man[m].done
  BY <1>2, <1>4 DEF DiscoveryOK, NoManager
<1>6. /\ call' = call /\ streaming' = streaming /\ session' = session
      /\ granted' = granted /\ losses' = losses
      /\ called' = called /\ undue' = undue /\ hushed' = hushed
  BY DEF history
<1>7. /\ mcp = host /\ (ready <=> man[mcp].done)
      /\ \A a \in Agents, s \in Servers :
           registry[a][s] = IF man[mcp].done /\ s \in man[mcp].found THEN mcp ELSE 0
  BY <1>2 DEF ToolInv
<1>8. /\ registry' \in [Agents -> [Servers -> 0 .. MaxManagers]]
      /\ \A a \in Agents, s \in Servers : registry'[a][s] = 0
  <2>1. 0 \in 0 .. MaxManagers
    BY <1>2 DEF Assumed
  <2>2. CASE streaming
    <3>1. registry' = [a \in Agents |-> [s \in Servers |->
              IF s \in (IF man[mcp].done THEN man[mcp].found ELSE {}) THEN 0
              ELSE registry[a][s]]]
      BY <2>2, <1>3 DEF Removed
    <3>2. \A a \in Agents : registry'[a] \in [Servers -> 0 .. MaxManagers]
                            /\ \A s \in Servers : registry'[a][s] = 0
      BY <2>1, <3>1, <1>7
    <3>3. QED BY <3>1, <3>2
  <2>3. CASE ~ streaming
    BY <2>1, <2>3, <1>2, <1>3 DEF NoTools, NoMap, SessionTypes
  <2>4. QED BY <2>2, <2>3
<1>9. /\ prompt' \in [Prompts -> [st : {"none", "waiting", "left", "started", "dropped"},
                                  on : 0 .. MaxManagers]]
      /\ \A p \in Prompts : /\ prompt'[p].on = prompt[p].on
                            /\ Waits(p)' <=> Waits(p)
                            /\ prompt'[p].st = "waiting" =>
                                 streaming /\ prompt[p].st = "waiting"
  <2>1. CASE streaming
    BY <2>1, <1>2, <1>3 DEF SessionTypes, Waits
  <2>2. CASE ~ streaming
    BY <2>2, <1>2, <1>3, LeftFacts DEF Waits
  <2>3. QED BY <2>1, <2>2
<1>10. /\ changes \in Nat /\ changes' \in Nat
       /\ signIn' \in [s : NeedsAuth \cup {0}, st : {"none", "exchanging", "done"},
                       cancelled : BOOLEAN]
       /\ signIn'.st # "none" => signIn'.s \in NeedsAuth /\ changes' > 0
       /\ signIn.st # "none" => changes > 0
  <2>1. /\ changes \in Nat
        /\ signIn \in [s : NeedsAuth \cup {0}, st : {"none", "exchanging", "done"},
                       cancelled : BOOLEAN]
        /\ signIn.st # "none" => signIn.s \in NeedsAuth /\ changes > 0
    BY <1>2 DEF SessionTypes
  <2>2. CASE changes' = changes + 1 /\ signIn' = signIn
    BY <2>1, <2>2
  <2>3. CASE changes' = changes /\ signIn' = NoSignIn
    BY <2>1, <2>3 DEF NoSignIn
  <2>4. QED BY <2>2, <2>3 DEF Because
<1>11. SessionTypes'
  BY <1>2, <1>3, <1>4, <1>6, <1>8, <1>9, <1>10 DEF SessionTypes
<1>12. CallInv'
  <2>1. ASSUME NEW k \in Calls PROVE CallHeld(man', conn', call[k])
    <3> SUFFICES ASSUME call[k].st # "none" PROVE CallHeld(man', conn', call[k])
      BY DEF CallHeld
    <3>1. /\ CallHeld(man, conn, call[k]) /\ call[k].conn \in Conns
          /\ call[k].st \in {"connecting", "sent"}
      BY <1>2 DEF CallsHeld, CallHeld, CallRec
    <3>2. conn'[call[k].conn] = conn[call[k].conn]
      BY <3>1, <1>4 DEF CallHeld
    <3>3. call[k].m # m
      BY <3>1, <1>5 DEF CallHeld
    <3>4. QED BY <3>1, <3>2, <3>3, <1>4 DEF CallHeld
  <2>2. QED BY <2>1, <1>2, <1>6 DEF CallInv, CallsHeld
<1>13. RegistryInv'
  BY <1>8 DEF RegistryInv
<1>14. OpenInv'
  BY <1>3, <1>4, <1>6 DEF OpenInv, Open
<1>15. ToolInv'
  BY <1>3, <1>4, <1>8 DEF ToolInv
<1>16. AuthInv'
  <2>1. ASSUME NEW c \in Conns, conn'[c].st = "connecting", conn'[c].m = m,
               ~ conn'[c].auth
        PROVE  conn'[c].s \notin granted
    <3>1. conn'[c] # conn[c]
      BY <2>1, <1>2, <1>4 DEF ConnHeld
    <3>2. PICK t \in Servers : conn'[c] = Begun(m, t)
      BY <3>1, <1>4
    <3>3. conn'[c].s = t /\ conn'[c].auth = (t \in NeedsAuth => t \in granted)
      BY <3>2 DEF Begun
    <3>4. QED BY <3>3, <2>1
  <2>2. QED BY <2>1, <1>3, <1>4, <1>6 DEF AuthInv, Excused
<1>17. PromptInv'
  <2>1. ASSUME NEW p \in Prompts, Waits(p)'
        PROVE  /\ prompt'[p].on \in Managers /\ man'[prompt'[p].on].phase # "none"
               /\ ~ man'[prompt'[p].on].done
    <3>1. /\ prompt'[p].on = prompt[p].on /\ prompt[p].on \in Managers
          /\ man[prompt[p].on].phase # "none" /\ ~ man[prompt[p].on].done
      BY <2>1, <1>2, <1>9 DEF PromptInv
    <3>2. QED BY <3>1, <1>4
  <2>2. ~ Undisturbed'
    BY <1>10 DEF Undisturbed, Because, NoSignIn
  <2>3. ASSUME NEW p \in Prompts, prompt'[p].st = "waiting"
        PROVE  changes' > 1
    <3>1. streaming /\ prompt[p].st = "waiting" /\ Waits(p)
      BY <2>3, <1>9 DEF Waits
    <3>2. Undisturbed => prompt[p].on # host
      BY <3>1, <1>2, <1>7 DEF PromptInv
    <3>3. prompt[p].on # host => changes > 1
      BY <3>1, <1>2 DEF PromptInv
    <3>4. QED BY <3>2, <3>3, <1>10 DEF Undisturbed, Because
  <2>4. QED BY <2>1, <2>2, <2>3, <1>6 DEF PromptInv
<1>18. CallsFailForCause'
  BY <1>2, <1>6 DEF CallsFailForCause
<1>19. QED BY <1>4, <1>11, <1>12, <1>13, <1>14, <1>15, <1>16, <1>17, <1>18 DEF McpInv

LEMMA ChangeConfigKeeps ==
  ASSUME McpInv, NEW cfg \in Configs, ChangeConfig(cfg)
  PROVE  McpInv'
<1>1. /\ session = "open" /\ changes' = changes + 1 /\ config' = cfg
      /\ Swap(cfg, streaming) /\ signIn' = signIn
      /\ UNCHANGED <<call, streaming, session, granted, losses, history>>
  BY DEF ChangeConfig, history
<1>2. cfg \in SUBSET Servers
  BY InvFacts DEF Assumed
<1>3. Because(cfg)
  BY <1>1 DEF Because
<1>4. QED BY <1>1, <1>2, <1>3, SwapKeeps

LEMMA SignedInKeeps ==
  ASSUME McpInv, SignedIn
  PROVE  McpInv'
<1>1. /\ signIn.st = "done" /\ signIn' = NoSignIn /\ changes' = changes
      /\ config' = config
      /\ UNCHANGED <<call, streaming, session, granted, losses, history>>
  BY DEF SignedIn, others
<1>2. CASE Reaches(signIn.s)
  <2>1. session = "open" /\ Swap(config, streaming)
    BY <1>2 DEF SignedIn, Reaches
  <2>2. config \in SUBSET Servers
    BY DEF McpInv, SessionTypes
  <2>3. Because(config)
    BY <1>1 DEF Because
  <2>4. QED BY <1>1, <2>1, <2>2, <2>3, SwapKeeps
<1>3. CASE ~ Reaches(signIn.s)
  <2>1. UNCHANGED <<wires, parts, ready, registry, prompt, others, config,
                     called, undue>> /\ hushed' = hushed /\ granted' = granted
    BY <1>1, <1>3 DEF SignedIn, history, others
  <2>2. granted \subseteq NeedsAuth /\ hushed \subseteq NeedsAuth /\ changes \in Nat
        /\ changes > 0
    BY <1>1 DEF McpInv, SessionTypes
  <2>3. /\ signIn' \in [s : NeedsAuth \cup {0}, st : {"none", "exchanging", "done"},
                        cancelled : BOOLEAN]
        /\ signIn'.st = "none"
    BY <1>1 DEF NoSignIn
  <2>4. \A x \in Servers :
           session = "open" /\ x \in config => (Excused(x) => Excused(x)')
    BY <1>3, <2>1 DEF Excused, Reaches
  <2>5. Undisturbed' => Undisturbed
    BY <1>1, <2>2, <2>3 DEF Undisturbed
  <2>6. changes' \in Nat /\ changes' >= changes
    BY <1>1, <2>2
  <2>7. QED BY <2>1, <2>2, <2>3, <2>4, <2>5, <2>6, SignInQuiet
<1>4. QED BY <1>2, <1>3

(***************************************************************************)
(* The specification.                                                      *)
(***************************************************************************)
LEMMA ConnStepKeeps ==
  ASSUME McpInv, NEW c \in Conns, ConnStep(c)
  PROVE  McpInv'
<1>1. CASE Connected(c)
  BY <1>1, ConnectedKeeps
<1>2. CASE Refused(c)
  BY <1>2, RefusedDiscovers, RefusedFails
<1>3. CASE Lost(c)
  BY <1>3, LostKeeps
<1>4. CASE Closed(c)
  BY <1>4, ClosedConnKeeps
<1>5. QED BY <1>1, <1>2, <1>3, <1>4 DEF ConnStep

LEMMA ManagerStepKeeps ==
  ASSUME McpInv, NEW m \in Managers, ManagerStep(m)
  PROVE  McpInv'
<1>1. CASE Listed(m)
  BY <1>1, ListedKeeps
<1>2. CASE ListFails(m)
  BY <1>2, ListFailsKeeps
<1>3. CASE SweepNext(m)
  BY <1>3, SweepNextKeeps
<1>4. CASE SweepEnds(m)
  BY <1>4, SweepEndsKeeps
<1>5. CASE SweepAgain(m)
  BY <1>5, SweepAgainKeeps
<1>6. QED BY <1>1, <1>2, <1>3, <1>4, <1>5 DEF ManagerStep

LEMMA CallStepKeeps ==
  ASSUME McpInv, NEW k \in Calls, CallStep(k)
  PROVE  McpInv'
<1>1. CASE Answered(k)
  BY <1>1, AnsweredKeeps
<1>2. CASE ProtocolError(k)
  BY <1>2, ProtocolErrorKeeps
<1>3. CASE \E a \in Agents, s \in Servers : CallTool(k, a, s)
  BY <1>3, CallToolKeeps
<1>4. QED BY <1>1, <1>2, <1>3 DEF CallStep

LEMMA SessionStepKeeps ==
  ASSUME McpInv, SessionStep
  PROVE  McpInv'
<1>1. CASE \E p \in Prompts : Prompt(p)
  BY <1>1, PromptKeeps
<1>2. CASE \E cfg \in Configs : ChangeConfig(cfg)
  BY <1>2, ChangeConfigKeeps
<1>3. CASE RunEnds \/ Stop
  BY <1>3, RunOverKeeps
<1>4. CASE Rebuild
  BY <1>4, RebuildKeeps
<1>5. CASE Close
  BY <1>5, CloseKeeps
<1>6. CASE CloseServers
  BY <1>6, CloseServersKeeps
<1>7. CASE CloseResolves
  BY <1>7, CloseResolvesKeeps
<1>8. QED BY <1>1, <1>2, <1>3, <1>4, <1>5, <1>6, <1>7 DEF SessionStep

LEMMA SignInStepKeeps ==
  ASSUME McpInv, SignInStep
  PROVE  McpInv'
<1>1. CASE \E s \in NeedsAuth : BeginSignIn(s)
  BY <1>1, BeginSignInKeeps
<1>2. CASE CancelSignIn
  BY <1>2, CancelSignInKeeps
<1>3. CASE Exchanged
  BY <1>3, ExchangedKeeps
<1>4. CASE ExchangeFails
  BY <1>4, ExchangeFailsKeeps
<1>5. CASE SignedIn
  BY <1>5, SignedInKeeps
<1>6. QED BY <1>1, <1>2, <1>3, <1>4, <1>5 DEF SignInStep

\* Nothing happens.
LEMMA StillKeeps ==
  ASSUME McpInv, UNCHANGED vars
  PROVE  McpInv'
<1>1. /\ UNCHANGED <<wires, parts, ready, registry, prompt, others, config,
                     called, undue>>
      /\ changes' = changes /\ granted' = granted /\ hushed' = hushed
      /\ signIn' = signIn
  BY DEF vars, wires, parts, others
<1>2. /\ granted \subseteq NeedsAuth /\ hushed \subseteq NeedsAuth /\ changes \in Nat
      /\ signIn \in [s : NeedsAuth \cup {0}, st : {"none", "exchanging", "done"},
                     cancelled : BOOLEAN]
      /\ signIn.st # "none" => signIn.s \in NeedsAuth /\ changes > 0
  BY DEF McpInv, SessionTypes
<1>3. changes' \in Nat /\ changes' >= changes
  BY <1>1, <1>2
<1>4. \A s \in Servers :
         session = "open" /\ s \in config => (Excused(s) => Excused(s)')
  BY <1>1 DEF Excused
<1>5. Undisturbed' => Undisturbed
  BY <1>1 DEF Undisturbed
<1>6. QED BY <1>1, <1>2, <1>3, <1>4, <1>5, SignInQuiet

LEMMA McpStepKeeps ==
  ASSUME McpInv, [Next]_vars
  PROVE  McpInv'
<1>1. CASE \E c \in Conns : ConnStep(c)
  BY <1>1, ConnStepKeeps
<1>2. CASE \E m \in Managers : ManagerStep(m)
  BY <1>2, ManagerStepKeeps
<1>3. CASE \E k \in Calls : CallStep(k)
  BY <1>3, CallStepKeeps
<1>4. CASE SessionStep
  BY <1>4, SessionStepKeeps
<1>5. CASE SignInStep
  BY <1>5, SignInStepKeeps
<1>6. CASE UNCHANGED vars
  BY <1>6, StillKeeps
<1>7. QED BY <1>1, <1>2, <1>3, <1>4, <1>5, <1>6 DEF Next

LEMMA McpInit ==
  ASSUME Assumed, Init
  PROVE  McpInv
<1> DEFINE s0 == Min(config)
           pend == [s \in Servers |-> IF config # {} /\ s = s0 THEN 1 ELSE 0]
           at0 == IF config = {} THEN 0 ELSE s0
           first == [NoManager EXCEPT
                       !.phase = "open", !.config = config, !.done = config = {},
                       !.at = at0, !.pending = pend]
           begun == [NoConn EXCEPT !.m = 1, !.s = s0, !.st = "connecting",
                                   !.auth = s0 \notin NeedsAuth]
<1>1. /\ config \in Configs /\ granted = {} /\ signIn = NoSignIn
      /\ conn = IF config = {} THEN [c \in Conns |-> NoConn]
                ELSE [c \in Conns |-> IF c # 1 THEN NoConn ELSE begun]
      /\ man = [m \in Managers |-> IF m # 1 THEN NoManager ELSE first]
      /\ call = [k \in Calls |-> NoCall] /\ prompt = [p \in Prompts |-> NoPrompt]
      /\ mcp = 1 /\ host = 1 /\ handled = 1
      /\ ready = (config = {}) /\ registry = NoTools
      /\ streaming = FALSE /\ session = "open"
      /\ losses = 0 /\ changes = 0 /\ called = 0 /\ undue = {}
      /\ hushed = {}
  BY DEF Init
<1>2. config \in SUBSET Servers /\ config \in SUBSET Nat /\ 1 \in Managers
      /\ 1 \in Conns /\ 0 \in 0 .. MaxConns /\ 1 \in 0 .. MaxConns
      /\ 0 \in 0 .. MaxManagers /\ 1 \in 0 .. MaxManagers /\ 0 \in 0 .. MaxCalls
  <2>1. /\ Servers \subseteq Nat /\ Configs \subseteq SUBSET Servers
        /\ MaxManagers \in Nat \ {0} /\ MaxConns \in Nat \ {0} /\ MaxCalls \in Nat
    BY DEF Assumed
  <2>2. config \in SUBSET Servers /\ config \in SUBSET Nat
    BY <2>1, <1>1
  <2>3. /\ 1 \in 1 .. MaxManagers /\ 1 \in 1 .. MaxConns
        /\ 0 \in 0 .. MaxConns /\ 1 \in 0 .. MaxConns
        /\ 0 \in 0 .. MaxManagers /\ 1 \in 0 .. MaxManagers /\ 0 \in 0 .. MaxCalls
    BY <2>1
  <2>4. QED BY <2>2, <2>3 DEF Managers, Conns
<1>3. config # {} => s0 \in config /\ s0 \in Servers /\ \A y \in config : s0 <= y
  BY <1>2, McpLeast
<1>6. /\ pend \in [Servers -> 0 .. MaxConns]
      /\ \A s \in Servers : pend[s] = IF config # {} /\ s = s0 THEN 1 ELSE 0
  BY <1>2
<1>7. NoMap \in [Servers -> 0 .. MaxConns] /\ \A t \in Servers : NoMap[t] = 0
  BY <1>2 DEF NoMap
<1> HIDE DEF pend, s0
<1>8. /\ first \in ManRec /\ first.phase = "open" /\ first.config = config
      /\ first.clients = NoMap /\ first.pending = pend
      /\ first.found = {} /\ first.auth = {} /\ (first.done <=> config = {})
      /\ first.at = at0
  <2>1. at0 \in Servers \cup {0}
    BY <1>3
  <2> HIDE DEF at0
  <2>2. QED BY <2>1, <1>2, <1>6, <1>7 DEF ManRec, Phases, NoManager
<1>9. /\ config # {} => begun \in ConnRec
      /\ begun.m = 1 /\ begun.s = s0 /\ begun.st = "connecting"
      /\ begun.auth <=> s0 \notin NeedsAuth
  BY <1>2, <1>3 DEF ConnRec, NoConn
<1>10. /\ NoManager \in ManRec /\ NoManager.phase = "none" /\ NoManager.clients = NoMap
       /\ NoManager.pending = NoMap
  BY <1>7 DEF NoManager, ManRec, Phases
<1>11. NoConn \in ConnRec /\ NoConn.st = "none"
  BY <1>2 DEF NoConn, ConnRec
<1> HIDE DEF first, begun
<1>12. /\ man \in [Managers -> ManRec] /\ man[1] = first
       /\ \A m \in Managers : m # 1 => man[m] = NoManager
  BY <1>1, <1>2, <1>8, <1>10
<1>13. /\ conn \in [Conns -> ConnRec] /\ (config # {} => conn[1] = begun)
       /\ \A c \in Conns : c # 1 \/ config = {} => conn[c] = NoConn
  <2>1. CASE config = {}
    BY <2>1, <1>1, <1>11
  <2>2. CASE config # {}
    BY <2>2, <1>1, <1>2, <1>9, <1>11
  <2>3. QED BY <2>1, <2>2
<1>14. Wires(man, conn)
  <2>1. ASSUME NEW c \in Conns PROVE ConnHeld(man, conn[c], c)
    <3>1. CASE c # 1 \/ config = {}
      BY <3>1, <1>11, <1>13 DEF ConnHeld
    <3>2. CASE c = 1 /\ config # {}
      <4>1. /\ conn[c] = begun /\ begun.m = 1 /\ begun.s = s0
            /\ begun.st = "connecting" /\ s0 \in Servers /\ s0 \in config
            /\ man[1] = first /\ first.config = config /\ first.phase = "open"
            /\ first.pending[s0] = 1 /\ 1 \in Managers
        BY <3>2, <1>2, <1>3, <1>6, <1>8, <1>9, <1>12, <1>13
      <4>2. QED BY <4>1, <3>2 DEF ConnHeld
    <3>3. QED BY <3>1, <3>2
  <2>2. ASSUME NEW m \in Managers, NEW s \in Servers
        PROVE  /\ PendingIsThere(conn, m, s, man[m].pending[s], man[m].clients[s])
               /\ ClientIsThere(conn, m, s, man[m].clients[s])
    <3>1. man[m].clients[s] = 0
      BY <1>7, <1>8, <1>10, <1>12
    <3>2. man[m].pending[s] # 0 => m = 1 /\ config # {} /\ s = s0 /\ man[m].pending[s] = 1
      BY <1>6, <1>7, <1>8, <1>10, <1>12
    <3>3. QED BY <3>1, <3>2, <1>9, <1>13 DEF PendingIsThere, ClientIsThere
  <2>3. QED BY <2>1, <2>2, <1>12, <1>13
           DEF Wires, WireTypes, ConnsHeld, HeldAreThere
<1>15. DiscoveryInv
  <2>1. DiscoveryOK(NoManager)
    BY <1>10 DEF DiscoveryOK
  <2>2. DiscoveryOK(first)
    <3>1. config # {} => s0 # 0
      BY <1>3 DEF Assumed
    <3>2. \A u \in Servers : config # {} /\ u > s0 => u # s0
      BY <1>3 DEF Assumed
    <3>3. QED BY <3>1, <3>2, <1>3, <1>6, <1>7, <1>8 DEF DiscoveryOK
  <2>3. QED BY <2>1, <2>2, <1>12 DEF DiscoveryInv
<1>16. CallInv
  <2>1. NoCall \in CallRec /\ NoCall.st = "none"
    BY <1>2 DEF NoCall, CallRec, Agents
  <2>2. QED BY <2>1, <1>1 DEF CallInv, CallsHeld, CallHeld
<1>17. /\ NoTools \in [Agents -> [Servers -> 0 .. MaxManagers]]
       /\ \A a \in Agents, s \in Servers : NoTools[a][s] = 0
  BY <1>2 DEF NoTools, NoMap
<1>18. SessionTypes
  <2>1. /\ NoPrompt \in [st : {"none", "waiting", "left", "started", "dropped"},
                         on : 0 .. MaxManagers]
        /\ NoSignIn \in [s : NeedsAuth \cup {0}, st : {"none", "exchanging", "done"},
                         cancelled : BOOLEAN]
        /\ NoSignIn.st = "none"
    BY <1>2 DEF NoPrompt, NoSignIn
  <2>2. QED BY <2>1, <1>1, <1>2, <1>17 DEF SessionTypes
<1>19. RegistryInv /\ OpenInv /\ ToolInv /\ CallsFailForCause
  BY <1>1, <1>2, <1>8, <1>10, <1>12, <1>17
     DEF RegistryInv, OpenInv, Open, ToolInv, CallsFailForCause
<1>20. AuthInv
  BY <1>1, <1>8, <1>12 DEF AuthInv, Excused
<1>21. PromptInv
  <2>1. NoPrompt.st = "none"
    BY DEF NoPrompt
  <2>2. \A p \in Prompts : prompt[p].st = "none"
    BY <2>1, <1>1
  <2>3. QED BY <2>2, <1>1 DEF PromptInv, Waits
<1>22. QED BY <1>14, <1>15, <1>16, <1>18, <1>19, <1>20, <1>21 DEF McpInv

\* The inductive invariant holds for every bound: the wires are held by their
\* managers, discoveries, registries, prompts and sign-ins agree with them.
THEOREM McpInvariant == Spec => []McpInv
<1>1. Init => McpInv
  <2>1. Assumed
    BY McpAssumption DEF McpAssumption, Assumed
  <2>2. QED BY <2>1, McpInit
<1>2. McpInv /\ [Next]_vars => McpInv'
  BY McpStepKeeps
<1>3. QED BY <1>1, <1>2, PTL DEF Spec

\* No server process is left to itself: a connection on the way or open is held
\* by its manager, and a manager whose close has returned has none (manager.ts,
\* close).
THEOREM NothingOutlives == Spec => []NothingOutlivesItsManager
<1>1. ASSUME McpInv PROVE NothingOutlivesItsManager
  <2>1. TypeOK
    <3>1. SessionTypes /\ undue \subseteq {"dropped"} /\ man \in [Managers -> ManRec]
          /\ conn \in [Conns -> ConnRec] /\ call \in [Calls -> CallRec]
      BY <1>1, InvFacts DEF McpInv
    <3>2. QED BY <3>1 DEF TypeOK, SessionTypes, ManRec, Phases, ConnRec, CallRec
  <2>2. \A c \in Conns : ConnHeld(man, conn[c], c)
    BY <1>1, InvFacts
  <2>3. session = "closed" => \A m \in Managers : ~ Open(m)
    BY <1>1 DEF McpInv, OpenInv
  <2>4. QED BY <2>1, <2>2, <2>3 DEF NothingOutlivesItsManager, ConnHeld
<1>2. QED BY <1>1, McpInvariant, PTL

\* What agents find is what the configuration in force offers, and no server
\* asks for a sign-in that was made, however replacements, discoveries and
\* sign-ins overtake each other (attachment.ts; registries.ts).
THEOREM ToolsAreCurrent == Spec => []ToolsAreTheCurrentOnes
<1>1. ASSUME McpInv PROVE ToolsAreTheCurrentOnes
  <2> SUFFICES ASSUME session = "open" PROVE ToolsAreTheCurrentOnes
    BY DEF ToolsAreTheCurrentOnes
  <2>1. ToolInv /\ AuthInv /\ OpenInv
    BY <1>1 DEF McpInv
  <2>2. \A s \in man[mcp].auth \cap granted : signIn.st = "done" \/ s \in hushed
    BY <2>1 DEF AuthInv, Excused
  <2>3. QED BY <2>1, <2>2 DEF ToolsAreTheCurrentOnes, ToolInv, OpenInv
<1>2. QED BY <1>1, McpInvariant, PTL

\* A server of a manager has one connection at a time, and no call that is out
\* is left on one that nobody brings up or answers on, however many calls fail
\* on a connection and come again (manager.ts, getClient and callTool).
THEOREM OneAtATime == Spec => []OneConnectionPerServer
<1>1. ASSUME McpInv PROVE OneConnectionPerServer
  <2>1. ASSUME NEW c \in Conns, NEW d \in Conns,
               {conn[c].st, conn[d].st} \subseteq {"connecting", "open"},
               conn[c].m = conn[d].m, conn[c].s = conn[d].s
        PROVE  c = d
    <3> DEFINE m == conn[c].m
               s == conn[c].s
    <3>1. /\ ConnHeld(man, conn[c], c) /\ ConnHeld(man, conn[d], d)
          /\ conn[c].st \in {"connecting", "open"}
          /\ conn[d].st \in {"connecting", "open"}
      BY <1>1, <2>1, InvFacts
    <3>2. /\ m \in Managers /\ s \in Servers
          /\ c \in {man[m].pending[s], man[m].clients[s]}
          /\ d \in {man[m].pending[s], man[m].clients[s]}
      BY <2>1, <3>1 DEF ConnHeld
    <3>3. PendingIsThere(conn, m, s, man[m].pending[s], man[m].clients[s])
      BY <1>1, <3>2 DEF McpInv, Wires, HeldAreThere
    <3>4. c # 0 /\ d # 0
      BY DEF Conns
    <3>5. QED BY <3>2, <3>3, <3>4 DEF PendingIsThere
  <2>2. ASSUME NEW k \in Calls, call[k].st # "none"
        PROVE  /\ call[k].conn \in Conns /\ conn[call[k].conn].m = call[k].m
               /\ call[k].st = "connecting" => conn[call[k].conn].st = "connecting"
               /\ call[k].st = "sent" => conn[call[k].conn].st \in {"open", "closing"}
    BY <1>1, <2>2 DEF McpInv, CallInv, CallsHeld, CallHeld
  <2>3. QED BY <2>1, <2>2 DEF OneConnectionPerServer
<1>2. QED BY <1>1, McpInvariant, PTL
=============================================================================
