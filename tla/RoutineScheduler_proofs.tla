----------------------- MODULE RoutineScheduler_proofs -----------------------
(***************************************************************************)
(* What holds of routines for any number of routines, conversations and    *)
(* runs: a conversation, the run in it and the routine it names agree,     *)
(* nothing a run leaves behind reaches the next one, and no stop of a      *)
(* routine cuts a run of the user.                                         *)
(***************************************************************************)
EXTENDS RoutineScheduler, TLAPS

USE BoundsAssumption, DataAssumption DEF BoundsAssumption, DataAssumption

(***************************************************************************)
(* The invariants.  A conversation only ever streams the exchange of a run *)
(* of its own; a routine's next run is never further ahead than its        *)
(* schedule looks, and a check is out only for a watch.                    *)
(***************************************************************************)
ConvIsHome == \A a \in Agents : conv[a] \in Acts => Home(conv[a]) = a

ExchangeInv == ExchangesAgree /\ ConvIsHome

DueIsNear ==
    \A r \in rows : row[r].enabled => row[r].due <= clock + Period[row[r].kind]
ChecksAreOfWatches == \A r \in checks \cap rows : row[r].kind = "watch"

LegacyInv == ExchangeInv /\ StopsAreSpent /\ DueIsNear /\ ChecksAreOfWatches

(***************************************************************************)
(* Runs, rows and the operators the actions share.                         *)
(***************************************************************************)
LEMMA ActsAre ==
  /\ \A k \in Acts : /\ k[1] \in Routines /\ Home(k) \in Agents
                     /\ k # Idle /\ k # ByUser /\ k[1] # NoRoutine
  /\ \A r \in Routines, s \in 1..MaxSlots : <<r, s>> \in Acts /\ <<r, s>>[1] = r
  /\ \A k \in Acts : \E s \in 1..MaxSlots : k = <<k[1], s>>
BY DEF Acts, Home, Idle, ByUser

LEMMA RowsAre ==
  /\ Never \in Nat
  /\ \A kind \in Kinds, at \in Nat : nextRunAt(kind, at) \in Nat
  /\ Free \in Act
BY DEF Never, nextRunAt, Free, Act

Streaming(k) == act[k].pc \in {"running", "resumed"}

\* record() touches the result and, of a row that is off, the next run.
LEMMA RecordKeeps ==
  ASSUME NEW r, NEW cell \in Row, NEW outcome \in {"ok", "error", "stopped"}
  PROVE  /\ Recorded(r, cell, outcome) \in Row
         /\ Recorded(r, cell, outcome).enabled = cell.enabled
         /\ Recorded(r, cell, outcome).kind = cell.kind
         /\ cell.enabled => Recorded(r, cell, outcome).due = cell.due
<1>1. CASE r \notin rows
  BY <1>1 DEF Recorded
<1>2. CASE r \in rows
  <2>1. Recorded(r, cell, outcome) =
          [cell EXCEPT !.last = outcome,
                       !.due = IF cell.enabled THEN @ ELSE Never]
    BY <1>2 DEF Recorded
  <2>2. cell.enabled \in BOOLEAN /\ cell.due \in Nat
    BY DEF Row
  <2>3. (IF cell.enabled THEN cell.due ELSE Never) \in Nat
    BY <2>2, RowsAre
  <2> HIDE DEF Never
  <2>4. QED BY <2>1, <2>3 DEF Row
<1>3. QED BY <1>1, <1>2

\* run() takes slots that are free.
LEMMA BeginTakes ==
  ASSUME TypeOK, NEW rs \in SUBSET Routines, NEW scheduled \in BOOLEAN,
         NEW cells \in [Routines -> Row], Begin(rs, scheduled, cells)
  PROVE  /\ act' \in [Acts -> Act] /\ row' \in [Routines -> Row]
         /\ stopped' \subseteq stopped /\ cancelled' \subseteq cancelled
         /\ \A k \in Acts : act[k].pc # "free" => act'[k] = act[k]
         /\ \A k \in Acts : act'[k] # act[k] => act'[k].pc \in {"waiting", "opening"}
         /\ \A r \in Routines : /\ row'[r].enabled = cells[r].enabled
                                /\ row'[r].kind = cells[r].kind
                                /\ cells[r].enabled => row'[r].due = cells[r].due
<1> DEFINE dropped == {r \in rs : FirstLook(r) = "free"}
<1>1. /\ \A r \in rs : HasSlot(r)
      /\ act' = [k \in Acts |->
              IF k[1] \in rs \ dropped /\ k = NewSlot(k[1])
              THEN [Free EXCEPT !.pc = FirstLook(k[1]), !.scheduled = scheduled]
              ELSE act[k]]
      /\ row' = [r \in Routines |->
              IF r \in dropped THEN Recorded(r, cells[r], "stopped") ELSE cells[r]]
      /\ cancelled' = cancelled \ dropped /\ stopped' = stopped \ dropped
  BY DEF Begin
<1>2. \A r \in rs : act[NewSlot(r)].pc = "free"
  BY <1>1 DEF HasSlot, NewSlot
<1>3. \A r \in rs \ dropped : FirstLook(r) \in {"waiting", "opening"}
  BY DEF FirstLook, Busy
<1>4. act' \in [Acts -> Act]
  BY <1>1, <1>3, RowsAre DEF Free, Act, TypeOK
<1>5. \A k \in Acts :
        /\ act[k].pc # "free" => act'[k] = act[k]
        /\ act'[k] # act[k] => act'[k].pc \in {"waiting", "opening"}
  BY <1>1, <1>2, <1>3 DEF Free
<1>6. \A r \in Routines : row'[r] \in Row
                          /\ row'[r].enabled = cells[r].enabled
                          /\ row'[r].kind = cells[r].kind
                          /\ (cells[r].enabled => row'[r].due = cells[r].due)
  <2>1. SUFFICES ASSUME NEW r \in Routines
                 PROVE  /\ row'[r] \in Row
                        /\ row'[r].enabled = cells[r].enabled
                        /\ row'[r].kind = cells[r].kind
                        /\ cells[r].enabled => row'[r].due = cells[r].due
    OBVIOUS
  <2>2. cells[r] \in Row
    OBVIOUS
  <2>3. CASE r \in dropped
    <3>1. row'[r] = Recorded(r, cells[r], "stopped")
      BY <1>1, <2>3
    <3>2. QED BY <2>2, <3>1, RecordKeeps
  <2>4. CASE r \notin dropped
    <3>1. row'[r] = cells[r]
      BY <1>1, <2>4
    <3>2. QED BY <2>2, <3>1
  <2>5. QED BY <2>3, <2>4
<1>7. row' \in [Routines -> Row]
  BY <1>1, <1>6
<1>8. QED BY <1>1, <1>4, <1>5, <1>6, <1>7

\* The end of a run frees it, records its result and uses up its stop request.
LEMMA FinishFrees ==
  ASSUME TypeOK, NEW k \in Acts, NEW outcome \in {"ok", "error"},
         NEW asked \in SUBSET Routines, Finish(k, outcome, asked)
  PROVE  /\ act' \in [Acts -> Act] /\ row' \in [Routines -> Row]
         /\ stopped' = asked \ {k[1]}
         /\ act'[k].pc = "free" /\ \A j \in Acts : j # k => act'[j] = act[j]
         /\ \A r \in Routines : /\ row'[r].enabled = row[r].enabled
                                /\ row'[r].kind = row[r].kind
                                /\ row[r].enabled => row'[r].due = row[r].due
<1> DEFINE said == IF k[1] \in asked THEN "stopped" ELSE outcome
<1>1. /\ act' = [act EXCEPT ![k] = Free] /\ stopped' = asked \ {k[1]}
      /\ row' = [row EXCEPT ![k[1]] = Recorded(k[1], @, said)]
  BY DEF Finish
<1>2. said \in {"ok", "error", "stopped"} /\ k[1] \in Routines
  BY ActsAre
<1> HIDE DEF said
<1>3. row[k[1]] \in Row
  BY <1>2 DEF TypeOK
<1>4. LET new == Recorded(k[1], row[k[1]], said)
      IN  /\ new \in Row /\ new.enabled = row[k[1]].enabled
          /\ new.kind = row[k[1]].kind
          /\ row[k[1]].enabled => new.due = row[k[1]].due
  BY <1>2, <1>3, RecordKeeps
<1>5. row' \in [Routines -> Row] /\ \A r \in Routines :
        /\ row'[r].enabled = row[r].enabled /\ row'[r].kind = row[r].kind
        /\ row[r].enabled => row'[r].due = row[r].due
  BY <1>1, <1>2, <1>4 DEF TypeOK
<1>6. act' \in [Acts -> Act] /\ act'[k] = Free
      /\ \A j \in Acts : j # k => act'[j] = act[j]
  BY <1>1, RowsAre DEF TypeOK
<1>7. QED BY <1>1, <1>5, <1>6 DEF Free

(***************************************************************************)
(* Exchanges: the three things a step does to them.                        *)
(***************************************************************************)
ExchangePart == OneExchange /\ ActiveIsStreaming /\ ConvIsHome

LEMMA ExchangesUndisturbed ==
  ASSUME ExchangeInv, UNCHANGED <<conv, active>>,
         \A k \in Acts : Streaming(k)' <=> Streaming(k),
         \A k \in Acts : act[k].pc = "running" => act'[k].pc = "running"
  PROVE  ExchangePart'
<1>1. OneExchange'
  BY DEF ExchangeInv, ExchangesAgree, OneExchange, Streaming
<1>2. ActiveIsStreaming'
  BY DEF ExchangeInv, ExchangesAgree, ActiveIsStreaming
<1>3. ConvIsHome'
  BY DEF ExchangeInv, ConvIsHome
<1>4. QED BY <1>1, <1>2, <1>3 DEF ExchangePart

\* Run k starts an exchange in a conversation that streams nothing.
LEMMA ExchangeStarts ==
  ASSUME ExchangeInv, NEW k \in Acts, ~ Busy(Home(k)),
         conv' = [conv EXCEPT ![Home(k)] = k],
         Streaming(k)', \A j \in Acts : j # k => act'[j] = act[j],
         \/ active' = active
         \/ active' = [active EXCEPT ![Home(k)] = k[1]] /\ act'[k].pc = "running"
  PROVE  ExchangePart'
<1>1. conv \in [Agents -> Acts \cup {Idle, ByUser}] /\ Home(k) \in Agents
      /\ active \in [Agents -> Routines \cup {NoRoutine}]
  BY ActsAre DEF ExchangeInv, ExchangesAgree, TypeOK
<1>2. conv[Home(k)] = Idle /\ conv'[Home(k)] = k
      /\ \A a \in Agents : a # Home(k) => conv'[a] = conv[a]
  BY <1>1 DEF Busy
<1>3. OneExchange'
  <2>1. SUFFICES ASSUME NEW j \in Acts
                 PROVE  act'[j].pc \in {"running", "resumed"} <=> conv'[Home(j)] = j
    BY DEF OneExchange, Home
  <2>2. CASE j = k
    BY <1>2, <2>2 DEF Streaming
  <2>3. CASE j # k /\ Home(j) = Home(k)
    BY <1>2, <2>3, ActsAre DEF ExchangeInv, ExchangesAgree, OneExchange
  <2>4. CASE Home(j) # Home(k)
    BY <1>2, <2>4, ActsAre DEF ExchangeInv, ExchangesAgree, OneExchange
  <2>5. QED BY <2>2, <2>3, <2>4
<1>4. active[Home(k)] = NoRoutine
  BY <1>1, <1>2, ActsAre DEF ExchangeInv, ExchangesAgree, ActiveIsStreaming
<1>5. ActiveIsStreaming'
  <2>1. SUFFICES ASSUME NEW a \in Agents, active'[a] # NoRoutine
                 PROVE  \E j \in Acts : j[1] = active'[a] /\ conv'[a] = j
                                       /\ act'[j].pc = "running"
    BY DEF ActiveIsStreaming
  <2>2. CASE a = Home(k)
    <3>1. active' = [active EXCEPT ![Home(k)] = k[1]] /\ act'[k].pc = "running"
      BY <1>4, <2>1, <2>2
    <3>2. QED BY <1>1, <1>2, <2>2, <3>1
  <2>3. CASE a # Home(k)
    <3>1. active'[a] = active[a] /\ conv'[a] = conv[a]
      BY <1>1, <1>2, <2>3
    <3>2. PICK j \in Acts : j[1] = active[a] /\ conv[a] = j /\ act[j].pc = "running"
      BY <2>1, <3>1 DEF ExchangeInv, ExchangesAgree, ActiveIsStreaming
    <3>3. j # k
      BY <1>2, <2>3, <3>2 DEF ExchangeInv, ConvIsHome
    <3>4. QED BY <3>1, <3>2, <3>3
  <2>4. QED BY <2>2, <2>3
<1>6. ConvIsHome'
  BY <1>2 DEF ExchangeInv, ConvIsHome, Home
<1>7. QED BY <1>3, <1>5, <1>6 DEF ExchangePart

\* The exchange of run k is over.
LEMMA ExchangeEnds ==
  ASSUME ExchangeInv, NEW k \in Acts, Streaming(k),
         conv' = [conv EXCEPT ![Home(k)] = Idle],
         ~ Streaming(k)', \A j \in Acts : j # k => act'[j] = act[j],
         \/ active' = active /\ act[k].pc = "resumed"
         \/ active' = [active EXCEPT ![Home(k)] = NoRoutine]
  PROVE  ExchangePart'
<1>1. conv \in [Agents -> Acts \cup {Idle, ByUser}] /\ Home(k) \in Agents
      /\ active \in [Agents -> Routines \cup {NoRoutine}]
  BY ActsAre DEF ExchangeInv, ExchangesAgree, TypeOK
<1>2. conv[Home(k)] = k /\ conv'[Home(k)] = Idle
      /\ \A a \in Agents : a # Home(k) => conv'[a] = conv[a]
  BY <1>1 DEF ExchangeInv, ExchangesAgree, OneExchange, Streaming
<1>3. OneExchange'
  <2>1. SUFFICES ASSUME NEW j \in Acts
                 PROVE  act'[j].pc \in {"running", "resumed"} <=> conv'[Home(j)] = j
    BY DEF OneExchange, Home
  <2>2. CASE j = k
    BY <1>2, <2>2, ActsAre DEF Streaming
  <2>3. CASE j # k /\ Home(j) = Home(k)
    BY <1>2, <2>3, ActsAre DEF ExchangeInv, ExchangesAgree, OneExchange
  <2>4. CASE Home(j) # Home(k)
    BY <1>2, <2>4, ActsAre DEF ExchangeInv, ExchangesAgree, OneExchange
  <2>5. QED BY <2>2, <2>3, <2>4
<1>4. active'[Home(k)] = NoRoutine
      /\ \A a \in Agents : a # Home(k) => active'[a] = active[a]
  <2>1. CASE active' = active /\ act[k].pc = "resumed"
    <3>1. active[Home(k)] = NoRoutine
      BY <1>1, <1>2, <2>1 DEF ExchangeInv, ExchangesAgree, ActiveIsStreaming
    <3>2. QED BY <2>1, <3>1
  <2>2. CASE active' = [active EXCEPT ![Home(k)] = NoRoutine]
    BY <1>1, <2>2
  <2>3. QED BY <2>1, <2>2
<1>5. ActiveIsStreaming'
  <2>1. SUFFICES ASSUME NEW a \in Agents, active'[a] # NoRoutine
                 PROVE  \E j \in Acts : j[1] = active'[a] /\ conv'[a] = j
                                       /\ act'[j].pc = "running"
    BY DEF ActiveIsStreaming
  <2>2. a # Home(k) /\ active'[a] = active[a] /\ conv'[a] = conv[a]
    BY <1>2, <1>4, <2>1
  <2>3. PICK j \in Acts : j[1] = active[a] /\ conv[a] = j /\ act[j].pc = "running"
    BY <2>1, <2>2 DEF ExchangeInv, ExchangesAgree, ActiveIsStreaming
  <2>4. j # k
    BY <2>2, <2>3 DEF ExchangeInv, ConvIsHome
  <2>5. QED BY <2>2, <2>3, <2>4
<1>6. ConvIsHome'
  BY <1>2, ActsAre DEF ExchangeInv, ConvIsHome, Home
<1>7. QED BY <1>3, <1>5, <1>6 DEF ExchangePart

LEMMA ExchangeInit == Init => ExchangeInv
<1> SUFFICES ASSUME Init PROVE ExchangeInv
  OBVIOUS
<1>1. row \in [Routines -> Row]
  <2>1. \A r \in Routines :
          [enabled |-> TRUE, kind |-> FirstKind[r], due |-> Period[FirstKind[r]],
           last |-> "none", watch |-> Unobserved] \in Row
    BY DEF Row, Unobserved
  <2>2. QED BY <2>1 DEF Init
<1>2. act \in [Acts -> Act] /\ \A k \in Acts : act[k].pc = "free"
  BY RowsAre DEF Init, Free
<1>3. clock \in 0..MaxTime /\ source \in [Routines -> Observed]
      /\ users \in Nat /\ manual \in Nat
  BY DEF Init, Observed
<1>4. TypeOK
  BY <1>1, <1>2, <1>3 DEF Init, TypeOK
<1>5. OneExchange
  BY <1>2, ActsAre DEF Init, OneExchange
<1>6. ActiveIsStreaming /\ ConvIsHome
  BY ActsAre DEF Init, ActiveIsStreaming, ConvIsHome
<1>7. QED BY <1>4, <1>5, <1>6 DEF ExchangeInv, ExchangesAgree

(***************************************************************************)
(* The scheduler's steps.  Their effect on rows and runs, which both       *)
(* invariants use, comes first.                                            *)
(***************************************************************************)
\* A tick moves every due row past itself and starts runs in free slots.
LEMMA TickDoes ==
  ASSUME TypeOK, Tick
  PROVE  /\ clock' \in (clock + 1)..MaxTime
         /\ act' \in [Acts -> Act] /\ row' \in [Routines -> Row]
         /\ stopped' \subseteq stopped /\ cancelled' \subseteq cancelled
         /\ \A k \in Acts : act[k].pc # "free" => act'[k] = act[k]
         /\ \A k \in Acts : act'[k] # act[k] => act'[k].pc \in {"waiting", "opening"}
         /\ \A r \in Routines :
              /\ row'[r].enabled = row[r].enabled /\ row'[r].kind = row[r].kind
              /\ row[r].enabled =>
                   \/ row'[r].due = row[r].due
                   \/ /\ row[r].due <= clock'
                      /\ row'[r].due = nextRunAt(row[r].kind, clock')
         /\ checks' \subseteq checks \cup {r \in rows : row[r].kind = "watch"}
         /\ UNCHANGED <<rows, conv, active, source, users, manual>>
<1>1. PICK at \in (clock + 1)..MaxTime :
        LET due     == {r \in rows : row[r].enabled /\ row[r].due <= at}
            watches == {r \in due : row[r].kind = "watch"}
            cells   == [r \in Routines |->
                          IF r \in due
                          THEN [row[r] EXCEPT !.due = nextRunAt(row[r].kind, at)]
                          ELSE row[r]]
        IN  /\ clock' = at
            /\ Begin(due \ watches, TRUE, cells)
            /\ checks' = checks \cup watches
            /\ UNCHANGED <<rows, conv, active, source, users, manual>>
  BY DEF Tick
<1> DEFINE due     == {r \in rows : row[r].enabled /\ row[r].due <= at}
           watches == {r \in due : row[r].kind = "watch"}
           cells   == [r \in Routines |->
                          IF r \in due
                          THEN [row[r] EXCEPT !.due = nextRunAt(row[r].kind, at)]
                          ELSE row[r]]
<1>2. /\ clock' = at /\ Begin(due \ watches, TRUE, cells)
      /\ checks' = checks \cup watches
      /\ UNCHANGED <<rows, conv, active, source, users, manual>>
  BY <1>1
<1>3. cells \in [Routines -> Row] /\ \A r \in Routines :
        /\ cells[r].enabled = row[r].enabled /\ cells[r].kind = row[r].kind
        /\ cells[r].due = IF r \in due THEN nextRunAt(row[r].kind, at)
                                       ELSE row[r].due
  <2>1. at \in Nat
    BY DEF TypeOK
  <2>2. \A r \in Routines : row[r] \in Row /\ row[r].kind \in Kinds
    BY DEF TypeOK, Row
  <2>3. \A r \in Routines : nextRunAt(row[r].kind, at) \in Nat
    BY <2>1, <2>2, RowsAre
  <2> HIDE DEF due
  <2>4. QED BY <2>2, <2>3 DEF Row
<1>4. /\ due \ watches \in SUBSET Routines
      /\ watches \subseteq {r \in rows : row[r].kind = "watch"}
      /\ \A r \in due : row[r].due <= at
  BY DEF TypeOK
<1> HIDE DEF due, watches, cells
<1>5. /\ act' \in [Acts -> Act] /\ row' \in [Routines -> Row]
      /\ stopped' \subseteq stopped /\ cancelled' \subseteq cancelled
      /\ \A k \in Acts : act[k].pc # "free" => act'[k] = act[k]
      /\ \A k \in Acts : act'[k] # act[k] => act'[k].pc \in {"waiting", "opening"}
      /\ \A r \in Routines : /\ row'[r].enabled = cells[r].enabled
                             /\ row'[r].kind = cells[r].kind
                             /\ cells[r].enabled => row'[r].due = cells[r].due
  BY <1>2, <1>3, <1>4, BeginTakes
<1>6. \A r \in Routines :
        /\ row'[r].enabled = row[r].enabled /\ row'[r].kind = row[r].kind
        /\ row[r].enabled =>
             \/ row'[r].due = row[r].due
             \/ /\ row[r].due <= clock'
                /\ row'[r].due = nextRunAt(row[r].kind, clock')
  BY <1>2, <1>3, <1>4, <1>5
<1>7. QED BY <1>2, <1>4, <1>5, <1>6

LEMMA ExchangeTick == ExchangeInv /\ Tick => TypeOK' /\ ExchangePart'
<1> SUFFICES ASSUME ExchangeInv, Tick PROVE TypeOK' /\ ExchangePart'
  OBVIOUS
<1>1. TypeOK
  BY DEF ExchangeInv, ExchangesAgree
<1>2. clock' \in 0..MaxTime /\ checks' \subseteq Routines
  BY <1>1, TickDoes DEF TypeOK
<1>3. TypeOK'
  BY <1>1, <1>2, TickDoes DEF TypeOK
<1>4. ExchangePart'
  BY <1>1, TickDoes, ExchangesUndisturbed DEF Streaming
<1>5. QED BY <1>3, <1>4

\* "Run it now" and a check that saw a change start a run as a tick does.
LEMMA RunNowDoes ==
  ASSUME TypeOK, NEW r \in Routines, RunNow(r)
  PROVE  /\ act' \in [Acts -> Act] /\ row' \in [Routines -> Row]
         /\ stopped' \subseteq stopped /\ cancelled' \subseteq cancelled
         /\ \A k \in Acts : act[k].pc # "free" => act'[k] = act[k]
         /\ \A k \in Acts : act'[k] # act[k] => act'[k].pc \in {"waiting", "opening"}
         /\ \A q \in Routines :
              /\ row'[q].enabled = row[q].enabled /\ row'[q].kind = row[q].kind
              /\ row[q].enabled => row'[q].due = row[q].due
<1>1. Begin({r}, FALSE, row) /\ {r} \in SUBSET Routines /\ row \in [Routines -> Row]
  BY DEF RunNow, TypeOK
<1>2. QED BY <1>1, BeginTakes

LEMMA ExchangeRunNow ==
  ASSUME ExchangeInv, NEW r \in Routines, RunNow(r)
  PROVE  TypeOK' /\ ExchangePart'
<1>1. TypeOK
  BY DEF ExchangeInv, ExchangesAgree
<1>2. TypeOK'
  <2>1. manual' \in Nat
    BY <1>1 DEF RunNow, TypeOK
  <2>2. QED BY <1>1, <2>1, RunNowDoes DEF RunNow, TypeOK
<1>3. ExchangePart'
  <2>1. UNCHANGED <<conv, active>>
    BY DEF RunNow
  <2>2. QED BY <1>1, <2>1, RunNowDoes, ExchangesUndisturbed DEF Streaming
<1>4. QED BY <1>2, <1>3

\* A check gives its row the observation and the next look of a watch.
LEMMA CheckDoes ==
  ASSUME TypeOK, NEW r \in Routines, CheckReturns(r)
  PROVE  /\ act' \in [Acts -> Act] /\ row' \in [Routines -> Row]
         /\ stopped' \subseteq stopped /\ cancelled' \subseteq cancelled
         /\ \A k \in Acts : act[k].pc # "free" => act'[k] = act[k]
         /\ \A k \in Acts : act'[k] # act[k] => act'[k].pc \in {"waiting", "opening"}
         /\ \A q \in Routines :
              /\ row'[q].enabled = row[q].enabled /\ row'[q].kind = row[q].kind
              /\ row[q].enabled =>
                   \/ row'[q].due = row[q].due
                   \/ q = r /\ row'[q].due = nextRunAt("watch", clock)
<1> DEFINE looked(seen) == IF r \in rows
                           THEN [row EXCEPT ![r].watch = seen,
                                            ![r].due = nextRunAt("watch", clock)]
                           ELSE row
           \* What the goal says of the rows.
           Fits(cells) ==
             /\ cells \in [Routines -> Row]
             /\ \A q \in Routines :
                  /\ cells[q].enabled = row[q].enabled /\ cells[q].kind = row[q].kind
                  /\ row[q].enabled =>
                       \/ cells[q].due = row[q].due
                       \/ q = r /\ cells[q].due = nextRunAt("watch", clock)
<1>1. row[r] \in Row /\ row \in [Routines -> Row] /\ row[r].watch \in 0..Unobserved
      /\ source[r] \in 0..Unobserved /\ nextRunAt("watch", clock) \in Nat
  <2>1. source[r] \in 0..Unobserved
    BY DEF TypeOK, Observed, Unobserved
  <2>2. nextRunAt("watch", clock) \in Nat
    BY RowsAre DEF TypeOK, Kinds
  <2> HIDE DEF Unobserved
  <2>3. QED BY <2>1, <2>2 DEF TypeOK, Row
<1>2. ASSUME NEW seen \in 0..Unobserved
      PROVE  Fits(looked(seen))
  <2>1. CASE r \in rows
    <3> DEFINE new == [row[r] EXCEPT !.watch = seen, !.due = nextRunAt("watch", clock)]
    <3>1. new \in Row /\ new.enabled = row[r].enabled /\ new.kind = row[r].kind
          /\ new.due = nextRunAt("watch", clock)
      BY <1>1 DEF Row
    <3>2. looked(seen) = [row EXCEPT ![r] = new]
      BY <1>1, <2>1
    <3> HIDE DEF new
    <3>3. [row EXCEPT ![r] = new] \in [Routines -> Row]
          /\ \A q \in Routines : [row EXCEPT ![r] = new][q] = IF q = r THEN new ELSE row[q]
      BY <1>1, <3>1
    <3> HIDE DEF looked
    <3>4. QED BY <3>1, <3>2, <3>3
  <2>2. CASE r \notin rows
    BY <1>1, <2>2
  <2>3. QED BY <2>1, <2>2
<1>3. ASSUME NEW cell \in Row, cell.enabled = row[r].enabled, cell.kind = row[r].kind,
             row[r].enabled => \/ cell.due = row[r].due
                               \/ cell.due = nextRunAt("watch", clock),
             row' = [row EXCEPT ![r] = Recorded(r, cell, "error")]
      PROVE  Fits(row')
  <2> DEFINE new == Recorded(r, cell, "error")
  <2>1. new \in Row /\ new.enabled = cell.enabled /\ new.kind = cell.kind
        /\ (cell.enabled => new.due = cell.due)
    BY <1>3, RecordKeeps
  <2> HIDE DEF new
  <2>2. row' \in [Routines -> Row] /\ \A q \in Routines : row'[q] = IF q = r THEN new ELSE row[q]
    BY <1>1, <1>3, <2>1 DEF new
  <2>3. QED BY <1>3, <2>1, <2>2
<1>4. ASSUME Fits(row'), UNCHANGED <<act, stopped, cancelled>>
      PROVE  /\ act' \in [Acts -> Act] /\ row' \in [Routines -> Row]
             /\ stopped' \subseteq stopped /\ cancelled' \subseteq cancelled
             /\ \A k \in Acts : act'[k] = act[k]
             /\ Fits(row')
  BY <1>4 DEF TypeOK
<1>5. CASE /\ row' = [row EXCEPT ![r] = Recorded(r, @, "error")]
           /\ UNCHANGED <<act, stopped, cancelled>>
  <2>1. Fits(row')
    BY <1>1, <1>3, <1>5
  <2>2. QED BY <1>4, <1>5, <2>1
<1>6. CASE /\ row' = [row EXCEPT ![r] = Recorded(r, looked(row[r].watch)[r], "error")]
           /\ UNCHANGED <<act, stopped, cancelled>>
  <2>1. Fits(looked(row[r].watch))
    BY <1>1, <1>2
  <2> HIDE DEF looked
  <2>2. Fits(row')
    BY <1>3, <1>6, <2>1
  <2>3. QED BY <1>4, <1>6, <2>2
<1>7. CASE row' = looked(source[r]) /\ UNCHANGED <<act, stopped, cancelled>>
  <2>1. Fits(looked(source[r]))
    BY <1>1, <1>2
  <2> HIDE DEF looked
  <2>2. Fits(row')
    BY <1>7, <2>1
  <2>3. QED BY <1>4, <1>7, <2>2
<1>8. CASE Begin({r}, TRUE, looked(source[r]))
  <2>1. Fits(looked(source[r]))
    BY <1>1, <1>2
  <2> HIDE DEF looked
  <2>2. /\ act' \in [Acts -> Act] /\ row' \in [Routines -> Row]
        /\ stopped' \subseteq stopped /\ cancelled' \subseteq cancelled
        /\ \A k \in Acts : act[k].pc # "free" => act'[k] = act[k]
        /\ \A k \in Acts : act'[k] # act[k] => act'[k].pc \in {"waiting", "opening"}
        /\ \A q \in Routines :
             /\ row'[q].enabled = looked(source[r])[q].enabled
             /\ row'[q].kind = looked(source[r])[q].kind
             /\ looked(source[r])[q].enabled =>
                  row'[q].due = looked(source[r])[q].due
    BY <1>8, <2>1, BeginTakes
  <2>3. QED BY <2>1, <2>2
<1>9. QED BY <1>5, <1>6, <1>7, <1>8 DEF CheckReturns

LEMMA ExchangeCheck ==
  ASSUME ExchangeInv, NEW r \in Routines, CheckReturns(r)
  PROVE  TypeOK' /\ ExchangePart'
<1>1. TypeOK
  BY DEF ExchangeInv, ExchangesAgree
<1>2. /\ checks' = checks \ {r} /\ UNCHANGED <<world, rows, conv, active>>
  BY DEF CheckReturns
<1>3. TypeOK'
  BY <1>1, <1>2, CheckDoes DEF TypeOK, world
<1>4. ExchangePart'
  BY <1>1, <1>2, CheckDoes, ExchangesUndisturbed DEF Streaming
<1>5. QED BY <1>3, <1>4

(***************************************************************************)
(* The steps of a run.                                                     *)
(***************************************************************************)
\* A run that ends uses up the stop request of its routine.
LEMMA RunStepDoes ==
  ASSUME TypeOK, NEW k \in Acts, RunStep(k)
  PROVE  /\ act' \in [Acts -> Act] /\ row' \in [Routines -> Row]
         /\ stopped' \subseteq stopped /\ cancelled' \subseteq cancelled
         /\ \A j \in Acts : j # k => act'[j] = act[j]
         /\ act'[k].pc = "free" => k[1] \notin stopped'
         /\ \A r \in Routines :
              /\ row'[r].enabled = row[r].enabled /\ row'[r].kind = row[r].kind
              /\ row[r].enabled => row'[r].due = row[r].due
         /\ UNCHANGED <<world, rows, checks>>
<1> DEFINE Goal ==
         /\ act' \in [Acts -> Act] /\ row' \in [Routines -> Row]
         /\ stopped' \subseteq stopped /\ cancelled' \subseteq cancelled
         /\ \A j \in Acts : j # k => act'[j] = act[j]
         /\ act'[k].pc = "free" => k[1] \notin stopped'
         /\ \A r \in Routines :
              /\ row'[r].enabled = row[r].enabled /\ row'[r].kind = row[r].kind
              /\ row[r].enabled => row'[r].due = row[r].due
<1>0. SUFFICES Goal
  BY DEF RunStep, Poll, Deliver, ModelFails, RunEnds, Resume, ResumedEnds
<1>1. ASSUME NEW outcome \in {"ok", "error"}, Finish(k, outcome, stopped),
             UNCHANGED cancelled
      PROVE  Goal
  <2>1. stopped \in SUBSET Routines
    BY DEF TypeOK
  <2>2. QED BY <1>1, <2>1, FinishFrees
<1>2. ASSUME NEW new \in Act, new.pc # "free", act' = [act EXCEPT ![k] = new],
             UNCHANGED <<row, stopped, cancelled>>
      PROVE  Goal
  BY <1>2 DEF TypeOK
<1>3. act[k] \in Act
  BY DEF TypeOK
<1>4. ASSUME NEW pc \in {"running", "resumed"}, StartsOwn(k, pc), UNCHANGED cancelled
      PROVE  Goal
  <2>1. [act[k] EXCEPT !.pc = pc, !.failed = FALSE] \in Act
        /\ [act[k] EXCEPT !.pc = pc, !.failed = FALSE].pc # "free"
    BY <1>3 DEF Act
  <2>2. act' = [act EXCEPT ![k] = [act[k] EXCEPT !.pc = pc, !.failed = FALSE]]
    BY <1>4 DEF StartsOwn, TypeOK
  <2>3. QED BY <1>2, <1>4, <2>1, <2>2 DEF StartsOwn
<1>5. CASE Poll(k)
  <2> DEFINE r == k[1]
  <2>1. CASE /\ cancelled' = cancelled \ {r}
             /\ row' = [row EXCEPT ![r] = Recorded(r, @, "stopped")]
             /\ act' = [act EXCEPT ![k] = Free] /\ stopped' = stopped \ {r}
    <3>1. r \in Routines /\ row[r] \in Row
      BY ActsAre DEF TypeOK
    <3> DEFINE new == Recorded(r, row[r], "stopped")
    <3>2. new \in Row /\ new.enabled = row[r].enabled /\ new.kind = row[r].kind
          /\ (row[r].enabled => new.due = row[r].due)
      BY <3>1, RecordKeeps
    <3>3. row' = [row EXCEPT ![r] = new]
      BY <2>1
    <3> HIDE DEF new
    <3>4. row' \in [Routines -> Row] /\ \A q \in Routines :
            /\ row'[q].enabled = row[q].enabled /\ row'[q].kind = row[q].kind
            /\ row[q].enabled => row'[q].due = row[q].due
      BY <3>1, <3>2, <3>3 DEF TypeOK
    <3>5. act' \in [Acts -> Act] /\ \A j \in Acts : j # k => act'[j] = act[j]
      BY <2>1, RowsAre DEF TypeOK
    <3>6. QED BY <2>1, <3>4, <3>5
  <2>2. CASE /\ act' = [act EXCEPT ![k] = Free] /\ stopped' = stopped \ {r}
             /\ UNCHANGED <<row, cancelled>>
    BY <2>2, RowsAre DEF TypeOK
  <2>3. CASE /\ act' = [act EXCEPT ![k].pc = "opening"]
             /\ UNCHANGED <<row, cancelled, stopped>>
    <3>1. [act[k] EXCEPT !.pc = "opening"] \in Act
          /\ [act[k] EXCEPT !.pc = "opening"].pc # "free"
      BY <1>3 DEF Act
    <3>2. act' = [act EXCEPT ![k] = [act[k] EXCEPT !.pc = "opening"]]
      BY <2>3 DEF TypeOK
    <3>3. QED BY <1>2, <2>3, <3>1, <3>2
  <2>4. QED BY <1>5, <2>1, <2>2, <2>3 DEF Poll
<1>6. CASE Deliver(k)
  BY <1>1, <1>4, <1>6 DEF Deliver
<1>7. CASE ModelFails(k)
  <2>1. [act[k] EXCEPT !.failed = TRUE] \in Act
        /\ [act[k] EXCEPT !.failed = TRUE].pc # "free"
    BY <1>3, <1>7 DEF ModelFails, Act
  <2>2. act' = [act EXCEPT ![k] = [act[k] EXCEPT !.failed = TRUE]]
    BY <1>7 DEF ModelFails, TypeOK
  <2>3. QED BY <1>2, <1>7, <2>1, <2>2 DEF ModelFails
<1>8. CASE RunEnds(k)
  <2>1. CASE Finish(k, "ok", stopped)
    BY <1>1, <1>8, <2>1 DEF RunEnds
  <2>2. CASE /\ act' = [act EXCEPT ![k].pc = "retrying"]
             /\ UNCHANGED <<row, stopped>>
    <3>1. [act[k] EXCEPT !.pc = "retrying"] \in Act
          /\ [act[k] EXCEPT !.pc = "retrying"].pc # "free"
      BY <1>3 DEF Act
    <3>2. act' = [act EXCEPT ![k] = [act[k] EXCEPT !.pc = "retrying"]]
      BY <2>2 DEF TypeOK
    <3>3. QED BY <1>2, <1>8, <2>2, <3>1, <3>2 DEF RunEnds
  <2>3. QED BY <1>8, <2>1, <2>2 DEF RunEnds
<1>9. CASE Resume(k)
  BY <1>1, <1>4, <1>9 DEF Resume
<1>10. CASE ResumedEnds(k)
  BY <1>1, <1>10 DEF ResumedEnds
<1>11. QED BY <1>5, <1>6, <1>7, <1>8, <1>9, <1>10 DEF RunStep

LEMMA ExchangeRunStep ==
  ASSUME ExchangeInv, NEW k \in Acts, RunStep(k)
  PROVE  TypeOK' /\ ExchangePart'
<1>1. TypeOK /\ Home(k) \in Agents /\ k[1] \in Routines
  BY ActsAre DEF ExchangeInv, ExchangesAgree
<1>2. /\ conv' \in [Agents -> Acts \cup {Idle, ByUser}]
      /\ active' \in [Agents -> Routines \cup {NoRoutine}]
  BY <1>1 DEF RunStep, Poll, Deliver, ModelFails, RunEnds, Resume, ResumedEnds,
              StartsOwn, ClearsActive, TypeOK
<1>3. TypeOK'
  BY <1>1, <1>2, RunStepDoes DEF TypeOK, world
<1>0. SUFFICES ExchangePart'
  BY <1>3
<1>4. \A j \in Acts : j # k => act'[j] = act[j]
  BY <1>1, RunStepDoes
<1>5. act[k] \in Act /\ act \in [Acts -> Act]
  BY <1>1 DEF TypeOK
<1>6. ASSUME UNCHANGED <<conv, active>>, ~ Streaming(k), ~ Streaming(k)'
      PROVE  ExchangePart'
  <2>1. \A j \in Acts : Streaming(j)' <=> Streaming(j)
    BY <1>4, <1>6 DEF Streaming
  <2>2. \A j \in Acts : act[j].pc = "running" => act'[j].pc = "running"
    BY <1>4, <1>6 DEF Streaming
  <2>3. QED BY <1>6, <2>1, <2>2, ExchangesUndisturbed
<1>7. ASSUME NEW outcome, NEW asked, Finish(k, outcome, asked)
      PROVE  ~ Streaming(k)'
  BY <1>5, <1>7 DEF Finish, Free, Streaming
<1>8. CASE Poll(k)
  <2>1. ~ Streaming(k) /\ ~ Streaming(k)' /\ UNCHANGED <<conv, active>>
    BY <1>5, <1>8 DEF Poll, Free, Act, Streaming
  <2>2. QED BY <1>6, <2>1
<1>9. CASE Deliver(k)
  <2>1. ~ Streaming(k)
    BY <1>9 DEF Deliver, Streaming
  <2>2. CASE UNCHANGED <<conv, active>> /\ ~ Streaming(k)'
    BY <1>6, <2>1, <2>2
  <2>3. CASE /\ Finish(k, "ok", stopped) /\ Busy(Home(k)) /\ UNCHANGED conv
             /\ active' = [active EXCEPT ![Home(k)] = NoRoutine]
    <3>1. ~ Streaming(k)'
      BY <1>7, <2>3
    <3>2. OneExchange' /\ ConvIsHome'
      BY <1>4, <2>1, <2>3, <3>1
         DEF ExchangeInv, ExchangesAgree, OneExchange, ConvIsHome, Home, Streaming
    <3>3. ActiveIsStreaming'
      <4>1. SUFFICES ASSUME NEW a \in Agents, active'[a] # NoRoutine
                     PROVE  \E j \in Acts : j[1] = active'[a] /\ conv'[a] = j
                                           /\ act'[j].pc = "running"
        BY DEF ActiveIsStreaming
      <4>2. active'[a] = active[a]
        BY <1>1, <2>3, <4>1 DEF TypeOK
      <4>3. PICK j \in Acts : j[1] = active[a] /\ conv[a] = j /\ act[j].pc = "running"
        BY <4>1, <4>2 DEF ExchangeInv, ExchangesAgree, ActiveIsStreaming
      <4>4. j # k
        BY <2>1, <4>3 DEF Streaming
      <4>5. QED BY <1>4, <2>3, <4>2, <4>3, <4>4
    <3>4. QED BY <3>2, <3>3 DEF ExchangePart
  <2>4. CASE /\ ~ Busy(Home(k)) /\ StartsOwn(k, "running")
             /\ active' = [active EXCEPT ![Home(k)] = k[1]]
    <3>1. conv' = [conv EXCEPT ![Home(k)] = k] /\ act'[k].pc = "running"
      BY <1>5, <2>4 DEF StartsOwn, Act
    <3>2. QED BY <1>4, <2>4, <3>1, ExchangeStarts DEF Streaming
  <2>5. QED BY <1>7, <1>9, <2>2, <2>3, <2>4 DEF Deliver
<1>10. CASE ModelFails(k)
  <2>1. \A j \in Acts : act'[j].pc = act[j].pc
    BY <1>5, <1>10 DEF ModelFails, Act
  <2>2. QED BY <1>10, <2>1, ExchangesUndisturbed DEF ModelFails, Streaming
<1>11. CASE RunEnds(k)
  <2>1. /\ Streaming(k) /\ conv' = [conv EXCEPT ![Home(k)] = Idle]
        /\ active' = [active EXCEPT ![Home(k)] = NoRoutine]
    BY <1>11 DEF RunEnds, ClearsActive, Streaming
  <2>2. ~ Streaming(k)'
    <3>1. CASE Finish(k, "ok", stopped)
      BY <1>7, <3>1
    <3>2. CASE act' = [act EXCEPT ![k].pc = "retrying"]
      BY <1>5, <3>2 DEF Act, Streaming
    <3>3. QED BY <1>11, <3>1, <3>2 DEF RunEnds
  <2>3. QED BY <1>4, <2>1, <2>2, ExchangeEnds
<1>12. CASE Resume(k)
  <2>1. ~ Streaming(k) /\ UNCHANGED active
    BY <1>12 DEF Resume, Streaming
  <2>2. CASE Finish(k, "ok", stopped) /\ UNCHANGED conv
    BY <1>6, <1>7, <2>1, <2>2
  <2>3. CASE ~ Busy(Home(k)) /\ StartsOwn(k, "resumed")
    <3>1. conv' = [conv EXCEPT ![Home(k)] = k] /\ act'[k].pc = "resumed"
      BY <1>5, <2>3 DEF StartsOwn, Act
    <3>2. QED BY <1>4, <2>1, <2>3, <3>1, ExchangeStarts DEF Streaming
  <2>4. QED BY <1>12, <2>2, <2>3 DEF Resume
<1>13. CASE ResumedEnds(k)
  <2>1. /\ Streaming(k) /\ conv' = [conv EXCEPT ![Home(k)] = Idle]
        /\ active' = active /\ act[k].pc = "resumed" /\ Finish(k, "ok", stopped)
    BY <1>13 DEF ResumedEnds, Streaming
  <2>2. ~ Streaming(k)'
    BY <1>7, <2>1
  <2>3. QED BY <1>4, <2>1, <2>2, ExchangeEnds
<1>14. QED BY <1>3, <1>8, <1>9, <1>10, <1>11, <1>12, <1>13 DEF RunStep

(***************************************************************************)
(* The user's steps.                                                       *)
(***************************************************************************)
\* A stop interrupts the routine's own exchange or leaves a request behind; the
\* run it interrupts uses the request up.
LEMMA StopDoes ==
  ASSUME ExchangeInv, NEW r \in Routines, Stop(r)
  PROVE  /\ act' \in [Acts -> Act] /\ row' \in [Routines -> Row]
         /\ cancelled' \subseteq Routines
         /\ UNCHANGED <<world, rows, checks>> /\ isRunning(r)
         /\ \A q \in Routines :
              /\ row'[q].enabled = row[q].enabled /\ row'[q].kind = row[q].kind
              /\ row[q].enabled => row'[q].due = row[q].due
         /\ \/ /\ stopped' = stopped \cup {r}
               /\ UNCHANGED <<act, conv, active>>
            \/ \E k \in Acts :
                 /\ k[1] = r /\ Home(k) = AgentOf[r] /\ act[k].pc = "running"
                 /\ stopped' = stopped \ {r} /\ act'[k].pc = "free"
                 /\ \A j \in Acts : j # k => act'[j] = act[j]
                 /\ conv' = [conv EXCEPT ![AgentOf[r]] = Idle]
                 /\ active' = [active EXCEPT ![AgentOf[r]] = NoRoutine]
<1>1. TypeOK /\ AgentOf[r] \in Agents /\ stopped \cup {r} \in SUBSET Routines
  BY DEF ExchangeInv, ExchangesAgree, TypeOK
<1>2. /\ cancelled' \subseteq Routines /\ UNCHANGED <<world, rows, checks>>
      /\ isRunning(r)
  BY <1>1 DEF Stop, TypeOK
<1>3. CASE StopsOwn(r) = {}
  BY <1>1, <1>2, <1>3 DEF Stop, TypeOK
<1>4. CASE StopsOwn(r) # {}
  <2>1. PICK k \in StopsOwn(r) :
          IF k = ByUser
          THEN stopped' = stopped \cup {r} /\ UNCHANGED <<row, act>>
          ELSE Finish(k, "ok", stopped \cup {r})
    BY <1>4 DEF Stop
  <2>2. active[AgentOf[r]] = r /\ conv[AgentOf[r]] = k
    BY DEF StopsOwn
  <2>3. r # NoRoutine
    BY DataAssumption
  <2>4. PICK j \in Acts : j[1] = r /\ conv[AgentOf[r]] = j /\ act[j].pc = "running"
    BY <1>1, <2>2, <2>3 DEF ExchangeInv, ExchangesAgree, ActiveIsStreaming
  <2>5. k \in Acts /\ Finish(k, "ok", stopped \cup {r})
    BY <2>1, <2>2, <2>4, ActsAre
  <2>6. k[1] = r /\ act[k].pc = "running" /\ Home(k) = AgentOf[r]
    BY <2>2, <2>4 DEF Home
  <2>7. /\ act' \in [Acts -> Act] /\ row' \in [Routines -> Row]
        /\ stopped' = (stopped \cup {r}) \ {k[1]}
        /\ act'[k].pc = "free" /\ \A i \in Acts : i # k => act'[i] = act[i]
        /\ \A q \in Routines : /\ row'[q].enabled = row[q].enabled
                               /\ row'[q].kind = row[q].kind
                               /\ row[q].enabled => row'[q].due = row[q].due
    BY <1>1, <2>5, FinishFrees
  <2>8. /\ conv' = [conv EXCEPT ![AgentOf[r]] = Idle]
        /\ active' = [active EXCEPT ![AgentOf[r]] = NoRoutine]
    BY <1>4 DEF Stop
  <2>9. stopped' = stopped \ {r}
    BY <2>6, <2>7
  <2>10. QED BY <1>2, <2>2, <2>5, <2>6, <2>7, <2>8, <2>9
<1>5. QED BY <1>3, <1>4

LEMMA ExchangeStop ==
  ASSUME ExchangeInv, NEW r \in Routines, Stop(r)
  PROVE  TypeOK' /\ ExchangePart'
<1>1. TypeOK /\ AgentOf[r] \in Agents
  BY DEF ExchangeInv, ExchangesAgree
<1>2. CASE stopped' = stopped \cup {r} /\ UNCHANGED <<act, conv, active>>
  <2>1. TypeOK'
    BY <1>1, <1>2, StopDoes DEF TypeOK, world
  <2>2. ExchangePart'
    BY <1>2, ExchangesUndisturbed DEF Streaming
  <2>3. QED BY <2>1, <2>2
<1>3. ASSUME NEW k \in Acts,
             /\ k[1] = r /\ Home(k) = AgentOf[r] /\ act[k].pc = "running"
             /\ stopped' = stopped \ {r} /\ act'[k].pc = "free"
             /\ \A j \in Acts : j # k => act'[j] = act[j]
             /\ conv' = [conv EXCEPT ![AgentOf[r]] = Idle]
             /\ active' = [active EXCEPT ![AgentOf[r]] = NoRoutine]
      PROVE  TypeOK' /\ ExchangePart'
  <2>1. /\ conv' \in [Agents -> Acts \cup {Idle, ByUser}]
        /\ active' \in [Agents -> Routines \cup {NoRoutine}]
        /\ stopped' \subseteq Routines
    BY <1>1, <1>3 DEF TypeOK
  <2>2. TypeOK'
    BY <1>1, <2>1, StopDoes DEF TypeOK, world
  <2>3. ExchangePart'
    BY <1>3, ExchangeEnds DEF Streaming
  <2>4. QED BY <2>2, <2>3
<1>4. QED BY <1>2, <1>3, StopDoes

LEMMA ExchangeUserPrompt ==
  ASSUME ExchangeInv, NEW a \in Agents, UserPrompt(a)
  PROVE  TypeOK' /\ ExchangePart'
<1>1. TypeOK
  BY DEF ExchangeInv, ExchangesAgree
<1>2. /\ conv[a] = Idle /\ conv' = [conv EXCEPT ![a] = ByUser]
      /\ UNCHANGED <<act, active>>
  BY DEF UserPrompt, Busy
<1>3. conv'[a] = ByUser /\ \A b \in Agents : b # a => conv'[b] = conv[b]
  BY <1>1, <1>2 DEF TypeOK
<1>4. TypeOK'
  <2>1. users' \in Nat
    BY <1>1 DEF UserPrompt, TypeOK
  <2>2. conv' \in [Agents -> Acts \cup {Idle, ByUser}]
    BY <1>1, <1>2 DEF TypeOK
  <2>3. QED BY <1>1, <2>1, <2>2 DEF UserPrompt, TypeOK
<1>5. OneExchange'
  BY <1>2, <1>3, ActsAre DEF ExchangeInv, ExchangesAgree, OneExchange, Home
<1>6. ActiveIsStreaming'
  BY <1>2, <1>3, ActsAre DEF ExchangeInv, ExchangesAgree, ActiveIsStreaming
<1>7. ConvIsHome'
  BY <1>3, ActsAre DEF ExchangeInv, ConvIsHome, Home
<1>8. QED BY <1>4, <1>5, <1>6, <1>7 DEF ExchangePart

LEMMA ExchangeUserRunEnds ==
  ASSUME ExchangeInv, NEW a \in Agents, UserRunEnds(a)
  PROVE  TypeOK' /\ ExchangePart'
<1>1. TypeOK
  BY DEF ExchangeInv, ExchangesAgree
<1>2. /\ conv[a] = ByUser /\ conv' = [conv EXCEPT ![a] = Idle]
      /\ UNCHANGED <<act, active>>
  BY DEF UserRunEnds
<1>3. conv'[a] = Idle /\ \A b \in Agents : b # a => conv'[b] = conv[b]
  BY <1>1, <1>2 DEF TypeOK
<1>4. TypeOK'
  <2>1. conv' \in [Agents -> Acts \cup {Idle, ByUser}]
    BY <1>1, <1>2 DEF TypeOK
  <2>2. QED BY <1>1, <2>1 DEF UserRunEnds, TypeOK, world
<1>5. OneExchange'
  BY <1>2, <1>3, ActsAre DEF ExchangeInv, ExchangesAgree, OneExchange, Home
<1>6. ActiveIsStreaming'
  BY <1>2, <1>3, ActsAre DEF ExchangeInv, ExchangesAgree, ActiveIsStreaming
<1>7. ConvIsHome'
  BY <1>3, ActsAre DEF ExchangeInv, ConvIsHome, Home
<1>8. QED BY <1>4, <1>5, <1>6, <1>7 DEF ExchangePart

LEMMA ExchangeRebuild ==
  ASSUME ExchangeInv, NEW a \in Agents, Rebuild(a)
  PROVE  TypeOK' /\ ExchangePart'
<1>1. TypeOK
  BY DEF ExchangeInv, ExchangesAgree
<1>2. act' \in [Acts -> Act] /\ \A k \in Acts : act'[k].pc = act[k].pc
  <2>1. \A k \in Acts : /\ [act[k] EXCEPT !.closed = TRUE] \in Act
                        /\ [act[k] EXCEPT !.closed = TRUE].pc = act[k].pc
    <3>1. \A cell \in Act : /\ [cell EXCEPT !.closed = TRUE] \in Act
                             /\ [cell EXCEPT !.closed = TRUE].pc = cell.pc
      BY Zenon DEF Act
    <3>2. QED BY <1>1, <3>1 DEF TypeOK
  <2>2. QED BY <1>1, <2>1 DEF Rebuild, TypeOK
<1>3. TypeOK'
  BY <1>1, <1>2 DEF Rebuild, TypeOK, world
<1>4. ExchangePart'
  BY <1>2, ExchangesUndisturbed DEF Rebuild, Streaming
<1>5. QED BY <1>3, <1>4

\* A change of a row counts its next run from now.
LEMMA RescheduleDoes ==
  ASSUME TypeOK, NEW r \in Routines, NEW enabled \in BOOLEAN, NEW kind \in Kinds,
         Rescheduled(r, enabled, kind)
  PROVE  /\ row' \in [Routines -> Row]
         /\ row'[r].enabled = enabled /\ row'[r].kind = kind
         /\ enabled => row'[r].due = nextRunAt(kind, clock)
         /\ \A q \in Routines : q # r => row'[q] = row[q]
         /\ UNCHANGED <<world, rows, act, checks, stopped, cancelled, conv, active>>
<1> DEFINE due == IF enabled THEN nextRunAt(kind, clock) ELSE Never
           new == [row[r] EXCEPT !.enabled = enabled, !.kind = kind, !.due = due]
<1>1. row[r] \in Row /\ row \in [Routines -> Row]
  BY DEF TypeOK
<1>2. due \in Nat
  BY RowsAre DEF TypeOK
<1>3. row' = [row EXCEPT ![r] = new]
  BY DEF Rescheduled, TypeOK
<1>4. (enabled => due = nextRunAt(kind, clock))
  OBVIOUS
<1> HIDE DEF due
<1>5. new \in Row /\ new.enabled = enabled /\ new.kind = kind /\ new.due = due
  BY <1>1, <1>2 DEF Row
<1> HIDE DEF new
<1>6. /\ row' \in [Routines -> Row] /\ row'[r] = new
      /\ \A q \in Routines : q # r => row'[q] = row[q]
  BY <1>1, <1>3, <1>5
<1>7. QED BY <1>4, <1>5, <1>6 DEF Rescheduled

LEMMA ExchangeReschedule ==
  ASSUME ExchangeInv, NEW r \in Routines, NEW enabled \in BOOLEAN, NEW kind \in Kinds,
         Rescheduled(r, enabled, kind)
  PROVE  TypeOK' /\ ExchangePart'
<1>1. TypeOK
  BY DEF ExchangeInv, ExchangesAgree
<1>2. TypeOK'
  BY <1>1, RescheduleDoes DEF TypeOK, world
<1>3. ExchangePart'
  BY <1>1, RescheduleDoes, ExchangesUndisturbed DEF Streaming
<1>4. QED BY <1>2, <1>3

\* What the user's changes of a routine are.
LEMMA ChangesAre ==
  ASSUME TypeOK, NEW r \in Routines, Toggle(r) \/ Edit(r)
  PROVE  \E enabled \in BOOLEAN, kind \in Kinds :
            /\ Rescheduled(r, enabled, kind)
            /\ \/ enabled = ~ row[r].enabled /\ kind = row[r].kind
               \/ enabled = row[r].enabled /\ ("editInCheck" \in Env \/ r \notin checks)
<1>1. row[r].enabled \in BOOLEAN /\ row[r].kind \in Kinds
  BY DEF TypeOK, Row
<1>2. CASE Toggle(r)
  <2>1. Rescheduled(r, ~ row[r].enabled, row[r].kind)
    BY <1>2 DEF Toggle
  <2>2. (~ row[r].enabled) \in BOOLEAN
    BY <1>1
  <2>3. QED BY <1>1, <2>1, <2>2
<1>3. CASE Edit(r)
  <2>1. PICK kind \in Kinds : Rescheduled(r, row[r].enabled, kind)
    BY <1>3 DEF Edit
  <2>2. "editInCheck" \in Env \/ r \notin checks
    BY <1>3 DEF Edit
  <2>3. QED BY <1>1, <2>1, <2>2
<1>4. QED BY <1>2, <1>3

LEMMA ExchangeStep == ExchangeInv /\ [Next]_vars => ExchangeInv'
<1> SUFFICES ASSUME ExchangeInv, [Next]_vars PROVE TypeOK' /\ ExchangePart'
  BY DEF ExchangeInv, ExchangesAgree, ExchangePart
<1>1. TypeOK
  BY DEF ExchangeInv, ExchangesAgree
<1>2. ASSUME NEW r \in Routines, Toggle(r) \/ Edit(r) PROVE TypeOK' /\ ExchangePart'
  <2>1. PICK enabled \in BOOLEAN, kind \in Kinds : Rescheduled(r, enabled, kind)
    BY <1>1, <1>2, ChangesAre
  <2>2. QED BY <2>1, ExchangeReschedule
<1>3. ASSUME NEW r \in Routines, Delete(r) PROVE TypeOK' /\ ExchangePart'
  <2>1. TypeOK'
    BY <1>1, <1>3 DEF Delete, TypeOK, world
  <2>2. ExchangePart'
    BY <1>3, ExchangesUndisturbed DEF Delete, Streaming
  <2>3. QED BY <2>1, <2>2
<1>4. ASSUME NEW r \in Routines, SourceChanges(r) PROVE TypeOK' /\ ExchangePart'
  <2>1. source' \in [Routines -> Observed]
    BY <1>1, <1>4 DEF SourceChanges, TypeOK, Observed
  <2>2. TypeOK'
    BY <1>1, <1>4, <2>1 DEF SourceChanges, TypeOK
  <2>3. ExchangePart'
    BY <1>4, ExchangesUndisturbed DEF SourceChanges, Streaming
  <2>4. QED BY <2>2, <2>3
<1>5. CASE UNCHANGED vars
  <2>1. TypeOK'
    BY <1>1, <1>5 DEF vars, TypeOK
  <2>2. ExchangePart'
    BY <1>5, ExchangesUndisturbed DEF vars, Streaming
  <2>3. QED BY <2>1, <2>2
<1>6. QED
  BY <1>2, <1>3, <1>4, <1>5, ExchangeTick, ExchangeRunStep, ExchangeRunNow,
     ExchangeCheck, ExchangeStop, ExchangeUserPrompt, ExchangeUserRunEnds,
     ExchangeRebuild
  DEF Next

\* Whoever prompts, stops, retries, edits or rebuilds, a conversation streams the
\* exchange of the run that awaits it and names that run's routine
\* (session-agent.ts, runPrompt; core.ts, routineRunner).
THEOREM ExchangesAlwaysAgree == Spec => []ExchangesAgree
<1>1. ExchangeInv => ExchangesAgree
  BY DEF ExchangeInv
<1>2. QED BY <1>1, ExchangeInit, ExchangeStep, PTL DEF Spec

(***************************************************************************)
(* User runs: an exchange of the user's ends by itself only.               *)
(***************************************************************************)
LEMMA UserRunsStep ==
  ExchangeInv /\ [Next]_vars =>
    \A a \in Agents : conv[a] = ByUser /\ conv'[a] # ByUser =>
                       UNCHANGED <<stopped, cancelled>>
<1> SUFFICES ASSUME ExchangeInv, [Next]_vars,
                    NEW a \in Agents, conv[a] = ByUser, conv'[a] # ByUser
             PROVE  UNCHANGED <<stopped, cancelled>>
  OBVIOUS
<1>1. TypeOK /\ conv \in [Agents -> Acts \cup {Idle, ByUser}]
  BY DEF ExchangeInv, ExchangesAgree, TypeOK
<1>2. conv' # conv
  OBVIOUS
<1>3. ASSUME NEW k \in Acts, RunStep(k) PROVE FALSE
  <2>1. conv[Home(k)] # ByUser
    <3>1. CASE Streaming(k)
      BY <3>1, ActsAre DEF ExchangeInv, ExchangesAgree, OneExchange, Streaming
    <3>2. CASE ~ Streaming(k)
      <4>1. conv' = [conv EXCEPT ![Home(k)] = k] /\ ~ Busy(Home(k))
        BY <1>2, <1>3, <3>2 DEF RunStep, Poll, Deliver, ModelFails, RunEnds, Resume,
                                ResumedEnds, StartsOwn, Streaming
      <4>2. QED BY <4>1 DEF Busy, Idle, ByUser
    <3>3. QED BY <3>1, <3>2
  <2>2. conv'[a] = conv[a]
    BY <1>1, <1>3, <2>1 DEF RunStep, Poll, Deliver, ModelFails, RunEnds, Resume,
                            ResumedEnds, StartsOwn
  <2>3. QED BY <2>2
<1>4. ASSUME NEW r \in Routines, Stop(r) PROVE FALSE
  <2>1. PICK k \in Acts : conv[AgentOf[r]] = k
    <3>1. active[AgentOf[r]] = r /\ AgentOf[r] \in Agents /\ r # NoRoutine
      BY <1>2, <1>4, DataAssumption DEF Stop, StopsOwn
    <3>2. QED BY <3>1 DEF ExchangeInv, ExchangesAgree, ActiveIsStreaming
  <2>2. conv'[a] = conv[a]
    BY <1>1, <1>4, <2>1, ActsAre DEF Stop
  <2>3. QED BY <2>2
<1>5. ASSUME NEW b \in Agents, UserPrompt(b) PROVE FALSE
  BY <1>1, <1>5 DEF UserPrompt, Busy
<1>6. ASSUME NEW b \in Agents, UserRunEnds(b)
      PROVE  UNCHANGED <<stopped, cancelled>>
  BY <1>6 DEF UserRunEnds
<1>7. CASE Tick
  BY <1>2, <1>7 DEF Tick
<1>8. ASSUME NEW r \in Routines,
             RunNow(r) \/ CheckReturns(r) \/ Toggle(r) \/ Edit(r) \/ Delete(r)
               \/ SourceChanges(r)
      PROVE  FALSE
  BY <1>2, <1>8 DEF RunNow, CheckReturns, Toggle, Edit, Rescheduled, Delete,
                    SourceChanges
<1>9. ASSUME NEW b \in Agents, Rebuild(b) PROVE FALSE
  BY <1>2, <1>9 DEF Rebuild
<1>10. CASE UNCHANGED vars
  BY <1>2, <1>10 DEF vars
<1>11. QED BY <1>3, <1>4, <1>5, <1>6, <1>7, <1>8, <1>9, <1>10 DEF Next

\* No stop of a routine cuts a run the user started (core.ts 809-811).
THEOREM UserRunsGoOn == Spec => UserRunsAreNotCut
<1>1. Spec => []ExchangeInv
  BY ExchangeInit, ExchangeStep, PTL DEF Spec
<1>2. ExchangeInv /\ [Next]_vars =>
        [\A a \in Agents : conv[a] = ByUser /\ conv'[a] # ByUser =>
                             UNCHANGED <<stopped, cancelled>>]_vars
  BY UserRunsStep
<1>3. QED BY <1>1, <1>2, PTL DEF Spec, UserRunsAreNotCut

(***************************************************************************)
(* What runs leave.                                                        *)
(***************************************************************************)
\* A routine that is asked to stop keeps a run as long as the request stands.
LEMMA RequestsStay ==
  ASSUME TypeOK, StopsAreSpent, stopped' \subseteq stopped,
         \A k \in Acts : act[k].pc # "free" /\ k[1] \in stopped' => act'[k].pc # "free"
  PROVE  StopsAreSpent'
<1> SUFFICES ASSUME NEW r \in stopped' PROVE isRunning(r)'
  BY DEF StopsAreSpent
<1>1. r \in stopped /\ r \in Routines
  BY DEF TypeOK
<1>2. PICK s \in 1..MaxSlots : act[<<r, s>>].pc # "free"
  BY <1>1 DEF StopsAreSpent, isRunning
<1>3. act'[<<r, s>>].pc # "free"
  BY <1>1, <1>2, ActsAre
<1>4. QED BY <1>3 DEF isRunning

\* A run that was going on still is.
LEMMA RunsStay ==
  ASSUME NEW r \in Routines, isRunning(r),
         \A k \in Acts : act[k].pc # "free" => act'[k].pc # "free"
  PROVE  isRunning(r)'
<1>1. PICK s \in 1..MaxSlots : act[<<r, s>>].pc # "free"
  BY DEF isRunning
<1>2. act'[<<r, s>>].pc # "free"
  BY <1>1, ActsAre
<1>3. QED BY <1>2 DEF isRunning

DuePart == DueIsNear /\ ChecksAreOfWatches
LegacyPart == StopsAreSpent' /\ DuePart' /\ DueNeverGoesBack

\* The scheduler moves the next run of a row only forward: a tick past a slot
\* that is due, a check of a watch as far as a watch is ever ahead.
LEMMA DueGoesOn ==
  ASSUME TypeOK, DuePart, clock' \in Nat, clock' >= clock, rows' \subseteq rows,
         checks' \subseteq checks \cup {r \in rows : row[r].kind = "watch"},
         \A r \in rows :
           /\ row'[r].enabled = row[r].enabled /\ row'[r].kind = row[r].kind
           /\ row[r].enabled =>
                \/ row'[r].due = row[r].due
                \/ /\ row[r].due <= clock'
                   /\ row'[r].due = nextRunAt(row[r].kind, clock')
                \/ /\ row[r].kind = "watch" /\ clock' = clock
                   /\ row'[r].due = nextRunAt("watch", clock)
  PROVE  DuePart' /\ DueNeverGoesBack
<1>1. clock \in Nat /\ \A kind \in Kinds : Period[kind] \in Nat
  BY DEF TypeOK
<1>2. \A r \in rows : row[r].due \in Nat /\ row[r].kind \in Kinds
  BY DEF TypeOK, Row
<1>3. DueIsNear'
  <2>1. SUFFICES ASSUME NEW r \in rows', row'[r].enabled
                 PROVE  row'[r].due <= clock' + Period[row'[r].kind]
    BY DEF DueIsNear
  <2>2. r \in rows /\ row[r].enabled /\ row'[r].kind = row[r].kind
    BY <2>1
  <2>3. row[r].due <= clock + Period[row[r].kind] /\ Period[row[r].kind] \in Nat
    BY <1>1, <1>2, <2>2 DEF DuePart, DueIsNear
  <2>4. CASE row'[r].due = row[r].due
    BY <1>1, <1>2, <2>2, <2>3, <2>4
  <2>5. CASE row'[r].due = nextRunAt(row[r].kind, clock')
    BY <2>2, <2>3, <2>5 DEF nextRunAt
  <2>6. CASE /\ row[r].kind = "watch" /\ clock' = clock
             /\ row'[r].due = nextRunAt("watch", clock)
    BY <2>2, <2>3, <2>6 DEF nextRunAt
  <2>7. QED BY <2>2, <2>4, <2>5, <2>6
<1>4. ChecksAreOfWatches'
  BY DEF DuePart, ChecksAreOfWatches
<1>5. DueNeverGoesBack
  <2>1. SUFFICES ASSUME NEW r \in rows, row[r].enabled
                 PROVE  row'[r].due >= row[r].due
    BY DEF DueNeverGoesBack
  <2>2. row[r].due <= clock + Period[row[r].kind] /\ Period[row[r].kind] \in Nat
    BY <1>1, <1>2, <2>1 DEF DuePart, DueIsNear
  <2>3. CASE row'[r].due = row[r].due
    BY <1>2, <2>3
  <2>4. CASE row[r].due <= clock' /\ row'[r].due = nextRunAt(row[r].kind, clock')
    BY <1>2, <2>2, <2>4 DEF nextRunAt
  <2>5. CASE /\ row[r].kind = "watch" /\ clock' = clock
             /\ row'[r].due = nextRunAt("watch", clock)
    BY <1>1, <1>2, <2>2, <2>5 DEF nextRunAt
  <2>6. QED BY <2>1, <2>3, <2>4, <2>5
<1>6. QED BY <1>3, <1>4, <1>5 DEF DuePart

\* A step that leaves the rows, the clock and the checks alone.
LEMMA DueStays ==
  ASSUME TypeOK, DuePart, UNCHANGED <<clock, checks>>, rows' \subseteq rows,
         \A r \in rows : /\ row'[r].enabled = row[r].enabled
                         /\ row'[r].kind = row[r].kind
                         /\ row[r].enabled => row'[r].due = row[r].due
  PROVE  DuePart' /\ DueNeverGoesBack
<1>1. clock' \in Nat /\ clock' >= clock
  BY DEF TypeOK
<1>2. QED BY <1>1, DueGoesOn

LEMMA LegacyTick == LegacyInv /\ Tick => LegacyPart
<1> SUFFICES ASSUME LegacyInv, Tick PROVE LegacyPart
  OBVIOUS
<1>1. TypeOK /\ StopsAreSpent /\ DuePart
  BY DEF LegacyInv, ExchangeInv, ExchangesAgree, DuePart
<1>2. clock' \in Nat /\ clock' >= clock
  BY <1>1, TickDoes DEF TypeOK
<1>3. rows \subseteq Routines
  BY <1>1 DEF TypeOK
<1>4. StopsAreSpent'
  BY <1>1, TickDoes, RequestsStay
<1>5. DuePart' /\ DueNeverGoesBack
  <2>1. \A r \in rows :
          /\ row'[r].enabled = row[r].enabled /\ row'[r].kind = row[r].kind
          /\ row[r].enabled =>
               \/ row'[r].due = row[r].due
               \/ /\ row[r].due <= clock'
                  /\ row'[r].due = nextRunAt(row[r].kind, clock')
    BY <1>1, <1>3, TickDoes
  <2>2. /\ checks' \subseteq checks \cup {r \in rows : row[r].kind = "watch"}
        /\ rows' = rows
    BY <1>1, TickDoes
  <2>3. QED BY <1>1, <1>2, <2>1, <2>2, DueGoesOn
<1>6. QED BY <1>4, <1>5 DEF LegacyPart

LEMMA LegacyRunNow ==
  ASSUME LegacyInv, NEW r \in Routines, RunNow(r)
  PROVE  LegacyPart
<1>1. TypeOK /\ StopsAreSpent /\ DuePart
  BY DEF LegacyInv, ExchangeInv, ExchangesAgree, DuePart
<1>2. StopsAreSpent'
  BY <1>1, RunNowDoes, RequestsStay
<1>3. DuePart' /\ DueNeverGoesBack
  <2>1. UNCHANGED <<clock, rows, checks>> /\ rows \subseteq Routines
    BY <1>1 DEF RunNow, TypeOK
  <2>2. QED BY <1>1, <2>1, RunNowDoes, DueStays
<1>4. QED BY <1>2, <1>3 DEF LegacyPart

LEMMA LegacyCheck ==
  ASSUME LegacyInv, NEW r \in Routines, CheckReturns(r)
  PROVE  LegacyPart
<1>1. TypeOK /\ StopsAreSpent /\ DuePart
  BY DEF LegacyInv, ExchangeInv, ExchangesAgree, DuePart
<1>2. StopsAreSpent'
  BY <1>1, CheckDoes, RequestsStay
<1>3. DuePart' /\ DueNeverGoesBack
  <2>1. /\ clock' = clock /\ rows' = rows /\ checks' \subseteq checks
        /\ clock' \in Nat /\ clock' >= clock /\ rows \subseteq Routines
    BY <1>1 DEF CheckReturns, world, TypeOK
  <2>2. r \in rows => row[r].kind = "watch"
    BY <1>1 DEF CheckReturns, DuePart, ChecksAreOfWatches
  <2>3. \A q \in rows :
          /\ row'[q].enabled = row[q].enabled /\ row'[q].kind = row[q].kind
          /\ row[q].enabled =>
               \/ row'[q].due = row[q].due
               \/ /\ row[q].kind = "watch" /\ clock' = clock
                  /\ row'[q].due = nextRunAt("watch", clock)
    BY <1>1, <2>1, <2>2, CheckDoes
  <2>4. QED BY <1>1, <2>1, <2>3, DueGoesOn
<1>4. QED BY <1>2, <1>3 DEF LegacyPart

LEMMA LegacyRunStep ==
  ASSUME LegacyInv, NEW k \in Acts, RunStep(k)
  PROVE  LegacyPart
<1>1. TypeOK /\ StopsAreSpent /\ DuePart
  BY DEF LegacyInv, ExchangeInv, ExchangesAgree, DuePart
<1>2. StopsAreSpent'
  <2>1. \A j \in Acts : act[j].pc # "free" /\ j[1] \in stopped' => act'[j].pc # "free"
    BY <1>1, RunStepDoes
  <2>2. QED BY <1>1, <2>1, RunStepDoes, RequestsStay
<1>3. DuePart' /\ DueNeverGoesBack
  <2>1. rows \subseteq Routines /\ UNCHANGED <<clock, rows, checks>>
    BY <1>1, RunStepDoes DEF world, TypeOK
  <2>2. QED BY <1>1, <2>1, RunStepDoes, DueStays
<1>4. QED BY <1>2, <1>3 DEF LegacyPart

LEMMA LegacyStop ==
  ASSUME LegacyInv, NEW r \in Routines, Stop(r)
  PROVE  LegacyPart
<1>1. ExchangeInv /\ TypeOK /\ StopsAreSpent /\ DuePart
  BY DEF LegacyInv, ExchangeInv, ExchangesAgree, DuePart
<1>2. StopsAreSpent'
  <2>1. CASE stopped' = stopped \cup {r} /\ UNCHANGED <<act, conv, active>>
    <3>1. SUFFICES ASSUME NEW q \in stopped' PROVE isRunning(q)'
      BY DEF StopsAreSpent
    <3>2. isRunning(q)
      BY <1>1, <2>1, <3>1, StopDoes DEF StopsAreSpent
    <3>3. QED BY <2>1, <3>2 DEF isRunning
  <2>2. CASE \E k \in Acts : /\ k[1] = r /\ stopped' = stopped \ {r}
                             /\ \A j \in Acts : j # k => act'[j] = act[j]
    <3>1. stopped' \subseteq stopped
      BY <2>2
    <3>2. \A k \in Acts : act[k].pc # "free" /\ k[1] \in stopped' => act'[k].pc # "free"
      BY <2>2
    <3>3. QED BY <1>1, <3>1, <3>2, RequestsStay
  <2>3. QED BY <1>1, <2>1, <2>2, StopDoes
<1>3. DuePart' /\ DueNeverGoesBack
  <2>1. /\ rows \subseteq Routines /\ UNCHANGED <<clock, rows, checks>>
        /\ \A q \in Routines :
             /\ row'[q].enabled = row[q].enabled /\ row'[q].kind = row[q].kind
             /\ row[q].enabled => row'[q].due = row[q].due
    BY <1>1, StopDoes DEF world, TypeOK
  <2>2. QED BY <1>1, <2>1, DueStays
<1>4. QED BY <1>2, <1>3 DEF LegacyPart

\* A change of the schedule never moves a next run nearer than a schedule of
\* the same kind had put it; no check of the row is out when its kind changes.
LEMMA LegacyChange ==
  ASSUME LegacyInv, "editInCheck" \notin Env,
         NEW r \in Routines, Toggle(r) \/ Edit(r)
  PROVE  LegacyPart
<1>1. TypeOK /\ StopsAreSpent /\ DuePart
  BY DEF LegacyInv, ExchangeInv, ExchangesAgree, DuePart
<1>2. PICK enabled \in BOOLEAN, kind \in Kinds :
        /\ Rescheduled(r, enabled, kind)
        /\ \/ enabled = ~ row[r].enabled /\ kind = row[r].kind
           \/ enabled = row[r].enabled /\ r \notin checks
  BY <1>1, ChangesAre
<1>3. /\ row'[r].enabled = enabled /\ row'[r].kind = kind
      /\ enabled => row'[r].due = nextRunAt(kind, clock)
      /\ \A q \in Routines : q # r => row'[q] = row[q]
      /\ UNCHANGED <<world, rows, act, checks, stopped, cancelled, conv, active>>
  BY <1>1, <1>2, RescheduleDoes
<1>4. StopsAreSpent'
  BY <1>1, <1>3, RequestsStay
<1>5. clock' = clock /\ clock \in Nat /\ Period[kind] \in Nat /\ rows \subseteq Routines
  BY <1>1, <1>3 DEF TypeOK, world
<1>6. DueIsNear'
  <2>1. SUFFICES ASSUME NEW q \in rows, row'[q].enabled
                 PROVE  row'[q].due <= clock + Period[row'[q].kind]
    BY <1>3, <1>5 DEF DueIsNear
  <2>2. CASE q = r
    BY <1>3, <1>5, <2>1, <2>2 DEF nextRunAt
  <2>3. CASE q # r
    <3>1. row'[q] = row[q]
      BY <1>3, <1>5, <2>3
    <3>2. QED BY <1>1, <2>1, <3>1 DEF DuePart, DueIsNear
  <2>4. QED BY <2>2, <2>3
<1>7. ChecksAreOfWatches'
  <2>1. SUFFICES ASSUME NEW q \in checks \cap rows PROVE row'[q].kind = "watch"
    BY <1>3 DEF ChecksAreOfWatches
  <2>2. row[q].kind = "watch"
    BY <1>1 DEF DuePart, ChecksAreOfWatches
  <2>3. QED BY <1>2, <1>3, <1>5, <2>1, <2>2
<1>8. DueNeverGoesBack
  <2>1. SUFFICES ASSUME NEW q \in rows, row[q].enabled, row'[q].enabled,
                        row[q].kind = row'[q].kind
                 PROVE  row'[q].due >= row[q].due
    BY DEF DueNeverGoesBack
  <2>2. row[q].due \in Nat
    BY <1>1 DEF TypeOK, Row
  <2>3. CASE q = r
    <3>1. row[r].due <= clock + Period[kind]
      BY <1>1, <1>3, <2>1, <2>3 DEF DuePart, DueIsNear
    <3>2. row'[r].due = clock + Period[kind]
      BY <1>3, <2>1, <2>3 DEF nextRunAt
    <3>3. QED BY <1>5, <2>2, <2>3, <3>1, <3>2
  <2>4. CASE q # r
    BY <1>3, <1>5, <2>2, <2>4
  <2>5. QED BY <2>3, <2>4
<1>9. QED BY <1>4, <1>6, <1>7, <1>8 DEF LegacyPart, DuePart

LEMMA LegacyRest ==
  ASSUME LegacyInv,
         UNCHANGED <<clock, row, checks, stopped>>, rows' \subseteq rows,
         \A k \in Acts : act[k].pc # "free" => act'[k].pc # "free"
  PROVE  LegacyPart
<1>1. TypeOK /\ StopsAreSpent /\ DuePart
  BY DEF LegacyInv, ExchangeInv, ExchangesAgree, DuePart
<1>2. StopsAreSpent'
  BY <1>1, RequestsStay
<1>3. DuePart' /\ DueNeverGoesBack
  BY <1>1, DueStays
<1>4. QED BY <1>2, <1>3 DEF LegacyPart

LEMMA LegacyInit == Init => LegacyInv
<1> SUFFICES ASSUME Init PROVE LegacyInv
  OBVIOUS
<1>1. StopsAreSpent /\ ChecksAreOfWatches
  BY DEF Init, StopsAreSpent, ChecksAreOfWatches
<1>2. DueIsNear
  BY DEF Init, DueIsNear
<1>3. QED BY <1>1, <1>2, ExchangeInit DEF LegacyInv

LEMMA LegacyStep ==
  ASSUME "editInCheck" \notin Env
  PROVE  LegacyInv /\ [Next]_vars => LegacyPart
<1> SUFFICES ASSUME LegacyInv, [Next]_vars PROVE LegacyPart
  OBVIOUS
<1>1. ASSUME NEW r \in Routines, Delete(r) \/ SourceChanges(r) PROVE LegacyPart
  BY <1>1, LegacyRest DEF Delete, SourceChanges, world
<1>2. ASSUME NEW a \in Agents, UserPrompt(a) \/ UserRunEnds(a) PROVE LegacyPart
  BY <1>2, LegacyRest DEF UserPrompt, UserRunEnds, world
<1>3. ASSUME NEW a \in Agents, Rebuild(a) PROVE LegacyPart
  <2>1. \A k \in Acts : act'[k].pc = act[k].pc
    <3>1. \A k \in Acts : [act[k] EXCEPT !.closed = TRUE].pc = act[k].pc
      BY DEF LegacyInv, ExchangeInv, ExchangesAgree, TypeOK, Act
    <3>2. QED BY <1>3, <3>1 DEF Rebuild
  <2>2. QED BY <1>3, <2>1, LegacyRest DEF Rebuild, world
<1>4. CASE UNCHANGED vars
  BY <1>4, LegacyRest DEF vars
<1>5. QED
  BY <1>1, <1>2, <1>3, <1>4, LegacyTick, LegacyRunStep, LegacyRunNow, LegacyCheck,
     LegacyStop, LegacyChange
  DEF Next

\* Neither a stop request nor a schedule outlives what it was for: a request
\* stands only while its routine runs, and no slot that ran comes due again
\* (scheduler.ts 228-275).  A tool that edits a watch while its check is out is
\* the exception: the check then counts the next run by a schedule the row no
\* longer has.
THEOREM RunsLeaveNothingBehind ==
  ASSUME "editInCheck" \notin Env
  PROVE  Spec => RunsLeaveNothing
<1>1. LegacyInv /\ [Next]_vars => LegacyInv'
  BY LegacyStep, ExchangeStep DEF LegacyInv, LegacyPart, DuePart
<1>2. LegacyInv /\ [Next]_vars => [StopsAreSpent' /\ DueNeverGoesBack]_vars
  BY LegacyStep DEF LegacyPart
<1>3. QED BY <1>1, <1>2, LegacyInit, PTL DEF Spec, RunsLeaveNothing

=============================================================================
