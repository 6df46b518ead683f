------------------------- MODULE FollowingTurns_proofs -------------------------
(***************************************************************************)
(* The turns that follow a turn without anybody typing, for any number of  *)
(* prompts, loops and restarts and any budgets and caps.                   *)
(*                                                                         *)
(* RetryChain: the retries between two pieces of progress are bounded, and *)
(* every restart has somebody who waits for it and never undoes a stop.    *)
(*                                                                         *)
(* GoalLoop: its types, one loop at a time, goals that somebody drives,    *)
(* and cancelled loops that change nothing.                                *)
(***************************************************************************)
EXTENDS RetryChain, GoalLoop, FiniteSetTheorems, TLAPS

(***************************************************************************)
(* The bound.  What was spent since the last progress is still counted: a  *)
(* counter is set back only where "spent" is.                              *)
(***************************************************************************)
SpentIsCounted ==
    spent <= empty + rateLimit + interrupted + outputCap + overflow

BudgetInv == TypeOK /\ SpentIsCounted

(***************************************************************************)
(* The owners.  A caller that sleeps or whose restart runs has seen no     *)
(* abort; one that looks again after an abort finds nothing parked, or the *)
(* conversation closed, whose callers all stand down.                      *)
(***************************************************************************)
OwnersAgree ==
    /\ \A c \in Callers : pc[c] \in {"run", "restart"} <=> live /\ owner = c
    /\ live <=> owner # Nobody

ParkedHasSomebody ==
    Parked /\ ~ closed => \E c \in Callers : pc[c] \notin {"new", "done"}

AbortsAreSeen ==
    \A c \in Callers :
       /\ pc[c] \in {"sleep", "restart"} => fresh[c]
       /\ pc[c] = "again" /\ ~ fresh[c] => ~ Parked \/ closed

ClosedStandsDown ==
    closed => /\ stopped
              /\ \A c \in Callers : pc[c] = "again" => ~ fresh[c]

StoppedIsSilent ==
    stopped => /\ ~ live
               /\ ~ Parked \/ closed
               /\ \A c \in Callers : pc[c] # "sleep"

NothingIsTold == outcome = "nothing" /\ ~ live => told \/ stopped

OwnersInv == /\ BudgetInv /\ OwnersAgree /\ ParkedHasSomebody /\ AbortsAreSeen
             /\ ClosedStandsDown /\ StoppedIsSilent /\ NothingIsTold

USE BudgetAssumption DEF BudgetAssumption

(***************************************************************************)
(* A grant takes from a budget that is not spent.                          *)
(***************************************************************************)
LEMMA GrantHasRoom ==
  ASSUME NEW kind \in Kinds
  PROVE  /\ Granted(kind) \in {"outputCap", "interrupted", "overflow", "vacant",
                               "silent", "rate", "none"}
         /\ Granted(kind) = "outputCap" => outputCap < MaxOutputCap
         /\ Granted(kind) = "interrupted" => interrupted < MaxEmpty
         /\ Granted(kind) = "overflow" => overflow < MaxOverflow
         /\ Granted(kind) \in {"vacant", "silent"} => empty < MaxEmpty
         /\ Granted(kind) = "rate" => rateLimit < MaxRateLimit
BY DEF Granted

\* The counters keep their budgets, and count what was spent.
LEMMA CountKeeps ==
  ASSUME BudgetInv, NEW kind \in Kinds, TurnEnds(kind)
  PROVE  /\ empty' \in 0..MaxEmpty /\ rateLimit' \in 0..MaxRateLimit
         /\ interrupted' \in 0..MaxEmpty /\ outputCap' \in 0..MaxOutputCap
         /\ overflow' \in 0..MaxOverflow
         /\ spent' \in Nat
         /\ SpentIsCounted'
<1> DEFINE grant == Granted(kind)
           progress == kind \in Visible /\ grant = "none"
<1>1. Count(kind, grant)
      /\ spent' = IF grant # "none" THEN spent + 1
                  ELSE IF kind \in Visible THEN 0 ELSE spent
  BY DEF TurnEnds
<1>2. /\ empty \in Nat /\ rateLimit \in Nat /\ interrupted \in Nat
      /\ outputCap \in Nat /\ overflow \in Nat /\ spent \in Nat
      /\ empty <= MaxEmpty /\ rateLimit <= MaxRateLimit
      /\ interrupted <= MaxEmpty /\ outputCap <= MaxOutputCap
      /\ overflow <= MaxOverflow
      /\ spent <= empty + rateLimit + interrupted + outputCap + overflow
  BY DEF BudgetInv, TypeOK, SpentIsCounted
<1>3. CASE progress
  <2>1. /\ empty' = 0 /\ rateLimit' = 0 /\ interrupted' = 0 /\ outputCap' = 0
        /\ overflow' = overflow /\ spent' = 0
    BY <1>1, <1>3 DEF Count
  <2>2. QED BY <1>2, <2>1 DEF SpentIsCounted
<1>4. CASE ~ progress
  <2>1. /\ empty' = IF grant \in {"vacant", "silent"} THEN empty + 1 ELSE empty
        /\ rateLimit' = IF grant = "rate" THEN rateLimit + 1 ELSE rateLimit
        /\ interrupted' = IF grant = "interrupted" THEN interrupted + 1
                                                   ELSE interrupted
        /\ outputCap' = IF grant = "outputCap" THEN outputCap + 1 ELSE outputCap
        /\ overflow' = IF grant = "overflow" THEN overflow + 1 ELSE overflow
    BY <1>1, <1>4 DEF Count
  <2>2. spent' = IF grant = "none" THEN spent ELSE spent + 1
    BY <1>1, <1>4
  <2> HIDE DEF grant
  <2>3. QED BY <1>2, <2>1, <2>2, GrantHasRoom DEF SpentIsCounted, grant
<1>5. QED BY <1>3, <1>4

(***************************************************************************)
(* Where the callers go: the pieces the actions share keep the types.      *)
(***************************************************************************)
\* The caller whose await is over is at one of its places.
LEMMA ReleasedType == \A c : Released(c) \in Places
BY DEF Released, Places

\* A round of the loop, of whatever epoch.
LEMMA RoundKeeps ==
  ASSUME TypeOK, NEW c \in Callers, NEW epochKept \in BOOLEAN,
         Round(c, epochKept)
  PROVE  /\ pendingOverflow' \in BOOLEAN /\ pendingError' \in BOOLEAN
         /\ pendingRate' \in BOOLEAN /\ live' \in BOOLEAN /\ queued' \in BOOLEAN
         /\ pc' \in [Callers -> Places] /\ owner' \in Callers \cup {Nobody}
         /\ failing' \in BOOLEAN
<1> USE DEF TypeOK, Places
<1>1. CASE UNCHANGED <<parked, live, queued, owner, failing>>
           /\ pc' = [pc EXCEPT ![c] = "done"]
  BY <1>1 DEF parked
<1>2. CASE Take /\ UNCHANGED <<live, queued, owner, failing>>
           /\ pc' = [pc EXCEPT ![c] = "sleep"]
  BY <1>2 DEF Take
<1>3. CASE Take /\ Restart(c)
  <2>1. /\ live' \in BOOLEAN /\ queued' \in BOOLEAN /\ failing' \in BOOLEAN
        /\ pc' \in [Callers -> Places] /\ owner' \in Callers \cup {Nobody}
    BY <1>3 DEF Restart
  <2>2. QED BY <1>3, <2>1 DEF Take
<1>4. QED BY <1>1, <1>2, <1>3 DEF Round

LEMMA AbortKeeps ==
  ASSUME TypeOK, Abort
  PROVE  /\ live' \in BOOLEAN /\ queued' \in BOOLEAN
         /\ pc' \in [Callers -> Places] /\ fresh' \in [Callers -> BOOLEAN]
         /\ owner' \in Callers \cup {Nobody}
BY ReleasedType DEF TypeOK, Abort, Places

LEMMA BudgetInit == Init => BudgetInv
<1> SUFFICES ASSUME Init PROVE BudgetInv
  OBVIOUS
<1>1. /\ empty \in 0..MaxEmpty /\ rateLimit \in 0..MaxRateLimit
      /\ interrupted \in 0..MaxEmpty /\ outputCap \in 0..MaxOutputCap
      /\ overflow \in 0..MaxOverflow /\ spent \in Nat
      /\ calls \in 0..MaxCalls /\ steers \in 0..MaxSteers
      /\ stops \in 0..MaxStops
      /\ SpentIsCounted
  BY BoundAssumption DEF Init, SpentIsCounted, BoundAssumption
<1>2. pc \in [Callers -> Places] /\ fresh \in [Callers -> BOOLEAN]
  BY DEF Init, Places
<1>3. TypeOK
  BY <1>1, <1>2 DEF Init, TypeOK
<1>4. QED BY <1>1, <1>3 DEF BudgetInv

\* A step that leaves the counters alone.
LEMMA CountersStay ==
  ASSUME BudgetInv, UNCHANGED <<budgets, spent>>
  PROVE  SpentIsCounted'
BY DEF BudgetInv, SpentIsCounted, budgets

LEMMA BudgetStep == BudgetInv /\ [Next]_vars => BudgetInv'
<1> SUFFICES ASSUME BudgetInv, [Next]_vars PROVE BudgetInv'
  OBVIOUS
<1> USE BoundAssumption DEF BoundAssumption
<1>1. ASSUME NEW c \in Callers, Prompt(c) PROVE BudgetInv'
  <2>1. TypeOK'
    <3>1. /\ empty' \in 0..MaxEmpty /\ rateLimit' \in 0..MaxRateLimit
          /\ interrupted' \in 0..MaxEmpty /\ outputCap' \in 0..MaxOutputCap
          /\ overflow' \in 0..MaxOverflow /\ spent' \in Nat
          /\ calls' \in 0..MaxCalls /\ steers' \in 0..MaxSteers
          /\ stops' \in 0..MaxStops
      BY <1>1 DEF Prompt, Reset, BudgetInv, TypeOK, bounds
    <3>2. /\ live' \in BOOLEAN /\ queued' \in BOOLEAN
          /\ pc' \in [Callers -> Places] /\ owner' \in Callers \cup {Nobody}
      BY <1>1 DEF Prompt, BudgetInv, TypeOK, Places
    <3>3. QED BY <1>1, <3>1, <3>2 DEF Prompt, Reset, BudgetInv, TypeOK
  <2>2. SpentIsCounted'
    BY <1>1 DEF Prompt, Reset, SpentIsCounted
  <2>3. QED BY <2>1, <2>2 DEF BudgetInv
<1>2. CASE Steer
  <2>1. TypeOK'
    BY <1>2 DEF Steer, BudgetInv, TypeOK, budgets, parked, callers, history
  <2>2. SpentIsCounted'
    BY <1>2, CountersStay DEF Steer, history
  <2>3. QED BY <2>1, <2>2 DEF BudgetInv
<1>3. ASSUME NEW kind \in Kinds, TurnEnds(kind) PROVE BudgetInv'
  <2>1. /\ pendingOverflow' \in BOOLEAN /\ pendingError' \in BOOLEAN
        /\ pendingRate' \in BOOLEAN
    BY <1>3 DEF TurnEnds, Park, BudgetInv, TypeOK
  <2>2. pc' \in [Callers -> Places]
    BY <1>3, ReleasedType DEF TurnEnds, BudgetInv, TypeOK
  <2>3. /\ live' \in BOOLEAN /\ queued' \in BOOLEAN
        /\ owner' \in Callers \cup {Nobody}
        /\ outcome' \in {"output", "nothing"}
    BY <1>3 DEF TurnEnds, BudgetInv, TypeOK
  <2>5. calls' \in 0..MaxCalls
    BY <1>3 DEF TurnEnds, BudgetInv, TypeOK
  <2>4. told' \in BOOLEAN /\ failing' \in BOOLEAN
    BY <1>3 DEF TurnEnds
  <2>6. QED BY <1>3, <2>1, <2>2, <2>3, <2>4, <2>5, CountKeeps
            DEF TurnEnds, BudgetInv, TypeOK
<1>4. ASSUME NEW c \in Callers, Settled(c) PROVE BudgetInv'
  <2>1. TypeOK'
    <3>1. CASE pendingOverflow
      BY <1>4, <3>1 DEF Settled, unmoved, budgets, parked, bounds, BudgetInv,
                        TypeOK, Places
    <3>2. CASE ~ pendingOverflow
      <4>1. fresh' = [fresh EXCEPT ![c] = TRUE] /\ Round(c, ~ closed)
        BY <1>4, <3>2 DEF Settled
      <4>2. QED BY <1>4, <4>1, RoundKeeps
                DEF Settled, unmoved, budgets, bounds, BudgetInv, TypeOK
    <3>3. QED BY <3>1, <3>2
  <2>2. SpentIsCounted'
    BY <1>4, CountersStay DEF Settled, unmoved
  <2>3. QED BY <2>1, <2>2 DEF BudgetInv
<1>5. ASSUME NEW c \in Callers, Condensed(c) PROVE BudgetInv'
  <2>1. TypeOK'
    BY <1>5, RoundKeeps DEF Condensed, unmoved, budgets, bounds, BudgetInv, TypeOK
  <2>2. SpentIsCounted'
    BY <1>5, CountersStay DEF Condensed, unmoved
  <2>3. QED BY <2>1, <2>2 DEF BudgetInv
<1>6. ASSUME NEW c \in Callers, NotCondensed(c) PROVE BudgetInv'
  <2>1. TypeOK'
    BY <1>6 DEF NotCondensed, unmoved, budgets, bounds, BudgetInv, TypeOK, Places
  <2>2. SpentIsCounted'
    BY <1>6, CountersStay DEF NotCondensed, unmoved
  <2>3. QED BY <2>1, <2>2 DEF BudgetInv
<1>7. ASSUME NEW c \in Callers, Again(c) PROVE BudgetInv'
  <2>1. fresh[c] \in BOOLEAN
    BY DEF BudgetInv, TypeOK
  <2>2. TypeOK'
    BY <1>7, <2>1, RoundKeeps
       DEF Again, unmoved, budgets, bounds, BudgetInv, TypeOK
  <2>3. SpentIsCounted'
    BY <1>7, CountersStay DEF Again, unmoved
  <2>4. QED BY <2>2, <2>3 DEF BudgetInv
<1>8. ASSUME NEW c \in Callers, Wakes(c) PROVE BudgetInv'
  <2>1. TypeOK'
    BY <1>8 DEF Wakes, Restart, unmoved, budgets, parked, bounds, BudgetInv,
                TypeOK, Places
  <2>2. SpentIsCounted'
    BY <1>8, CountersStay DEF Wakes, unmoved
  <2>3. QED BY <2>1, <2>2 DEF BudgetInv
<1>9. CASE Stop
  <2>1. TypeOK'
    <3>1. stops' \in 0..MaxStops
      BY <1>9 DEF Stop, BudgetInv, TypeOK
    <3>2. QED BY <1>9, <3>1, AbortKeeps DEF Stop, budgets, BudgetInv, TypeOK
  <2>2. SpentIsCounted'
    BY <1>9, CountersStay DEF Stop
  <2>3. QED BY <2>1, <2>2 DEF BudgetInv
<1>10. CASE Undo
  <2>1. /\ live' \in BOOLEAN /\ queued' \in BOOLEAN
        /\ pc' \in [Callers -> Places] /\ fresh' \in [Callers -> BOOLEAN]
        /\ owner' \in Callers \cup {Nobody}
    <3>1. CASE live
      BY <1>10, <3>1, AbortKeeps DEF Undo, BudgetInv
    <3>2. CASE ~ live
      BY <1>10, <3>2 DEF Undo, BudgetInv, TypeOK
    <3>3. QED BY <3>1, <3>2
  <2>2. TypeOK'
    <3>1. /\ stops' \in 0..MaxStops
          /\ empty' \in 0..MaxEmpty /\ rateLimit' \in 0..MaxRateLimit
          /\ interrupted' \in 0..MaxEmpty /\ outputCap' \in 0..MaxOutputCap
          /\ overflow' \in 0..MaxOverflow /\ spent' \in Nat
      BY <1>10 DEF Undo, Reset, BudgetInv, TypeOK
    <3>2. QED BY <1>10, <2>1, <3>1 DEF Undo, Reset, BudgetInv, TypeOK
  <2>3. SpentIsCounted'
    BY <1>10 DEF Undo, Reset, SpentIsCounted
  <2>4. QED BY <2>2, <2>3 DEF BudgetInv
<1>11. CASE Close
  <2>1. TypeOK'
    BY <1>11, AbortKeeps DEF Close, budgets, bounds, BudgetInv, TypeOK
  <2>2. SpentIsCounted'
    BY <1>11, CountersStay DEF Close
  <2>3. QED BY <2>1, <2>2 DEF BudgetInv
<1>12. CASE UNCHANGED vars
  BY <1>12 DEF vars, budgets, parked, runtime, callers, history, bounds,
               BudgetInv, TypeOK, SpentIsCounted
<1>13. QED
  BY <1>1, <1>2, <1>3, <1>4, <1>5, <1>6, <1>7, <1>8, <1>9, <1>10, <1>11, <1>12
     DEF Next

\* What is counted is within the budgets.
LEMMA CountedIsBounded == BudgetInv => RetriesAreBounded
<1> SUFFICES ASSUME BudgetInv PROVE RetriesAreBounded
  OBVIOUS
<1>1. /\ empty \in Nat /\ rateLimit \in Nat /\ interrupted \in Nat
      /\ outputCap \in Nat /\ overflow \in Nat /\ spent \in Nat
      /\ empty <= MaxEmpty /\ rateLimit <= MaxRateLimit
      /\ interrupted <= MaxEmpty /\ outputCap <= MaxOutputCap
      /\ overflow <= MaxOverflow
      /\ spent <= empty + rateLimit + interrupted + outputCap + overflow
  BY DEF BudgetInv, TypeOK, SpentIsCounted
<1>2. spent <= 2 * MaxEmpty + MaxRateLimit + MaxOutputCap + MaxOverflow
  BY <1>1
<1>3. QED BY <1>2 DEF BudgetInv, RetriesAreBounded

\* However many prompts share the counters and whatever stops, undoes or closes
\* the conversation, the model is asked again at most as often as the budgets
\* together allow before it makes progress (retry-manager.ts, classify).
THEOREM BudgetsBoundRetries == Spec => []RetriesAreBounded
BY BudgetInit, BudgetStep, CountedIsBounded, PTL DEF Spec

(***************************************************************************)
(* The owners, action by action.                                           *)
(***************************************************************************)
\* All of OwnersInv but the bound, whose steps are above.
OwnersPart == /\ OwnersAgree /\ ParkedHasSomebody /\ AbortsAreSeen
              /\ ClosedStandsDown /\ StoppedIsSilent /\ NothingIsTold

\* A closed conversation, and a stopped one, has no live run.
LEMMA LiveIsOpen ==
  ASSUME OwnersInv, live
  PROVE  ~ closed /\ ~ stopped /\ owner \in Callers /\ pc[owner] \in {"run", "restart"}
<1>1. ~ stopped /\ ~ closed
  BY DEF OwnersInv, StoppedIsSilent, ClosedStandsDown
<1>2. owner \in Callers
  BY DEF OwnersInv, OwnersAgree, BudgetInv, TypeOK
<1>3. QED BY <1>1, <1>2 DEF OwnersInv, OwnersAgree

\* A restart that goes out becomes the live run's caller, or joins that run.
LEMMA RestartOwns ==
  ASSUME OwnersInv, NEW c \in Callers, pc[c] \notin {"run", "restart"}, Restart(c)
  PROVE  /\ OwnersAgree'
         /\ live' /\ (live => live')
         /\ pc'[c] \in {"again", "restart"}
         /\ \A d \in Callers : d # c => pc'[d] = pc[d]
<1>1. pc \in [Callers -> Places]
  BY DEF OwnersInv, BudgetInv, TypeOK
<1>2. CASE live
  BY <1>1, <1>2 DEF Restart, OwnersInv, OwnersAgree
<1>3. CASE ~ live
  <2>1. live' = TRUE /\ owner' = c /\ pc' = [pc EXCEPT ![c] = "restart"]
    BY <1>3 DEF Restart
  <2>2. c # Nobody
    BY CallersAssumption DEF CallersAssumption
  <2>3. QED BY <1>1, <1>3, <2>1, <2>2 DEF OwnersInv, OwnersAgree
<1>4. QED BY <1>2, <1>3

\* An abort leaves no live run, nobody who waits for one and no backoff.
LEMMA AbortReleases ==
  ASSUME OwnersInv, Abort
  PROVE  /\ OwnersAgree'
         /\ ~ live'
         /\ \A c \in Callers : /\ ~ fresh'[c]
                               /\ pc'[c] # "sleep"
                               /\ pc'[c] = "again" => pc[c] \in {"again", "restart"}
<1>1. /\ live' = FALSE /\ owner' = Nobody
      /\ \A c \in Callers : ~ fresh'[c]
      /\ \A c \in Callers :
            pc'[c] = IF c = owner THEN Released(c)
                     ELSE IF pc[c] = "sleep" THEN "done" ELSE pc[c]
  BY DEF Abort
<1>2. \A c \in Callers : c # owner => pc[c] \notin {"run", "restart"}
  BY DEF OwnersInv, OwnersAgree
<1>3. \A c \in Callers : c = owner => pc[c] \in {"run", "restart"}
  BY CallersAssumption DEF OwnersInv, OwnersAgree, CallersAssumption
<1>4. OwnersAgree'
  BY <1>1, <1>2, CallersAssumption DEF OwnersAgree, Released, CallersAssumption
<1>5. QED BY <1>1, <1>2, <1>3, <1>4 DEF Released

\* One round of the loop: with the epoch kept a caller takes what is parked and
\* goes on waiting; it stands down over a parked restart only when the
\* conversation is closed.
LEMMA RoundOwns ==
  ASSUME OwnersInv, NEW c \in Callers, pc[c] \in {"settled", "compact", "again"},
         NEW epochKept \in BOOLEAN, Round(c, epochKept), UNCHANGED unmoved,
         epochKept => fresh'[c] /\ ~ closed,
         ~ epochKept => ~ Parked \/ closed,
         \A d \in Callers : d # c => fresh'[d] = fresh[d]
  PROVE  OwnersPart'
<1>1. pc \in [Callers -> Places]
  BY DEF OwnersInv, BudgetInv, TypeOK
<1>2. UNCHANGED <<closed, stopped, outcome, told>>
  BY DEF unmoved
<1>3. CASE ~ GoesOn(c, epochKept)
  <2>1. /\ pc' = [pc EXCEPT ![c] = "done"]
        /\ UNCHANGED <<pendingError, pendingRate, live, owner>>
    BY <1>3 DEF Round, parked
  <2>2. ~ Parked \/ closed
    BY <1>3 DEF GoesOn
  <2>3. Parked' = Parked
    BY <2>1 DEF Parked
  <2>4. /\ pc'[c] = "done"
        /\ \A d \in Callers : d # c => pc'[d] = pc[d]
    BY <1>1, <2>1
  <2>5. OwnersAgree'
    BY <2>1, <2>4 DEF OwnersInv, OwnersAgree
  <2>6. ParkedHasSomebody'
    BY <1>2, <2>2, <2>3 DEF ParkedHasSomebody
  <2>7. AbortsAreSeen' /\ ClosedStandsDown' /\ StoppedIsSilent'
    BY <1>2, <2>1, <2>2, <2>3, <2>4
       DEF OwnersInv, AbortsAreSeen, ClosedStandsDown, StoppedIsSilent
  <2>8. NothingIsTold'
    BY <1>2, <2>1 DEF OwnersInv, NothingIsTold
  <2>9. QED BY <2>5, <2>6, <2>7, <2>8 DEF OwnersPart
<1>4. CASE GoesOn(c, epochKept)
  <2>1. Parked /\ ~ closed /\ fresh'[c] /\ ~ stopped
    BY <1>4 DEF GoesOn, OwnersInv, StoppedIsSilent
  <2>2. ~ closed' /\ ~ stopped'
    BY <1>2, <2>1
  <2>3. CASE pendingRate
    <3>1. /\ pc' = [pc EXCEPT ![c] = "sleep"] /\ UNCHANGED <<live, owner>>
      BY <1>4, <2>3 DEF Round
    <3>2. /\ pc'[c] = "sleep"
          /\ \A d \in Callers : d # c => pc'[d] = pc[d]
      BY <1>1, <3>1
    <3>3. Parked' => Parked
      BY <2>1
    <3>4. OwnersAgree'
      BY <3>1, <3>2 DEF OwnersInv, OwnersAgree
    <3>5. ParkedHasSomebody'
      BY <3>2 DEF ParkedHasSomebody
    <3>6. AbortsAreSeen'
      BY <1>2, <2>1, <3>2, <3>3 DEF OwnersInv, AbortsAreSeen
    <3>7. NothingIsTold'
      BY <1>2, <3>1 DEF OwnersInv, NothingIsTold
    <3>8. QED BY <2>2, <3>4, <3>5, <3>6, <3>7
              DEF OwnersPart, ClosedStandsDown, StoppedIsSilent
  <2>4. CASE ~ pendingRate
    <3>1. Take /\ Restart(c)
      BY <1>4, <2>4 DEF Round
    <3>2. ~ Parked'
      BY <2>4, <3>1 DEF Take, Parked
    <3>3. /\ OwnersAgree' /\ live' /\ pc'[c] \in {"again", "restart"}
          /\ \A d \in Callers : d # c => pc'[d] = pc[d]
      BY <3>1, RestartOwns
    <3>4. AbortsAreSeen'
      BY <1>2, <2>1, <3>2, <3>3 DEF OwnersInv, AbortsAreSeen
    <3>5. QED BY <2>2, <3>2, <3>3, <3>4
              DEF OwnersPart, ParkedHasSomebody, ClosedStandsDown,
                  StoppedIsSilent, NothingIsTold
  <2>5. QED BY <2>3, <2>4
<1>5. QED BY <1>3, <1>4

\* A turn that ends hands the caller its run's end, and leaves nothing unsaid.
LEMMA TurnOwns ==
  ASSUME OwnersInv, NEW kind \in Kinds, TurnEnds(kind), "emptyAtCap" \notin Env
  PROVE  OwnersPart'
<1> DEFINE grant == Granted(kind)
           goesOn == kind = "calls" \/ queued \/ grant = "vacant"
<1>1. /\ ~ closed /\ ~ stopped /\ owner \in Callers
      /\ pc[owner] \in {"run", "restart"} /\ live
  BY LiveIsOpen DEF TurnEnds
<1>2. ~ closed' /\ ~ stopped' /\ UNCHANGED fresh
  BY <1>1 DEF TurnEnds
<1>3. pc \in [Callers -> Places] /\ owner # Nobody
  BY <1>1, CallersAssumption DEF OwnersInv, BudgetInv, TypeOK, CallersAssumption
<1>4. CASE goesOn
  <2>1. UNCHANGED <<live, pc, owner>>
    BY <1>4 DEF TurnEnds
  <2>2. OwnersAgree' /\ ParkedHasSomebody'
    BY <1>1, <2>1 DEF OwnersInv, OwnersAgree, ParkedHasSomebody
  <2>3. AbortsAreSeen'
    <3>1. ~ Settling
      BY DEF TurnEnds
    <3>2. QED BY <1>2, <2>1, <3>1 DEF OwnersInv, AbortsAreSeen, Settling
  <2>4. QED BY <1>1, <1>2, <2>1, <2>2, <2>3
            DEF OwnersPart, ClosedStandsDown, StoppedIsSilent, NothingIsTold
<1>5. CASE ~ goesOn
  <2>1. /\ live' = FALSE /\ owner' = Nobody
        /\ pc' = [pc EXCEPT ![owner] = Released(owner)]
    BY <1>5 DEF TurnEnds
  <2>2. /\ pc'[owner] = Released(owner)
        /\ \A d \in Callers : d # owner => pc'[d] = pc[d]
    BY <1>1, <1>3, <2>1
  <2>3. OwnersAgree'
    BY <1>1, <2>1, <2>2, CallersAssumption
       DEF OwnersInv, OwnersAgree, Released, CallersAssumption
  <2>4. ParkedHasSomebody'
    BY <1>1, <2>2 DEF ParkedHasSomebody, Released
  <2>5. AbortsAreSeen'
    <3>1. ~ Settling
      BY DEF TurnEnds
    <3>2. \A d \in Callers : d # owner => pc'[d] # "again"
      BY <2>2, <3>1 DEF Settling
    <3>3. pc'[owner] = "again" => fresh'[owner]
      BY <1>1, <1>2, <2>2 DEF OwnersInv, AbortsAreSeen, Released
    <3>4. pc'[owner] \notin {"sleep", "restart"}
      BY <2>2 DEF Released
    <3>5. QED BY <1>2, <2>2, <3>2, <3>3, <3>4 DEF OwnersInv, AbortsAreSeen
  <2>6. StoppedIsSilent' /\ ClosedStandsDown'
    BY <1>2 DEF StoppedIsSilent, ClosedStandsDown
  <2>7. NothingIsTold'
    <3>1. ASSUME kind \notin Visible PROVE told'
      <4>1. kind # "lengthEmpty"
        BY DEF TurnEnds
      <4>2. CASE kind = "vacant"
        <5>1. grant \in {"vacant", "none"}
          BY <4>2 DEF Granted
        <5>2. grant = "none"
          BY <1>5, <5>1
        <5>3. QED BY <3>1, <4>2, <5>2 DEF TurnEnds, Tells
      <4>3. CASE kind \in {"silent", "rate", "overflow", "permanent"}
        BY <3>1, <4>3 DEF TurnEnds, Tells
      <4>4. QED BY <3>1, <4>1, <4>2, <4>3 DEF Kinds, Visible, Progress
    <3>2. outcome' = IF kind \in Visible THEN "output" ELSE "nothing"
      BY DEF TurnEnds
    <3>3. QED BY <3>1, <3>2 DEF NothingIsTold
  <2>8. QED BY <2>3, <2>4, <2>5, <2>6, <2>7 DEF OwnersPart
<1>6. QED BY <1>4, <1>5

\* A prompt forgets the stop and what was parked.
LEMMA PromptOwns ==
  ASSUME OwnersInv, NEW c \in Callers, Prompt(c)
  PROVE  OwnersPart'
<1>1. /\ ~ closed' /\ ~ stopped' /\ ~ Parked' /\ outcome' = "output"
      /\ UNCHANGED fresh /\ pc[c] = "new" /\ ~ Settling
  BY DEF Prompt, Reset, Parked
<1>2. pc \in [Callers -> Places] /\ c # Nobody
  BY CallersAssumption DEF OwnersInv, BudgetInv, TypeOK, CallersAssumption
<1>3. /\ OwnersAgree' /\ pc'[c] \in {"settled", "run"}
      /\ \A d \in Callers : d # c => pc'[d] = pc[d]
  <2>1. CASE live
    BY <1>1, <1>2, <2>1 DEF Prompt, OwnersInv, OwnersAgree
  <2>2. CASE ~ live
    <3>1. live' = TRUE /\ owner' = c /\ pc' = [pc EXCEPT ![c] = "run"]
      BY <2>2 DEF Prompt
    <3>2. QED BY <1>2, <2>2, <3>1 DEF OwnersInv, OwnersAgree
  <2>3. QED BY <2>1, <2>2
<1>4. AbortsAreSeen'
  BY <1>1, <1>3 DEF OwnersInv, AbortsAreSeen
<1>5. QED BY <1>1, <1>3, <1>4
          DEF OwnersPart, ParkedHasSomebody, ClosedStandsDown, StoppedIsSilent,
              NothingIsTold

LEMMA SettledOwns ==
  ASSUME OwnersInv, NEW c \in Callers, Settled(c)
  PROVE  OwnersPart'
<1>1. fresh \in [Callers -> BOOLEAN] /\ closed \in BOOLEAN
      /\ pc \in [Callers -> Places]
  BY DEF OwnersInv, BudgetInv, TypeOK
<1>2. CASE pendingOverflow
  <2>1. /\ pc' = [pc EXCEPT ![c] = "compact"] /\ pc[c] = "settled"
        /\ UNCHANGED <<pendingError, pendingRate, live, fresh, owner, closed,
                       stopped, outcome, told>>
    BY <1>2 DEF Settled, parked, unmoved
  <2>2. /\ pc'[c] = "compact"
        /\ \A d \in Callers : d # c => pc'[d] = pc[d]
    BY <1>1, <2>1
  <2>3. Parked' = Parked
    BY <2>1 DEF Parked
  <2>4. OwnersAgree'
    BY <2>1, <2>2 DEF OwnersInv, OwnersAgree
  <2>5. ParkedHasSomebody'
    BY <2>2 DEF ParkedHasSomebody
  <2>6. AbortsAreSeen' /\ ClosedStandsDown' /\ StoppedIsSilent'
    BY <2>1, <2>2, <2>3
       DEF OwnersInv, AbortsAreSeen, ClosedStandsDown, StoppedIsSilent
  <2>7. NothingIsTold'
    BY <2>1 DEF OwnersInv, NothingIsTold
  <2>8. QED BY <2>4, <2>5, <2>6, <2>7 DEF OwnersPart
<1>3. CASE ~ pendingOverflow
  <2>1. /\ fresh' = [fresh EXCEPT ![c] = TRUE] /\ Round(c, ~ closed)
        /\ pc[c] = "settled" /\ UNCHANGED unmoved
    BY <1>3 DEF Settled
  <2>2. QED BY <1>1, <2>1, RoundOwns
<1>4. QED BY <1>2, <1>3

LEMMA CondensedOwns ==
  ASSUME OwnersInv, NEW c \in Callers, Condensed(c)
  PROVE  OwnersPart'
<1>1. fresh \in [Callers -> BOOLEAN] /\ closed \in BOOLEAN
  BY DEF OwnersInv, BudgetInv, TypeOK
<1>2. /\ fresh' = [fresh EXCEPT ![c] = TRUE] /\ Round(c, ~ closed)
      /\ pc[c] = "compact" /\ UNCHANGED unmoved
  BY DEF Condensed
<1>3. QED BY <1>1, <1>2, RoundOwns

\* Nothing could be freed: nothing stays parked.
LEMMA NotCondensedOwns ==
  ASSUME OwnersInv, NEW c \in Callers, NotCondensed(c)
  PROVE  OwnersPart'
<1>1. /\ ~ Parked' /\ pc[c] = "compact"
      /\ UNCHANGED <<live, fresh, owner, closed, stopped, outcome, told>>
  BY DEF NotCondensed, Parked, unmoved
<1>2. /\ pc'[c] = "done"
      /\ \A d \in Callers : d # c => pc'[d] = pc[d]
  BY DEF NotCondensed, OwnersInv, BudgetInv, TypeOK
<1>3. OwnersAgree'
  BY <1>1, <1>2 DEF OwnersInv, OwnersAgree
<1>4. AbortsAreSeen' /\ ClosedStandsDown' /\ StoppedIsSilent'
  BY <1>1, <1>2
     DEF OwnersInv, AbortsAreSeen, ClosedStandsDown, StoppedIsSilent
<1>5. NothingIsTold'
  BY <1>1 DEF OwnersInv, NothingIsTold
<1>6. QED BY <1>1, <1>3, <1>4, <1>5 DEF OwnersPart, ParkedHasSomebody

LEMMA AgainOwns ==
  ASSUME OwnersInv, NEW c \in Callers, Again(c)
  PROVE  OwnersPart'
<1>1. fresh[c] \in BOOLEAN
  BY DEF OwnersInv, BudgetInv, TypeOK
<1>2. /\ Round(c, fresh[c]) /\ pc[c] = "again"
      /\ UNCHANGED fresh /\ UNCHANGED unmoved
  BY DEF Again
<1>3. fresh[c] => fresh'[c] /\ ~ closed
  BY <1>2 DEF OwnersInv, ClosedStandsDown
<1>4. ~ fresh[c] => ~ Parked \/ closed
  BY <1>2 DEF OwnersInv, AbortsAreSeen
<1>5. QED BY <1>1, <1>2, <1>3, <1>4, RoundOwns

\* The sleeper was neither stopped, undone nor closed over.
LEMMA WakesOwns ==
  ASSUME OwnersInv, NEW c \in Callers, Wakes(c)
  PROVE  OwnersPart'
<1>1. /\ pc[c] = "sleep" /\ Restart(c) /\ ~ Settling
      /\ UNCHANGED <<pendingError, pendingRate, fresh, closed, stopped>>
  BY DEF Wakes, parked, unmoved
<1>2. ~ stopped' /\ ~ closed' /\ fresh'[c]
  BY <1>1 DEF OwnersInv, StoppedIsSilent, ClosedStandsDown, AbortsAreSeen
<1>3. /\ OwnersAgree' /\ live' /\ pc'[c] \in {"again", "restart"}
      /\ \A d \in Callers : d # c => pc'[d] = pc[d]
  BY <1>1, RestartOwns
<1>4. AbortsAreSeen'
  BY <1>1, <1>2, <1>3 DEF OwnersInv, AbortsAreSeen, Settling
<1>5. QED BY <1>2, <1>3, <1>4
          DEF OwnersPart, ParkedHasSomebody, ClosedStandsDown, StoppedIsSilent,
              NothingIsTold

\* What a stop, an undo of a live run and a close have in common: with nothing
\* left parked, or the conversation closed, everybody stands down.
LEMMA AbortOwns ==
  ASSUME OwnersInv, Abort, ~ Parked' \/ closed', stopped', UNCHANGED <<outcome, told>>
  PROVE  OwnersPart'
<1>1. /\ OwnersAgree' /\ ~ live'
      /\ \A c \in Callers : ~ fresh'[c] /\ pc'[c] # "sleep"
  BY AbortReleases
<1>2. \A c \in Callers : pc'[c] # "restart"
  BY <1>1 DEF OwnersAgree
<1>3. QED BY <1>1, <1>2
          DEF OwnersPart, ParkedHasSomebody, AbortsAreSeen, ClosedStandsDown,
              StoppedIsSilent, NothingIsTold

LEMMA StopOwns ==
  ASSUME OwnersInv, Stop, "stopParked" \notin Env
  PROVE  OwnersPart'
<1>1. Abort /\ stopped' /\ UNCHANGED <<outcome, told>>
  BY DEF Stop
<1>2. ~ Parked'
  BY DEF Stop, Parked
<1>3. QED BY <1>1, <1>2, AbortOwns

LEMMA UndoOwns ==
  ASSUME OwnersInv, Undo, "undoAsleep" \notin Env
  PROVE  OwnersPart'
<1>1. ~ Parked' /\ stopped' /\ UNCHANGED <<closed, outcome, told>> /\ ~ closed
  BY DEF Undo, Reset, Parked
<1>2. CASE live
  BY <1>1, <1>2, AbortOwns DEF Undo
<1>3. CASE ~ live
  <2>1. UNCHANGED <<live, owner, fresh, pc>>
        /\ \A c \in Callers : pc[c] # "sleep"
    BY <1>3 DEF Undo
  <2>2. OwnersAgree'
    BY <2>1 DEF OwnersInv, OwnersAgree
  <2>3. AbortsAreSeen'
    BY <1>1, <2>1 DEF OwnersInv, AbortsAreSeen
  <2>4. QED BY <1>1, <1>3, <2>1, <2>2, <2>3
            DEF OwnersPart, ParkedHasSomebody, ClosedStandsDown, StoppedIsSilent,
                NothingIsTold
<1>4. QED BY <1>2, <1>3

LEMMA CloseOwns ==
  ASSUME OwnersInv, Close
  PROVE  OwnersPart'
<1>1. Abort /\ closed' /\ stopped' /\ UNCHANGED <<outcome, told>>
  BY DEF Close
<1>2. QED BY <1>1, AbortOwns

LEMMA OwnersInit == Init => OwnersInv
<1> SUFFICES ASSUME Init PROVE OwnersInv
  OBVIOUS
<1>1. BudgetInv
  BY BudgetInit
<1>2. OwnersAgree
  BY CallersAssumption DEF Init, OwnersAgree, CallersAssumption
<1>3. ParkedHasSomebody /\ AbortsAreSeen
  BY DEF Init, ParkedHasSomebody, AbortsAreSeen, Parked
<1>4. ClosedStandsDown /\ StoppedIsSilent /\ NothingIsTold
  BY DEF Init, ClosedStandsDown, StoppedIsSilent, NothingIsTold
<1>5. QED BY <1>1, <1>2, <1>3, <1>4 DEF OwnersInv

LEMMA OwnersStep ==
  ASSUME "stopParked" \notin Env, "undoAsleep" \notin Env, "emptyAtCap" \notin Env
  PROVE  OwnersInv /\ [Next]_vars => OwnersInv'
<1> SUFFICES ASSUME OwnersInv, [Next]_vars PROVE OwnersInv'
  OBVIOUS
<1>1. BudgetInv'
  BY BudgetStep DEF OwnersInv
<1>2. OwnersPart'
  <2>1. CASE Steer
    <3>1. UNCHANGED <<pendingError, pendingRate, live, owner, pc, fresh, closed,
                      stopped, outcome, told>>
      BY <2>1 DEF Steer, parked, callers, history
    <3>2. QED BY <3>1
              DEF OwnersInv, OwnersPart, OwnersAgree, ParkedHasSomebody,
                  AbortsAreSeen, ClosedStandsDown, StoppedIsSilent,
                  NothingIsTold, Parked
  <2>2. CASE UNCHANGED vars
    <3>1. UNCHANGED <<pendingError, pendingRate, live, owner, pc, fresh, closed,
                      stopped, outcome, told>>
      BY <2>2 DEF vars, parked, runtime, callers, history
    <3>2. QED BY <3>1
              DEF OwnersInv, OwnersPart, OwnersAgree, ParkedHasSomebody,
                  AbortsAreSeen, ClosedStandsDown, StoppedIsSilent,
                  NothingIsTold, Parked
  <2>3. QED BY <2>1, <2>2, PromptOwns, TurnOwns, SettledOwns, CondensedOwns,
               NotCondensedOwns, AgainOwns, WakesOwns, StopOwns, UndoOwns,
               CloseOwns
            DEF Next
<1>3. QED BY <1>1, <1>2 DEF OwnersInv, OwnersPart

LEMMA OwnersImply == OwnersInv => RestartsAreOwned
<1> SUFFICES ASSUME OwnersInv PROVE RestartsAreOwned
  OBVIOUS
<1>1. SomebodyWaits
  BY DEF OwnersInv, OwnersAgree, ParkedHasSomebody, SomebodyWaits
<1>2. StopStaysStopped /\ NothingIsExplained
  BY DEF OwnersInv, StoppedIsSilent, NothingIsTold, StopStaysStopped,
         NothingIsExplained
<1>3. QED BY <1>1, <1>2 DEF RestartsAreOwned

\* A live run is some prompt's, a parked restart has a prompt to take it, a
\* stopped, undone or closed conversation stays silent until it is asked again,
\* and an exchange with nothing to show ends with the user told.  The three
\* hypotheses exclude the stop or undo over a parked restart, the undo during a
\* backoff and the empty answer at the output cap, for each of which the code
\* does otherwise (session-agent.ts, resumeAfterErrorRun and abort).
THEOREM RestartsHaveOwners ==
  ASSUME "stopParked" \notin Env, "undoAsleep" \notin Env, "emptyAtCap" \notin Env
  PROVE  Spec => []RestartsAreOwned
BY OwnersInit, OwnersStep, OwnersImply, PTL DEF Spec

(***************************************************************************)
(* The goal loop.                                                          *)
(***************************************************************************)
USE BoundsAssumption DEF BoundsAssumption, Prompts, Loops

(***************************************************************************)
(* Types, with what the steps rely on: a free loop carries nothing over, a *)
(* loop of a closed agent is cancelled, and the judge is only asked below  *)
(* the cap.                                                                *)
(***************************************************************************)
FreeIsFresh   == \A k \in Loops : loop[k].pc = "free" => ~loop[k].cancelled
ClosedIsOver  == \A k \in Loops : loop[k].closed => loop[k].cancelled
BelowTheCap   == \A k \in Loops :
                    loop[k].pc = "judging" => loop[k].goal.iteration < MaxIterations
RunnersAreOpen == \A i \in Prompts : conv = Of(i) => ~prompt[i].closed

LoopInv == GoalTypeOK /\ FreeIsFresh /\ ClosedIsOver /\ BelowTheCap /\ RunnersAreOpen

\* NoGoal and Free have their types.
LEMMA NoGoalType == NoGoal \in Goal /\ Free \in Loop
BY DEF NoGoal, Goal, Free, Loop

\* What judges and ends leave of the loops' part of the invariant.
LoopPart(lp) ==
    /\ lp \in [Loops -> Loop]
    /\ \A k \in Loops : lp[k].pc = "free" => ~lp[k].cancelled
    /\ \A k \in Loops : lp[k].closed => lp[k].cancelled
    /\ \A k \in Loops : lp[k].pc = "judging" => lp[k].goal.iteration < MaxIterations

LEMMA EndsKeeps ==
  ASSUME LoopInv, NEW k \in Loops, Ends(k)
  PROVE  LoopPart(loop')
BY NoGoalType DEF LoopInv, GoalTypeOK, FreeIsFresh, ClosedIsOver, BelowTheCap,
   LoopPart, Ends, Free

\* A loop that may act and judges keeps the invariant, and the goal its type.
LEMMA JudgesKeeps ==
  ASSUME LoopInv, NEW k \in Loops, ~loop[k].cancelled, Judges(k)
  PROVE  LoopPart(loop') /\ goal' \in Goal /\ place' \in {"view", "behind", "gone"}
         /\ orphaned' \in BOOLEAN
<1>1. CASE AtCap(goal)
  <2>1. finishGoal /\ Ends(k)
    BY <1>1 DEF Judges
  <2>2. QED BY <2>1, EndsKeeps, NoGoalType DEF finishGoal
<1>2. CASE ~AtCap(goal)
  <2>1. /\ loop' = [loop EXCEPT ![k].pc = "judging", ![k].goal = goal]
        /\ orphaned' = FALSE /\ UNCHANGED <<goal, place>>
    BY <1>2 DEF Judges
  <2>2. goal \in Goal /\ goal.iteration < MaxIterations
    BY <1>2 DEF AtCap, LoopInv, GoalTypeOK, Goal
  <2>3. /\ loop' \in [Loops -> Loop]
        /\ \A j \in Loops : j # k => loop'[j] = loop[j]
        /\ loop'[k].pc = "judging" /\ loop'[k].goal = goal
        /\ loop'[k].cancelled = loop[k].cancelled
        /\ loop'[k].closed = loop[k].closed
    BY <2>1, <2>2 DEF LoopInv, GoalTypeOK, Loop
  <2>4. LoopPart(loop')
    BY <2>2, <2>3 DEF LoopInv, FreeIsFresh, ClosedIsOver, BelowTheCap, LoopPart
  <2>5. QED BY <2>1, <2>4 DEF LoopInv, GoalTypeOK
<1>3. QED BY <1>1, <1>2

\* cancel() and the end of a goal.
LEMMA CancelKeeps ==
  ASSUME LoopInv, CancelGoal
  PROVE  LoopPart(loop') /\ goal' \in Goal /\ place' \in {"view", "behind", "gone"}
         /\ orphaned' \in BOOLEAN
<1>1. loop' = [k \in Loops |->
                  IF k \in Out THEN [loop[k] EXCEPT !.cancelled = TRUE]
                               ELSE loop[k]]
  BY DEF CancelGoal
<1>2. /\ loop' \in [Loops -> Loop]
      /\ \A k \in Loops : /\ loop'[k].pc = loop[k].pc
                          /\ loop'[k].goal = loop[k].goal
                          /\ loop'[k].closed = loop[k].closed
                          /\ loop'[k].cancelled = (k \in Out \/ loop[k].cancelled)
  BY <1>1 DEF LoopInv, GoalTypeOK, Loop
<1>3. LoopPart(loop')
  BY <1>2 DEF LoopInv, FreeIsFresh, ClosedIsOver, BelowTheCap, LoopPart, Out
<1>4. QED BY <1>3, NoGoalType DEF CancelGoal, finishGoal

\* The prompt path up to the await of the exchange.
LEMMA RunsKeeps ==
  ASSUME LoopInv, NEW i \in Prompts, NEW declares \in BOOLEAN,
         conv = Idle \/ ~prompt[i].closed, Runs(i, declares)
  PROVE  LoopInv'
<1>1. goal' \in Goal /\ place' \in {"view", "behind", "gone"}
      /\ completed' \in 0..MaxIterations /\ orphaned' \in BOOLEAN
  <2>1. CASE declares
    <3>1. goal' = [id |-> i, iteration |-> 0] /\ place' = "view"
          /\ completed' = 0 /\ orphaned' = FALSE
      BY <2>1 DEF Runs, StartsGoal
    <3>2. goal' \in Goal /\ completed' \in 0..MaxIterations
      BY <3>1 DEF Goal
    <3>3. QED BY <3>1, <3>2
  <2>2. CASE ~declares
    BY <2>2 DEF Runs, StartsGoal, LoopInv, GoalTypeOK
  <2>3. QED BY <2>1, <2>2
<1>2. LoopPart(loop')
  BY DEF Runs, LoopInv, GoalTypeOK, FreeIsFresh, ClosedIsOver, BelowTheCap, LoopPart
<1>3. CASE conv = Idle
  <2>1. conv' = Of(i) /\ prompt' = [prompt EXCEPT ![i] = [pc |-> "running",
                              declares |-> declares, closed |-> FALSE]]
    BY <1>3 DEF Runs
  <2>2. prompt' \in [Prompts -> PromptState] /\ ~prompt'[i].closed
    BY <2>1 DEF LoopInv, GoalTypeOK, PromptState
  <2>3. \A j \in Prompts : conv' = Of(j) => j = i
    BY <2>1 DEF Of
  <2>4. QED BY <1>1, <1>2, <2>1, <2>2, <2>3
            DEF LoopInv, GoalTypeOK, FreeIsFresh, ClosedIsOver, BelowTheCap, LoopPart,
                RunnersAreOpen
<1>4. CASE conv # Idle
  <2>1. conv' = conv /\ prompt' = [prompt EXCEPT ![i].pc = "settling"]
    BY <1>4 DEF Runs
  <2>2. prompt' \in [Prompts -> PromptState]
        /\ \A j \in Prompts : prompt'[j].closed = prompt[j].closed
    BY <2>1 DEF LoopInv, GoalTypeOK, PromptState
  <2>3. QED BY <1>1, <1>2, <2>1, <2>2
            DEF LoopInv, GoalTypeOK, FreeIsFresh, ClosedIsOver, BelowTheCap, LoopPart,
                RunnersAreOpen
<1>5. QED BY <1>3, <1>4

\* A prompt moves on and nothing else of it changes.
LEMMA PromptMoves ==
  ASSUME LoopInv, NEW i \in Prompts, NEW p \in {"waiting", "settling", "done"},
         prompt' = [prompt EXCEPT ![i].pc = p]
  PROVE  prompt' \in [Prompts -> PromptState]
         /\ \A j \in Prompts : prompt'[j].closed = prompt[j].closed
BY DEF LoopInv, GoalTypeOK, PromptState

\* An exchange is over: nobody's exchange runs.
LEMMA CompletedType ==
  ASSUME LoopInv, Completed
  PROVE  completed' \in 0..MaxIterations
BY DEF LoopInv, GoalTypeOK, Completed

\* The steps of a loop.
LEMMA LoopStepKeeps ==
  ASSUME LoopInv, NEW k \in Loops, LoopStep(k)
  PROVE  LoopInv'
<1> USE DEF LoopInv
<1>1. CASE VerdictEndsGoal(k)
  <2>1. LoopPart(loop')
    BY <1>1, EndsKeeps DEF VerdictEndsGoal
  <2>2. goal' \in Goal /\ place' = "gone" /\ orphaned' = FALSE
        /\ UNCHANGED <<prompt, conv, completed>>
    BY <1>1, NoGoalType DEF VerdictEndsGoal, finishGoal
  <2>3. QED BY <2>1, <2>2 DEF GoalTypeOK, FreeIsFresh, ClosedIsOver, BelowTheCap,
                              LoopPart, RunnersAreOpen
<1>2. CASE VerdictGoesOn(k)
  <2>1. loop[k].goal.iteration + 1 \in 0..MaxIterations
    BY <1>2 DEF VerdictGoesOn, GoalTypeOK, BelowTheCap, Loop, Goal
  <2>2. goal' \in Goal
    <3>1. CASE goal = NoGoal
      BY <1>2, <3>1, NoGoalType DEF VerdictGoesOn
    <3>2. CASE goal # NoGoal
      BY <1>2, <3>2, <2>1 DEF VerdictGoesOn, GoalTypeOK, Goal
    <3>3. QED BY <3>1, <3>2
  <2>3. PICK p \in {"turn", "settling"} : loop' = [loop EXCEPT ![k].pc = p]
    BY <1>2 DEF VerdictGoesOn
  <2>4. /\ loop' \in [Loops -> Loop]
        /\ \A j \in Loops : j # k => loop'[j] = loop[j]
        /\ loop'[k].pc = p
        /\ loop'[k].cancelled = loop[k].cancelled
        /\ loop'[k].closed = loop[k].closed
    BY <2>3 DEF GoalTypeOK, Loop
  <2>5. FreeIsFresh' /\ ClosedIsOver' /\ BelowTheCap'
    BY <2>4 DEF FreeIsFresh, ClosedIsOver, BelowTheCap
  <2>6. conv' \in {conv, By(k)} /\ UNCHANGED <<place, prompt, completed, orphaned>>
    BY <1>2 DEF VerdictGoesOn
  <2>7. RunnersAreOpen'
    BY <2>6 DEF RunnersAreOpen, Of, By
  <2>8. GoalTypeOK'
    BY <2>2, <2>4, <2>6 DEF GoalTypeOK
  <2>9. QED BY <2>5, <2>7, <2>8
<1>3. CASE VerdictUnheeded(k)
  <2>1. LoopPart(loop')
    BY <1>3, EndsKeeps DEF VerdictUnheeded
  <2>2. QED BY <1>3, <2>1 DEF VerdictUnheeded, GoalTypeOK, FreeIsFresh, ClosedIsOver,
                              BelowTheCap, LoopPart, RunnersAreOpen
<1>4. CASE JudgeFails(k)
  <2>1. LoopPart(loop')
    BY <1>4, EndsKeeps DEF JudgeFails
  <2>2. goal' \in Goal /\ place' = "gone" /\ orphaned' = FALSE
        /\ UNCHANGED <<prompt, conv, completed>>
    BY <1>4, NoGoalType DEF JudgeFails, finishGoal
  <2>3. QED BY <2>1, <2>2 DEF GoalTypeOK, FreeIsFresh, ClosedIsOver, BelowTheCap,
                              LoopPart, RunnersAreOpen
<1>5. CASE GoalTurnEnds(k)
  <2>1. loop' = [loop EXCEPT ![k].pc = "settling"]
    BY <1>5 DEF GoalTurnEnds
  <2>2. /\ loop' \in [Loops -> Loop]
        /\ \A j \in Loops : j # k => loop'[j] = loop[j]
        /\ loop'[k].pc = "settling"
        /\ loop'[k].cancelled = loop[k].cancelled
        /\ loop'[k].closed = loop[k].closed
    BY <2>1 DEF GoalTypeOK, Loop
  <2>3. FreeIsFresh' /\ ClosedIsOver' /\ BelowTheCap'
    BY <2>2 DEF FreeIsFresh, ClosedIsOver, BelowTheCap
  <2>4. conv' = Idle /\ UNCHANGED <<goal, place, prompt, orphaned>>
        /\ completed' \in 0..MaxIterations
    BY <1>5, CompletedType DEF GoalTurnEnds
  <2>5. QED BY <2>2, <2>3, <2>4 DEF GoalTypeOK, RunnersAreOpen, Idle, Of
<1>6. CASE NextRound(k)
  <2>1. UNCHANGED <<prompt, conv, completed>>
    BY <1>6 DEF NextRound
  <2>2. LoopPart(loop') /\ goal' \in Goal /\ place' \in {"view", "behind", "gone"}
        /\ orphaned' \in BOOLEAN
    <3>1. CASE loop[k].cancelled \/ goal = NoGoal
      BY <1>6, <3>1, EndsKeeps DEF NextRound, GoalTypeOK
    <3>2. CASE ~(loop[k].cancelled \/ goal = NoGoal)
      BY <1>6, <3>2, JudgesKeeps DEF NextRound
    <3>3. QED BY <3>1, <3>2
  <2>3. QED BY <2>1, <2>2 DEF GoalTypeOK, FreeIsFresh, ClosedIsOver, BelowTheCap,
                              LoopPart, RunnersAreOpen
<1>7. QED BY <1>1, <1>2, <1>3, <1>4, <1>5, <1>6 DEF LoopStep

\* The steps of a prompt.
LEMMA PromptStepKeeps ==
  ASSUME LoopInv, NEW i \in Prompts, PromptStep(i)
  PROVE  LoopInv'
<1> USE DEF LoopInv
<1>1. CASE Proceed(i)
  <2>1. CASE prompt[i].closed
    <3>1. prompt' = [prompt EXCEPT ![i].pc = "done"]
          /\ UNCHANGED <<goal, place, loop, conv, completed, orphaned>>
      BY <1>1, <2>1 DEF Proceed
    <3>2. QED BY <3>1, PromptMoves DEF GoalTypeOK, FreeIsFresh, ClosedIsOver,
                                       BelowTheCap, RunnersAreOpen
  <2>2. CASE ~prompt[i].closed
    <3>1. Runs(i, prompt[i].declares) /\ prompt[i].declares \in BOOLEAN
      BY <1>1, <2>2 DEF Proceed, GoalTypeOK, PromptState
    <3>2. QED BY <3>1, <2>2, RunsKeeps
  <2>3. QED BY <2>1, <2>2
<1>2. CASE RunEnds(i)
  <2>1. /\ prompt' = [prompt EXCEPT ![i].pc = "settling"] /\ conv' = Idle
        /\ completed' \in 0..MaxIterations
        /\ UNCHANGED <<goal, place, loop, orphaned>>
    BY <1>2, CompletedType DEF RunEnds
  <2>2. QED BY <2>1, PromptMoves DEF GoalTypeOK, FreeIsFresh, ClosedIsOver,
                                     BelowTheCap, RunnersAreOpen, Idle, Of
<1>3. CASE PromptSettled(i)
  <2>1. /\ prompt' = [prompt EXCEPT ![i].pc = "done"]
        /\ UNCHANGED <<conv, completed>>
        /\ MaybeRun \/ UNCHANGED <<goal, place, loop, orphaned>>
    BY <1>3 DEF PromptSettled
  <2>2. LoopPart(loop') /\ goal' \in Goal /\ place' \in {"view", "behind", "gone"}
        /\ orphaned' \in BOOLEAN
    <3>1. CASE UNCHANGED <<goal, place, loop, orphaned>>
      BY <3>1 DEF GoalTypeOK, FreeIsFresh, ClosedIsOver, BelowTheCap, LoopPart
    <3>2. CASE MaybeRun /\ (goal = NoGoal \/ Out # {})
      BY <3>2 DEF MaybeRun, GoalTypeOK, FreeIsFresh, ClosedIsOver, BelowTheCap, LoopPart
    <3>3. CASE MaybeRun /\ ~(goal = NoGoal \/ Out # {})
      <4>1. PICK k \in Loops : loop[k].pc = "free" /\ Judges(k)
        BY <3>3 DEF MaybeRun
      <4>2. QED BY <4>1, JudgesKeeps DEF FreeIsFresh
    <3>4. QED BY <2>1, <3>1, <3>2, <3>3
  <2>3. QED BY <2>1, <2>2, PromptMoves
            DEF GoalTypeOK, FreeIsFresh, ClosedIsOver, BelowTheCap, LoopPart,
                RunnersAreOpen
<1>4. QED BY <1>1, <1>2, <1>3 DEF PromptStep

\* The user and the configuration.
LEMMA UserStepKeeps ==
  ASSUME LoopInv, UserStep
  PROVE  LoopInv'
<1> USE DEF LoopInv
<1>1. ASSUME NEW i \in Prompts, NEW declares \in BOOLEAN, Send(i, declares)
      PROVE  LoopInv'
  <2>1. CASE conv = Idle /\ Runs(i, declares)
    BY <2>1, RunsKeeps
  <2>2. CASE /\ prompt' = [prompt EXCEPT ![i].pc = "done"]
             /\ UNCHANGED <<goal, place, loop, conv, completed, orphaned>>
    BY <2>2, PromptMoves DEF GoalTypeOK, FreeIsFresh, ClosedIsOver, BelowTheCap,
                             RunnersAreOpen
  <2>3. CASE /\ conv = Idle
             /\ prompt' = [prompt EXCEPT ![i] = [pc |-> "waiting",
                              declares |-> declares, closed |-> FALSE]]
             /\ UNCHANGED <<goal, place, loop, conv, completed, orphaned>>
    <3>1. prompt' \in [Prompts -> PromptState]
      BY <2>3 DEF GoalTypeOK, PromptState
    <3>2. RunnersAreOpen'
      BY <2>3 DEF RunnersAreOpen, Idle, Of
    <3>3. QED BY <2>3, <3>1, <3>2 DEF GoalTypeOK, FreeIsFresh, ClosedIsOver, BelowTheCap
  <2>4. QED BY <1>1, <2>1, <2>2, <2>3 DEF Send
<1>2. CASE Cancel
  <2>1. CancelGoal /\ UNCHANGED <<prompt, conv, completed>>
    BY <1>2 DEF Cancel
  <2>2. QED BY <2>1, CancelKeeps DEF GoalTypeOK, FreeIsFresh, ClosedIsOver,
                                     BelowTheCap, LoopPart, RunnersAreOpen
<1>3. CASE AbortGoal
  <2>1. conv' = Idle /\ goal' = NoGoal /\ place' = "gone" /\ orphaned' = FALSE
        /\ completed' = completed
    BY <1>3 DEF AbortGoal, finishGoal
  <2>2. loop' = [k \in Loops |->
                   IF k \in Out
                   THEN [loop[k] EXCEPT !.cancelled = TRUE,
                            !.pc = IF conv = By(k) THEN "settling" ELSE @]
                   ELSE loop[k]]
    BY <1>3 DEF AbortGoal
  <2>3. /\ loop' \in [Loops -> Loop]
        /\ \A k \in Loops : /\ loop'[k].pc = loop[k].pc \/ loop'[k].pc = "settling"
                            /\ loop'[k].goal = loop[k].goal
                            /\ loop'[k].closed = loop[k].closed
                            /\ loop'[k].cancelled = (k \in Out \/ loop[k].cancelled)
                            /\ k \notin Out => loop'[k] = loop[k]
    BY <2>2 DEF GoalTypeOK, Loop
  <2>4. FreeIsFresh' /\ ClosedIsOver' /\ BelowTheCap'
    BY <2>3 DEF FreeIsFresh, ClosedIsOver, BelowTheCap, Out
  <2>5. prompt' = [i \in Prompts |->
                     IF conv = Of(i) THEN [prompt[i] EXCEPT !.pc = "settling"]
                                     ELSE prompt[i]]
    BY <1>3 DEF AbortGoal
  <2>6. prompt' \in [Prompts -> PromptState]
    BY <2>5 DEF GoalTypeOK, PromptState
  <2>7. RunnersAreOpen'
    BY <2>1 DEF RunnersAreOpen, Idle, Of
  <2>8. QED BY <2>1, <2>3, <2>4, <2>6, <2>7, NoGoalType DEF GoalTypeOK
<1>4. CASE RewindGoal
  <2>1. LoopPart(loop') /\ goal' \in Goal /\ place' \in {"view", "behind", "gone"}
        /\ orphaned' \in BOOLEAN
    <3>1. CASE place = "view"
      BY <1>4, <3>1, CancelKeeps DEF RewindGoal
    <3>2. CASE place # "view"
      BY <1>4, <3>2 DEF RewindGoal, GoalTypeOK, FreeIsFresh, ClosedIsOver,
                        BelowTheCap, LoopPart
    <3>3. QED BY <3>1, <3>2
  <2>2. UNCHANGED <<prompt, conv, completed>>
    BY <1>4 DEF RewindGoal
  <2>3. QED BY <2>1, <2>2 DEF GoalTypeOK, FreeIsFresh, ClosedIsOver, BelowTheCap,
                              LoopPart, RunnersAreOpen
<1>5. CASE Compact
  BY <1>5 DEF Compact, GoalTypeOK, FreeIsFresh, ClosedIsOver, BelowTheCap, RunnersAreOpen
<1>6. CASE Rebuild
  <2>1. /\ loop' = [k \in Loops |->
                   IF k \in Out
                   THEN [loop[k] EXCEPT !.cancelled = TRUE, !.closed = TRUE]
                   ELSE loop[k]]
        /\ prompt' = [i \in Prompts |->
                     IF prompt[i].pc \in {"waiting", "settling"}
                     THEN [prompt[i] EXCEPT !.closed = TRUE] ELSE prompt[i]]
    BY <1>6 DEF Rebuild
  <2>2. conv = Idle /\ orphaned' = (goal # NoGoal)
        /\ UNCHANGED <<goal, place, conv, completed>>
    BY <1>6 DEF Rebuild
  <2>3. /\ loop' \in [Loops -> Loop]
        /\ \A k \in Loops : /\ loop'[k].pc = loop[k].pc
                            /\ loop'[k].goal = loop[k].goal
                            /\ k \in Out => loop'[k].cancelled
                            /\ k \notin Out => loop'[k] = loop[k]
    BY <2>1 DEF GoalTypeOK, Loop
  <2>4. FreeIsFresh' /\ ClosedIsOver' /\ BelowTheCap'
    BY <2>3 DEF FreeIsFresh, ClosedIsOver, BelowTheCap, Out
  <2>5. prompt' \in [Prompts -> PromptState]
    BY <2>1 DEF GoalTypeOK, PromptState
  <2>6. RunnersAreOpen'
    BY <2>2 DEF RunnersAreOpen, Idle, Of
  <2>7. orphaned' \in BOOLEAN
    BY <2>2
  <2>8. QED BY <2>2, <2>3, <2>4, <2>5, <2>6, <2>7 DEF GoalTypeOK
<1>7. QED BY <1>1, <1>2, <1>3, <1>4, <1>5, <1>6 DEF UserStep

LEMMA InitInv == GoalInit => LoopInv
<1> SUFFICES ASSUME GoalInit PROVE LoopInv
  OBVIOUS
<1>1. \A k \in Loops : loop[k] = Free
  BY DEF GoalInit
<1>2. loop \in [Loops -> Loop] /\ goal \in Goal
  BY NoGoalType DEF GoalInit
<1>3. prompt \in [Prompts -> PromptState]
  BY DEF GoalInit, PromptState
<1>4. conv = Idle /\ completed \in 0..MaxIterations
      /\ place \in {"view", "behind", "gone"}
  BY DEF GoalInit
<1>5. FreeIsFresh /\ ClosedIsOver /\ BelowTheCap
  BY <1>1 DEF FreeIsFresh, ClosedIsOver, BelowTheCap, Free
<1>6. RunnersAreOpen
  BY <1>4 DEF RunnersAreOpen, Idle, Of
<1>7. orphaned \in BOOLEAN
  BY DEF GoalInit
<1>8. QED BY <1>2, <1>3, <1>4, <1>5, <1>6, <1>7 DEF LoopInv, GoalTypeOK

LEMMA LoopInvariance == GoalSpec => []LoopInv
<1>1. ASSUME LoopInv, [GoalNext]_goalVars PROVE LoopInv'
  <2>1. CASE UNCHANGED goalVars
    BY <1>1, <2>1 DEF goalVars, LoopInv, GoalTypeOK, FreeIsFresh, ClosedIsOver,
                      BelowTheCap, RunnersAreOpen
  <2>2. CASE GoalNext
    BY <1>1, <2>2, UserStepKeeps, LoopStepKeeps, PromptStepKeeps DEF GoalNext
  <2>3. QED BY <1>1, <2>1, <2>2
<1>2. QED BY <1>1, InitInv, PTL DEF GoalSpec

\* Every variable keeps its type (in particular the iterations of a goal stay
\* within the cap of goal/loop.ts 90-102).
THEOREM GoalTypes == GoalSpec => []GoalTypeOK
<1>1. LoopInv => GoalTypeOK
  BY DEF LoopInv
<1>2. QED BY <1>1, LoopInvariance, PTL

-----------------------------------------------------------------------------
(***************************************************************************)
(* One loop.  A second one only starts when no loop of the current agent   *)
(* is out, and every loop of an older agent is cancelled by its close.     *)
(***************************************************************************)
Acting == {k \in Loops : loop[k].pc # "free" /\ ~loop[k].cancelled}

Single == \A j, k \in Acting : j = k

SoleInv == LoopInv /\ Single

\* Where no loop of this agent is out, no loop acts.
LEMMA OutCoversActing ==
  ASSUME LoopInv
  PROVE  Acting \subseteq Out
BY DEF LoopInv, ClosedIsOver, Acting, Out

\* Judging does not change who else acts.
LEMMA JudgesActs ==
  ASSUME LoopInv, NEW k \in Loops, Judges(k)
  PROVE  Acting' \subseteq Acting \cup {k}
<1>1. CASE AtCap(goal)
  BY <1>1 DEF Judges, Ends, Acting, LoopInv, GoalTypeOK, Free
<1>2. CASE ~AtCap(goal)
  BY <1>2 DEF Judges, Acting, LoopInv, GoalTypeOK, Loop
<1>3. QED BY <1>1, <1>2

LEMMA EndsActs ==
  ASSUME LoopInv, NEW k \in Loops, Ends(k)
  PROVE  Acting' \subseteq Acting
BY DEF Ends, Acting, LoopInv, GoalTypeOK, Free

\* Only MaybeRun makes a loop act that did not act before.
LEMMA ActingGrows ==
  ASSUME LoopInv, GoalNext
  PROVE  Acting' \subseteq Acting \/ (Acting = {} /\ \E k \in Loops : Acting' \subseteq {k})
<1> USE DEF LoopInv
<1>1. ASSUME NEW k \in Loops, LoopStep(k)
      PROVE  Acting' \subseteq Acting
  <2>1. CASE VerdictEndsGoal(k) \/ VerdictUnheeded(k) \/ JudgeFails(k)
    BY <2>1, EndsActs DEF VerdictEndsGoal, VerdictUnheeded, JudgeFails
  <2>2. CASE VerdictGoesOn(k)
    <3>1. PICK p \in {"turn", "settling"} : loop' = [loop EXCEPT ![k].pc = p]
      BY <2>2 DEF VerdictGoesOn
    <3>2. loop[k].pc # "free"
      BY <2>2 DEF VerdictGoesOn
    <3>3. QED BY <3>1, <3>2 DEF Acting, GoalTypeOK, Loop
  <2>3. CASE GoalTurnEnds(k)
    <3>1. loop[k].pc = "turn" /\ loop' = [loop EXCEPT ![k].pc = "settling"]
      BY <2>3 DEF GoalTurnEnds
    <3>2. QED BY <3>1 DEF Acting, GoalTypeOK, Loop
  <2>4. CASE NextRound(k)
    <3>1. CASE loop[k].cancelled \/ goal = NoGoal
      BY <2>4, <3>1, EndsActs DEF NextRound
    <3>2. CASE ~(loop[k].cancelled \/ goal = NoGoal)
      <4>1. k \in Acting /\ Judges(k)
        BY <2>4, <3>2 DEF NextRound, Acting
      <4>2. QED BY <4>1, JudgesActs
    <3>3. QED BY <3>1, <3>2
  <2>5. QED BY <1>1, <2>1, <2>2, <2>3, <2>4 DEF LoopStep
<1>2. ASSUME NEW i \in Prompts, PromptStep(i)
      PROVE  Acting' \subseteq Acting
             \/ (Acting = {} /\ \E k \in Loops : Acting' \subseteq {k})
  <2>1. CASE UNCHANGED loop
    BY <2>1 DEF Acting
  <2>2. CASE ~UNCHANGED loop
    <3>1. PromptSettled(i) /\ MaybeRun
      BY <1>2, <2>2 DEF PromptStep, Proceed, Runs, RunEnds, PromptSettled
    <3>2. Out = {} /\ \E k \in Loops : Judges(k)
      BY <2>2, <3>1 DEF MaybeRun
    <3>3. QED BY <3>2, OutCoversActing, JudgesActs
  <2>3. QED BY <2>1, <2>2
<1>3. ASSUME UserStep
      PROVE  Acting' \subseteq Acting
  <2>1. CASE UNCHANGED loop
    BY <2>1 DEF Acting
  <2>2. CASE CancelGoal
    <3>1. loop' = [k \in Loops |->
                  IF k \in Out THEN [loop[k] EXCEPT !.cancelled = TRUE]
                               ELSE loop[k]]
      BY <2>2 DEF CancelGoal
    <3>2. QED BY <3>1 DEF Acting, GoalTypeOK, Loop
  <2>3. CASE AbortGoal
    <3>1. loop' = [k \in Loops |->
                   IF k \in Out
                   THEN [loop[k] EXCEPT !.cancelled = TRUE,
                            !.pc = IF conv = By(k) THEN "settling" ELSE @]
                   ELSE loop[k]]
      BY <2>3 DEF AbortGoal
    <3>2. QED BY <3>1 DEF Acting, GoalTypeOK, Loop
  <2>4. CASE Rebuild
    <3>1. loop' = [k \in Loops |->
                   IF k \in Out
                   THEN [loop[k] EXCEPT !.cancelled = TRUE, !.closed = TRUE]
                   ELSE loop[k]]
      BY <2>4 DEF Rebuild
    <3>2. QED BY <3>1 DEF Acting, GoalTypeOK, Loop
  <2>5. QED BY <1>3, <2>1, <2>2, <2>3, <2>4
            DEF UserStep, Send, Runs, Cancel, RewindGoal, Compact
<1>4. QED BY <1>1, <1>2, <1>3 DEF GoalNext

LEMMA SoleInvariance == GoalSpec => []SoleInv
<1>1. GoalInit => SoleInv
  BY InitInv DEF GoalInit, SoleInv, Single, Acting, Free
<1>2. ASSUME SoleInv, [GoalNext]_goalVars PROVE SoleInv'
  <2>1. CASE UNCHANGED goalVars
    BY <1>2, <2>1 DEF SoleInv, LoopInv, GoalTypeOK, FreeIsFresh, ClosedIsOver,
                      BelowTheCap, RunnersAreOpen, Single, Acting, goalVars
  <2>2. CASE GoalNext
    <3>1. LoopInv'
      BY <1>2, <2>2, UserStepKeeps, LoopStepKeeps, PromptStepKeeps DEF GoalNext, SoleInv
    <3>2. Single'
      BY <1>2, <2>2, ActingGrows DEF SoleInv, Single
    <3>3. QED BY <3>1, <3>2 DEF SoleInv
  <2>3. QED BY <1>2, <2>1, <2>2
<1>3. QED BY <1>1, <1>2, PTL DEF GoalSpec

\* "Only one goal runs per session at a time" (shared/goal.ts 5-6): whatever
\* prompts, cancels and rebuilds come in between, one loop at most may act.
THEOREM OneLoopActs == GoalSpec => []OneLoop
<1>1. SoleInv => OneLoop
  <2> SUFFICES ASSUME SoleInv PROVE Cardinality(Acting) <= 1
    BY DEF OneLoop, Acting
  <2>1. CASE Acting = {}
    BY <2>1, FS_EmptySet
  <2>2. CASE Acting # {}
    <3>1. PICK k : k \in Acting
      BY <2>2
    <3>2. Acting = {k}
      BY <3>1 DEF SoleInv, Single
    <3>3. Cardinality({k}) = 1
      BY FS_Singleton
    <3>4. Cardinality(Acting) = 1
      BY <3>2, <3>3
    <3>5. QED BY <3>4
  <2>3. QED BY <2>1, <2>2
<1>2. QED BY <1>1, SoleInvariance, PTL

-----------------------------------------------------------------------------
(***************************************************************************)
(* Somebody drives the goal.  An exchange of a loop is no use here: the    *)
(* loop may be cancelled by then; a prompt's exchange always asks for the  *)
(* loop when it is over.                                                   *)
(***************************************************************************)
AskedByPrompt ==
    \/ \E i \in Prompts : conv = Of(i)
    \/ \E i \in Prompts : prompt[i].pc \in {"waiting", "settling"}
                          /\ ~prompt[i].closed

Driven == goal # NoGoal /\ ~orphaned => AskedByPrompt \/ Acting # {}

DrivenInv == LoopInv /\ Driven

\* A loop that may act and judges either ends the goal or goes on acting.
LEMMA JudgesDrives ==
  ASSUME LoopInv, NEW k \in Loops, ~loop[k].cancelled, Judges(k)
  PROVE  goal' = NoGoal \/ Acting' # {}
<1>1. CASE AtCap(goal)
  BY <1>1 DEF Judges, finishGoal
<1>2. CASE ~AtCap(goal)
  <2>1. loop'[k].pc = "judging" /\ ~loop'[k].cancelled
    BY <1>2 DEF Judges, LoopInv, GoalTypeOK, Loop
  <2>2. QED BY <2>1 DEF Acting
<1>3. QED BY <1>1, <1>2

\* A prompt that starts or joins an exchange asks for the loop later.
LEMMA RunsDrives ==
  ASSUME LoopInv, NEW i \in Prompts, NEW declares \in BOOLEAN,
         conv = Idle \/ ~prompt[i].closed, Runs(i, declares)
  PROVE  AskedByPrompt'
<1>1. CASE conv = Idle
  BY <1>1 DEF Runs, AskedByPrompt
<1>2. CASE conv # Idle
  <2>1. prompt' = [prompt EXCEPT ![i].pc = "settling"] /\ ~prompt[i].closed
    BY <1>2 DEF Runs
  <2>2. prompt'[i].pc = "settling" /\ ~prompt'[i].closed
    BY <2>1 DEF LoopInv, GoalTypeOK, PromptState
  <2>3. QED BY <2>2 DEF AskedByPrompt
<1>3. QED BY <1>1, <1>2

\* A prompt that asks for nothing leaves the others as they are.
LEMMA OthersAsk ==
  ASSUME LoopInv, NEW i \in Prompts,
         prompt[i].pc \notin {"waiting", "settling"} \/ prompt[i].closed,
         prompt' = [prompt EXCEPT ![i].pc = "done"], conv' = conv
  PROVE  AskedByPrompt => AskedByPrompt'
<1>1. \A j \in Prompts : j # i => prompt'[j] = prompt[j]
  BY DEF LoopInv, GoalTypeOK
<1>2. QED BY <1>1 DEF AskedByPrompt

LEMMA LoopStepDrives ==
  ASSUME DrivenInv, NEW k \in Loops, LoopStep(k)
  PROVE  Driven'
<1> USE DEF DrivenInv
<1>1. CASE VerdictEndsGoal(k) \/ JudgeFails(k)
  BY <1>1 DEF VerdictEndsGoal, JudgeFails, finishGoal, Driven
<1>2. CASE VerdictGoesOn(k)
  <2>1. PICK p \in {"turn", "settling"} : loop' = [loop EXCEPT ![k].pc = p]
    BY <1>2 DEF VerdictGoesOn
  <2>2. ~loop[k].cancelled
    BY <1>2 DEF VerdictGoesOn, Heeded
  <2>3. k \in Acting'
    BY <2>1, <2>2 DEF Acting, LoopInv, GoalTypeOK, Loop
  <2>4. QED BY <2>3 DEF Driven
<1>3. CASE VerdictUnheeded(k)
  <2>1. loop[k].cancelled /\ loop' = [loop EXCEPT ![k] = Free]
        /\ UNCHANGED <<goal, prompt, conv, orphaned>>
    BY <1>3 DEF VerdictUnheeded, Ends
  <2>2. Acting \subseteq Acting'
    BY <2>1 DEF Acting, LoopInv, GoalTypeOK
  <2>3. QED BY <2>1, <2>2 DEF Driven, AskedByPrompt
<1>4. CASE GoalTurnEnds(k)
  <2>1. /\ loop[k].pc = "turn" /\ loop' = [loop EXCEPT ![k].pc = "settling"]
        /\ conv = By(k) /\ UNCHANGED <<goal, prompt, orphaned>>
    BY <1>4 DEF GoalTurnEnds
  <2>2. Acting \subseteq Acting'
    BY <2>1 DEF Acting, LoopInv, GoalTypeOK, Loop
  <2>3. AskedByPrompt => AskedByPrompt'
    BY <2>1 DEF AskedByPrompt, Of, By
  <2>4. QED BY <2>1, <2>2, <2>3 DEF Driven
<1>5. CASE NextRound(k)
  <2>1. CASE goal = NoGoal
    BY <1>5, <2>1 DEF NextRound, Driven
  <2>2. CASE loop[k].cancelled /\ goal # NoGoal
    <3>1. loop' = [loop EXCEPT ![k] = Free]
          /\ UNCHANGED <<goal, prompt, conv, orphaned>>
      BY <1>5, <2>2 DEF NextRound, Ends
    <3>2. Acting \subseteq Acting'
      BY <2>2, <3>1 DEF Acting, LoopInv, GoalTypeOK
    <3>3. QED BY <3>1, <3>2 DEF Driven, AskedByPrompt
  <2>3. CASE ~loop[k].cancelled /\ goal # NoGoal
    BY <1>5, <2>3, JudgesDrives DEF NextRound, Driven
  <2>4. QED BY <2>1, <2>2, <2>3
<1>6. QED BY <1>1, <1>2, <1>3, <1>4, <1>5 DEF LoopStep

LEMMA PromptStepDrives ==
  ASSUME DrivenInv, NEW i \in Prompts, PromptStep(i)
  PROVE  Driven'
<1> USE DEF DrivenInv
<1>1. CASE Proceed(i)
  <2>1. CASE prompt[i].closed
    <3>1. prompt' = [prompt EXCEPT ![i].pc = "done"]
          /\ UNCHANGED <<goal, loop, conv, orphaned>>
      BY <1>1, <2>1 DEF Proceed
    <3>2. QED BY <2>1, <3>1, OthersAsk DEF Driven, Acting
  <2>2. CASE ~prompt[i].closed
    <3>1. Runs(i, prompt[i].declares) /\ prompt[i].declares \in BOOLEAN
      BY <1>1, <2>2 DEF Proceed, LoopInv, GoalTypeOK, PromptState
    <3>2. QED BY <2>2, <3>1, RunsDrives DEF Driven
  <2>3. QED BY <2>1, <2>2
<1>2. CASE RunEnds(i)
  <2>1. conv = Of(i) /\ prompt' = [prompt EXCEPT ![i].pc = "settling"]
    BY <1>2 DEF RunEnds
  <2>2. prompt'[i].pc = "settling" /\ ~prompt'[i].closed
    BY <2>1 DEF LoopInv, GoalTypeOK, PromptState, RunnersAreOpen
  <2>3. QED BY <2>2 DEF Driven, AskedByPrompt
<1>3. CASE PromptSettled(i)
  <2>1. prompt' = [prompt EXCEPT ![i].pc = "done"] /\ conv' = conv
    BY <1>3 DEF PromptSettled
  <2>2. CASE prompt[i].closed
    <3>1. UNCHANGED <<goal, loop, orphaned>>
      BY <1>3, <2>2 DEF PromptSettled
    <3>2. QED BY <2>1, <2>2, <3>1, OthersAsk DEF Driven, Acting
  <2>3. CASE ~prompt[i].closed /\ (goal = NoGoal \/ Out # {})
    <3>1. /\ orphaned' = (goal # NoGoal /\ \A k \in Out : loop[k].cancelled)
          /\ UNCHANGED <<goal, loop>>
      BY <1>3, <2>3 DEF PromptSettled, MaybeRun
    <3>2. goal # NoGoal /\ ~orphaned' => Acting # {}
      BY <3>1 DEF Acting, Out
    <3>3. QED BY <3>1, <3>2 DEF Driven, Acting
  <2>4. CASE ~prompt[i].closed /\ ~(goal = NoGoal \/ Out # {})
    <3>1. PICK k \in Loops : loop[k].pc = "free" /\ Judges(k)
      BY <1>3, <2>4 DEF PromptSettled, MaybeRun
    <3>2. QED BY <3>1, JudgesDrives DEF Driven, LoopInv, FreeIsFresh
  <2>5. QED BY <2>2, <2>3, <2>4
<1>4. QED BY <1>1, <1>2, <1>3 DEF PromptStep

LEMMA UserStepDrives ==
  ASSUME DrivenInv, UserStep
  PROVE  Driven'
<1> USE DEF DrivenInv
<1>1. ASSUME NEW i \in Prompts, NEW declares \in BOOLEAN, Send(i, declares)
      PROVE  Driven'
  <2>1. CASE conv = Idle /\ Runs(i, declares)
    BY <2>1, RunsDrives DEF Driven
  <2>2. CASE /\ prompt' = [prompt EXCEPT ![i].pc = "done"]
             /\ UNCHANGED <<goal, place, loop, conv, completed, orphaned>>
    <3>1. prompt[i].pc = "none"
      BY <1>1 DEF Send
    <3>2. QED BY <2>2, <3>1, OthersAsk DEF Driven, Acting
  <2>3. CASE prompt' = [prompt EXCEPT ![i] = [pc |-> "waiting",
                              declares |-> declares, closed |-> FALSE]]
    <3>1. prompt'[i].pc = "waiting" /\ ~prompt'[i].closed
      BY <2>3 DEF LoopInv, GoalTypeOK
    <3>2. QED BY <3>1 DEF Driven, AskedByPrompt
  <2>4. QED BY <1>1, <2>1, <2>2, <2>3 DEF Send
<1>2. CASE Cancel \/ AbortGoal
  BY <1>2 DEF Cancel, CancelGoal, AbortGoal, finishGoal, Driven
<1>3. CASE RewindGoal
  BY <1>3 DEF RewindGoal, CancelGoal, finishGoal, Driven, AskedByPrompt, Acting
<1>4. CASE Compact
  BY <1>4 DEF Compact, Driven, AskedByPrompt, Acting
<1>5. CASE Rebuild
  <2>1. orphaned' = (goal # NoGoal) /\ goal' = goal
    BY <1>5 DEF Rebuild
  <2>2. QED BY <2>1 DEF Driven
<1>6. QED BY <1>1, <1>2, <1>3, <1>4, <1>5 DEF UserStep

LEMMA DrivenInvariance == GoalSpec => []DrivenInv
<1>1. GoalInit => DrivenInv
  BY InitInv DEF GoalInit, DrivenInv, Driven
<1>2. ASSUME DrivenInv, [GoalNext]_goalVars PROVE DrivenInv'
  <2>1. CASE UNCHANGED goalVars
    BY <1>2, <2>1 DEF DrivenInv, LoopInv, GoalTypeOK, FreeIsFresh, ClosedIsOver,
                      BelowTheCap, RunnersAreOpen, Driven, AskedByPrompt, Acting, goalVars
  <2>2. CASE GoalNext
    <3>1. LoopInv'
      BY <1>2, <2>2, UserStepKeeps, LoopStepKeeps, PromptStepKeeps DEF GoalNext, DrivenInv
    <3>2. Driven'
      BY <1>2, <2>2, UserStepDrives, LoopStepDrives, PromptStepDrives DEF GoalNext
    <3>3. QED BY <3>1, <3>2 DEF DrivenInv
  <2>3. QED BY <1>2, <2>1, <2>2
<1>3. QED BY <1>1, <1>2, PTL DEF GoalSpec

\* A stored goal has an exchange, a prompt or a loop that will look at it
\* again, unless its agent was closed or its exchange ended while a cancelled
\* loop still awaited its judge (goal-runner.ts 119-124).
THEOREM EveryGoalIsDriven == GoalSpec => []GoalsAreDriven
<1>1. DrivenInv => GoalsAreDriven
  <2> SUFFICES ASSUME DrivenInv, goal # NoGoal, ~orphaned
               PROVE  \/ conv # Idle
                      \/ \E i \in Prompts : prompt[i].pc \in {"waiting", "settling"}
                                            /\ ~prompt[i].closed
                      \/ \E k \in Loops : loop[k].pc # "free" /\ ~loop[k].cancelled
    BY DEF GoalsAreDriven
  <2>1. CASE AskedByPrompt
    BY <2>1 DEF AskedByPrompt, Idle, Of
  <2>2. CASE Acting # {}
    BY <2>2 DEF Acting
  <2>3. QED BY <2>1, <2>2 DEF DrivenInv, Driven
<1>2. QED BY <1>1, DrivenInvariance, PTL

-----------------------------------------------------------------------------
\* Types, the single loop and the driven goal together: a stored goal always
\* has somebody who will end it, and never two (shared/goal.ts 5-6,
\* goal-runner.ts 119-124).
THEOREM OneDriverAtATime == GoalSpec => []GoalsHaveOneDriver
<1>1. GoalTypeOK /\ OneLoop /\ GoalsAreDriven => GoalsHaveOneDriver
  BY DEF GoalsHaveOneDriver
<1>2. QED BY <1>1, GoalTypes, OneLoopActs, EveryGoalIsDriven, PTL

\* A stop "stands the next judge/turn down" (goal-runner.ts 30-33): unless the
\* judge of a cancelled loop fails, whose error path does not ask, a cancelled
\* loop leaves without touching any goal.
THEOREM CancelledLoopsLeaveQuietly ==
  ASSUME "lateFailure" \notin GoalEnv
  PROVE  GoalSpec => CancelledLoopsChangeNothing
<1> DEFINE Quiet == \A k \in Loops :
                       loop[k].cancelled /\ loop[k].pc # "free"
                       /\ loop'[k].pc = "free" => goal' = goal
<1>1. ASSUME LoopInv, [GoalNext]_goalVars PROVE Quiet
  <2> SUFFICES ASSUME NEW k \in Loops, loop[k].cancelled, loop[k].pc # "free",
                      loop'[k].pc = "free"
               PROVE  goal' = goal
    OBVIOUS
  <2> USE <1>1 DEF LoopInv
  <2>1. loop' # loop
    OBVIOUS
  <2>2. ASSUME NEW j \in Loops, LoopStep(j)
        PROVE  goal' = goal
    <3>1. CASE j = k
      <4>1. ~VerdictEndsGoal(j) /\ ~VerdictGoesOn(j) /\ ~JudgeFails(j)
        BY <3>1 DEF VerdictEndsGoal, VerdictGoesOn, JudgeFails, Heeded
      <4>2. CASE VerdictUnheeded(j) \/ GoalTurnEnds(j)
        BY <4>2 DEF VerdictUnheeded, GoalTurnEnds
      <4>3. CASE NextRound(j)
        BY <3>1, <4>3 DEF NextRound
      <4>4. QED BY <2>2, <4>1, <4>2, <4>3 DEF LoopStep
    <3>2. CASE j # k
      <4>1. loop'[k] = loop[k]
        BY <2>2, <3>2 DEF LoopStep, VerdictEndsGoal, VerdictGoesOn, VerdictUnheeded,
           JudgeFails, GoalTurnEnds, NextRound, Judges, Ends, GoalTypeOK
      <4>2. QED BY <4>1
    <3>3. QED BY <3>1, <3>2
  <2>3. ASSUME NEW i \in Prompts, PromptStep(i)
        PROVE  goal' = goal
    <3>1. PromptSettled(i) /\ MaybeRun
      BY <2>1, <2>3 DEF PromptStep, Proceed, Runs, RunEnds, PromptSettled
    <3>2. PICK j \in Loops : loop[j].pc = "free" /\ Judges(j)
      BY <2>1, <3>1 DEF MaybeRun
    <3>3. loop'[k] = loop[k]
      BY <3>2 DEF Judges, Ends, GoalTypeOK
    <3>4. QED BY <3>3
  <2>4. ASSUME UserStep
        PROVE  goal' = goal
    <3>1. CASE CancelGoal
      <4>1. loop' = [l \in Loops |->
                  IF l \in Out THEN [loop[l] EXCEPT !.cancelled = TRUE]
                               ELSE loop[l]]
        BY <3>1 DEF CancelGoal
      <4>2. loop'[k].pc = loop[k].pc
        BY <4>1 DEF GoalTypeOK, Loop
      <4>3. QED BY <4>2
    <3>2. CASE AbortGoal
      <4>1. loop' = [l \in Loops |->
                   IF l \in Out
                   THEN [loop[l] EXCEPT !.cancelled = TRUE,
                            !.pc = IF conv = By(l) THEN "settling" ELSE @]
                   ELSE loop[l]]
        BY <3>2 DEF AbortGoal
      <4>2. loop'[k].pc = loop[k].pc \/ loop'[k].pc = "settling"
        BY <4>1 DEF GoalTypeOK, Loop
      <4>3. QED BY <4>2
    <3>3. CASE Rebuild
      BY <3>3 DEF Rebuild
    <3>4. QED BY <2>1, <2>4, <3>1, <3>2, <3>3
              DEF UserStep, Send, Runs, Cancel, RewindGoal, Compact
  <2>5. CASE UNCHANGED goalVars
    BY <2>1, <2>5 DEF goalVars
  <2>6. QED BY <2>2, <2>3, <2>4, <2>5 DEF GoalNext
<1>2. ASSUME LoopInv, [GoalNext]_goalVars
      PROVE  [Quiet]_goalVars
  BY <1>1, <1>2
<1>3. QED BY <1>2, LoopInvariance, PTL DEF GoalSpec, CancelledLoopsChangeNothing
===============================================================================
