---------------------------- MODULE TaskHub_proofs ----------------------------
(***************************************************************************)
(* What holds of the sub-agents of a session for any number of them, any   *)
(* limits and any retries: the roster can be believed, and every result    *)
(* reaches the agent that asked for it, once.                              *)
(***************************************************************************)
EXTENDS TaskHub, FiniteSetTheorems, WellFoundedInduction, TLAPS

USE LimitAssumption, BoundAssumption DEF LimitAssumption, BoundAssumption

TaskSet == [status : Statuses, parent : Agents,
            depth : 0 .. MaxDepth, delegates : BOOLEAN,
            pc : {"none", "run", "sleep", "over", "threw"},
            next : {"prompt", "continue"},
            rate : 0 .. MaxRetries, cut : 0 .. MaxRetries]
AgentSet == [live : BOOLEAN, own : BOOLEAN, acted : BOOLEAN,
             last : {"nothing", "prompt", "ok", "result"} \cup Failures,
             turn : {"none", "calls", "ok"} \cup Failures,
             inbox : SUBSET Agents, landing : SUBSET Tasks,
             notices : SUBSET Tasks, results : SUBSET Tasks]

(***************************************************************************)
(* The invariants.  Sub-agents are numbered in the order they are started, *)
(* so that none is its own spawning agent; the loop of a sub-agent and its *)
(* run go together: no run outside the loop's await, no run while it backs *)
(* off, no loop once it is settled.                                        *)
(***************************************************************************)
Numbered ==
    /\ known \subseteq 1 .. counter
    /\ \A t \in Tasks : t > counter => tasks[t] = NoTask /\ agents[t] = NoAgent
    /\ \A t \in Tasks : t <= counter => /\ tasks[t].status # "none"
                                        /\ tasks[t].parent < t

LoopsAndRuns ==
    /\ ~ agents[Main].own
    /\ \A t \in Tasks : tasks[t].pc \in {"run", "sleep"} <=> t \in Running
    /\ \A t \in Tasks : agents[t].live => tasks[t].pc = "run"
    /\ closed => Running = {} /\ ~ agents[Main].live

DelegatesAreShallow ==
    \A t \in Tasks : tasks[t].delegates => tasks[t].depth < MaxDepth

LoopInv == TypeOK /\ Numbered /\ LoopsAndRuns /\ DelegatesAreShallow

\* Only a sub-agent that has settled is news, once.
NewsIsOfSettled ==
    \A a \in Agents :
      \A t \in agents[a].inbox \cup agents[a].landing
                 \cup agents[a].notices \cup agents[a].results :
        t # 0 => tasks[t].status \in {"finished", "failed"}

RosterInv == LoopInv /\ StatusTellsTheTruth /\ RosterIsBounded
ResultsInv == LoopInv /\ NewsIsOfSettled /\ ResultsArriveOnce

(***************************************************************************)
(* Sets of numbers.                                                        *)
(***************************************************************************)
LEMMA Least ==
  ASSUME NEW S \in SUBSET Nat, S # {}
  PROVE  \E x \in S : \A y \in S : x <= y
<1>1. PICK x \in S : \A y \in S : ~ (<<y, x>> \in OpToRel(<, Nat))
  BY NatLessThanWellFounded, WFMin
<1>2. \A y \in S : ~ (y < x)
  BY <1>1 DEF OpToRel
<1>3. QED BY <1>2

\* A roster that has become one longer than it may be loses its oldest settled
\* entry.
LEMMA EvictShortens ==
  ASSUME NEW k \in SUBSET Tasks, NEW t \in k
  PROVE  /\ {x \in k : x # t /\ tasks[x].status = "running"} \subseteq Evict(k, t)
         /\ Evict(k, t) \subseteq k
         /\ \/ Cardinality(k) <= MaxKnown
            \/ Cardinality(Evict(k, t)) + 1 <= Cardinality(k)
<1> DEFINE settled == {x \in k : x = t \/ tasks[x].status # "running"}
           Before(x) == {y \in settled : y < x}
           kept == {x \in k : x \in settled =>
                      Cardinality(Before(x)) >= Cardinality(k) - MaxKnown}
<1>1. Evict(k, t) = kept
  BY DEF Evict
<1>2. /\ {x \in k : x # t /\ tasks[x].status = "running"} \subseteq kept
      /\ kept \subseteq k
  OBVIOUS
<1>3. IsFiniteSet(k) /\ Cardinality(k) \in Nat
  <2>1. IsFiniteSet(Tasks)
    BY FS_Interval DEF Tasks
  <2>2. QED BY <2>1, FS_Subset, FS_CardinalityType
<1>4. SUFFICES ASSUME Cardinality(k) > MaxKnown
               PROVE  Cardinality(kept) + 1 <= Cardinality(k)
  BY <1>1, <1>2, <1>3
<1>5. t \in settled /\ settled \subseteq k
  OBVIOUS
<1>6. k \subseteq Nat
  BY DEF Tasks
<1>7. PICK first \in settled : \A y \in settled : first <= y
  BY <1>5, <1>6, Least
<1>8. Before(first) = {}
  <2>1. \A y \in settled : y \in Nat /\ first \in Nat /\ first <= y
    BY <1>5, <1>6, <1>7
  <2>2. \A y \in settled : ~ (y < first)
    BY <2>1
  <2>3. QED BY <2>2
<1>9. first \in k /\ first \notin kept
  <2>1. ~ (Cardinality(Before(first)) >= Cardinality(k) - MaxKnown)
    BY <1>3, <1>4, <1>8, FS_EmptySet
  <2> HIDE DEF settled, Before
  <2>2. QED BY <1>5, <1>7, <2>1
<1> HIDE DEF kept
<1>10. kept \in SUBSET (k \ {first})
  BY <1>2, <1>9
<1>11. IsFiniteSet(k \ {first}) /\ Cardinality(k \ {first}) = Cardinality(k) - 1
  BY <1>3, <1>9, FS_RemoveElement
<1>12. IsFiniteSet(kept) /\ Cardinality(kept) <= Cardinality(k) - 1
  BY <1>10, <1>11, FS_Subset
<1>13. Cardinality(kept) \in Nat
  BY <1>12, FS_CardinalityType
<1>14. QED BY <1>3, <1>12, <1>13

(***************************************************************************)
(* What a step does to an agent.                                           *)
(***************************************************************************)
News(ag, a) == ag[a].inbox \cup ag[a].notices
Answers(ag, a) == ag[a].landing \cup ag[a].results

LEMMA NumbersAre == /\ Main \in Agents /\ Main \notin Tasks /\ Main = 0
                    /\ Tasks \subseteq Agents /\ Agents \subseteq Nat
                    /\ \A a \in Agents : a # Main => a \in Tasks
                    /\ \A a \in Agents : a # 0 => a \in Tasks
BY DEF Main, Agents, Tasks

LEMMA NothingIs == NoTask \in TaskSet /\ NoAgent \in AgentSet
BY NumbersAre DEF NoTask, NoAgent, TaskSet, AgentSet, Statuses

LEMMA ReadByIs ==
  ASSUME NEW agent \in AgentSet, NEW news \in SUBSET Agents
  PROVE  /\ ReadBy(agent, news) \in AgentSet
         /\ ReadBy(agent, news) =
              [agent EXCEPT !.notices = agent.notices \cup (news \ {0}),
                            !.last = "prompt"]
<1>1. agent.notices \cup (news \ {0}) \in SUBSET Tasks
  BY NumbersAre DEF AgentSet
<1>2. QED BY <1>1 DEF ReadBy, AgentSet

LEMMA StartedIs ==
  ASSUME NEW ag \in [Agents -> AgentSet], NEW a \in Agents, NEW own \in BOOLEAN,
         NEW n \in Agents
  PROVE  LET s == Started(ag, a, own, n)
         IN  /\ s \in [Agents -> AgentSet]
             /\ \A b \in Agents : b # a => s[b] = ag[b]
             /\ s[a].live /\ (s[a].own <=> own) /\ s[a].acted = ag[a].acted
             /\ s[a].turn = ag[a].turn /\ s[a].inbox = ag[a].inbox
             /\ s[a].landing = ag[a].landing /\ s[a].results = ag[a].results
             /\ s[a].notices = ag[a].notices \cup ({n} \ {0})
<1> DEFINE begun == [ag[a] EXCEPT !.live = TRUE, !.own = own]
           new   == ReadBy(begun, {n})
<1>1. begun \in AgentSet /\ begun.live /\ (begun.own <=> own)
      /\ begun.acted = ag[a].acted /\ begun.turn = ag[a].turn
      /\ begun.inbox = ag[a].inbox /\ begun.landing = ag[a].landing
      /\ begun.results = ag[a].results /\ begun.notices = ag[a].notices
  <2>1. ag[a] \in AgentSet
    OBVIOUS
  <2>2. QED BY <2>1 DEF AgentSet
<1>2. Started(ag, a, own, n) = [ag EXCEPT ![a] = new]
  BY DEF Started
<1>3. {n} \in SUBSET Agents
  OBVIOUS
<1> HIDE DEF begun
<1>4. new \in AgentSet
      /\ new = [begun EXCEPT !.notices = begun.notices \cup ({n} \ {0}),
                             !.last = "prompt"]
  BY <1>1, <1>3, ReadByIs
<1>5. new.live = begun.live /\ new.own = begun.own /\ new.acted = begun.acted
      /\ new.turn = begun.turn /\ new.inbox = begun.inbox
      /\ new.landing = begun.landing /\ new.results = begun.results
      /\ new.notices = begun.notices \cup ({n} \ {0})
  BY <1>1, <1>4 DEF AgentSet
<1> HIDE DEF new
<1>6. /\ [ag EXCEPT ![a] = new] \in [Agents -> AgentSet]
      /\ [ag EXCEPT ![a] = new][a] = new
      /\ \A b \in Agents : b # a => [ag EXCEPT ![a] = new][b] = ag[b]
  BY <1>4
<1>7. QED BY <1>1, <1>2, <1>5, <1>6

\* A run that a sub-agent's loop awaits.
LEMMA BegunIs ==
  ASSUME NEW ag \in [Agents -> AgentSet], NEW a \in Agents
  PROVE  LET s == Started(ag, a, TRUE, 0)
         IN  /\ s \in [Agents -> AgentSet]
             /\ \A b \in Agents : b # a => s[b] = ag[b]
             /\ s[a].live /\ s[a].inbox = ag[a].inbox
             /\ s[a].landing = ag[a].landing /\ s[a].results = ag[a].results
             /\ s[a].notices = ag[a].notices
<1> DEFINE s == Started(ag, a, TRUE, 0)
<1>1. \A own \in BOOLEAN :
        LET q == Started(ag, a, own, 0)
        IN  /\ q \in [Agents -> AgentSet]
            /\ \A b \in Agents : b # a => q[b] = ag[b]
            /\ q[a].live /\ q[a].inbox = ag[a].inbox
            /\ q[a].landing = ag[a].landing /\ q[a].results = ag[a].results
            /\ q[a].notices = ag[a].notices \cup ({0} \ {0})
  <2>1. 0 \in Agents
    BY NumbersAre
  <2>2. QED BY <2>1, StartedIs
<1>2. TRUE \in BOOLEAN
  OBVIOUS
<1>3. /\ s \in [Agents -> AgentSet]
      /\ \A b \in Agents : b # a => s[b] = ag[b]
      /\ s[a].live /\ s[a].inbox = ag[a].inbox
      /\ s[a].landing = ag[a].landing /\ s[a].results = ag[a].results
      /\ s[a].notices = ag[a].notices \cup ({0} \ {0})
  BY <1>1, <1>2, Zenon
<1> HIDE DEF s
<1>4. s[a].notices = ag[a].notices
  BY <1>3
<1>5. QED BY <1>3, <1>4 DEF s

\* A message n is queued into a live run and begins one of an idle agent.
LEMMA GivenIs ==
  ASSUME NEW ag \in [Agents -> AgentSet], NEW a \in Agents, NEW n \in Agents
  PROVE  LET s == Given(ag, a, n)
         IN  /\ s \in [Agents -> AgentSet]
             /\ \A b \in Agents : b # a => s[b] = ag[b]
             /\ s[a].live /\ (s[a].own => ag[a].own) /\ s[a].turn = ag[a].turn
             /\ s[a].landing = ag[a].landing /\ s[a].results = ag[a].results
             /\ ag[a].inbox \cup ag[a].notices \subseteq s[a].inbox \cup s[a].notices
             /\ s[a].inbox \cup s[a].notices
                  \subseteq ag[a].inbox \cup ag[a].notices \cup {n}
             /\ n # 0 => n \in s[a].inbox \cup s[a].notices
<1>1. CASE ag[a].live
  <2> DEFINE new == [ag[a] EXCEPT !.inbox = @ \cup {n}]
  <2>1. new \in AgentSet /\ new.live = ag[a].live /\ new.own = ag[a].own
        /\ new.turn = ag[a].turn /\ new.landing = ag[a].landing
        /\ new.results = ag[a].results /\ new.inbox = ag[a].inbox \cup {n}
        /\ new.notices = ag[a].notices
    BY DEF AgentSet
  <2>2. Given(ag, a, n) = [ag EXCEPT ![a] = new]
    BY <1>1 DEF Given
  <2> HIDE DEF new
  <2>3. /\ [ag EXCEPT ![a] = new] \in [Agents -> AgentSet]
        /\ [ag EXCEPT ![a] = new][a] = new
        /\ \A b \in Agents : b # a => [ag EXCEPT ![a] = new][b] = ag[b]
    BY <2>1
  <2>4. QED BY <1>1, <2>1, <2>2, <2>3
<1>2. CASE ~ ag[a].live
  <2>1. Given(ag, a, n) = Started(ag, a, FALSE, n)
    BY <1>2 DEF Given
  <2> DEFINE s == Started(ag, a, FALSE, n)
  <2>2. /\ s \in [Agents -> AgentSet]
        /\ \A b \in Agents : b # a => s[b] = ag[b]
        /\ s[a].live /\ ~ s[a].own /\ s[a].turn = ag[a].turn
        /\ s[a].inbox = ag[a].inbox /\ s[a].landing = ag[a].landing
        /\ s[a].results = ag[a].results
        /\ s[a].notices = ag[a].notices \cup ({n} \ {0})
    <3>1. \A own \in BOOLEAN :
            LET q == Started(ag, a, own, n)
            IN  /\ q \in [Agents -> AgentSet]
                /\ \A b \in Agents : b # a => q[b] = ag[b]
                /\ q[a].live /\ (q[a].own <=> own) /\ q[a].turn = ag[a].turn
                /\ q[a].inbox = ag[a].inbox /\ q[a].landing = ag[a].landing
                /\ q[a].results = ag[a].results
                /\ q[a].notices = ag[a].notices \cup ({n} \ {0})
      BY StartedIs
    <3>2. FALSE \in BOOLEAN
      OBVIOUS
    <3>3. QED BY <3>1, <3>2, Zenon
  <2> HIDE DEF s
  <2>3. /\ ag[a].inbox \cup ag[a].notices \subseteq s[a].inbox \cup s[a].notices
        /\ s[a].inbox \cup s[a].notices
             \subseteq ag[a].inbox \cup ag[a].notices \cup {n}
        /\ n # 0 => n \in s[a].inbox \cup s[a].notices
    BY <2>2
  <2>4. Given(ag, a, n) = s
    BY <2>1 DEF s
  <2>5. QED BY <2>2, <2>3, <2>4
<1>3. QED BY <1>1, <1>2

\* What a turn leaves in the transcript.
LEMMA LandedIs ==
  ASSUME NEW agent \in AgentSet, NEW kind \in {"ok", "calls"} \cup Failures
  PROVE  LET s == [Landed(agent) EXCEPT !.turn = kind]
         IN  /\ s \in AgentSet
             /\ s.live = agent.live /\ s.own = agent.own /\ ~ s.acted
             /\ s.turn = kind /\ s.inbox = {} /\ s.landing = {}
             /\ s.notices = agent.notices \cup (agent.inbox \ {0})
             /\ s.results = agent.results \cup agent.landing
<1> DEFINE read == ReadBy(agent, agent.inbox)
           s == [Landed(agent) EXCEPT !.turn = kind]
<1>1. agent.inbox \in SUBSET Agents
  BY DEF AgentSet
<1>2. read \in AgentSet
      /\ read = [agent EXCEPT !.notices = agent.notices \cup (agent.inbox \ {0}),
                              !.last = "prompt"]
  BY <1>1, ReadByIs
<1>3. read.live = agent.live /\ read.own = agent.own
      /\ read.notices = agent.notices \cup (agent.inbox \ {0})
      /\ read.results = agent.results
  BY <1>2 DEF AgentSet
<1> DEFINE told == read.results \cup agent.landing
<1>4. Landed(agent) = [read EXCEPT !.results = told, !.landing = {}, !.inbox = {},
                                   !.acted = FALSE]
  <2>1. Landed(agent) = [read EXCEPT !.results = @ \cup agent.landing, !.landing = {},
                                     !.inbox = {}, !.acted = FALSE]
    BY DEF Landed
  <2> HIDE DEF read
  <2>2. QED BY <2>1, <1>2 DEF AgentSet
<1>5. told \in SUBSET Tasks
  BY <1>2 DEF AgentSet
<1> HIDE DEF read, told
<1>6. /\ Landed(agent) \in AgentSet /\ Landed(agent).live = read.live
      /\ Landed(agent).own = read.own /\ ~ Landed(agent).acted
      /\ Landed(agent).inbox = {} /\ Landed(agent).landing = {}
      /\ Landed(agent).notices = read.notices
      /\ Landed(agent).results = told
  BY <1>2, <1>4, <1>5 DEF AgentSet
<1>7. s \in AgentSet /\ s.live = Landed(agent).live /\ s.own = Landed(agent).own
      /\ s.acted = Landed(agent).acted /\ s.turn = kind
      /\ s.inbox = Landed(agent).inbox /\ s.landing = Landed(agent).landing
      /\ s.notices = Landed(agent).notices /\ s.results = Landed(agent).results
  BY <1>6 DEF AgentSet
<1> HIDE DEF s
<1>8. QED BY <1>3, <1>6, <1>7 DEF s, told

LEMMA StoppedIs ==
  ASSUME NEW agent \in AgentSet
  PROVE  /\ Stopped(agent) \in AgentSet
         /\ ~ Stopped(agent).live /\ ~ Stopped(agent).own
         /\ Stopped(agent).inbox = {} /\ Stopped(agent).landing = {}
         /\ Stopped(agent).notices = agent.notices
         /\ Stopped(agent).results = agent.results
BY DEF Stopped, AgentSet

LEMMA ReleasedIs ==
  ASSUME NEW agent \in AgentSet
  PROVE  /\ Released(agent) \in AgentSet
         /\ Released(agent).live = agent.live /\ Released(agent).turn = agent.turn
         /\ ~ Released(agent).own
         /\ Released(agent).inbox = {} /\ Released(agent).landing = {}
         /\ Released(agent).notices = {} /\ Released(agent).results = {}
BY DEF Released, NoAgent, AgentSet

(***************************************************************************)
(* Steps that leave the sub-agents' records alone.                         *)
(***************************************************************************)
\* Only live agents and the main one change; nothing but such a step's own
\* message is new to anybody, and what a live agent was told it still is.
Talks ==
    /\ UNCHANGED <<tasks, known, counter, closed>> /\ talks' \in 0 .. MaxTalks
    /\ agents' \in [Agents -> AgentSet]
    /\ \A a \in Agents : ~ agents[a].live /\ a # Main => agents'[a] = agents[a]
    /\ \A a \in Agents : agents'[a].own => agents[a].own
    /\ agents'[Main].live => agents[Main].live \/ ~ closed
    /\ waiters' \subseteq Tasks \X Agents

TalksTell ==
    /\ \A a \in Agents : /\ News(agents', a) \subseteq News(agents, a) \cup {0}
                         /\ Answers(agents', a) \subseteq Answers(agents, a)
    /\ \A a \in Agents : CanAct(a) =>
         /\ News(agents, a) \subseteq News(agents', a) \cup {0}
         /\ Answers(agents, a) \subseteq Answers(agents', a)
    /\ \A w \in waiters' : w[1] \in Running /\ agents'[w[2]].live /\ CanAct(w[2])

LEMMA LoopsTalk ==
  ASSUME LoopInv, Talks
  PROVE  LoopInv'
<1>1. TypeOK'
  BY DEF LoopInv, Talks, TypeOK, AgentSet
<1>2. Numbered'
  <2>1. \A t \in Tasks : t > counter => agents'[t] = agents[t]
    BY NumbersAre DEF LoopInv, Numbered, Talks, NoAgent
  <2>2. QED BY <2>1 DEF LoopInv, Numbered, Talks
<1>3. LoopsAndRuns'
  <2>1. Running' = Running
    BY DEF Talks, Running
  <2>2. \A t \in Tasks : agents'[t].live => agents[t].live
    BY NumbersAre DEF Talks
  <2>3. ~ agents'[Main].own /\ (closed' => ~ agents'[Main].live)
    BY NumbersAre DEF LoopInv, LoopsAndRuns, Talks
  <2>4. QED BY <2>1, <2>2, <2>3 DEF LoopInv, LoopsAndRuns, Talks
<1>4. DelegatesAreShallow'
  BY DEF LoopInv, DelegatesAreShallow, Talks
<1>5. QED BY <1>1, <1>2, <1>3, <1>4 DEF LoopInv

LEMMA RosterTalks ==
  ASSUME RosterInv, Talks
  PROVE  StatusTellsTheTruth' /\ RosterIsBounded'
<1>1. StatusTellsTheTruth'
  <2>1. \A t \in Tasks : tasks[t].status \in {"finished", "failed"} =>
          agents'[t] = agents[t]
    BY NumbersAre DEF RosterInv, LoopInv, LoopsAndRuns, Running, Talks
  <2>2. QED BY <2>1 DEF RosterInv, StatusTellsTheTruth, Talks
<1>2. RosterIsBounded'
  BY DEF RosterInv, RosterIsBounded, Running, Talks
<1>3. QED BY <1>1, <1>2

LEMMA ResultsTalk ==
  ASSUME ResultsInv, Talks, TalksTell
  PROVE  NewsIsOfSettled' /\ ResultsArriveOnce'
<1>1. NewsIsOfSettled'
  BY DEF ResultsInv, NewsIsOfSettled, Talks, TalksTell, News, Answers
<1>2. NoResultLost'
  <2>1. SUFFICES ASSUME NEW t \in Tasks, tasks[t].status \in {"finished", "failed"},
                        CanAct(tasks[t].parent)
                 PROVE  t \in News(agents', tasks[t].parent)
                          \cup Answers(agents', tasks[t].parent)
    BY DEF NoResultLost, CanAct, Talks, News, Answers
  <2>2. t \in News(agents, tasks[t].parent) \cup Answers(agents, tasks[t].parent)
    BY <2>1 DEF ResultsInv, ResultsArriveOnce, NoResultLost, News, Answers
  <2>3. tasks[t].parent \in Agents /\ t # 0
    BY NumbersAre DEF ResultsInv, LoopInv, TypeOK
  <2>4. QED BY <2>1, <2>2, <2>3 DEF TalksTell
<1>3. ToldOnce'
  <2>1. SUFFICES ASSUME NEW a \in Agents
                 PROVE  News(agents', a) \cap Answers(agents', a) = {}
    BY DEF ToldOnce, News, Answers
  <2>2. Answers(agents', a) \subseteq Tasks
    BY DEF Talks, AgentSet, Answers
  <2>3. News(agents, a) \cap Answers(agents, a) = {}
    BY DEF ResultsInv, ResultsArriveOnce, ToldOnce, News, Answers
  <2>4. QED BY <2>2, <2>3, NumbersAre DEF TalksTell
<1>4. NobodyWaitsForNothing'
  BY DEF NobodyWaitsForNothing, CanAct, Running, Talks, TalksTell
<1>5. QED BY <1>1, <1>2, <1>3, <1>4 DEF ResultsArriveOnce

\* The part of each invariant a step has to be shown to keep.
RosterPart == StatusTellsTheTruth /\ RosterIsBounded
ResultsPart == NewsIsOfSettled /\ ResultsArriveOnce

\* What the variables are.
LEMMA HubIs ==
  LoopInv =>
    /\ tasks \in [Tasks -> TaskSet] /\ agents \in [Agents -> AgentSet]
    /\ waiters \subseteq Tasks \X Agents /\ known \subseteq Tasks
    /\ counter \in 0 .. MaxTasks /\ closed \in BOOLEAN /\ talks \in 0 .. MaxTalks
    /\ \A t \in Tasks : tasks[t].parent \in Agents
    /\ \A t \in Tasks : agents[t].live => t \in Running
    /\ Running \subseteq Tasks
BY DEF LoopInv, TypeOK, TaskSet, AgentSet, LoopsAndRuns, Running

LEMMA TalksWait ==
  ASSUME LoopInv, NEW a \in Agents, Wait(a)
  PROVE  Talks /\ (NobodyWaitsForNothing => TalksTell)
<1> DEFINE new == [agents[a] EXCEPT !.acted = TRUE]
<1>1. PICK t \in known :
        waiters' = IF t \in Running THEN waiters \cup {<<t, a>>} ELSE waiters
  BY DEF Wait
<1>2. agents[a] \in AgentSet
  BY HubIs
<1>3. new \in AgentSet /\ new.live = agents[a].live /\ new.own = agents[a].own
      /\ new.inbox = agents[a].inbox /\ new.landing = agents[a].landing
      /\ new.notices = agents[a].notices /\ new.results = agents[a].results
  BY <1>2 DEF AgentSet
<1>4. agents' = [agents EXCEPT ![a] = new]
  BY DEF Wait
<1> HIDE DEF new
<1>5. agents' \in [Agents -> AgentSet] /\ agents'[a] = new
      /\ \A b \in Agents : b # a => agents'[b] = agents[b]
  BY <1>3, <1>4, HubIs
<1>6. \A b \in Agents :
        /\ agents'[b].live = agents[b].live /\ agents'[b].own = agents[b].own
        /\ News(agents', b) = News(agents, b) /\ Answers(agents', b) = Answers(agents, b)
  BY <1>3, <1>5 DEF News, Answers
<1>7. Talks
  <2>1. UNCHANGED <<tasks, known, counter, closed>> /\ talks' \in 0 .. MaxTalks
    BY HubIs DEF Wait
  <2>2. waiters' \subseteq Tasks \X Agents
    BY <1>1, HubIs
  <2>3. \A b \in Agents : ~ agents[b].live => agents'[b] = agents[b]
    BY <1>5 DEF Wait
  <2>4. QED BY <1>5, <1>6, <2>1, <2>2, <2>3, NumbersAre DEF Talks
<1>8. ASSUME NobodyWaitsForNothing PROVE TalksTell
  <2>1. agents[a].live /\ CanAct(a)
    BY DEF Wait
  <2>2. \A w \in waiters' : w[1] \in Running /\ agents'[w[2]].live /\ CanAct(w[2])
    <3>1. SUFFICES ASSUME NEW w \in waiters'
                   PROVE  w[1] \in Running /\ agents'[w[2]].live /\ CanAct(w[2])
      OBVIOUS
    <3>2. CASE w \in waiters
      <4>1. w[2] \in Agents
        BY <3>2, HubIs
      <4>2. QED BY <1>6, <1>8, <3>2, <4>1 DEF NobodyWaitsForNothing
    <3>3. CASE w = <<t, a>> /\ t \in Running
      BY <1>6, <2>1, <3>3
    <3>4. QED BY <1>1, <3>2, <3>3
  <2>3. QED BY <1>6, <2>2 DEF TalksTell
<1>9. QED BY <1>7, <1>8

LEMMA TalksTimeout ==
  ASSUME LoopInv, NEW w \in waiters, Timeout(w)
  PROVE  Talks /\ (NobodyWaitsForNothing => TalksTell)
<1>1. UNCHANGED <<tasks, agents, known, counter, closed, talks>>
      /\ waiters' \subseteq waiters
  BY DEF Timeout
<1>2. Talks
  BY <1>1, HubIs DEF Talks, LoopInv, LoopsAndRuns
<1>3. ASSUME NobodyWaitsForNothing PROVE TalksTell
  BY <1>1, <1>3 DEF NobodyWaitsForNothing, TalksTell, News, Answers
<1>4. QED BY <1>2, <1>3

LEMMA TalksSend ==
  ASSUME LoopInv, "steerAsleep" \notin Env, NEW a \in Agents, Send(a)
  PROVE  Talks /\ (NobodyWaitsForNothing => TalksTell)
<1> DEFINE acted == [agents[a] EXCEPT !.acted = TRUE]
           ag == [agents EXCEPT ![a] = acted]
<1>1. PICK b \in {Main} \cup Running :
        /\ CanAct(b) /\ Reachable(b)
        /\ agents' = Given(ag, b, 0)
  BY DEF Send
<1>2. b \in Agents /\ 0 \in Agents /\ (agents[b].live \/ b = Main)
  BY <1>1, HubIs, NumbersAre DEF Reachable
<1>3. acted \in AgentSet /\ acted.live = agents[a].live /\ acted.own = agents[a].own
      /\ acted.inbox = agents[a].inbox /\ acted.landing = agents[a].landing
      /\ acted.notices = agents[a].notices /\ acted.results = agents[a].results
  <2>1. agents[a] \in AgentSet
    BY HubIs
  <2>2. QED BY <2>1 DEF AgentSet
<1> HIDE DEF acted
<1>4. ag \in [Agents -> AgentSet] /\ ag[a] = acted
      /\ \A c \in Agents : c # a => ag[c] = agents[c]
  BY <1>3, HubIs
<1> HIDE DEF ag
<1>5. /\ agents' \in [Agents -> AgentSet]
      /\ \A c \in Agents : c # b => agents'[c] = ag[c]
      /\ agents'[b].live /\ (agents'[b].own => ag[b].own)
      /\ agents'[b].landing = ag[b].landing /\ agents'[b].results = ag[b].results
      /\ ag[b].inbox \cup ag[b].notices \subseteq agents'[b].inbox \cup agents'[b].notices
      /\ agents'[b].inbox \cup agents'[b].notices
           \subseteq ag[b].inbox \cup ag[b].notices \cup {0}
  BY <1>1, <1>2, <1>4, GivenIs
<1>6. agents[a].live /\ UNCHANGED <<tasks, waiters, known, counter, closed>>
      /\ talks' \in 0 .. MaxTalks
  BY HubIs DEF Send
<1>7. \A c \in Agents : ag[c].live = agents[c].live /\ ag[c].own = agents[c].own
        /\ ag[c].inbox = agents[c].inbox /\ ag[c].notices = agents[c].notices
        /\ ag[c].landing = agents[c].landing /\ ag[c].results = agents[c].results
  BY <1>3, <1>4
<1>8. Talks
  <2>1. \A c \in Agents : ~ agents[c].live /\ c # Main => agents'[c] = agents[c]
    BY <1>2, <1>4, <1>5, <1>6
  <2>2. agents'[Main].live => agents[Main].live \/ ~ closed
    BY <1>1, <1>5, <1>7, NumbersAre DEF CanAct
  <2>3. \A c \in Agents : agents'[c].own => agents[c].own
    BY <1>5, <1>7
  <2>4. QED BY <1>5, <1>6, <2>1, <2>2, <2>3, HubIs DEF Talks
<1>9. ASSUME NobodyWaitsForNothing PROVE TalksTell
  <2>1. \A c \in Agents :
          /\ News(agents', c) \subseteq News(agents, c) \cup {0}
          /\ Answers(agents', c) = Answers(agents, c)
          /\ News(agents, c) \subseteq News(agents', c)
    BY <1>2, <1>5, <1>7 DEF News, Answers
  <2>2. \A c \in Agents : agents[c].live => agents'[c].live
    BY <1>5, <1>7
  <2>3. \A w \in waiters : w[2] \in Agents
    BY HubIs
  <2>4. QED BY <1>6, <1>9, <2>1, <2>2, <2>3 DEF NobodyWaitsForNothing, TalksTell
<1>10. QED BY <1>8, <1>9

LEMMA TalksPrompt ==
  ASSUME LoopInv, Prompt
  PROVE  Talks /\ (NobodyWaitsForNothing => TalksTell)
<1>1. ~ closed /\ ~ agents[Main].live /\ agents' = Started(agents, Main, FALSE, 0)
      /\ UNCHANGED <<tasks, waiters, known, counter, closed, talks>>
  BY DEF Prompt
<1>2. agents' = Given(agents, Main, 0)
  BY <1>1 DEF Given
<1>3. agents \in [Agents -> AgentSet] /\ Main \in Agents /\ 0 \in Agents
  BY HubIs, NumbersAre
<1>4. /\ agents' \in [Agents -> AgentSet]
      /\ \A c \in Agents : c # Main => agents'[c] = agents[c]
      /\ agents'[Main].live /\ (agents'[Main].own => agents[Main].own)
      /\ agents'[Main].landing = agents[Main].landing
      /\ agents'[Main].results = agents[Main].results
      /\ News(agents, Main) \subseteq News(agents', Main)
      /\ News(agents', Main) \subseteq News(agents, Main) \cup {0}
  BY <1>2, <1>3, GivenIs DEF News
<1>5. Talks
  BY <1>1, <1>4, HubIs DEF Talks
<1>6. ASSUME NobodyWaitsForNothing PROVE TalksTell
  <2>1. \A c \in Agents :
          /\ News(agents', c) \subseteq News(agents, c) \cup {0}
          /\ Answers(agents', c) = Answers(agents, c)
          /\ News(agents, c) \subseteq News(agents', c)
    BY <1>4 DEF News, Answers
  <2>2. \A w \in waiters : w[2] \in Agents
    BY HubIs
  <2>3. QED BY <1>1, <1>4, <1>6, <2>1, <2>2 DEF NobodyWaitsForNothing, TalksTell
<1>7. QED BY <1>5, <1>6

LEMMA TalksStop ==
  ASSUME LoopInv, Stop
  PROVE  Talks /\ ("stopBusy" \notin Env /\ NobodyWaitsForNothing => TalksTell)
<1> DEFINE new == Stopped(agents[Main])
<1>1. /\ agents[Main].live /\ agents' = [agents EXCEPT ![Main] = new]
      /\ waiters' = Cancel(Main) /\ UNCHANGED <<tasks, known, counter, closed, talks>>
  BY DEF Stop
<1>2. /\ new \in AgentSet /\ ~ new.live /\ ~ new.own
      /\ new.inbox = {} /\ new.landing = {}
      /\ new.notices = agents[Main].notices /\ new.results = agents[Main].results
  BY HubIs, NumbersAre, StoppedIs
<1> HIDE DEF new
<1>3. /\ agents' \in [Agents -> AgentSet] /\ agents'[Main] = new
      /\ \A c \in Agents : c # Main => agents'[c] = agents[c]
  BY <1>1, <1>2, HubIs, NumbersAre
<1>4. waiters' \subseteq waiters /\ \A w \in waiters' : w[2] # Main
  BY <1>1 DEF Cancel
<1>5. Talks
  BY <1>1, <1>2, <1>3, <1>4, HubIs DEF Talks
<1>6. ASSUME "stopBusy" \notin Env, NobodyWaitsForNothing PROVE TalksTell
  <2>1. agents[Main].inbox \subseteq {0} /\ agents[Main].landing = {}
    BY <1>6 DEF Stop
  <2>2. \A c \in Agents :
          /\ News(agents', c) \subseteq News(agents, c)
          /\ Answers(agents', c) = Answers(agents, c)
          /\ News(agents, c) \subseteq News(agents', c) \cup {0}
    BY <1>2, <1>3, <2>1 DEF News, Answers
  <2>3. \A w \in waiters : w[2] \in Agents
    BY HubIs
  <2>4. QED BY <1>3, <1>4, <1>6, <2>2, <2>3 DEF NobodyWaitsForNothing, TalksTell
<1>7. QED BY <1>5, <1>6

(***************************************************************************)
(* A sub-agent goes on: it backs off, or begins its next run.              *)
(***************************************************************************)
GoesOn(t) ==
    /\ t \in Running
    /\ \E new \in TaskSet :
         /\ tasks' = [tasks EXCEPT ![t] = new]
         /\ new.status = tasks[t].status /\ new.parent = tasks[t].parent
         /\ new.depth = tasks[t].depth /\ new.delegates = tasks[t].delegates
         /\ new.pc = "run" \/ (new.pc = "sleep" /\ ~ agents'[t].live)
    /\ agents' \in [Agents -> AgentSet]
    /\ \A a \in Agents : a # t => agents'[a] = agents[a]
    /\ UNCHANGED <<waiters, known, counter, closed, talks>>

LEMMA StepGoesOn ==
  ASSUME LoopInv, NEW t \in Tasks, GoesOn(t)
  PROVE  /\ LoopInv'
         /\ \A x \in Tasks : /\ tasks'[x].status = tasks[x].status
                             /\ tasks'[x].parent = tasks[x].parent
                             /\ x # t => tasks'[x] = tasks[x]
         /\ Running' = Running
         /\ \A a \in Agents : CanAct(a)' = CanAct(a)
<1>1. PICK new \in TaskSet :
         /\ tasks' = [tasks EXCEPT ![t] = new]
         /\ new.status = tasks[t].status /\ new.parent = tasks[t].parent
         /\ new.depth = tasks[t].depth /\ new.delegates = tasks[t].delegates
         /\ new.pc = "run" \/ (new.pc = "sleep" /\ ~ agents'[t].live)
  BY DEF GoesOn
<1>2. /\ tasks' \in [Tasks -> TaskSet] /\ tasks'[t] = new
      /\ \A x \in Tasks : x # t => tasks'[x] = tasks[x]
  BY <1>1, HubIs
<1>3. \A x \in Tasks : /\ tasks'[x].status = tasks[x].status
                       /\ tasks'[x].parent = tasks[x].parent
                       /\ tasks'[x].depth = tasks[x].depth
                       /\ tasks'[x].delegates = tasks[x].delegates
  BY <1>1, <1>2
<1>4. Running' = Running
  BY <1>3 DEF Running
<1>5. TypeOK'
  <2>1. tasks' \in [Tasks -> TaskSet] /\ agents' \in [Agents -> AgentSet]
    BY <1>2 DEF GoesOn
  <2>2. UNCHANGED <<waiters, known, counter, closed, talks>>
    BY DEF GoesOn
  <2>3. QED BY <2>1, <2>2 DEF LoopInv, TypeOK, TaskSet, AgentSet
<1>6. t <= counter /\ t # 0 /\ t # Main
  <2>1. tasks[t].status = "running"
    BY DEF GoesOn, Running
  <2>2. QED BY <2>1, NumbersAre DEF LoopInv, TypeOK, Numbered, NoTask, Tasks
<1>7. Numbered'
  <2>1. \A x \in Tasks : x > counter => tasks'[x] = tasks[x] /\ agents'[x] = agents[x]
    BY <1>2, <1>6, NumbersAre DEF GoesOn, LoopInv, TypeOK, Tasks
  <2>2. QED BY <1>3, <2>1 DEF GoesOn, LoopInv, Numbered
<1>8. LoopsAndRuns'
  <2>1. \A x \in Tasks : tasks'[x].pc \in {"run", "sleep"} <=> x \in Running
    BY <1>1, <1>2 DEF GoesOn, LoopInv, LoopsAndRuns
  <2>2. \A x \in Tasks : agents'[x].live => tasks'[x].pc = "run"
    BY <1>1, <1>2, NumbersAre DEF GoesOn, LoopInv, LoopsAndRuns
  <2>3. agents'[Main] = agents[Main] /\ closed' = closed
    BY <1>6, NumbersAre DEF GoesOn
  <2>4. QED BY <1>4, <2>1, <2>2, <2>3 DEF LoopInv, LoopsAndRuns
<1>9. DelegatesAreShallow'
  BY <1>3 DEF LoopInv, DelegatesAreShallow
<1>10. \A a \in Agents : CanAct(a)' = CanAct(a)
  BY <1>3, NumbersAre DEF CanAct, GoesOn
<1>11. QED BY <1>2, <1>3, <1>4, <1>5, <1>7, <1>8, <1>9, <1>10 DEF LoopInv

LEMMA RosterGoesOn ==
  ASSUME RosterInv, NEW t \in Tasks, GoesOn(t)
  PROVE  RosterPart'
<1>1. LoopInv
  BY DEF RosterInv
<1>2. StatusTellsTheTruth'
  <2>1. tasks[t].status = "running" /\ t # Main
    BY NumbersAre DEF GoesOn, Running
  <2>2. \A x \in Tasks : x # t => tasks'[x] = tasks[x] /\ agents'[x] = agents[x]
    BY <1>1, StepGoesOn, NumbersAre DEF GoesOn
  <2>3. tasks'[t].status = "running"
    BY <1>1, <2>1, StepGoesOn
  <2>4. QED BY <2>2, <2>3 DEF RosterInv, StatusTellsTheTruth
<1>3. RosterIsBounded'
  <2>1. Running' = Running /\ known' = known
    BY <1>1, StepGoesOn DEF GoesOn
  <2>2. QED BY <2>1 DEF RosterInv, RosterIsBounded
<1>4. QED BY <1>2, <1>3 DEF RosterPart

LEMMA ResultsGoOn ==
  ASSUME ResultsInv, NEW t \in Tasks, GoesOn(t),
         News(agents', t) \subseteq News(agents, t),
         Answers(agents', t) = Answers(agents, t),
         News(agents, t) \subseteq News(agents', t) \cup {0},
         agents'[t].live \/ ~ Waiting(t)
  PROVE  ResultsPart'
<1>1. LoopInv /\ t \in Agents
  BY NumbersAre DEF ResultsInv
<1>2. \A a \in Agents : /\ News(agents', a) \subseteq News(agents, a)
                        /\ Answers(agents', a) = Answers(agents, a)
                        /\ News(agents, a) \subseteq News(agents', a) \cup {0}
  BY DEF GoesOn, News, Answers
<1>3. NewsIsOfSettled'
  BY <1>1, <1>2, StepGoesOn, HubIs, NumbersAre
     DEF ResultsInv, NewsIsOfSettled, News, Answers, GoesOn, AgentSet
<1>4. NoResultLost'
  <2>1. SUFFICES ASSUME NEW x \in Tasks, tasks'[x].status \in {"finished", "failed"},
                        NEW q, q = tasks'[x].parent, CanAct(q)'
                 PROVE  x \in News(agents', q) \cup Answers(agents', q)
    BY DEF NoResultLost, News, Answers
  <2>2. /\ tasks[x].status = tasks'[x].status /\ tasks[x].parent = q
        /\ q \in Agents /\ x # 0
    BY <1>1, <2>1, StepGoesOn, HubIs, NumbersAre
  <2>3. CanAct(q)
    BY <1>1, <2>1, <2>2, StepGoesOn
  <2>4. x \in News(agents, q) \cup Answers(agents, q)
    BY <2>1, <2>2, <2>3 DEF ResultsInv, ResultsArriveOnce, NoResultLost, News, Answers
  <2>5. QED BY <1>2, <2>2, <2>4
<1>5. ToldOnce'
  BY <1>2 DEF ResultsInv, ResultsArriveOnce, ToldOnce, News, Answers
<1>6. NobodyWaitsForNothing'
  <2>1. waiters' = waiters /\ Running' = Running
    BY <1>1, StepGoesOn DEF GoesOn
  <2>2. \A w \in waiters : w[2] \in Agents /\ CanAct(w[2])' = CanAct(w[2])
    BY <1>1, StepGoesOn, HubIs
  <2>3. \A w \in waiters : agents'[w[2]].live
    BY <2>2 DEF GoesOn, Waiting, ResultsInv, ResultsArriveOnce, NobodyWaitsForNothing
  <2>4. QED BY <2>1, <2>2, <2>3 DEF ResultsInv, ResultsArriveOnce, NobodyWaitsForNothing
<1>7. QED BY <1>3, <1>4, <1>5, <1>6 DEF ResultsPart, ResultsArriveOnce

(***************************************************************************)
(* A sub-agent settles.                                                    *)
(***************************************************************************)
Settles(t, status, ag) ==
    /\ t \in Running /\ status \in {"finished", "failed"}
    /\ ag \in [Agents -> AgentSet] /\ ~ ag[t].live
    /\ \A a \in Agents : a # t => ag[a] = agents[a]
    /\ Finalize(t, status, ag, tasks[t])
    /\ UNCHANGED <<counter, closed, talks>>

\* A sub-agent is older than those it starts.
LEMMA ParentIsOlder ==
  ASSUME LoopInv, NEW t \in Running
  PROVE  tasks[t].parent \in Agents /\ tasks[t].parent # t /\ t \in Agents /\ t # 0
<1>1. tasks[t].status = "running" /\ t \in Tasks /\ t \in Nat /\ tasks[t].parent \in Nat
  BY HubIs, NumbersAre DEF Running
<1>2. t <= counter
  BY <1>1 DEF LoopInv, TypeOK, Numbered, NoTask, Tasks
<1>3. tasks[t].parent < t
  BY <1>1, <1>2 DEF LoopInv, Numbered
<1>4. QED BY <1>1, <1>3, HubIs, NumbersAre

\* finalize lets the sub-agent's Agent go.
LEMMA SettlesReleases ==
  ASSUME LoopInv, NEW t \in Tasks, NEW status, NEW ag, Settles(t, status, ag)
  PROVE  agents'[t] = Released(ag[t])
<1> DEFINE p == tasks[t].parent
           answered == IF <<t, p>> \in waiters
                         THEN [ag EXCEPT ![p].landing = @ \cup {t}] ELSE ag
           released == [answered EXCEPT ![t] = Released(@)]
<1>1. /\ t \in Running /\ ag \in [Agents -> AgentSet]
      /\ agents' = IF Notify(t) THEN Given(released, p, t) ELSE released
  BY DEF Settles, Finalize
<1>2. p \in Agents /\ p # t /\ t \in Agents
  BY <1>1, ParentIsOlder
<1>3. answered \in [Agents -> AgentSet] /\ answered[t] = ag[t]
  <2> DEFINE told == ag[p].landing \cup {t}
  <2>1. ag[p] \in AgentSet
    BY <1>1, <1>2
  <2>2. [ag[p] EXCEPT !.landing = told] \in AgentSet
    BY <2>1 DEF AgentSet
  <2> HIDE DEF told
  <2>3. [ag EXCEPT ![p].landing = told]
          = [ag EXCEPT ![p] = [ag[p] EXCEPT !.landing = told]]
    BY <1>1, <1>2
  <2> DEFINE heard == [ag[p] EXCEPT !.landing = told]
  <2>4. answered = IF <<t, p>> \in waiters THEN [ag EXCEPT ![p] = heard] ELSE ag
    BY <2>3 DEF told
  <2> HIDE DEF heard
  <2>5. heard \in AgentSet
    BY <2>2 DEF heard
  <2>6. QED BY <1>1, <1>2, <2>4, <2>5
<1> HIDE DEF answered, p
<1>4. released \in [Agents -> AgentSet] /\ released[t] = Released(ag[t])
  BY <1>1, <1>2, <1>3, ReleasedIs
<1> HIDE DEF released
<1>5. CASE Notify(t)
  <2>1. Given(released, p, t)[t] = released[t]
    BY <1>2, <1>4, GivenIs
  <2>2. QED BY <1>1, <1>4, <1>5, <2>1
<1>6. CASE ~ Notify(t)
  BY <1>1, <1>4, <1>6
<1>7. QED BY <1>5, <1>6

\* finalize: the result goes to the spawning agent, through its wait if it has
\* one, and to nobody else.
LEMMA SettlesTells ==
  ASSUME LoopInv, "steerAsleep" \notin Env, NEW t \in Tasks,
         NEW status, NEW ag, Settles(t, status, ag)
  PROVE  LET p == tasks[t].parent
         IN  /\ p \in Agents /\ p # t
             /\ agents' \in [Agents -> AgentSet]
             /\ ~ agents'[t].live /\ ~ agents'[t].own
             /\ News(agents', t) = {} /\ Answers(agents', t) = {}
             /\ \A a \in Agents : a # t /\ a # p => agents'[a] = agents[a]
             /\ agents[p].live => agents'[p].live
             /\ agents'[p].live => agents[p].live \/ (p = Main /\ ~ closed)
             /\ agents'[p].own => agents[p].own
             /\ ~ agents'[p].live => agents'[p].turn = agents[p].turn
             /\ Answers(agents', p) = Answers(agents, p) \cup
                  (IF <<t, p>> \in waiters THEN {t} ELSE {})
             /\ News(agents, p) \subseteq News(agents', p)
             /\ News(agents', p) \subseteq News(agents, p) \cup
                  (IF <<t, p>> \notin waiters /\ CanAct(p) THEN {t} ELSE {})
             /\ <<t, p>> \notin waiters /\ CanAct(p) => t \in News(agents', p)
<1> DEFINE p == tasks[t].parent
           heard == [agents[p] EXCEPT !.landing = @ \cup {t}]
           answered == IF <<t, p>> \in waiters
                         THEN [ag EXCEPT ![p].landing = @ \cup {t}] ELSE ag
           released == [answered EXCEPT ![t] = Released(@)]
<1>1. /\ t \in Running /\ ag \in [Agents -> AgentSet] /\ ~ ag[t].live
      /\ \A a \in Agents : a # t => ag[a] = agents[a]
      /\ Notify(t) => Reachable(p)
      /\ agents' = IF Notify(t) THEN Given(released, p, t) ELSE released
  BY DEF Settles, Finalize
<1>2. p \in Agents /\ p # t /\ t \in Agents /\ t # 0
  BY <1>1, ParentIsOlder
<1>3. /\ heard \in AgentSet /\ heard.live = agents[p].live /\ heard.own = agents[p].own
      /\ heard.turn = agents[p].turn /\ heard.inbox = agents[p].inbox
      /\ heard.notices = agents[p].notices /\ heard.results = agents[p].results
      /\ heard.landing = agents[p].landing \cup {t}
  <2>1. agents[p] \in AgentSet
    BY <1>2, HubIs
  <2>2. QED BY <2>1 DEF AgentSet
<1>4. /\ answered \in [Agents -> AgentSet] /\ answered[t] = ag[t]
      /\ answered[p] = (IF <<t, p>> \in waiters THEN heard ELSE agents[p])
      /\ \A a \in Agents : a # t /\ a # p => answered[a] = agents[a]
  <2>1. CASE <<t, p>> \in waiters
    <3>1. ag[p] = agents[p]
      BY <1>1, <1>2
    <3>2. answered = [ag EXCEPT ![p] = heard]
      BY <1>1, <1>2, <2>1, <3>1
    <3> HIDE DEF heard, answered
    <3>3. QED BY <1>1, <1>2, <1>3, <2>1, <3>2
  <2>2. CASE <<t, p>> \notin waiters
    BY <1>1, <1>2, <2>2
  <2>3. QED BY <2>1, <2>2
<1> HIDE DEF answered
<1>5. /\ Released(ag[t]) \in AgentSet /\ ~ Released(ag[t]).live
      /\ Released(ag[t]).turn = ag[t].turn /\ ~ Released(ag[t]).own
      /\ Released(ag[t]).inbox = {} /\ Released(ag[t]).landing = {}
      /\ Released(ag[t]).notices = {} /\ Released(ag[t]).results = {}
  BY <1>1, <1>2, ReleasedIs
<1>6. /\ released \in [Agents -> AgentSet] /\ released[t] = Released(ag[t])
      /\ released[p] = (IF <<t, p>> \in waiters THEN heard ELSE agents[p])
      /\ \A a \in Agents : a # t /\ a # p => released[a] = agents[a]
  BY <1>2, <1>4, <1>5
<1> HIDE DEF released, heard
<1>7. Notify(t) <=> <<t, p>> \notin waiters /\ CanAct(p)
  BY DEF Notify
<1>8. CASE Notify(t)
  <2>1. released[p] = agents[p]
    BY <1>6, <1>7, <1>8
  <2>2. agents[p].live \/ (p = Main /\ ~ closed)
    BY <1>1, <1>7, <1>8 DEF Reachable, CanAct
  <2>3. LET s == agents'
        IN  /\ s \in [Agents -> AgentSet]
            /\ \A b \in Agents : b # p => s[b] = released[b]
            /\ s[p].live /\ (s[p].own => released[p].own)
            /\ s[p].landing = released[p].landing /\ s[p].results = released[p].results
            /\ released[p].inbox \cup released[p].notices
                 \subseteq s[p].inbox \cup s[p].notices
            /\ s[p].inbox \cup s[p].notices
                 \subseteq released[p].inbox \cup released[p].notices \cup {t}
            /\ t \in s[p].inbox \cup s[p].notices
    <3> HIDE DEF p
    <3>1. agents' = Given(released, p, t) /\ released \in [Agents -> AgentSet]
      BY <1>1, <1>6, <1>8
    <3>2. QED BY <1>2, <3>1, GivenIs
  <2>4. agents'[t] = Released(ag[t])
        /\ \A a \in Agents : a # t /\ a # p => agents'[a] = agents[a]
    BY <1>2, <1>6, <2>3
  <2>5. QED BY <1>2, <1>5, <1>7, <1>8, <2>1, <2>2, <2>3, <2>4 DEF News, Answers
<1>9. CASE ~ Notify(t)
  <2>1. agents' = released
    BY <1>1, <1>9
  <2>2. /\ agents'[p].live = agents[p].live /\ agents'[p].own = agents[p].own
        /\ agents'[p].turn = agents[p].turn
        /\ News(agents', p) = News(agents, p)
        /\ Answers(agents', p) = Answers(agents, p) \cup
             (IF <<t, p>> \in waiters THEN {t} ELSE {})
    BY <1>2, <1>3, <1>6, <2>1 DEF News, Answers
  <2>3. QED BY <1>2, <1>5, <1>6, <1>7, <1>9, <2>1, <2>2 DEF News, Answers
<1>10. QED BY <1>8, <1>9

LEMMA SettlesFrees ==
  ASSUME LoopInv, NEW t \in Tasks, NEW status, NEW ag, Settles(t, status, ag)
  PROVE  /\ tasks' \in [Tasks -> TaskSet]
         /\ tasks'[t].status = status /\ tasks'[t].pc = "over"
         /\ status \in {"finished", "failed"}
         /\ \A x \in Tasks : x # t => tasks'[x] = tasks[x]
         /\ tasks'[t].parent = tasks[t].parent /\ tasks'[t].depth = tasks[t].depth
         /\ tasks'[t].delegates = tasks[t].delegates
         /\ tasks'[t].rate = tasks[t].rate /\ tasks'[t].cut = tasks[t].cut
         /\ Running' = Running \ {t}
         /\ \A a \in Agents : CanAct(a)' <=> CanAct(a) /\ a # t
         /\ known' = Evict(known, t) /\ waiters' = WaitersLeft(t)
         /\ UNCHANGED <<counter, closed, talks>>
<1> DEFINE new == [tasks[t] EXCEPT !.status = status, !.pc = "over"]
<1>1. status \in {"finished", "failed"} /\ t \in Running
  BY DEF Settles
<1>2. /\ new \in TaskSet /\ new.status = status /\ new.pc = "over"
      /\ new.parent = tasks[t].parent /\ new.depth = tasks[t].depth
      /\ new.delegates = tasks[t].delegates
      /\ new.rate = tasks[t].rate /\ new.cut = tasks[t].cut
  <2>1. tasks[t] \in TaskSet
    BY HubIs
  <2>2. QED BY <1>1, <2>1 DEF TaskSet, Statuses
<1>3. tasks' = [tasks EXCEPT ![t] = new]
  BY DEF Settles, Finalize
<1> HIDE DEF new
<1>4. /\ tasks' \in [Tasks -> TaskSet] /\ tasks'[t] = new
      /\ \A x \in Tasks : x # t => tasks'[x] = tasks[x]
  BY <1>2, <1>3, HubIs
<1>5. Running' = Running \ {t}
  BY <1>1, <1>2, <1>4 DEF Running
<1>6. /\ known' = Evict(known, t) /\ waiters' = WaitersLeft(t)
      /\ UNCHANGED <<counter, closed, talks>>
  BY DEF Settles, Finalize
<1>7. \A a \in Agents : CanAct(a)' <=> CanAct(a) /\ a # t
  BY <1>1, <1>2, <1>4, <1>6, NumbersAre DEF CanAct
<1>8. QED BY <1>1, <1>2, <1>4, <1>5, <1>6, <1>7

LEMMA LoopsSettle ==
  ASSUME LoopInv, "steerAsleep" \notin Env, NEW t \in Tasks,
         NEW status, NEW ag, Settles(t, status, ag)
  PROVE  LoopInv'
<1> DEFINE p == tasks[t].parent
<1>1. /\ p \in Agents /\ p # t /\ agents' \in [Agents -> AgentSet]
      /\ ~ agents'[t].live /\ ~ agents'[t].own
      /\ \A a \in Agents : a # t /\ a # p => agents'[a] = agents[a]
      /\ agents'[p].live => agents[p].live \/ (p = Main /\ ~ closed)
      /\ agents'[p].own => agents[p].own
  BY SettlesTells
<1>2. /\ tasks' \in [Tasks -> TaskSet]
      /\ tasks'[t].status \in {"finished", "failed"} /\ tasks'[t].pc = "over"
      /\ \A x \in Tasks : x # t => tasks'[x] = tasks[x]
      /\ tasks'[t].parent = p /\ tasks'[t].depth = tasks[t].depth
      /\ tasks'[t].delegates = tasks[t].delegates
      /\ Running' = Running \ {t}
      /\ known' = Evict(known, t) /\ waiters' = WaitersLeft(t)
      /\ UNCHANGED <<counter, closed, talks>>
  BY SettlesFrees
<1>3. known' \subseteq known /\ waiters' \subseteq waiters
  BY <1>2 DEF Evict, WaitersLeft
<1>4. TypeOK'
  <2>1. waiters' \subseteq Tasks \X Agents /\ known' \subseteq Tasks
    BY <1>3, HubIs
  <2>2. QED BY <1>1, <1>2, <2>1 DEF LoopInv, TypeOK, TaskSet, AgentSet
<1>5. t <= counter /\ p < t /\ t \in Nat /\ counter \in Nat
  <2>1. tasks[t].status = "running"
    BY DEF Settles, Running
  <2>2. t <= counter
    BY <2>1 DEF LoopInv, TypeOK, Numbered, NoTask, Tasks
  <2>3. QED BY <2>2 DEF LoopInv, TypeOK, Numbered, Tasks
<1>6. Numbered'
  <2>1. \A x \in Tasks : x > counter => tasks'[x] = tasks[x] /\ agents'[x] = agents[x]
    BY <1>1, <1>2, <1>5, NumbersAre
  <2>2. QED BY <1>2, <1>3, <2>1, <1>5 DEF LoopInv, Numbered
<1>7. LoopsAndRuns'
  <2>1. ~ agents'[Main].own /\ (closed => ~ agents'[Main].live)
    BY <1>1, <1>2, NumbersAre DEF LoopInv, LoopsAndRuns
  <2>2. \A x \in Tasks : agents'[x].live => tasks'[x].pc = "run"
    BY <1>1, <1>2, NumbersAre DEF LoopInv, LoopsAndRuns
  <2>3. \A x \in Tasks : tasks'[x].pc \in {"run", "sleep"} <=> x \in Running'
    BY <1>2 DEF LoopInv, LoopsAndRuns
  <2>4. closed' => Running' = {}
    BY <1>2 DEF LoopInv, LoopsAndRuns
  <2>5. QED BY <1>2, <2>1, <2>2, <2>3, <2>4 DEF LoopsAndRuns
<1>8. DelegatesAreShallow'
  BY <1>2 DEF LoopInv, DelegatesAreShallow
<1>9. QED BY <1>4, <1>6, <1>7, <1>8 DEF LoopInv

\* What the loop reports is what its last turn came to.
Truthful(t, status, agent) ==
    /\ status = "finished" => agent.turn = "ok"
    /\ status = "failed" => \/ agent.turn = "error"
                            \/ agent.turn = "limited" /\ tasks[t].rate = MaxRetries
                            \/ agent.turn = "cut" /\ tasks[t].cut = MaxRetries

LEMMA RosterSettles ==
  ASSUME RosterInv, "steerAsleep" \notin Env, NEW t \in Tasks,
         NEW status, NEW ag, Settles(t, status, ag), Truthful(t, status, ag[t])
  PROVE  RosterPart'
<1> DEFINE p == tasks[t].parent
<1>0. LoopInv
  BY DEF RosterInv
<1>1. /\ p \in Agents /\ p # t /\ agents'[t].turn = ag[t].turn
      /\ \A a \in Agents : a # t /\ a # p => agents'[a] = agents[a]
      /\ ~ agents'[p].live => agents'[p].turn = agents[p].turn
      /\ agents'[p].live => agents[p].live \/ p = Main
  <2>1. p \in Agents /\ p # t /\ agents'[t].turn = ag[t].turn
    <3>1. p \in Agents /\ p # t
      BY <1>0, SettlesTells
    <3>2. ag[t] \in AgentSet
      BY NumbersAre DEF Settles
    <3>3. agents'[t] = Released(ag[t])
      BY <1>0, SettlesReleases
    <3>4. QED BY <3>1, <3>2, <3>3, ReleasedIs
  <2>2. \A a \in Agents : a # t /\ a # p => agents'[a] = agents[a]
    BY <1>0, SettlesTells
  <2>3. /\ ~ agents'[p].live => agents'[p].turn = agents[p].turn
        /\ agents'[p].live => agents[p].live \/ (p = Main /\ ~ closed)
    BY <1>0, SettlesTells
  <2>4. QED BY <2>1, <2>2, <2>3
<1>2. /\ tasks'[t].status = status /\ status \in {"finished", "failed"}
      /\ \A x \in Tasks : x # t => tasks'[x] = tasks[x]
      /\ tasks'[t].rate = tasks[t].rate /\ tasks'[t].cut = tasks[t].cut
      /\ Running' = Running \ {t} /\ known' = Evict(known, t)
  BY <1>0, SettlesFrees
<1>3. StatusTellsTheTruth'
  <2>1. SUFFICES ASSUME NEW x \in Tasks
                 PROVE  /\ tasks'[x].status = "finished" => agents'[x].turn = "ok"
                        /\ tasks'[x].status = "failed" =>
                             \/ agents'[x].turn = "error"
                             \/ agents'[x].turn = "limited" /\ tasks'[x].rate = MaxRetries
                             \/ agents'[x].turn = "cut" /\ tasks'[x].cut = MaxRetries
    BY DEF StatusTellsTheTruth
  <2>2. CASE x = t
    BY <1>1, <1>2, <2>2 DEF Truthful
  <2>3. CASE x # t
    <3>1. x \notin Running => ~ agents[x].live /\ x # Main
      BY <1>0, HubIs, NumbersAre
    <3>2. x \notin Running => agents'[x].turn = agents[x].turn
      BY <1>1, <2>3, <3>1, NumbersAre
    <3>3. tasks'[x] = tasks[x] /\ (x \in Running => tasks[x].status = "running")
      BY <1>2, <2>3 DEF Running
    <3>4. QED BY <3>2, <3>3 DEF RosterInv, StatusTellsTheTruth
  <2>4. QED BY <2>2, <2>3
<1>4. RosterIsBounded'
  <2>1. t \in Running /\ Running \subseteq known /\ known \in SUBSET Tasks
    BY <1>0, HubIs DEF Settles, RosterInv, RosterIsBounded
  <2>2. Cardinality(known) <= MaxKnown + Cardinality(Running)
    BY DEF RosterInv, RosterIsBounded
  <2>3. /\ {x \in known : x # t /\ tasks[x].status = "running"} \subseteq known'
        /\ known' \subseteq known
        /\ \/ Cardinality(known) <= MaxKnown
           \/ Cardinality(known') + 1 <= Cardinality(known)
    BY <1>2, <2>1, EvictShortens
  <2>4. Running' \subseteq known'
    BY <1>2, <2>1, <2>3 DEF Running
  <2>5. IsFiniteSet(known) /\ IsFiniteSet(Running) /\ IsFiniteSet(known')
    <3>1. IsFiniteSet(Tasks)
      BY FS_Interval DEF Tasks
    <3>2. Running \subseteq Tasks /\ known' \subseteq Tasks
      BY <2>1, <2>3
    <3>3. QED BY <2>1, <3>1, <3>2, FS_Subset
  <2>6. /\ Cardinality(known) \in Nat /\ Cardinality(Running) \in Nat
        /\ Cardinality(known') \in Nat /\ Cardinality(known') <= Cardinality(known)
    BY <2>3, <2>5, FS_CardinalityType, FS_Subset
  <2>7. Cardinality(Running') = Cardinality(Running) - 1 /\ Cardinality(Running') \in Nat
    <3>1. IsFiniteSet(Running') /\ Cardinality(Running') = Cardinality(Running) - 1
      BY <1>2, <2>1, <2>5, FS_RemoveElement
    <3>2. QED BY <3>1, FS_CardinalityType
  <2>8. Cardinality(known') <= MaxKnown + Cardinality(Running')
    BY <2>2, <2>3, <2>6, <2>7
  <2>9. QED BY <2>4, <2>8 DEF RosterIsBounded
<1>5. QED BY <1>3, <1>4 DEF RosterPart

LEMMA ResultsSettle ==
  ASSUME ResultsInv, "steerAsleep" \notin Env, NEW t \in Tasks,
         NEW status, NEW ag, Settles(t, status, ag), ~ Waiting(t)
  PROVE  ResultsPart'
<1> DEFINE p == tasks[t].parent
<1>0. LoopInv
  BY DEF ResultsInv
<1>1. /\ p \in Agents /\ p # t /\ agents' \in [Agents -> AgentSet]
      /\ News(agents', t) = {} /\ Answers(agents', t) = {}
      /\ \A a \in Agents : a # t /\ a # p => agents'[a] = agents[a]
      /\ agents[p].live => agents'[p].live
      /\ Answers(agents', p) = Answers(agents, p) \cup
           (IF <<t, p>> \in waiters THEN {t} ELSE {})
      /\ News(agents, p) \subseteq News(agents', p)
      /\ News(agents', p) \subseteq News(agents, p) \cup
           (IF <<t, p>> \notin waiters /\ CanAct(p) THEN {t} ELSE {})
      /\ <<t, p>> \notin waiters /\ CanAct(p) => t \in News(agents', p)
  BY <1>0, SettlesTells
<1>2. /\ tasks'[t].status \in {"finished", "failed"}
      /\ \A x \in Tasks : x # t => tasks'[x] = tasks[x]
      /\ tasks'[t].parent = p /\ Running' = Running \ {t}
      /\ \A a \in Agents : CanAct(a)' <=> CanAct(a) /\ a # t
      /\ waiters' = WaitersLeft(t)
  BY <1>0, SettlesFrees
<1>3. \A a \in Agents : a # t /\ a # p => /\ News(agents', a) = News(agents, a)
                                          /\ Answers(agents', a) = Answers(agents, a)
  BY <1>1 DEF News, Answers
<1>4. tasks[t].status = "running" /\ t # 0 /\ t \in Agents
  BY NumbersAre DEF Settles, Running
\* Nobody has heard of t yet.
<1>5. \A a \in Agents : t \notin News(agents, a) /\ t \notin Answers(agents, a)
  BY <1>4 DEF ResultsInv, NewsIsOfSettled, News, Answers
<1>6. NewsIsOfSettled'
  <2>1. SUFFICES ASSUME NEW a \in Agents,
                        NEW x \in News(agents', a) \cup Answers(agents', a), x # 0
                 PROVE  tasks'[x].status \in {"finished", "failed"}
    BY DEF NewsIsOfSettled, News, Answers
  <2>2. x \in Tasks
    BY <1>1, <2>1, NumbersAre DEF News, Answers, AgentSet
  <2>3. CASE x = t
    BY <1>2, <2>3
  <2>4. CASE x # t
    <3>1. x \in News(agents, a) \cup Answers(agents, a)
      BY <1>1, <1>3, <2>1, <2>4
    <3>2. QED BY <1>2, <2>1, <2>2, <2>4, <3>1
              DEF ResultsInv, NewsIsOfSettled, News, Answers
  <2>5. QED BY <2>3, <2>4
<1>7. NoResultLost'
  <2>1. SUFFICES ASSUME NEW x \in Tasks, tasks'[x].status \in {"finished", "failed"},
                        NEW q, q = tasks'[x].parent, CanAct(q)'
                 PROVE  x \in News(agents', q) \cup Answers(agents', q)
    BY DEF NoResultLost, News, Answers
  <2>2. CASE x = t
    <3>1. CanAct(p)
      BY <1>1, <1>2, <2>1, <2>2
    <3>2. QED BY <1>1, <1>2, <2>1, <2>2, <3>1
  <2>3. CASE x # t
    <3>1. tasks'[x] = tasks[x] /\ q = tasks[x].parent /\ q \in Agents
      BY <1>0, <1>2, <2>1, <2>3, HubIs
    <3>2. CanAct(q) /\ q # t
      BY <1>2, <2>1, <3>1
    <3>3. x \in News(agents, q) \cup Answers(agents, q)
      BY <2>1, <3>1, <3>2 DEF ResultsInv, ResultsArriveOnce, NoResultLost, News, Answers
    <3>4. /\ News(agents, q) \subseteq News(agents', q)
          /\ Answers(agents, q) \subseteq Answers(agents', q)
      BY <1>1, <1>3, <3>1, <3>2
    <3>5. QED BY <3>1, <3>3, <3>4
  <2>4. QED BY <2>2, <2>3
<1>8. ToldOnce'
  <2>1. SUFFICES ASSUME NEW a \in Agents
                 PROVE  News(agents', a) \cap Answers(agents', a) = {}
    BY DEF ToldOnce, News, Answers
  <2>2. News(agents, a) \cap Answers(agents, a) = {}
    BY DEF ResultsInv, ResultsArriveOnce, ToldOnce, News, Answers
  <2>3. QED BY <1>1, <1>3, <1>5, <2>2
<1>9. NobodyWaitsForNothing'
  <2>1. SUFFICES ASSUME NEW w \in waiters'
                 PROVE  w[1] \in Running' /\ agents'[w[2]].live /\ CanAct(w[2])'
    BY DEF NobodyWaitsForNothing
  <2>2. w \in waiters /\ w[1] # t /\ w[2] # t /\ w[2] \in Agents
    BY <1>0, <1>2, HubIs DEF WaitersLeft, Waiting
  <2>3. w[1] \in Running /\ agents[w[2]].live /\ CanAct(w[2])
    BY <2>2 DEF ResultsInv, ResultsArriveOnce, NobodyWaitsForNothing
  <2>4. agents'[w[2]].live
    BY <1>1, <2>2, <2>3
  <2>5. QED BY <1>2, <2>2, <2>3, <2>4
<1>10. QED BY <1>6, <1>7, <1>8, <1>9 DEF ResultsPart, ResultsArriveOnce

(***************************************************************************)
(* The end of a turn and of a backoff.                                     *)
(***************************************************************************)
\* runSubagent goes on from the await of a run that has just ended.
LEMMA AwaitGoesOn ==
  ASSUME LoopInv, NEW t \in Tasks, agents[t].live,
         NEW over \in AgentSet, ~ over.live, ~ over.own,
         AwaitReturns(t, [agents EXCEPT ![t] = over]),
         UNCHANGED <<counter, closed, talks>>
  PROVE  \/ /\ GoesOn(t)
            /\ agents'[t].inbox = over.inbox /\ agents'[t].landing = over.landing
            /\ agents'[t].notices = over.notices /\ agents'[t].results = over.results
         \/ /\ ~ Retries(t, over.last)
            /\ Settles(t, Verdict(over), [agents EXCEPT ![t] = over])
<1> DEFINE ag == [agents EXCEPT ![t] = over]
           again == [over EXCEPT !.last = "prompt"]
<1>1. t \in Agents /\ t \in Running
  BY HubIs, NumbersAre
<1>2. /\ ag \in [Agents -> AgentSet] /\ ag[t] = over
      /\ \A a \in Agents : a # t => ag[a] = agents[a]
  BY <1>1, HubIs
<1> HIDE DEF ag
<1>3. AwaitReturns(t, ag)
  BY DEF ag
<1>4. CASE Retries(t, over.last)
  <2>1. /\ tasks' = [tasks EXCEPT ![t] = Retry(t, over)]
        /\ agents' = IF over.last = "limited"
                       THEN [ag EXCEPT ![t].last = "prompt"] ELSE ag
        /\ UNCHANGED <<waiters, known>>
    BY <1>2, <1>3, <1>4 DEF AwaitReturns
  <2> DEFINE new == Retry(t, over)
  <2>2. tasks[t] \in TaskSet
    BY HubIs
  <2>3. /\ new \in TaskSet /\ new.status = tasks[t].status
        /\ new.parent = tasks[t].parent /\ new.depth = tasks[t].depth
        /\ new.delegates = tasks[t].delegates /\ new.pc = "sleep"
    <3>1. CASE over.last = "limited"
      <4>1. tasks[t].rate + 1 \in 0 .. MaxRetries
        BY <1>4, <2>2, <3>1 DEF Retries, TaskSet
      <4>2. new = [tasks[t] EXCEPT !.pc = "sleep", !.next = "continue",
                                   !.rate = tasks[t].rate + 1]
        BY <2>2, <3>1 DEF Retry, TaskSet
      <4> HIDE DEF new
      <4>3. QED BY <2>2, <4>1, <4>2 DEF TaskSet
    <3>2. CASE over.last # "limited"
      <4>1. tasks[t].cut + 1 \in 0 .. MaxRetries
        BY <1>4, <2>2, <3>2 DEF Retries, TaskSet
      <4>2. new = [tasks[t] EXCEPT !.pc = "sleep", !.next = "prompt",
                                   !.cut = tasks[t].cut + 1]
        BY <2>2, <3>2 DEF Retry, TaskSet
      <4> HIDE DEF new
      <4>3. QED BY <2>2, <4>1, <4>2 DEF TaskSet
    <3>3. QED BY <3>1, <3>2
  <2>4. /\ again \in AgentSet /\ again.live = over.live /\ again.inbox = over.inbox
        /\ again.landing = over.landing /\ again.notices = over.notices
        /\ again.results = over.results
    BY DEF AgentSet
  <2>5. agents' = IF over.last = "limited" THEN [ag EXCEPT ![t] = again] ELSE ag
    BY <1>1, <1>2, <2>1
  <2> HIDE DEF new, again
  <2>6. /\ agents' \in [Agents -> AgentSet] /\ agents'[t] \in {over, again}
        /\ \A a \in Agents : a # t => agents'[a] = agents[a]
    BY <1>1, <1>2, <2>4, <2>5
  <2>7. tasks' = [tasks EXCEPT ![t] = new]
    BY <2>1 DEF new
  <2>8. QED BY <1>1, <2>1, <2>3, <2>4, <2>6, <2>7 DEF GoesOn
<1>5. CASE ~ Retries(t, over.last)
  <2>1. Finalize(t, Verdict(over), ag, tasks[t])
    BY <1>2, <1>3, <1>5 DEF AwaitReturns
  <2>2. Verdict(over) \in {"finished", "failed"}
    BY DEF Verdict
  <2>3. Settles(t, Verdict(over), ag)
    BY <1>1, <1>2, <2>1, <2>2 DEF Settles
  <2>4. QED BY <1>5, <2>3 DEF ag
<1>6. QED BY <1>4, <1>5

\* A turn's own outcomes.
TurnTalks == Talks /\ (NobodyWaitsForNothing => TalksTell)
TurnGoesOn(a) ==
    /\ GoesOn(a) /\ ~ Waiting(a)
    /\ News(agents', a) \subseteq News(agents, a)
    /\ Answers(agents', a) = Answers(agents, a)
    /\ News(agents, a) \subseteq News(agents', a) \cup {0}
TurnSettles(a) ==
    \E status, ag :
        /\ Settles(a, status, ag) /\ ~ Waiting(a)
        /\ "failAfterTool" \notin Env => Truthful(a, status, ag[a])

LEMMA TurnDoes ==
  ASSUME LoopInv, NEW a \in Agents, TurnEnds(a)
  PROVE  TurnTalks \/ (a \in Tasks /\ (TurnGoesOn(a) \/ TurnSettles(a)))
<1>1. PICK kind \in TurnKinds(a) :
         LET landed == [Landed(agents[a]) EXCEPT !.turn = kind]
             end    == IF agents[a].acted THEN "result" ELSE kind
             over   == [landed EXCEPT !.live = FALSE, !.own = FALSE,
                                      !.last = end]
         IN CASE kind = "calls" \/ agents[a].inbox # {} ->
                   /\ agents' = [agents EXCEPT ![a] = landed]
                   /\ UNCHANGED <<tasks, waiters, known>>
              [] OTHER ->
                   IF agents[a].own
                     THEN AwaitReturns(a, [agents EXCEPT ![a] = over])
                     ELSE /\ agents' = [agents EXCEPT ![a] = over]
                          /\ UNCHANGED <<tasks, waiters, known>>
  BY DEF TurnEnds
<1> DEFINE landed == [Landed(agents[a]) EXCEPT !.turn = kind]
           end    == IF agents[a].acted THEN "result" ELSE kind
           over   == [landed EXCEPT !.live = FALSE, !.own = FALSE, !.last = end]
<1>2. /\ agents[a].live /\ ~ Waiting(a) /\ UNCHANGED <<counter, closed, talks>>
  BY DEF TurnEnds
<1>3. agents[a] \in AgentSet /\ kind \in {"ok", "calls"} \cup Failures
  BY HubIs DEF TurnKinds
<1>4. /\ landed \in AgentSet /\ landed.live = agents[a].live
      /\ landed.own = agents[a].own /\ landed.turn = kind
      /\ landed.inbox = {} /\ landed.landing = {}
      /\ landed.notices = agents[a].notices \cup (agents[a].inbox \ {0})
      /\ landed.results = agents[a].results \cup agents[a].landing
  BY <1>3, LandedIs
<1> HIDE DEF landed
\* A step that leaves a's tools' answers and messages in its transcript.
<1>5. ASSUME NEW new \in AgentSet, agents' = [agents EXCEPT ![a] = new],
             new.live => agents[a].live, new.own => agents[a].own,
             new.inbox = {}, new.landing = {}, new.notices = landed.notices,
             new.results = landed.results, UNCHANGED <<tasks, waiters, known>>
      PROVE  TurnTalks
  <2>1. /\ agents' \in [Agents -> AgentSet] /\ agents'[a] = new
        /\ \A b \in Agents : b # a => agents'[b] = agents[b]
    BY <1>5, HubIs
  <2>2. Talks
    BY <1>2, <1>5, <2>1, HubIs, NumbersAre DEF Talks
  <2>3. \A b \in Agents :
          /\ News(agents', b) \subseteq News(agents, b)
          /\ Answers(agents', b) = Answers(agents, b)
          /\ News(agents, b) \subseteq News(agents', b) \cup {0}
    BY <1>4, <1>5, <2>1 DEF News, Answers
  <2>4. ASSUME NobodyWaitsForNothing PROVE TalksTell
    <3>1. \A w \in waiters : w[2] \in Agents /\ w[2] # a
      BY <1>2, HubIs DEF Waiting
    <3>2. QED BY <1>5, <2>1, <2>3, <2>4, <3>1 DEF NobodyWaitsForNothing, TalksTell
  <2>5. QED BY <2>2, <2>4 DEF TurnTalks
<1>6. CASE kind = "calls" \/ agents[a].inbox # {}
  <2>1. agents' = [agents EXCEPT ![a] = landed] /\ UNCHANGED <<tasks, waiters, known>>
    BY <1>1, <1>6 DEF landed
  <2>2. TurnTalks
    BY <1>4, <1>5, <2>1
  <2>3. QED BY <2>2
<1>7. CASE ~ (kind = "calls" \/ agents[a].inbox # {})
  <2>1. end \in {"ok", "result"} \cup Failures
    BY <1>3, <1>7
  <2> HIDE DEF end
  <2>2. /\ over \in AgentSet /\ ~ over.live /\ ~ over.own /\ over.last = end
        /\ over.turn = kind /\ over.inbox = {} /\ over.landing = {}
        /\ over.notices = landed.notices /\ over.results = landed.results
    BY <1>4, <2>1 DEF AgentSet
  <2>3. IF agents[a].own
          THEN AwaitReturns(a, [agents EXCEPT ![a] = over])
          ELSE /\ agents' = [agents EXCEPT ![a] = over]
               /\ UNCHANGED <<tasks, waiters, known>>
    BY <1>1, <1>7 DEF landed, end
  <2> HIDE DEF over
  <2>4. CASE ~ agents[a].own
    <3>1. TurnTalks
      BY <1>5, <2>2, <2>3, <2>4
    <3>2. QED BY <3>1
  <2>5. CASE agents[a].own
    <3>1. a \in Tasks
      BY <2>5, NumbersAre DEF LoopInv, LoopsAndRuns
    <3>2. \/ /\ GoesOn(a)
             /\ agents'[a].inbox = over.inbox /\ agents'[a].landing = over.landing
             /\ agents'[a].notices = over.notices /\ agents'[a].results = over.results
          \/ /\ ~ Retries(a, over.last)
             /\ Settles(a, Verdict(over), [agents EXCEPT ![a] = over])
      BY <1>2, <2>2, <2>3, <2>5, <3>1, AwaitGoesOn
    <3>3. CASE /\ GoesOn(a)
               /\ agents'[a].inbox = over.inbox /\ agents'[a].landing = over.landing
               /\ agents'[a].notices = over.notices /\ agents'[a].results = over.results
      <4>1. TurnGoesOn(a)
        BY <1>2, <1>4, <2>2, <3>3 DEF TurnGoesOn, News, Answers
      <4>2. QED BY <3>1, <4>1
    <3>4. CASE /\ ~ Retries(a, over.last)
               /\ Settles(a, Verdict(over), [agents EXCEPT ![a] = over])
      <4>1. [agents EXCEPT ![a] = over][a] = over
        BY HubIs
      <4>2. ASSUME "failAfterTool" \notin Env PROVE Truthful(a, Verdict(over), over)
        <5>1. ~ agents[a].acted /\ over.last = kind
          BY <1>7, <2>2, <4>2 DEF TurnKinds, end
        <5>2. tasks[a] \in TaskSet
          BY <3>1, HubIs
        <5>3. tasks[a].rate \in 0 .. MaxRetries /\ tasks[a].cut \in 0 .. MaxRetries
          BY <5>2 DEF TaskSet
        <5>4. QED BY <1>3, <1>7, <2>2, <3>4, <5>1, <5>3
                  DEF Truthful, Verdict, Retries, Failures
      <4>3. TurnSettles(a)
        BY <1>2, <3>4, <4>1, <4>2 DEF TurnSettles
      <4>4. QED BY <3>1, <4>3
    <3>5. QED BY <3>2, <3>3, <3>4
  <2>6. QED BY <2>4, <2>5
<1>8. QED BY <1>6, <1>7

\* The backoff is over.  No run is live then, so that a new one begins.
LEMMA WakeDoes ==
  ASSUME LoopInv, NEW t \in Tasks, Wake(t)
  PROVE  /\ GoesOn(t) /\ agents'[t].live
         /\ News(agents', t) = News(agents, t) /\ Answers(agents', t) = Answers(agents, t)
<1> DEFINE new == [tasks[t] EXCEPT !.pc = "run", !.next = "continue"]
<1>1. t \in Running /\ ~ agents[t].live /\ t \in Agents
  BY NumbersAre DEF Wake, LoopInv, LoopsAndRuns
<1>2. /\ agents' = Started(agents, t, TRUE, 0)
      /\ tasks' = [tasks EXCEPT ![t].pc = "run", ![t].next = "continue"]
      /\ UNCHANGED <<waiters, known, counter, closed, talks>>
  BY <1>1 DEF Wake
<1>3. /\ new \in TaskSet /\ new.status = tasks[t].status
      /\ new.parent = tasks[t].parent /\ new.depth = tasks[t].depth
      /\ new.delegates = tasks[t].delegates /\ new.pc = "run"
  <2>1. tasks[t] \in TaskSet
    BY HubIs
  <2>2. QED BY <2>1 DEF TaskSet
<1>4. tasks' = [tasks EXCEPT ![t] = new]
  BY <1>2, HubIs
<1>5. /\ agents' \in [Agents -> AgentSet]
      /\ \A b \in Agents : b # t => agents'[b] = agents[b]
      /\ agents'[t].live /\ News(agents', t) = News(agents, t)
      /\ Answers(agents', t) = Answers(agents, t)
  <2>1. agents \in [Agents -> AgentSet] /\ 0 \in Agents
    BY HubIs, NumbersAre
  <2>2. QED BY <1>1, <1>2, <2>1, BegunIs DEF News, Answers
<1> HIDE DEF new
<1>6. QED BY <1>1, <1>2, <1>3, <1>4, <1>5 DEF GoesOn

(***************************************************************************)
(* A sub-agent is started.                                                 *)
(***************************************************************************)
LEMMA SpawnDoes ==
  ASSUME LoopInv, NEW a \in Agents, Spawn(a)
  PROVE  LET t == counter + 1
         IN  /\ t \in Tasks /\ t # a /\ agents[a].live /\ CanAct(a)
             /\ tasks' \in [Tasks -> TaskSet] /\ tasks'[t].status = "running"
             /\ tasks'[t].pc = "run" /\ tasks'[t].parent = a
             /\ tasks'[t].delegates => tasks'[t].depth < MaxDepth
             /\ \A x \in Tasks : x # t => tasks'[x] = tasks[x]
             /\ agents' \in [Agents -> AgentSet]
             /\ \A b \in Agents : b # a /\ b # t => agents'[b] = agents[b]
             /\ agents'[a].live = agents[a].live /\ agents'[a].own = agents[a].own
             /\ News(agents', a) = News(agents, a)
             /\ Answers(agents', a) = Answers(agents, a)
             /\ agents'[t].live /\ News(agents', t) = {} /\ Answers(agents', t) = {}
             /\ Running' = Running \cup {t} /\ t \notin Running
             /\ known' = known \cup {t} /\ counter' = t
             /\ UNCHANGED <<waiters, closed, talks>>
<1> DEFINE t == counter + 1
           depth == IF a = Main THEN 1 ELSE tasks[a].depth + 1
           acted == [agents[a] EXCEPT !.acted = TRUE]
           ag == [agents EXCEPT ![a] = acted]
<1>1. /\ agents[a].live /\ CanAct(a) /\ CanDelegate(a) /\ counter < MaxTasks
      /\ \E delegates \in {FALSE} \cup {depth < MaxDepth} :
           tasks' = [tasks EXCEPT ![t] =
             [NoTask EXCEPT !.status = "running", !.parent = a, !.pc = "run",
                            !.depth = depth, !.delegates = delegates]]
      /\ agents' = Started([agents EXCEPT ![a].acted = TRUE], t, TRUE, 0)
      /\ known' = known \cup {t} /\ counter' = t
      /\ UNCHANGED <<waiters, closed, talks>>
  BY DEF Spawn
<1>2. /\ counter \in Nat /\ t \in Tasks /\ t \in Agents /\ t > counter /\ t # 0
  BY <1>1, HubIs, NumbersAre DEF Tasks
<1>3. tasks[t] = NoTask /\ agents[t] = NoAgent
  BY <1>2 DEF LoopInv, Numbered
<1>4. t # a
  BY <1>1, <1>3 DEF NoAgent
<1>5. depth \in 1 .. MaxDepth
  <2>1. CASE a = Main
    BY <2>1
  <2>2. CASE a # Main
    <3>1. a \in Tasks /\ tasks[a] \in TaskSet /\ tasks[a].delegates
      BY <1>1, <2>2, HubIs, NumbersAre DEF CanDelegate
    <3>2. tasks[a].depth \in 0 .. MaxDepth /\ tasks[a].depth < MaxDepth
      BY <3>1 DEF TaskSet, LoopInv, DelegatesAreShallow
    <3>3. QED BY <2>2, <3>2
  <2>3. QED BY <2>1, <2>2
<1> HIDE DEF depth
<1>6. PICK delegates \in {FALSE} \cup {depth < MaxDepth} :
        tasks' = [tasks EXCEPT ![t] =
          [NoTask EXCEPT !.status = "running", !.parent = a, !.pc = "run",
                         !.depth = depth, !.delegates = delegates]]
  BY <1>1
<1>7. delegates \in BOOLEAN /\ (delegates => depth < MaxDepth)
  <2>1. (depth < MaxDepth) \in BOOLEAN
    OBVIOUS
  <2>2. delegates = FALSE \/ delegates = (depth < MaxDepth)
    OBVIOUS
  <2>3. QED BY <2>1, <2>2, Zenon
<1> DEFINE new == [NoTask EXCEPT !.status = "running", !.parent = a, !.pc = "run",
                                 !.depth = depth, !.delegates = delegates]
<1>8. /\ new \in TaskSet /\ new.status = "running" /\ new.pc = "run"
      /\ new.parent = a /\ (new.delegates => new.depth < MaxDepth)
  <2>1. depth \in 0 .. MaxDepth /\ "running" \in Statuses
    BY <1>5 DEF Statuses
  <2>2. new \in TaskSet /\ new.status = "running" /\ new.pc = "run"
        /\ new.parent = a /\ new.depth = depth /\ (new.delegates <=> delegates)
    <3> HIDE DEF NoTask, t
    <3>1. ASSUME NEW d \in BOOLEAN
          PROVE  LET n == [NoTask EXCEPT !.status = "running", !.parent = a, !.pc = "run",
                                         !.depth = depth, !.delegates = d]
                 IN  /\ n \in TaskSet /\ n.status = "running" /\ n.pc = "run"
                     /\ n.parent = a /\ n.depth = depth /\ (n.delegates <=> d)
      BY <2>1, NothingIs DEF TaskSet
    <3>2. QED BY <1>7, <3>1
  <2> HIDE DEF new
  <2>3. QED BY <1>7, <2>2
<1>9. tasks' = [tasks EXCEPT ![t] = new]
  BY <1>6
<1> HIDE DEF new
<1>10. /\ tasks' \in [Tasks -> TaskSet] /\ tasks'[t] = new
       /\ \A x \in Tasks : x # t => tasks'[x] = tasks[x]
  BY <1>2, <1>8, <1>9, HubIs
<1>11. Running' = Running \cup {t} /\ t \notin Running
  BY <1>2, <1>3, <1>8, <1>10 DEF Running, NoTask
<1>12. /\ acted \in AgentSet /\ acted.live = agents[a].live
       /\ acted.own = agents[a].own
       /\ acted.inbox = agents[a].inbox /\ acted.landing = agents[a].landing
       /\ acted.notices = agents[a].notices /\ acted.results = agents[a].results
  <2>1. agents[a] \in AgentSet
    BY HubIs
  <2>2. QED BY <2>1 DEF AgentSet
<1>13. agents' = Started(ag, t, TRUE, 0)
  BY <1>1
<1> HIDE DEF acted
<1>14. ag \in [Agents -> AgentSet] /\ ag[a] = acted /\ ag[t] = NoAgent
       /\ \A b \in Agents : b # a => ag[b] = agents[b]
  BY <1>2, <1>3, <1>4, <1>12, HubIs
<1> HIDE DEF ag
<1>15. /\ agents' \in [Agents -> AgentSet]
       /\ \A b \in Agents : b # t => agents'[b] = ag[b]
       /\ agents'[t].live
       /\ agents'[t].inbox = {} /\ agents'[t].landing = {}
       /\ agents'[t].notices = {} /\ agents'[t].results = {}
  <2>2. LET s == Started(ag, t, TRUE, 0)
        IN  /\ s \in [Agents -> AgentSet]
            /\ \A b \in Agents : b # t => s[b] = ag[b]
            /\ s[t].live /\ s[t].inbox = NoAgent.inbox
            /\ s[t].landing = NoAgent.landing /\ s[t].results = NoAgent.results
            /\ s[t].notices = NoAgent.notices
    <3> HIDE DEF t
    <3>1. QED BY <1>2, <1>14, BegunIs
  <2>3. QED BY <1>13, <2>2 DEF NoAgent
<1>16. /\ \A b \in Agents : b # a /\ b # t => agents'[b] = agents[b]
       /\ agents'[a].live = agents[a].live /\ agents'[a].own = agents[a].own
       /\ News(agents', a) = News(agents, a) /\ Answers(agents', a) = Answers(agents, a)
       /\ News(agents', t) = {} /\ Answers(agents', t) = {}
  BY <1>4, <1>12, <1>14, <1>15 DEF News, Answers
<1> HIDE DEF t
<1>17. /\ t \in Tasks /\ t # a /\ agents[a].live /\ CanAct(a)
       /\ tasks' \in [Tasks -> TaskSet] /\ tasks'[t].status = "running"
       /\ tasks'[t].pc = "run" /\ tasks'[t].parent = a
       /\ tasks'[t].delegates => tasks'[t].depth < MaxDepth
       /\ \A x \in Tasks : x # t => tasks'[x] = tasks[x]
       /\ agents' \in [Agents -> AgentSet] /\ agents'[t].live
       /\ Running' = Running \cup {t} /\ t \notin Running
       /\ known' = known \cup {t} /\ counter' = t
       /\ UNCHANGED <<waiters, closed, talks>>
  BY <1>1, <1>2, <1>4, <1>8, <1>10, <1>11, <1>15
<1>18. QED BY <1>16, <1>17 DEF t

LEMMA LoopsSpawn ==
  ASSUME LoopInv, NEW a \in Agents, Spawn(a)
  PROVE  LoopInv'
<1> DEFINE t == counter + 1
<1>1. /\ t \in Tasks /\ t # a /\ agents[a].live /\ CanAct(a)
      /\ tasks' \in [Tasks -> TaskSet] /\ tasks'[t].status = "running"
      /\ tasks'[t].pc = "run" /\ tasks'[t].parent = a
      /\ tasks'[t].delegates => tasks'[t].depth < MaxDepth
      /\ \A x \in Tasks : x # t => tasks'[x] = tasks[x]
      /\ agents' \in [Agents -> AgentSet]
      /\ \A b \in Agents : b # a /\ b # t => agents'[b] = agents[b]
      /\ agents'[a].live = agents[a].live /\ agents'[a].own = agents[a].own
      /\ Running' = Running \cup {t}
      /\ known' = known \cup {t} /\ counter' = t
      /\ UNCHANGED <<waiters, closed, talks>>
  BY SpawnDoes
<1>2. counter \in Nat /\ t = counter + 1 /\ counter < MaxTasks
  BY HubIs DEF Spawn
<1>3. a < t /\ a \in Nat
  <2>1. CASE a = Main
    BY <1>2, <2>1, NumbersAre
  <2>2. CASE a # Main
    <3>1. a \in Tasks /\ a \in Nat /\ a <= counter
      BY <1>1, <1>2, <2>2, NumbersAre DEF LoopInv, Numbered, NoAgent, Tasks
    <3>2. QED BY <1>2, <3>1
  <2>3. QED BY <2>1, <2>2
<1> HIDE DEF t
<1>4. TypeOK'
  <2>1. counter' \in 0 .. MaxTasks /\ known' \subseteq Tasks
    BY <1>1, <1>2, HubIs
  <2>2. QED BY <1>1, <2>1 DEF LoopInv, TypeOK, TaskSet, AgentSet
<1>5. Numbered'
  <2>1. known' \subseteq 1 .. counter'
    BY <1>1, <1>2 DEF LoopInv, Numbered
  <2>2. ASSUME NEW x \in Tasks, x > counter'
        PROVE  tasks'[x] = NoTask /\ agents'[x] = NoAgent
    BY <1>1, <1>2, <1>3, <2>2, NumbersAre DEF LoopInv, Numbered, Tasks
  <2>3. ASSUME NEW x \in Tasks, x <= counter'
        PROVE  tasks'[x].status # "none" /\ tasks'[x].parent < x
    <3>1. CASE x = t
      BY <1>1, <1>3, <3>1
    <3>2. CASE x # t
      BY <1>1, <1>2, <2>3, <3>2 DEF LoopInv, Numbered, Tasks
    <3>3. QED BY <3>1, <3>2
  <2>4. QED BY <2>1, <2>2, <2>3 DEF Numbered
<1>6. LoopsAndRuns'
  <2>1. ~ closed
    BY <1>1, NumbersAre DEF CanAct, LoopInv, LoopsAndRuns, Running
  <2>2. agents'[Main].own = agents[Main].own
    BY <1>1, NumbersAre
  <2>3. \A x \in Tasks : tasks'[x].pc \in {"run", "sleep"} <=> x \in Running'
    BY <1>1 DEF LoopInv, LoopsAndRuns
  <2>4. \A x \in Tasks : agents'[x].live => tasks'[x].pc = "run"
    BY <1>1, NumbersAre DEF LoopInv, LoopsAndRuns
  <2>5. QED BY <1>1, <2>1, <2>2, <2>3, <2>4 DEF LoopInv, LoopsAndRuns
<1>7. DelegatesAreShallow'
  BY <1>1 DEF LoopInv, DelegatesAreShallow
<1>8. QED BY <1>4, <1>5, <1>6, <1>7 DEF LoopInv

LEMMA RosterSpawns ==
  ASSUME RosterInv, NEW a \in Agents, Spawn(a)
  PROVE  RosterPart'
<1> DEFINE t == counter + 1
<1>0. LoopInv
  BY DEF RosterInv
<1>1. /\ t \in Tasks /\ agents[a].live /\ tasks'[t].status = "running"
      /\ \A x \in Tasks : x # t => tasks'[x] = tasks[x]
      /\ \A b \in Agents : b # a /\ b # t => agents'[b] = agents[b]
      /\ Running' = Running \cup {t} /\ t \notin Running
      /\ known' = known \cup {t}
  BY <1>0, SpawnDoes
<1> HIDE DEF t
<1>2. StatusTellsTheTruth'
  <2>1. \A x \in Tasks : x \notin Running => x # a
    BY <1>0, <1>1, HubIs
  <2>2. \A x \in Tasks : x # t /\ x \notin Running =>
          tasks'[x] = tasks[x] /\ agents'[x] = agents[x]
    BY <1>1, <2>1, NumbersAre
  <2>3. \A x \in Tasks : x = t \/ x \in Running => tasks'[x].status = "running"
    BY <1>1 DEF Running
  <2>4. QED BY <2>2, <2>3 DEF RosterInv, StatusTellsTheTruth
<1>3. RosterIsBounded'
  <2>1. IsFiniteSet(known) /\ IsFiniteSet(Running)
    <3>1. IsFiniteSet(Tasks)
      BY FS_Interval DEF Tasks
    <3>2. QED BY <1>0, <3>1, HubIs, FS_Subset
  <2>2. /\ Cardinality(Running') = Cardinality(Running) + 1
        /\ Cardinality(known') <= Cardinality(known) + 1
    <3>1. Cardinality(Running \cup {t}) = Cardinality(Running) + 1
      BY <1>1, <2>1, FS_AddElement
    <3>2. Cardinality(known) \in Nat
      BY <2>1, FS_CardinalityType
    <3>3. Cardinality(known \cup {t}) \in {Cardinality(known), Cardinality(known) + 1}
      BY <2>1, FS_AddElement
    <3>4. QED BY <1>1, <3>1, <3>2, <3>3
  <2>3. /\ Cardinality(known) \in Nat /\ Cardinality(Running) \in Nat
        /\ Cardinality(known') \in Nat
    <3>1. IsFiniteSet(known')
      BY <1>1, <2>1, FS_AddElement
    <3>2. QED BY <2>1, <3>1, FS_CardinalityType
  <2>4. Cardinality(known) <= MaxKnown + Cardinality(Running) /\ Running \subseteq known
    BY DEF RosterInv, RosterIsBounded
  <2>5. Cardinality(known') <= MaxKnown + Cardinality(Running')
    BY <2>2, <2>3, <2>4
  <2>6. QED BY <1>1, <2>4, <2>5 DEF RosterIsBounded
<1>4. QED BY <1>2, <1>3 DEF RosterPart

LEMMA ResultsSpawn ==
  ASSUME ResultsInv, NEW a \in Agents, Spawn(a)
  PROVE  ResultsPart'
<1> DEFINE t == counter + 1
<1>0. LoopInv
  BY DEF ResultsInv
<1>1. /\ t \in Tasks /\ t # a /\ tasks'[t].status = "running"
      /\ \A x \in Tasks : x # t => tasks'[x] = tasks[x]
      /\ agents' \in [Agents -> AgentSet]
      /\ \A b \in Agents : b # a /\ b # t => agents'[b] = agents[b]
      /\ agents'[a].live = agents[a].live
      /\ News(agents', a) = News(agents, a) /\ Answers(agents', a) = Answers(agents, a)
      /\ agents'[t].live /\ News(agents', t) = {} /\ Answers(agents', t) = {}
      /\ Running' = Running \cup {t} /\ t \notin Running
      /\ UNCHANGED <<waiters, closed>>
  BY <1>0, SpawnDoes
<1>2. tasks[t] = NoTask /\ t # 0
  BY <1>0, <1>1, HubIs DEF LoopInv, Numbered, Tasks
<1> HIDE DEF t
<1>3. \A b \in Agents : b # t => /\ News(agents', b) = News(agents, b)
                                  /\ Answers(agents', b) = Answers(agents, b)
  BY <1>1 DEF News, Answers
<1>4. \A b \in Agents : b # t => CanAct(b)' = CanAct(b)
  BY <1>1, NumbersAre DEF CanAct
<1>5. NewsIsOfSettled'
  <2>1. SUFFICES ASSUME NEW b \in Agents,
                        NEW x \in News(agents', b) \cup Answers(agents', b), x # 0
                 PROVE  tasks'[x].status \in {"finished", "failed"}
    BY DEF NewsIsOfSettled, News, Answers
  <2>2. b # t /\ x \in News(agents, b) \cup Answers(agents, b)
    BY <1>1, <1>3, <2>1
  <2>3. x \in Tasks
    BY <1>0, <2>1, <2>2, HubIs, NumbersAre DEF News, Answers, AgentSet
  <2>4. tasks[x].status \in {"finished", "failed"}
    BY <2>1, <2>2 DEF ResultsInv, NewsIsOfSettled, News, Answers
  <2>5. QED BY <1>1, <1>2, <2>3, <2>4 DEF NoTask
<1>6. NoResultLost'
  <2>1. SUFFICES ASSUME NEW x \in Tasks, tasks'[x].status \in {"finished", "failed"},
                        NEW q, q = tasks'[x].parent, CanAct(q)'
                 PROVE  x \in News(agents', q) \cup Answers(agents', q)
    BY DEF NoResultLost, News, Answers
  <2>2. x # t /\ tasks'[x] = tasks[x] /\ q = tasks[x].parent /\ q \in Agents
    BY <1>0, <1>1, <2>1, HubIs
  <2>3. q # t
    \* A settled sub-agent was started by an older one.
    <3>1. x <= counter /\ counter \in Nat /\ x \in Nat
      <4>1. counter \in Nat /\ x \in Nat
        BY <1>0, HubIs, NumbersAre
      <4>2. tasks[x] # NoTask
        BY <2>1, <2>2 DEF NoTask
      <4>3. QED BY <1>0, <4>1, <4>2 DEF LoopInv, Numbered
    <3>2. q < x /\ q \in Nat
      BY <1>0, <2>2, <3>1, NumbersAre DEF LoopInv, Numbered
    <3>3. t = counter + 1
      BY DEF t
    <3>4. QED BY <3>1, <3>2, <3>3
  <2>4. CanAct(q)
    BY <1>4, <2>1, <2>2, <2>3
  <2>5. x \in News(agents, q) \cup Answers(agents, q)
    BY <2>1, <2>2, <2>4 DEF ResultsInv, ResultsArriveOnce, NoResultLost, News, Answers
  <2>6. QED BY <1>3, <2>2, <2>3, <2>5
<1>7. ToldOnce'
  <2>1. SUFFICES ASSUME NEW b \in Agents
                 PROVE  News(agents', b) \cap Answers(agents', b) = {}
    BY DEF ToldOnce, News, Answers
  <2>2. News(agents, b) \cap Answers(agents, b) = {}
    BY DEF ResultsInv, ResultsArriveOnce, ToldOnce, News, Answers
  <2>3. QED BY <1>1, <1>3, <2>2
<1>8. NobodyWaitsForNothing'
  <2>1. SUFFICES ASSUME NEW w \in waiters
                 PROVE  w[1] \in Running' /\ agents'[w[2]].live /\ CanAct(w[2])'
    BY <1>1 DEF NobodyWaitsForNothing
  <2>2. w[1] \in Running /\ agents[w[2]].live /\ CanAct(w[2]) /\ w[2] \in Agents
    BY <1>0, HubIs DEF ResultsInv, ResultsArriveOnce, NobodyWaitsForNothing
  <2>3. w[2] # t
    BY <1>2, <2>2, <1>0, <1>1, HubIs
  <2>4. QED BY <1>1, <1>4, <2>2, <2>3
<1>9. QED BY <1>5, <1>6, <1>7, <1>8 DEF ResultsPart, ResultsArriveOnce

(***************************************************************************)
(* The session is closed.                                                  *)
(***************************************************************************)
LEMMA CloseDoes ==
  ASSUME LoopInv, Close
  PROVE  /\ tasks' \in [Tasks -> TaskSet] /\ agents' \in [Agents -> AgentSet]
         /\ \A t \in Running : /\ tasks'[t].status = "aborted"
                               /\ tasks'[t].parent = tasks[t].parent
                               /\ tasks'[t].depth = tasks[t].depth
                               /\ tasks'[t].delegates = tasks[t].delegates
                               /\ tasks'[t].pc \in {"over", "threw"}
         /\ \A t \in Tasks \ Running : tasks'[t] = tasks[t]
         /\ \A a \in Running \cup {Main} :
              /\ ~ agents'[a].live /\ ~ agents'[a].own
              /\ agents'[a].inbox = {} /\ agents'[a].landing = {}
              /\ agents'[a].notices = agents[a].notices
              /\ agents'[a].results = agents[a].results
         /\ \A t \in Tasks \ Running : agents'[t] = agents[t]
         /\ Running' = {} /\ known' = {} /\ closed' = TRUE
         /\ waiters' = {w \in waiters : w[1] \notin Running /\ w[2] # Main}
         /\ UNCHANGED <<counter, talks>>
<1>1. /\ tasks' = [t \in Tasks |-> IF t \in Running THEN ClosedTask(tasks[t])
                                                    ELSE tasks[t]]
      /\ agents' = [a \in Agents |-> ClosedAgent(a)]
  BY DEF Close
<1>2. ASSUME NEW t \in Running
      PROVE  /\ ClosedTask(tasks[t]) \in TaskSet
             /\ ClosedTask(tasks[t]).status = "aborted"
             /\ ClosedTask(tasks[t]).parent = tasks[t].parent
             /\ ClosedTask(tasks[t]).depth = tasks[t].depth
             /\ ClosedTask(tasks[t]).delegates = tasks[t].delegates
             /\ ClosedTask(tasks[t]).pc \in {"over", "threw"}
  <2>1. tasks[t] \in TaskSet
    BY HubIs
  <2>2. QED BY <2>1 DEF ClosedTask, TaskSet, Statuses
<1>3. /\ tasks' \in [Tasks -> TaskSet]
      /\ \A t \in Running : tasks'[t] = ClosedTask(tasks[t])
      /\ \A t \in Tasks \ Running : tasks'[t] = tasks[t]
  BY <1>1, <1>2, HubIs
<1>4. \A a \in Agents :
        /\ Stopped(agents[a]) \in AgentSet
        /\ ~ Stopped(agents[a]).live /\ ~ Stopped(agents[a]).own
        /\ Stopped(agents[a]).inbox = {} /\ Stopped(agents[a]).landing = {}
        /\ Stopped(agents[a]).notices = agents[a].notices
        /\ Stopped(agents[a]).results = agents[a].results
  BY HubIs, StoppedIs
<1>5. /\ agents' \in [Agents -> AgentSet]
      /\ \A a \in Running \cup {Main} : a \in Agents /\ agents'[a] = Stopped(agents[a])
      /\ \A t \in Tasks \ Running : agents'[t] = agents[t]
  BY <1>1, <1>4, HubIs, NumbersAre DEF ClosedAgent
<1>6. Running' = {}
  <2>1. \A t \in Tasks : tasks'[t].status # "running"
    BY <1>2, <1>3 DEF Running
  <2>2. QED BY <2>1 DEF Running
<1>7. /\ \A t \in Running : /\ tasks'[t].status = "aborted"
                            /\ tasks'[t].parent = tasks[t].parent
                            /\ tasks'[t].depth = tasks[t].depth
                            /\ tasks'[t].delegates = tasks[t].delegates
                            /\ tasks'[t].pc \in {"over", "threw"}
  BY <1>2, <1>3
<1>8. /\ \A a \in Running \cup {Main} :
           /\ ~ agents'[a].live /\ ~ agents'[a].own
           /\ agents'[a].inbox = {} /\ agents'[a].landing = {}
           /\ agents'[a].notices = agents[a].notices
           /\ agents'[a].results = agents[a].results
  BY <1>4, <1>5
<1>9. /\ known' = {} /\ closed' = TRUE
      /\ waiters' = {w \in waiters : w[1] \notin Running /\ w[2] # Main}
      /\ UNCHANGED <<counter, talks>>
  BY DEF Close
<1>10. QED BY <1>3, <1>5, <1>6, <1>7, <1>8, <1>9

LEMMA LoopsClose ==
  ASSUME LoopInv, Close
  PROVE  LoopInv'
<1>1. TypeOK'
  <2>1. waiters' \subseteq Tasks \X Agents /\ counter' \in 0 .. MaxTasks
        /\ talks' \in 0 .. MaxTalks /\ known' \subseteq Tasks /\ closed' \in BOOLEAN
    BY CloseDoes, HubIs
  <2>2. tasks' \in [Tasks -> TaskSet] /\ agents' \in [Agents -> AgentSet]
    BY CloseDoes
  <2>3. QED BY <2>1, <2>2 DEF TypeOK, TaskSet, AgentSet
<1>2. Numbered'
  <2>1. \A t \in Tasks : t > counter => t \notin Running
    BY DEF LoopInv, Numbered, Running, NoTask
  <2>2. \A t \in Tasks : t > counter' => tasks'[t] = NoTask /\ agents'[t] = NoAgent
    BY <2>1, CloseDoes DEF LoopInv, Numbered
  <2>3. \A t \in Tasks : t <= counter' => tasks'[t].status # "none"
                                          /\ tasks'[t].parent < t
    BY CloseDoes DEF LoopInv, Numbered
  <2>4. known' \subseteq 1 .. counter'
    BY CloseDoes
  <2>5. QED BY <2>2, <2>3, <2>4 DEF Numbered
<1>3. LoopsAndRuns'
  <2>1. \A t \in Tasks : ~ agents'[t].live
    BY CloseDoes DEF LoopInv, LoopsAndRuns
  <2>2. \A t \in Tasks : tasks'[t].pc \notin {"run", "sleep"}
    BY CloseDoes DEF LoopInv, LoopsAndRuns
  <2>3. ~ agents'[Main].own /\ ~ agents'[Main].live /\ Running' = {}
    BY CloseDoes
  <2>4. QED BY <2>1, <2>2, <2>3 DEF LoopsAndRuns
<1>4. DelegatesAreShallow'
  BY CloseDoes DEF LoopInv, DelegatesAreShallow
<1>5. QED BY <1>1, <1>2, <1>3, <1>4 DEF LoopInv

LEMMA RosterCloses ==
  ASSUME RosterInv, Close
  PROVE  RosterPart'
<1>1. LoopInv
  BY DEF RosterInv
<1>2. StatusTellsTheTruth'
  BY <1>1, CloseDoes DEF RosterInv, StatusTellsTheTruth
<1>3. RosterIsBounded'
  <2>1. Running' = {} /\ known' = {}
    BY <1>1, CloseDoes
  <2>2. Cardinality({}) = 0
    BY FS_EmptySet
  <2>3. QED BY <2>1, <2>2 DEF RosterIsBounded
<1>4. QED BY <1>2, <1>3 DEF RosterPart

\* Nobody can act any more, and nobody waits: the waits were of running agents
\* and of the main one.
LEMMA ResultsClose ==
  ASSUME ResultsInv, Close
  PROVE  ResultsPart'
<1>1. LoopInv
  BY DEF ResultsInv
<1>2. \A a \in Agents : ~ CanAct(a)'
  <2>1. closed' = TRUE /\ Running' = {}
    BY <1>1, CloseDoes
  <2>2. QED BY <2>1, NumbersAre DEF CanAct, Running
<1>3. \A a \in Agents : /\ News(agents', a) \subseteq News(agents, a)
                        /\ Answers(agents', a) \subseteq Answers(agents, a)
  <2>1. \A a \in Agents : a \in Running \cup {Main} \/ a \in Tasks \ Running
    BY NumbersAre
  <2>2. QED BY <1>1, <2>1, CloseDoes DEF News, Answers
<1>4. NewsIsOfSettled'
  <2>1. SUFFICES ASSUME NEW a \in Agents,
                        NEW x \in News(agents', a) \cup Answers(agents', a), x # 0
                 PROVE  tasks'[x].status \in {"finished", "failed"}
    BY DEF NewsIsOfSettled, News, Answers
  <2>2. x \in News(agents, a) \cup Answers(agents, a)
    BY <1>3, <2>1
  <2>3. x \in Tasks
    BY <1>1, <2>1, <2>2, HubIs, NumbersAre DEF News, Answers, AgentSet
  <2>4. tasks[x].status \in {"finished", "failed"}
    BY <2>1, <2>2 DEF ResultsInv, NewsIsOfSettled, News, Answers
  <2>5. QED BY <1>1, <2>3, <2>4, CloseDoes DEF Running
<1>5. NoResultLost'
  <2>1. \A t \in Tasks : tasks'[t].parent \in Agents
    BY <1>1, CloseDoes DEF TaskSet
  <2>2. SUFFICES ASSUME NEW t \in Tasks, NEW q, q = tasks'[t].parent, CanAct(q)'
                 PROVE  FALSE
    BY DEF NoResultLost, CanAct
  <2>3. QED BY <1>2, <2>1, <2>2
<1>6. ToldOnce'
  <2>1. SUFFICES ASSUME NEW a \in Agents
                 PROVE  News(agents', a) \cap Answers(agents', a) = {}
    BY DEF ToldOnce, News, Answers
  <2>2. News(agents, a) \cap Answers(agents, a) = {}
    BY DEF ResultsInv, ResultsArriveOnce, ToldOnce, News, Answers
  <2>3. QED BY <1>3, <2>2
<1>7. NobodyWaitsForNothing'
  <2>1. \A w \in waiters : w[1] \in Running
    BY DEF ResultsInv, ResultsArriveOnce, NobodyWaitsForNothing
  <2>2. waiters' = {}
    BY <1>1, <2>1, CloseDoes
  <2>3. QED BY <2>2 DEF NobodyWaitsForNothing
<1>8. QED BY <1>4, <1>5, <1>6, <1>7 DEF ResultsPart, ResultsArriveOnce

(***************************************************************************)
(* The theorems.  Without "steerAsleep": a message that reaches a          *)
(* sub-agent while it backs off begins a run that its loop does not await, *)
(* and a run may go on after the sub-agent has been reported settled.      *)
(***************************************************************************)
Hub == "steerAsleep" \notin Env

LEMMA AtTheStart ==
  ASSUME Init
  PROVE  LoopInv /\ RosterPart /\ ResultsPart
<1>1. \A t \in Tasks : tasks[t] = NoTask /\ agents[t] = NoAgent
  BY NumbersAre DEF Init
<1>2. TypeOK
  <2>1. tasks \in [Tasks -> TaskSet] /\ agents \in [Agents -> AgentSet]
    BY NothingIs DEF Init
  <2>2. /\ waiters \subseteq Tasks \X Agents /\ known \subseteq Tasks
        /\ counter \in 0 .. MaxTasks /\ talks \in 0 .. MaxTalks
    <3>1. waiters = {} /\ known = {} /\ counter = 0 /\ talks = 0
      BY DEF Init
    <3>2. QED BY <3>1
  <2>3. closed \in BOOLEAN
    BY DEF Init
  <2>4. QED BY <2>1, <2>2, <2>3 DEF TypeOK, TaskSet, AgentSet
<1>3. Running = {}
  BY <1>1 DEF Running, NoTask
<1>4. Numbered
  BY <1>1 DEF Init, Numbered, Tasks
<1>5. LoopsAndRuns /\ DelegatesAreShallow
  BY <1>1, <1>3, NumbersAre DEF Init, LoopsAndRuns, DelegatesAreShallow, NoTask, NoAgent
<1>6. StatusTellsTheTruth
  BY <1>1 DEF StatusTellsTheTruth, NoTask
<1>7. RosterIsBounded
  BY <1>3, FS_EmptySet DEF Init, RosterIsBounded
<1>8. NewsIsOfSettled /\ ToldOnce
  BY DEF Init, NewsIsOfSettled, ToldOnce, NoAgent
<1>9. NoResultLost /\ NobodyWaitsForNothing
  BY <1>1 DEF Init, NoResultLost, NobodyWaitsForNothing, NoTask
<1>10. QED
  BY <1>2, <1>4, <1>5, <1>6, <1>7, <1>8, <1>9
     DEF LoopInv, RosterPart, ResultsPart, ResultsArriveOnce

\* A step that changes nothing keeps everything.
LEMMA Stutter ==
  ASSUME UNCHANGED vars
  PROVE  /\ LoopInv => LoopInv'
         /\ RosterPart => RosterPart'
         /\ ResultsPart => ResultsPart'
<1>1. LoopInv => LoopInv'
  BY DEF vars, LoopInv, TypeOK, Numbered, LoopsAndRuns, DelegatesAreShallow, Running
<1>2. RosterPart => RosterPart'
  BY DEF vars, RosterPart, StatusTellsTheTruth, RosterIsBounded, Running
<1>3. ResultsPart => ResultsPart'
  BY DEF vars, ResultsPart, NewsIsOfSettled, ResultsArriveOnce, NoResultLost, ToldOnce,
         NobodyWaitsForNothing, CanAct, Running
<1>4. QED BY <1>1, <1>2, <1>3

\* The loops and their runs stay together.
LEMMA LoopStep ==
  ASSUME Hub, LoopInv, [Next]_vars
  PROVE  LoopInv'
<1>1. ASSUME NEW a \in Agents, Spawn(a) PROVE LoopInv'
  BY <1>1, LoopsSpawn
<1>2. ASSUME NEW a \in Agents, Wait(a) PROVE LoopInv'
  BY <1>2, TalksWait, LoopsTalk
<1>3. ASSUME NEW a \in Agents, Send(a) PROVE LoopInv'
  BY <1>3, TalksSend, LoopsTalk DEF Hub
<1>4. ASSUME NEW a \in Agents, TurnEnds(a) PROVE LoopInv'
  <2>1. TurnTalks \/ (a \in Tasks /\ (TurnGoesOn(a) \/ TurnSettles(a)))
    BY <1>4, TurnDoes
  <2>2. ASSUME TurnTalks PROVE LoopInv'
    BY <2>2, LoopsTalk DEF TurnTalks
  <2>3. ASSUME a \in Tasks, TurnGoesOn(a) PROVE LoopInv'
    BY <2>3, StepGoesOn DEF TurnGoesOn
  <2>4. ASSUME a \in Tasks, TurnSettles(a) PROVE LoopInv'
    BY <2>4, LoopsSettle DEF TurnSettles, Hub
  <2>5. QED BY <2>1, <2>2, <2>3, <2>4
<1>5. ASSUME NEW t \in Tasks, Wake(t) PROVE LoopInv'
  BY <1>5, WakeDoes, StepGoesOn
<1>6. ASSUME NEW w \in waiters, Timeout(w) PROVE LoopInv'
  BY <1>6, TalksTimeout, LoopsTalk
<1>7. CASE Prompt
  BY <1>7, TalksPrompt, LoopsTalk
<1>8. CASE Stop
  BY <1>8, TalksStop, LoopsTalk
<1>9. CASE Close
  BY <1>9, LoopsClose
<1>10. CASE UNCHANGED vars
  BY <1>10, Stutter
<1>11. QED
  BY <1>1, <1>2, <1>3, <1>4, <1>5, <1>6, <1>7, <1>8, <1>9, <1>10 DEF Next

LEMMA RosterStep ==
  ASSUME Hub, "failAfterTool" \notin Env, RosterInv, [Next]_vars
  PROVE  RosterInv'
<1>0. LoopInv /\ RosterPart
  BY DEF RosterInv, RosterPart
<1> SUFFICES RosterPart'
  BY <1>0, LoopStep DEF RosterInv, RosterPart
<1>1. ASSUME NEW a \in Agents, Spawn(a) PROVE RosterPart'
  BY <1>1, RosterSpawns
<1>2. ASSUME Talks PROVE RosterPart'
  BY <1>2, RosterTalks DEF RosterPart
<1>3. ASSUME NEW a \in Agents, Wait(a) \/ Send(a) PROVE RosterPart'
  BY <1>0, <1>2, <1>3, TalksWait, TalksSend DEF Hub
<1>4. ASSUME NEW a \in Agents, TurnEnds(a) PROVE RosterPart'
  <2>1. TurnTalks \/ (a \in Tasks /\ (TurnGoesOn(a) \/ TurnSettles(a)))
    BY <1>0, <1>4, TurnDoes
  <2>2. ASSUME TurnTalks PROVE RosterPart'
    BY <1>2, <2>2 DEF TurnTalks
  <2>3. ASSUME a \in Tasks, TurnGoesOn(a) PROVE RosterPart'
    BY <2>3, RosterGoesOn DEF TurnGoesOn
  <2>4. ASSUME a \in Tasks, TurnSettles(a) PROVE RosterPart'
    BY <2>4, RosterSettles DEF TurnSettles, Hub
  <2>5. QED BY <2>1, <2>2, <2>3, <2>4
<1>5. ASSUME NEW t \in Tasks, Wake(t) PROVE RosterPart'
  BY <1>0, <1>5, WakeDoes, RosterGoesOn
<1>6. ASSUME NEW w \in waiters, Timeout(w) PROVE RosterPart'
  BY <1>0, <1>2, <1>6, TalksTimeout
<1>7. ASSUME Prompt \/ Stop PROVE RosterPart'
  BY <1>0, <1>2, <1>7, TalksPrompt, TalksStop
<1>8. CASE Close
  BY <1>8, RosterCloses
<1>9. CASE UNCHANGED vars
  BY <1>0, <1>9, Stutter
<1>10. QED
  BY <1>1, <1>3, <1>4, <1>5, <1>6, <1>7, <1>8, <1>9 DEF Next

LEMMA ResultsStep ==
  ASSUME Hub, "stopBusy" \notin Env, ResultsInv, [Next]_vars
  PROVE  ResultsInv'
<1>0. LoopInv /\ ResultsPart /\ NobodyWaitsForNothing
  BY DEF ResultsInv, ResultsPart, ResultsArriveOnce
<1> SUFFICES ResultsPart'
  BY <1>0, LoopStep DEF ResultsInv, ResultsPart
<1>1. ASSUME NEW a \in Agents, Spawn(a) PROVE ResultsPart'
  BY <1>1, ResultsSpawn
<1>2. ASSUME Talks, TalksTell PROVE ResultsPart'
  BY <1>2, ResultsTalk DEF ResultsPart
<1>3. ASSUME NEW a \in Agents, Wait(a) \/ Send(a) PROVE ResultsPart'
  BY <1>0, <1>2, <1>3, TalksWait, TalksSend DEF Hub
<1>4. ASSUME NEW a \in Agents, TurnEnds(a) PROVE ResultsPart'
  <2>1. TurnTalks \/ (a \in Tasks /\ (TurnGoesOn(a) \/ TurnSettles(a)))
    BY <1>0, <1>4, TurnDoes
  <2>2. ASSUME TurnTalks PROVE ResultsPart'
    BY <1>0, <1>2, <2>2 DEF TurnTalks
  <2>3. ASSUME a \in Tasks, TurnGoesOn(a) PROVE ResultsPart'
    BY <2>3, ResultsGoOn DEF TurnGoesOn
  <2>4. ASSUME a \in Tasks, TurnSettles(a) PROVE ResultsPart'
    BY <2>4, ResultsSettle DEF TurnSettles, Hub
  <2>5. QED BY <2>1, <2>2, <2>3, <2>4
<1>5. ASSUME NEW t \in Tasks, Wake(t) PROVE ResultsPart'
  <2>1. GoesOn(t) /\ agents'[t].live /\ News(agents', t) = News(agents, t)
        /\ Answers(agents', t) = Answers(agents, t)
    BY <1>0, <1>5, WakeDoes
  <2>2. QED BY <1>5, <2>1, ResultsGoOn
<1>6. ASSUME NEW w \in waiters, Timeout(w) PROVE ResultsPart'
  BY <1>0, <1>2, <1>6, TalksTimeout
<1>7. ASSUME Prompt \/ Stop PROVE ResultsPart'
  BY <1>0, <1>2, <1>7, TalksPrompt, TalksStop
<1>8. CASE Close
  BY <1>8, ResultsClose
<1>9. CASE UNCHANGED vars
  BY <1>0, <1>9, Stutter
<1>10. QED
  BY <1>1, <1>3, <1>4, <1>5, <1>6, <1>7, <1>8, <1>9 DEF Next

\* The roster can be believed (SubagentRegistry, and the loops of TaskHub that
\* settle its entries): it names every sub-agent that runs, no settled one has
\* a live run, "finished" and "failed" are what became of the work, and it stays
\* bounded.  A turn that fails after its tools answered ("failAfterTool") ends
\* as a finished one.
THEOREM RosterCanBeBelieved ==
  ASSUME Hub, "failAfterTool" \notin Env
  PROVE  Spec => []RosterIsTrue
<1>1. Init => RosterInv
  BY AtTheStart DEF RosterInv, RosterPart
<1>2. RosterInv /\ [Next]_vars => RosterInv'
  BY RosterStep
<1>3. RosterInv => RosterIsTrue
  BY DEF RosterInv, RosterIsTrue, LoopInv, LoopsAndRuns, SettledIsDone
<1>4. QED BY <1>1, <1>2, <1>3, PTL DEF Spec

\* A result reaches the agent that started the sub-agent, through the wait of
\* that agent or as a notification and not both, and no wait is left for one
\* that has settled (TaskHub.finalize, SubagentRegistry.settleWaiters), also
\* when the main agent is stopped or the session is closed.  The stop that
\* drops a result on its way into the run ("stopBusy") is not one of its steps.
THEOREM ResultsAlwaysArrive ==
  ASSUME Hub, "stopBusy" \notin Env
  PROVE  Spec => []ResultsArriveOnce
<1>1. Init => ResultsInv
  BY AtTheStart DEF ResultsInv, ResultsPart
<1>2. ResultsInv /\ [Next]_vars => ResultsInv'
  BY ResultsStep
<1>3. ResultsInv => ResultsArriveOnce
  BY DEF ResultsInv
<1>4. QED BY <1>1, <1>2, <1>3, PTL DEF Spec

===============================================================================
