--------------------------- MODULE McpAttachments ---------------------------
(***************************************************************************)
(* The MCP servers of one session.  A manager (mcp/manager.ts) keeps one   *)
(* connection per server, shared by every call; an attachment              *)
(* (mcp/attachment.ts) discovers its tools once; the session's host        *)
(* (agent/mcp-host.ts) and its sub-agents' hub (tools/task-hub.ts) put     *)
(* them into the two registries (tools/registries.ts) calls are made       *)
(* through.  A change of the configuration or a sign-in replaces manager   *)
(* and attachment (agent/pool.ts, agent/factory.ts) while discoveries,     *)
(* calls, prompts and the close of the one before are still under way.     *)
(*                                                                         *)
(* A manager and its attachment are one number; 0 is none.  An action is   *)
(* what runs between two awaits.  A tool stands for all tools of its       *)
(* server.  The server processes and the protocol are external: they       *)
(* connect, answer, refuse or go away.                                     *)
(***************************************************************************)
EXTENDS Naturals, FiniteSets, FiniteSetsExt

CONSTANTS
    Servers,        \* numbers, in the order of the configuration
    NeedsAuth,      \* those that refuse who has not signed in
    Configs,        \* sets of servers that may be configured
    MaxManagers, MaxConns, MaxCalls, MaxPrompts,
    MaxAtOnce,      \* calls under way together
    MaxLosses,      \* connections that fail or go away
    MaxChanges      \* changes of the configuration, sign-ins and rebuilds

ASSUME McpAssumption ==
    /\ Servers \subseteq Nat \ {0} /\ IsFiniteSet(Servers)
    /\ NeedsAuth \subseteq Servers /\ Configs \subseteq SUBSET Servers
    /\ {MaxManagers, MaxConns} \subseteq Nat \ {0}
    /\ {MaxCalls, MaxAtOnce, MaxPrompts, MaxLosses, MaxChanges} \subseteq Nat

Managers == 1 .. MaxManagers
Conns == 1 .. MaxConns
Calls == 1 .. MaxAtOnce
Prompts == 1 .. MaxPrompts
Agents == {"main", "sub"}

VARIABLES
    man,        \* the managers, each with its discovery
    conn,       \* the connections
    call,       \* the calls
    mcp,        \* the pool's attachment of the session
    host,       \* the one the agent's host has adopted
    handled,    \* the one the sub-agents' hub has registered for
    ready,      \* #readyDone: prompts need not wait
    registry,   \* whose tool each agent finds for a server
    streaming,  \* its run is live
    session,    \* "open", "killing", "closing", "closed"
    prompt,     \* prompts that wait for a discovery
    config,     \* the servers that are configured
    granted,    \* the servers a sign-in stored a grant for
    signIn,     \* the sign-in
    losses, changes,
    called,     \* calls so far
    undue,      \* history: why calls failed that should not have
    hushed      \* history: grants stored for a sign-in that was cancelled

history  == <<called, undue, hushed>>
parts    == <<mcp, host, handled>>
wires    == <<man, conn>>
user     == <<config, granted, signIn>>
conv     == <<streaming, session, prompt>>
vars == <<man, conn, call, mcp, host, handled, ready, registry,
          streaming, session, prompt, config, granted, signIn, losses, changes,
          called, undue, hushed>>

NoConn == [m |-> 0, s |-> 0, st |-> "none", auth |-> FALSE, swept |-> FALSE]
NoMap == [s \in Servers |-> 0]
NoTools == [a \in Agents |-> NoMap]
NoManager ==
    [phase |-> "none", config |-> {}, clients |-> NoMap, pending |-> NoMap,
     at |-> 0, found |-> {}, auth |-> {}, done |-> FALSE]
NoCall == [st |-> "none", by |-> "sub", m |-> 0, conn |-> 0, try |-> 1,
           stopped |-> FALSE]
NoPrompt == [st |-> "none", on |-> 0]

Open(m) == man[m].phase = "open"
Waiting(c) == {k \in Calls : call[k].st = "connecting" /\ call[k].conn = c}
Sent(c) == {k \in Calls : call[k].st = "sent" /\ call[k].conn = c}

(***************************************************************************)
(* Connections.                                                            *)
(***************************************************************************)
\* A connection's number is used again when nothing refers to it any more.
Slot == Min({c \in Conns : conn[c].st = "none"})

\* Bound: there is a number for a connection that is begun.
RoomFor(begun) == begun => \E c \in Conns : conn[c].st = "none"

\* getClient(): nobody is registered or on the way, so a connection is begun.
\* It is made with the grant that is stored at that moment.
Begun(m, s) == [m |-> m, s |-> s, st |-> "connecting", swept |-> FALSE,
                auth |-> s \in NeedsAuth => s \in granted]

\* Mutation: every attempt that comes again begins a connection of its own.
AnotherConn(m, s) == Slot

\* The connection a second attempt awaits: the one on the way, or a new one.
NextConn(m, s) == IF man[m].pending[s] # 0 THEN man[m].pending[s] ELSE Slot

\* dropClient(): what is registered is forgotten and closed, unawaited.
Dropped(cs, c) ==
    IF c = 0 THEN cs
    ELSE [cs EXCEPT ![c] = IF @.st = "dead" THEN NoConn
                           ELSE [@ EXCEPT !.st = "closing"]]

(***************************************************************************)
(* Discovery (McpManager.listTools, McpAttachment.ready).                  *)
(***************************************************************************)
\* The servers after s, in order.
After(cfg, s) == {t \in cfg : t > s}

\* The loop of listTools() is over behind server s; on a closed manager
\* getClient() throws for each server that is left.
Over(rec, s) == After(rec.config, s) = {} \/ rec.phase # "open"

\* Otherwise it asks for the next connection.
Onward(m, rec, s) ==
    IF Over(rec, s)
    THEN [rec EXCEPT !.at = 0, !.done = TRUE]
    ELSE LET t == Min(After(rec.config, s)) IN
         [rec EXCEPT !.at = t, !.pending[t] = Slot]

\* The connection Onward asks for.
OnwardConn(cs, m, rec) ==
    IF rec.done THEN cs ELSE [cs EXCEPT ![Slot] = Begun(m, rec.at)]

\* addTools() of the discovered tools of m to the registries of as.
Added(reg, as, m, found) ==
    [a \in Agents |-> [s \in Servers |->
        IF a \in as /\ s \in found THEN m ELSE reg[a][s]]]

\* Mutation: every discovery that ends is merged, replaced or not.
HearsEverybody(m) == Agents

\* The registries a finished discovery of m reaches: both through the host
\* whose generation it still is, the sub-agents' through the hub.
Hears(m) ==
    IF session # "open" THEN {}
    ELSE (IF host = m THEN Agents ELSE {})
         \cup (IF handled = m THEN {"sub"} ELSE {})

Waits(p) == prompt[p].st \in {"waiting", "left"}

\* Mutation: the end of a discovery on a closed session releases nobody.
WokenWhileOpen(m) ==
    [p \in Prompts |->
        IF Waits(p) /\ prompt[p].on = m /\ session = "open"
        THEN [NoPrompt EXCEPT !.st = "started"] ELSE prompt[p]]

\* A prompt that waited for m goes on: it starts a run, or joins it, unless
\* its agent was closed meanwhile.
Woken(m) ==
    [p \in Prompts |->
        IF Waits(p) /\ prompt[p].on = m
        THEN [NoPrompt EXCEPT !.st =
                 IF session = "open" /\ prompt[p].st = "waiting"
                 THEN "started" ELSE "dropped"]
        ELSE prompt[p]]

\* The agent is replaced: prompts that wait are left with the old one.
Left == [p \in Prompts |-> IF prompt[p].st = "waiting"
                            THEN [prompt[p] EXCEPT !.st = "left"] ELSE prompt[p]]

\* The discovery of m is at server s and goes on from record rec; when that
\* was the last server, whoever waits hears of it at once.
Discovers(m, rec, cs, s) ==
    LET next == Onward(m, rec, s) IN
    /\ RoomFor(~ Over(rec, s))
    /\ man' = [man EXCEPT ![m] = next]
    /\ conn' = OnwardConn(cs, m, next)
    /\ IF next.done
       THEN /\ registry' = Added(registry, Hears(m), m, next.found)
            /\ ready' = (ready \/ host = m)
            /\ prompt' = Woken(m)
            /\ streaming' = (streaming \/ \E p \in Prompts :
                               prompt[p].st = "waiting" /\ prompt'[p].st = "started")
       ELSE UNCHANGED <<registry, ready, prompt, streaming>>
    /\ UNCHANGED <<parts, call, session, user, changes, history>>

(***************************************************************************)
(* Connections begin, fail and go away.                                    *)
(***************************************************************************)
Listing(m, c) == man[m].at # 0 /\ man[m].clients[man[m].at] = c

\* The connection is there: it is registered, also by a manager that is being
\* closed, and who waited for it sends its request.  A call that was stopped
\* meanwhile ends there.
Connected(c) ==
    LET m == conn[c].m  s == conn[c].s IN
    /\ conn[c].st = "connecting" /\ conn[c].auth
    /\ conn' = [conn EXCEPT ![c].st = "open"]
    /\ man' = [man EXCEPT ![m].pending[s] = 0, ![m].clients[s] = c]
    /\ call' = [k \in Calls |->
          IF k \notin Waiting(c) THEN call[k]
          ELSE IF call[k].stopped
               THEN NoCall ELSE [call[k] EXCEPT !.st = "sent"]]
    /\ UNCHANGED <<parts, ready, registry, conv, user, losses, changes, history>>

\* It is refused or fails: the calls that waited for it fail, a discovery
\* records the error, and whether a sign-in is needed, and goes on.
Refused(c) ==
    LET m == conn[c].m  s == conn[c].s
        rec == [man[m] EXCEPT !.pending[s] = 0]
        cs == [conn EXCEPT ![c] = NoConn]
    IN
    /\ conn[c].st = "connecting"
    /\ IF conn[c].auth THEN losses < MaxLosses /\ losses' = losses + 1
                       ELSE UNCHANGED losses
    /\ IF man[m].at = s
       THEN Discovers(m, [rec EXCEPT !.auth = IF conn[c].auth THEN @ \ {s}
                                              ELSE @ \cup {s}], cs, s)
       ELSE /\ man' = [man EXCEPT ![m] = rec] /\ conn' = cs
            /\ call' = [k \in Calls |-> IF k \in Waiting(c) THEN NoCall ELSE call[k]]
            /\ UNCHANGED <<parts, ready, registry, conv, user, changes, history>>

\* The server's tools are listed.
Listed(m) ==
    LET s == man[m].at IN
    /\ s # 0 /\ man[m].clients[s] # 0
    /\ Discovers(m, [man[m] EXCEPT !.found = @ \cup {s}, !.auth = @ \ {s}],
                 conn, s)
    /\ UNCHANGED losses

\* The listing fails: the connection is dropped and the next server is asked.
ListFails(m) ==
    LET s == man[m].at IN
    /\ s # 0 /\ man[m].clients[s] # 0 /\ losses < MaxLosses
    /\ losses' = losses + 1
    /\ Discovers(m, [man[m] EXCEPT !.clients[s] = 0, !.auth = @ \ {s}],
                 Dropped(conn, man[m].clients[s]), s)

\* The connection c is no more: each request on it fails.  A first attempt
\* drops what is registered for the server and asks for a connection, which
\* those attempts share; a second one is final, and so is one on a manager
\* that is closed meanwhile.
Gone(c, byServer) ==
    LET m == conn[c].m  s == conn[c].s
        first == {k \in Sent(c) : call[k].try = 1}
        again == IF Open(m) THEN first ELSE {}
        mine == man[m].clients[s]
        pending == NextConn(m, s)
        lost == [conn EXCEPT ![c] = IF mine = c /\ first = {}
                                    THEN [@ EXCEPT !.st = "dead"] ELSE NoConn]
        dropped == IF first = {} \/ mine = c THEN lost ELSE Dropped(lost, mine)
    IN
    /\ RoomFor(again # {} /\ man[m].pending[s] = 0)
    /\ conn' = IF again # {} /\ man[m].pending[s] = 0
               THEN [dropped EXCEPT ![Slot] = Begun(m, s)] ELSE dropped
    /\ man' = IF first = {} THEN man
              ELSE [man EXCEPT ![m].clients[s] = 0,
                       ![m].pending[s] = IF again # {} THEN pending ELSE @]
    /\ call' = [k \in Calls |->
          IF k \in again
          THEN [call[k] EXCEPT !.st = "connecting", !.try = 2, !.conn = pending]
          ELSE IF k \in Sent(c) THEN NoCall ELSE call[k]]
    /\ undue' = undue \cup
          (IF Sent(c) \ again = {} \/ byServer THEN {}
           ELSE IF Open(m) THEN {"dropped"}
           ELSE IF m = mcp /\ session = "open" THEN {"closed"} ELSE {})
    /\ UNCHANGED <<called, hushed>>

\* A server process dies, a stream breaks.  A discovery that was listing there
\* takes it as the server's failure.
Lost(c) ==
    LET m == conn[c].m IN
    /\ conn[c].st = "open" /\ losses < MaxLosses /\ ~ Listing(m, c)
    /\ losses' = losses + 1
    /\ Gone(c, TRUE)
    /\ UNCHANGED <<parts, ready, registry, conv, user, changes>>

\* A close that was begun is through.
Closed(c) ==
    LET m == conn[c].m IN
    /\ conn[c].st = "closing"
    /\ IF Listing(m, c)
       THEN Discovers(m, [man[m] EXCEPT !.clients[conn[c].s] = 0,
                                        !.auth = @ \ {conn[c].s}],
                      [conn EXCEPT ![c] = NoConn], conn[c].s)
       ELSE /\ Gone(c, FALSE)
            /\ UNCHANGED <<parts, ready, registry, conv, user, changes>>
    /\ UNCHANGED losses

(***************************************************************************)
(* Calls (McpManager.callTool).                                            *)
(***************************************************************************)
\* An agent calls a tool of server s: through what its registry holds.
CallTool(k, a, s) ==
    LET m == registry[a][s]
        c == man[m].clients[s]
        begins == [NoCall EXCEPT !.by = a, !.m = m]
    IN
    /\ call[k].st = "none" /\ \A j \in Calls : j < k => call[j].st # "none"
    /\ called < MaxCalls /\ called' = called + 1
    /\ session = "open" /\ (a = "main" => streaming) /\ m # 0
    /\ IF ~ Open(m)
       THEN undue' = undue \cup {"stale"} /\ UNCHANGED <<wires, call>>
       ELSE IF c # 0 /\ conn[c].st # "dead"
       THEN /\ call' = [call EXCEPT ![k] =
                          [begins EXCEPT !.st = "sent", !.conn = c]]
            /\ UNCHANGED <<wires, undue>>
       ELSE IF man[m].pending[s] # 0
       THEN /\ call' = [call EXCEPT ![k] = [begins EXCEPT !.st = "connecting",
                                               !.conn = man[m].pending[s]]]
            /\ UNCHANGED <<wires, undue>>
       ELSE \* Nothing is registered, or what is there fails at once.
            /\ RoomFor(TRUE)
            /\ call' = [call EXCEPT ![k] =
                  [begins EXCEPT !.st = "connecting", !.conn = Slot,
                                 !.try = IF c = 0 THEN 1 ELSE 2]]
            /\ man' = [man EXCEPT ![m].clients[s] = 0, ![m].pending[s] = Slot]
            /\ conn' = [Dropped(conn, c) EXCEPT ![Slot] = Begun(m, s)]
            /\ UNCHANGED undue
    /\ UNCHANGED <<parts, ready, registry, conv, user, losses, changes, hushed>>

\* The server answers, with an error of its own or not at all in time: final.
Answered(k) ==
    /\ call[k].st = "sent"
    /\ call' = [call EXCEPT ![k] = NoCall]
    /\ UNCHANGED <<wires, parts, ready, registry, conv, user, losses, changes,
                   history>>

\* One call fails and nothing else: the connection is dropped all the same.
ProtocolError(k) ==
    LET c == call[k].conn  m == conn[c].m  s == conn[c].s
        mine == man[m].clients[s]
    IN
    /\ call[k].st = "sent" /\ call[k].try = 1 /\ Open(m) /\ losses < MaxLosses
    /\ losses' = losses + 1
    /\ RoomFor(man[m].pending[s] = 0)
    /\ LET pending == NextConn(m, s) IN
       /\ call' = [call EXCEPT ![k] = [@ EXCEPT !.st = "connecting", !.try = 2,
                                                !.conn = pending]]
       /\ man' = [man EXCEPT ![m].clients[s] = 0, ![m].pending[s] = pending]
       /\ conn' = IF man[m].pending[s] # 0 THEN Dropped(conn, mine)
                  ELSE [Dropped(conn, mine) EXCEPT ![Slot] = Begun(m, s)]
    /\ UNCHANGED <<parts, ready, registry, conv, user, changes, history>>

(***************************************************************************)
(* Managers begin and end.                                                 *)
(***************************************************************************)
\* The first server of a new manager is asked at once.
Created(m, cfg) ==
    Onward(m, [NoManager EXCEPT !.phase = "open", !.config = cfg], 0)

Unused == Min({m \in Managers : man[m].phase = "none"})

\* removeShared(): the tools of the servers that went away.
Removed(reg, found) ==
    [a \in Agents |-> [s \in Servers |-> IF s \in found THEN 0 ELSE reg[a][s]]]

\* A new manager for the configuration cfg takes the place of the current one,
\* whose close is begun and not awaited.  In place, host and hub adopt it and
\* the tools found before are taken out; with a new agent go new registries.
Swap(cfg, inPlace) ==
    LET m == Unused  rec == Created(m, cfg) IN
    /\ \E x \in Managers : man[x].phase = "none"    \* bound: MaxManagers
    /\ RoomFor(cfg # {})
    /\ man' = [x \in Managers |->
                  IF x = m THEN rec
                  ELSE IF x = mcp /\ Open(x) THEN [man[x] EXCEPT !.phase = "sweeping"]
                  ELSE man[x]]
    /\ conn' = OnwardConn(conn, m, rec)
    /\ mcp' = m /\ host' = m /\ handled' = m
    /\ ready' = (cfg = {})
    /\ IF inPlace
       THEN /\ registry' = Removed(registry, IF man[mcp].done THEN man[mcp].found
                                                              ELSE {})
            /\ UNCHANGED prompt
       ELSE registry' = NoTools /\ prompt' = Left

\* McpManager.close(): one registered client after the other is closed; then
\* the connections on the way are awaited, and closed in turn.
Registered(m) == {man[m].clients[s] : s \in Servers} \ {0}
Sweeping(m) == \E c \in Conns :
                  conn[c].m = m /\ conn[c].st = "closing" /\ conn[c].swept

\* Mutation: the connections on the way are not waited for.
NobodyOnTheWay(m) == FALSE

OnTheWay(m) == \E s \in Servers : man[m].pending[s] # 0

SweepNext(m) ==
    /\ man[m].phase = "sweeping" /\ ~ Sweeping(m)
    /\ \E c \in Registered(m) :
          /\ conn[c].st = "open"
          /\ conn' = [conn EXCEPT ![c].st = "closing", ![c].swept = TRUE]
    /\ UNCHANGED <<man, parts, call, ready, registry, conv, user, losses,
                   changes, history>>

SweepEnds(m) ==
    /\ man[m].phase = "sweeping" /\ ~ Sweeping(m)
    /\ \A c \in Registered(m) : conn[c].st # "open"
    /\ IF OnTheWay(m)
       THEN man' = [man EXCEPT ![m].phase = "awaiting"] /\ UNCHANGED conn
       ELSE /\ man' = [man EXCEPT ![m].phase = "closed", ![m].clients = NoMap,
                                  ![m].found = IF m = mcp THEN @ ELSE {}]
            /\ conn' = [c \in Conns |-> IF c \in Registered(m) /\ conn[c].st = "dead"
                                        THEN NoConn ELSE conn[c]]
    /\ UNCHANGED <<parts, call, ready, registry, conv, user, losses,
                   changes, history>>

SweepAgain(m) ==
    /\ man[m].phase = "awaiting" /\ ~ OnTheWay(m)
    /\ man' = [man EXCEPT ![m].phase = "sweeping"]
    /\ UNCHANGED <<conn, parts, call, ready, registry, conv, user, losses,
                   changes, history>>

(***************************************************************************)
(* The session.                                                            *)
(***************************************************************************)
\* runPrompt(): a prompt waits for the discovery its host is at.
Prompt(p) ==
    /\ prompt[p].st = "none" /\ \A q \in Prompts : q < p => prompt[q].st # "none"
    /\ session = "open"
    /\ prompt' = [prompt EXCEPT ![p] =
          [st |-> IF ready THEN "started" ELSE "waiting",
           on |-> IF ready THEN 0 ELSE host]]
    /\ streaming' = (streaming \/ ready)
    /\ UNCHANGED <<wires, parts, call, ready, registry, session, user,
                   losses, changes, history>>

Pending(as) == {k \in Calls : /\ call[k].by \in as /\ ~ call[k].stopped
                              /\ call[k].st \in {"connecting", "sent"}}

RunEnds ==
    /\ streaming /\ Pending({"main"}) = {}
    /\ streaming' = FALSE
    /\ UNCHANGED <<wires, parts, call, ready, registry, session, prompt,
                   user, losses, changes, history>>

\* A stop ends the requests; a call that awaits its connection ends with that.
Stopped(as) ==
    [k \in Calls |->
        IF k \notin Pending(as) THEN call[k]
        ELSE IF call[k].st = "sent" THEN NoCall
        ELSE [call[k] EXCEPT !.stopped = TRUE]]

Stop ==
    /\ streaming
    /\ streaming' = FALSE
    /\ call' = Stopped({"main"})
    /\ UNCHANGED <<wires, parts, ready, registry, session, prompt, user,
                   losses, changes, history>>

\* The configuration is edited (applyMcpConfigChange): a streaming session has
\* its servers replaced in place, an idle one is rebuilt onto new ones.
ChangeConfig(cfg) ==
    /\ changes < MaxChanges /\ cfg # config /\ session = "open"
    /\ changes' = changes + 1
    /\ config' = cfg
    /\ Swap(cfg, streaming)
    /\ UNCHANGED <<call, streaming, session, granted, signIn, losses, history>>

\* An idle session is rebuilt for another reason: the new agent's host adopts
\* the attachment that is there.
Rebuild ==
    /\ changes < MaxChanges /\ session = "open" /\ ~ streaming
    /\ changes' = changes + 1
    /\ prompt' = Left
    /\ host' = mcp
    /\ ready' = (man[mcp].done \/ config = {})
    /\ registry' = IF man[mcp].done
                   THEN Added(registry, Agents, mcp, man[mcp].found) ELSE registry
    /\ UNCHANGED <<wires, mcp, handled, call, streaming, session, user, losses,
                   history>>

\* SessionPool.close(): agents first, then the background commands, then the
\* servers.
Close ==
    /\ session = "open"
    /\ session' = "killing"
    /\ streaming' = FALSE
    /\ call' = Stopped(Agents)
    /\ UNCHANGED <<wires, parts, ready, registry, prompt, user, losses,
                   changes, history>>

CloseServers ==
    /\ session = "killing"
    /\ session' = "closing"
    /\ man' = [man EXCEPT ![mcp].phase = "sweeping"]
    /\ UNCHANGED <<conn, parts, call, ready, registry, streaming, prompt,
                   user, losses, changes, history>>

CloseResolves ==
    /\ session = "closing" /\ man[mcp].phase = "closed"
    /\ session' = "closed"
    /\ UNCHANGED <<wires, parts, call, ready, registry, streaming, prompt,
                   user, losses, changes, history>>

(***************************************************************************)
(* Sign-ins (mcp/oauth-session.ts, McpService.completeAuth).               *)
(***************************************************************************)
others == <<call, session, streaming, losses>>
still == <<wires, parts, ready, registry, prompt, others, changes, config>>
NoSignIn == [s |-> 0, st |-> "none", cancelled |-> FALSE]

\* The browser has come back with a code.  Before that a sign-in changes nothing
\* here.
BeginSignIn(s) ==
    /\ signIn.st = "none" /\ changes < MaxChanges
    /\ changes' = changes + 1
    /\ signIn' = [NoSignIn EXCEPT !.s = s, !.st = "exchanging"]
    /\ UNCHANGED <<wires, parts, ready, registry, prompt, others, config, granted,
                   history>>

CancelSignIn ==
    /\ signIn.st = "exchanging"
    /\ signIn' = [signIn EXCEPT !.cancelled = TRUE]
    /\ UNCHANGED <<still, granted, history>>

\* finishAuth(): the grant is stored, whatever became of the sign-in.
Exchanged ==
    /\ signIn.st = "exchanging"
    /\ granted' = granted \cup {signIn.s}
    /\ IF signIn.cancelled
       THEN signIn' = NoSignIn /\ hushed' = hushed \cup {signIn.s}
       ELSE signIn' = [signIn EXCEPT !.st = "done"] /\ UNCHANGED hushed
    /\ UNCHANGED <<still, called, undue>>

ExchangeFails ==
    /\ signIn.st = "exchanging"
    /\ signIn' = NoSignIn
    /\ UNCHANGED <<still, granted, history>>

Reaches(s) == session = "open" /\ s \in config

\* refreshSessionsUsing(): the session gets a new manager, in place when it
\* streams.
SignedIn ==
    /\ signIn.st = "done"
    /\ signIn' = NoSignIn
    /\ IF Reaches(signIn.s) THEN Swap(config, streaming)
       ELSE UNCHANGED <<wires, parts, ready, registry, prompt>>
    /\ UNCHANGED <<others, changes, config, granted, history>>

(***************************************************************************)
(* The specification.                                                      *)
(***************************************************************************)
\* A session has just been opened.
Init ==
    /\ config \in Configs /\ granted = {} /\ signIn = NoSignIn
    /\ conn = IF config = {} THEN [c \in Conns |-> NoConn]
              ELSE [c \in Conns |-> IF c # 1 THEN NoConn ELSE
                     [NoConn EXCEPT !.m = 1, !.s = Min(config), !.st = "connecting",
                                    !.auth = Min(config) \notin NeedsAuth]]
    /\ man = [m \in Managers |->
                IF m # 1 THEN NoManager
                ELSE [NoManager EXCEPT
                        !.phase = "open", !.config = config, !.done = config = {},
                        !.at = IF config = {} THEN 0 ELSE Min(config),
                        !.pending = [s \in Servers |->
                           IF config # {} /\ s = Min(config) THEN 1 ELSE 0]]]
    /\ call = [k \in Calls |-> NoCall] /\ prompt = [p \in Prompts |-> NoPrompt]
    /\ mcp = 1 /\ host = 1 /\ handled = 1
    /\ ready = (config = {}) /\ registry = NoTools
    /\ streaming = FALSE /\ session = "open"
    /\ losses = 0 /\ changes = 0 /\ called = 0 /\ undue = {}
    /\ hushed = {}

ConnStep(c) == Connected(c) \/ Refused(c) \/ Lost(c) \/ Closed(c)
ManagerStep(m) ==
    Listed(m) \/ ListFails(m) \/ SweepNext(m) \/ SweepEnds(m) \/ SweepAgain(m)
CallStep(k) ==
    \/ Answered(k) \/ ProtocolError(k)
    \/ \E a \in Agents, s \in Servers : CallTool(k, a, s)
SessionStep ==
    \/ \E p \in Prompts : Prompt(p)
    \/ \E cfg \in Configs : ChangeConfig(cfg)
    \/ RunEnds \/ Stop \/ Rebuild \/ Close \/ CloseServers \/ CloseResolves
SignInStep ==
    \/ \E s \in NeedsAuth : BeginSignIn(s)
    \/ CancelSignIn \/ Exchanged \/ ExchangeFails \/ SignedIn

Next ==
    \/ \E c \in Conns : ConnStep(c)
    \/ \E m \in Managers : ManagerStep(m)
    \/ \E k \in Calls : CallStep(k)
    \/ SessionStep \/ SignInStep

Spec == Init /\ [][Next]_vars

\* Connecting, listing, calling and closing are bounded by timeouts of the
\* client; what an await has waited for goes on.
Progress ==
    \/ \E c \in Conns : Connected(c) \/ Refused(c) \/ Closed(c)
    \/ \E m \in Managers : Listed(m) \/ SweepNext(m) \/ SweepEnds(m) \/ SweepAgain(m)
    \/ \E k \in Calls : Answered(k)
    \/ CloseServers \/ CloseResolves

\* No step of these can be repeated for ever, so it is enough that one of them
\* is taken while there is one.
Fairness == WF_vars(Progress)

FairSpec == Spec /\ Fairness

(***************************************************************************)
(* Properties.                                                             *)
(***************************************************************************)
TypeOK ==
    /\ man \in [Managers ->
         [phase : {"none", "open", "sweeping", "awaiting", "closed"},
          config : SUBSET Servers, clients : [Servers -> 0 .. MaxConns],
          pending : [Servers -> 0 .. MaxConns], at : Servers \cup {0},
          found : SUBSET Servers, auth : SUBSET Servers, done : BOOLEAN]]
    /\ conn \in [Conns ->
         [m : 0 .. MaxManagers, s : Servers \cup {0}, auth : BOOLEAN,
          swept : BOOLEAN, st : {"none", "connecting", "open", "dead", "closing"}]]
    /\ call \in [Calls ->
         [st : {"none", "connecting", "sent"}, by : Agents, m : 0 .. MaxManagers,
          conn : 0 .. MaxConns, try : 1 .. 2, stopped : BOOLEAN]]
    /\ {mcp, host, handled} \subseteq Managers
    /\ registry \in [Agents -> [Servers -> 0 .. MaxManagers]]
    /\ prompt \in [Prompts -> [st : {"none", "waiting", "left", "started", "dropped"},
                               on : 0 .. MaxManagers]]
    /\ ready \in BOOLEAN /\ streaming \in BOOLEAN
    /\ session \in {"open", "killing", "closing", "closed"}
    /\ config \subseteq Servers /\ granted \subseteq NeedsAuth
    /\ called \in 0 .. MaxCalls /\ hushed \subseteq NeedsAuth
    /\ undue \subseteq {"closed", "dropped", "stale"}

\* No server process is left to itself: what is on the way or open is held by
\* its manager, and a manager whose close has returned has none of either, also
\* when the close came in the middle of a connect, a discovery or a retry
\* (manager.ts, getClient and close).
NothingOutlivesItsManager ==
    /\ TypeOK
    /\ \A c \in Conns :
         LET m == man[conn[c].m]  s == conn[c].s IN
         /\ conn[c].st = "connecting" => m.pending[s] = c /\ m.phase # "closed"
         /\ conn[c].st = "open" => m.clients[s] = c /\ m.phase # "closed"
    /\ session = "closed" => \A m \in Managers : ~ Open(m)

\* What agents find is what the configuration now in force offers: pool, host
\* and hub agree on the attachment, no tool of an older one is left, every tool
\* of this one is there, and no server asks for a sign-in that was made
\* (mcp-host.ts, "a discovery that finished after its attachment was replaced
\* must add nothing"; service.ts, refreshSessionsUsing).
ToolsAreTheCurrentOnes ==
    session = "open" =>
      /\ mcp = host /\ host = handled
      /\ Open(mcp) /\ man[mcp].config = config
      /\ \A a \in Agents, s \in Servers :
           registry[a][s] = IF man[mcp].done /\ s \in man[mcp].found THEN mcp ELSE 0
      /\ ready <=> man[mcp].done
      /\ \A s \in man[mcp].auth \cap granted : signIn.st = "done" \/ s \in hushed

\* A server of a manager has one connection at a time, on the way or open, and
\* a call that is out awaits that one, or the answer on one that is there or
\* being given up: also when calls that fail one after the other on a dead
\* connection drop each other's new one and come again (manager.ts, getClient,
\* "Dedupe concurrent connects for the same server", and callTool).
OneConnectionPerServer ==
    /\ \A c, d \in Conns :
          /\ {conn[c].st, conn[d].st} \subseteq {"connecting", "open"}
          /\ conn[c].m = conn[d].m /\ conn[c].s = conn[d].s
          => c = d
    /\ \A k \in Calls : call[k].st # "none" =>
          /\ call[k].conn \in Conns /\ conn[call[k].conn].m = call[k].m
          /\ call[k].st = "connecting" => conn[call[k].conn].st = "connecting"
          /\ call[k].st = "sent" => conn[call[k].conn].st \in {"open", "closing"}

Settled ==
    /\ \A k \in Calls : call[k].st = "none"
    /\ \A p \in Prompts : ~ Waits(p)
    /\ session \in {"open", "closed"}

\* Calls end, prompts do not wait for ever, a close resolves: whatever server
\* hangs, dies or is taken away meanwhile (manager.ts, callTool, listTools and
\* close; mcp-host.ts, ready).
EverythingAnswers == []<>Settled

\* "the MCP child processes are only guaranteed dead once it resolves"
\* (agent/pool.ts:113-115): a close leaves no connection behind.
ClosedMeansDead ==
    session = "closed" => \A c \in Conns : conn[c].st \in {"none", "dead"}

\* A call is not made to fail by what another one's failure dropped.
CallsDoNotFailOthers == "dropped" \notin undue

\* A prompt that waits for a discovery is delivered while the session is open.
PromptsAreDelivered ==
    session = "open" => \A p \in Prompts : prompt[p].st # "dropped"
=============================================================================
