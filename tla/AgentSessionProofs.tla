------------------------- MODULE AgentSessionProofs -------------------------
(***************************************************************************)
(* What holds of the pool, whatever connections come, go and replace one   *)
(* another, and of the clients at the other end of its connections, for    *)
(* any number of agents, clients, connections and messages.                *)
(***************************************************************************)
EXTENDS AgentSession, TLAPS

\* The map never names a connection that was not made yet, and a connection
\* that was made has an owner.
MapIsMade ==
    /\ \A a \in Agents : conns[a] # None => phase[conns[a]] # "unused"
    /\ \A c \in ConnId : phase[c] # "unused" => owner[c] \in Agents

\* The inductive invariant.  Without MapIsMade a new connection could already
\* be in the map under another agent.
IInv == PoolTypeOK /\ StatusMatchesMap /\ OpenIsCurrent /\ MapIsMade

\* The empty pool satisfies the invariant.
LEMMA InitIInv ==
    ASSUME PoolInit
    PROVE  IInv
  BY DEF PoolInit, IInv, PoolTypeOK, StatusMatchesMap, OpenIsCurrent, MapIsMade, IsOnline,
         None, Phase

\* HandleWebSocket keeps the invariant: it closes the one open connection the
\* agent had.
LEMMA ConnectIInv ==
    ASSUME IInv, NEW c \in ConnId, NEW a \in Agents, Connect(c, a)
    PROVE  IInv'
  <1>1. PoolTypeOK /\ c # None
    BY AgentPoolAssumption DEF IInv, ConnId, None
  <1>2. PoolTypeOK'
    BY <1>1 DEF PoolTypeOK, Connect, Phase
  <1>3. \A b \in Agents : b # a => conns[b] # c
    BY <1>1 DEF IInv, MapIsMade, Connect
  <1>4. StatusMatchesMap'
    <2>1. ASSUME NEW b \in Agents
          PROVE  /\ status'[b] = "online" <=> conns'[b] # None
                 /\ conns'[b] # None => owner'[conns'[b]] = b
      <3>1. CASE b = a
        BY <1>1, <3>1 DEF Connect, PoolTypeOK
      <3>2. CASE b # a
        BY <1>1, <1>3, <3>2 DEF Connect, PoolTypeOK, IInv, StatusMatchesMap, IsOnline
      <3>. QED
        BY <3>1, <3>2
    <2>. QED
      BY <2>1 DEF StatusMatchesMap, IsOnline
  <1>5. OpenIsCurrent'
    <2>1. ASSUME NEW d \in ConnId, phase'[d] \in {"greeting", "reading"}, ~closed'[d]
          PROVE  conns'[owner'[d]] = d
      <3>1. CASE d = c
        BY <1>1, <3>1 DEF Connect, PoolTypeOK
      <3>2. CASE d # c
        <4>1. /\ phase[d] \in {"greeting", "reading"} /\ ~closed[d] /\ d # conns[a]
              /\ owner'[d] = owner[d]
          BY <1>1, <2>1, <3>2 DEF Connect, PoolTypeOK
        <4>2. conns[owner[d]] = d /\ owner[d] \in Agents
          BY <4>1 DEF IInv, OpenIsCurrent, MapIsMade
        <4>. QED
          BY <1>1, <4>1, <4>2 DEF Connect, PoolTypeOK
      <3>. QED
        BY <3>1, <3>2
    <2>. QED
      BY <2>1 DEF OpenIsCurrent
  <1>6. MapIsMade'
    BY <1>1 DEF Connect, PoolTypeOK, IInv, MapIsMade
  <1>. QED
    BY <1>2, <1>4, <1>5, <1>6 DEF IInv

\* Sending auth_result keeps the invariant.
LEMMA GreetIInv ==
    ASSUME IInv, NEW c \in ConnId, Greet(c)
    PROVE  IInv'
  <1>1. PoolTypeOK
    BY DEF IInv
  <1>2. PoolTypeOK'
    BY <1>1 DEF PoolTypeOK, Greet, Phase
  <1>3. OpenIsCurrent'
    BY <1>1 DEF PoolTypeOK, Greet, IInv, OpenIsCurrent
  <1>4. MapIsMade'
    BY <1>1 DEF PoolTypeOK, Greet, IInv, MapIsMade, Phase
  <1>. QED
    BY <1>2, <1>3, <1>4 DEF IInv, Greet, StatusMatchesMap, IsOnline

\* readLoop keeps the invariant: whatever connection it throws out is closed.
LEMMA ReadLoopIInv ==
    ASSUME IInv, NEW c \in ConnId, ReadLoopEnds(c)
    PROVE  IInv'
  <1>. DEFINE a == owner[c]
  <1>1. PoolTypeOK /\ a \in Agents
    BY DEF IInv, MapIsMade, ReadLoopEnds
  <1>2. /\ closed' = [b \in ConnId |-> closed[b] \/ b = conns[a]]
        /\ conns' = [conns EXCEPT ![a] = None]
        /\ status' = [status EXCEPT ![a] = "offline"]
        /\ phase' = [phase EXCEPT ![c] = "over"]
        /\ owner' = owner /\ alive' = alive
    BY DEF ReadLoopEnds, disconnectAgent
  <1>. HIDE DEF a
  <1>3. PoolTypeOK'
    BY <1>1, <1>2 DEF PoolTypeOK, Phase
  <1>4. StatusMatchesMap'
    <2>1. ASSUME NEW b \in Agents
          PROVE  /\ status'[b] = "online" <=> conns'[b] # None
                 /\ conns'[b] # None => owner'[conns'[b]] = b
      <3>1. CASE b = a
        BY <1>1, <1>2, <3>1 DEF PoolTypeOK
      <3>2. CASE b # a
        BY <1>1, <1>2, <3>2 DEF PoolTypeOK, IInv, StatusMatchesMap, IsOnline
      <3>. QED
        BY <3>1, <3>2
    <2>. QED
      BY <2>1 DEF StatusMatchesMap, IsOnline
  <1>5. OpenIsCurrent'
    <2>1. ASSUME NEW d \in ConnId, phase'[d] \in {"greeting", "reading"}, ~closed'[d]
          PROVE  conns'[owner'[d]] = d
      <3>1. phase[d] \in {"greeting", "reading"} /\ ~closed[d] /\ d # conns[a]
        BY <1>1, <1>2, <2>1 DEF PoolTypeOK
      <3>2. conns[owner[d]] = d /\ owner[d] \in Agents
        BY <3>1 DEF IInv, OpenIsCurrent, MapIsMade
      <3>. QED
        BY <1>1, <1>2, <3>1, <3>2 DEF PoolTypeOK
    <2>. QED
      BY <2>1 DEF OpenIsCurrent
  <1>6. MapIsMade'
    <2>1. \A d \in ConnId : phase'[d] # "unused" <=> phase[d] # "unused"
      BY <1>1, <1>2 DEF PoolTypeOK, ReadLoopEnds
    <2>2. \A b \in Agents : conns'[b] # None => conns'[b] = conns[b] /\ conns[b] \in ConnId
      BY <1>1, <1>2 DEF PoolTypeOK
    <2>. QED
      BY <1>2, <2>1, <2>2 DEF IInv, MapIsMade
  <1>. QED
    BY <1>3, <1>4, <1>5, <1>6 DEF IInv

\* Sockets that break, one or many at a time, keep the invariant: the pool
\* does not see it.
LEMMA BreakIInv ==
    ASSUME IInv, alive' \in [ConnId -> BOOLEAN],
           UNCHANGED <<conns, status, owner, phase, closed>>
    PROVE  IInv'
  BY DEF IInv, PoolTypeOK, StatusMatchesMap, OpenIsCurrent, MapIsMade, IsOnline

\* Every step of the pool keeps the invariant.
LEMMA StepIInv ==
    ASSUME IInv, [PoolNext]_poolVars
    PROVE  IInv'
  <1>1. ASSUME NEW c \in ConnId, Break(c)
        PROVE  IInv'
    BY <1>1, BreakIInv DEF Break, IInv, PoolTypeOK
  <1>2. CASE UNCHANGED poolVars
    BY <1>2 DEF poolVars, IInv, PoolTypeOK, StatusMatchesMap, OpenIsCurrent, MapIsMade,
                IsOnline
  <1>. QED
    BY <1>1, <1>2, ConnectIInv, GreetIInv, ReadLoopIInv DEF PoolNext

\* The pool reports an agent online exactly when it has a connection of that
\* agent to send on, and an open connection is never forgotten, however
\* HandleWebSocket and the read loops interleave.
THEOREM PoolSafe == PoolSpec => [](PoolTypeOK /\ StatusMatchesMap /\ OpenIsCurrent)
  <1>1. PoolInit => IInv
    BY InitIInv
  <1>2. IInv /\ [PoolNext]_poolVars => IInv'
    BY StepIInv
  <1>3. IInv => PoolTypeOK /\ StatusMatchesMap /\ OpenIsCurrent
    BY DEF IInv
  <1>. QED
    BY <1>1, <1>2, <1>3, PTL DEF PoolSpec

-----------------------------------------------------------------------------
\* An agent that connected and is in the map no more was taken out of it by a
\* read loop of one of its connections.
TakenOut ==
    \A a \in Agents : conns[a] = None =>
        \/ \A c \in ConnId : owner[c] # a
        \/ \E d \in ConnId : owner[d] = a /\ phase[d] = "over"

\* TakenOut holds of the empty pool.
LEMMA InitTakenOut ==
    ASSUME PoolInit
    PROVE  TakenOut
  BY AgentPoolAssumption DEF PoolInit, TakenOut

\* A new connection puts its agent into the map and leaves the others alone.
LEMMA ConnectTakenOut ==
    ASSUME IInv, TakenOut, NEW c \in ConnId, NEW a \in Agents, Connect(c, a)
    PROVE  TakenOut'
  <1>1. /\ PoolTypeOK /\ c # None /\ phase[c] = "unused"
        /\ conns' = [conns EXCEPT ![a] = c] /\ owner' = [owner EXCEPT ![c] = a]
        /\ phase' = [phase EXCEPT ![c] = "greeting"]
    BY AgentPoolAssumption DEF IInv, ConnId, None, Connect
  <1>2. ASSUME NEW b \in Agents, conns'[b] = None
        PROVE  \/ \A d \in ConnId : owner'[d] # b
               \/ \E d \in ConnId : owner'[d] = b /\ phase'[d] = "over"
    <2>1. b # a /\ conns[b] = None
      BY <1>1, <1>2 DEF PoolTypeOK
    <2>2. CASE \A d \in ConnId : owner[d] # b
      BY <1>1, <2>1, <2>2 DEF PoolTypeOK
    <2>3. CASE \E d \in ConnId : owner[d] = b /\ phase[d] = "over"
      BY <1>1, <2>3 DEF PoolTypeOK
    <2>. QED
      BY <2>1, <2>2, <2>3 DEF TakenOut
  <1>. QED
    BY <1>2 DEF TakenOut

\* A connection that is over stays so, and a read loop that takes its agent
\* out of the map is over itself.
LEMMA OthersTakenOut ==
    ASSUME IInv, TakenOut, NEW c \in ConnId, Greet(c) \/ ReadLoopEnds(c)
    PROVE  TakenOut'
  <1>1. PoolTypeOK /\ owner' = owner
    BY DEF IInv, Greet, ReadLoopEnds
  <1>2. \A d \in ConnId : phase[d] = "over" => phase'[d] = "over"
    BY <1>1 DEF PoolTypeOK, Greet, ReadLoopEnds
  <1>3. CASE Greet(c)
    BY <1>1, <1>2, <1>3 DEF Greet, TakenOut
  <1>4. CASE ReadLoopEnds(c)
    <2>1. phase'[c] = "over" /\ conns' = [conns EXCEPT ![owner[c]] = None]
      BY <1>1, <1>4 DEF ReadLoopEnds, disconnectAgent, PoolTypeOK
    <2>. QED
      BY <1>1, <1>2, <2>1 DEF TakenOut, PoolTypeOK
  <1>. QED
    BY <1>3, <1>4

\* An agent that is listening is reported offline only after a read loop of
\* another of its connections took down the one it listens on.
LEMMA OfflineIsTakenOut ==
    ASSUME IInv, TakenOut
    PROVE  OfflineOnlyByEviction
  <1>1. ASSUME NEW c \in ConnId, phase[c] = "reading", ~IsOnline(owner[c])
        PROVE  /\ closed[c]
               /\ \E d \in ConnId : d # c /\ owner[d] = owner[c] /\ phase[d] = "over"
    <2>1. owner[c] \in Agents /\ conns[owner[c]] = None
      BY <1>1 DEF IInv, MapIsMade, StatusMatchesMap
    <2>2. closed[c]
      BY <1>1, <2>1 DEF IInv, PoolTypeOK, OpenIsCurrent, None, ConnId
    <2>3. PICK d \in ConnId : owner[d] = owner[c] /\ phase[d] = "over"
      BY <2>1 DEF TakenOut
    <2>. QED
      BY <1>1, <2>2, <2>3
  <1>. QED
    BY <1>1 DEF OfflineOnlyByEviction

\* However connections replace one another, an agent with a greeted connection
\* that is up is reported offline only because the read loop of another of its
\* connections has ended.
THEOREM PoolEvicts == PoolSpec => []OfflineOnlyByEviction
  <1>1. PoolInit => IInv /\ TakenOut
    BY InitIInv, InitTakenOut
  <1>2. IInv /\ TakenOut /\ [PoolNext]_poolVars => (IInv /\ TakenOut)'
    <2>1. ASSUME IInv, TakenOut, UNCHANGED <<conns, owner, phase>>
          PROVE  TakenOut'
      BY <2>1 DEF TakenOut
    <2>. QED
      BY <2>1, StepIInv, ConnectTakenOut, OthersTakenOut DEF PoolNext, Break, poolVars
  <1>3. IInv /\ TakenOut => OfflineOnlyByEviction
    BY OfflineIsTakenOut
  <1>. QED
    BY <1>1, <1>2, <1>3, PTL DEF PoolSpec

-----------------------------------------------------------------------------
Made(c) == phase[c] # "unused"

LoopPc == {"none", "start", "top", "read", "handle", "send", "over"}

\* The types of what AgentSession adds to the pool.
SessionTypeOK ==
    /\ client \in [ConnId -> Clients \cup {NoClient}]
    /\ field \in [Clients -> {None} \cup ConnId]
    /\ dialing \in [Clients -> {None} \cup ConnId]
    /\ loop \in [ConnId -> [pc : LoopPc, on : {None} \cup ConnId, msg : Messages \cup {NoMessage}]]
    /\ done \in [Clients -> BOOLEAN] /\ panicked \in [Clients -> BOOLEAN]
    /\ usage \in [Clients -> SUBSET {"reconnect", "close"}]
    /\ down \in [ConnId -> Seq(Messages \cup {"auth"})]
    /\ carrier \in [Messages -> [conn : {None} \cup ConnId, phase : Phase]]
    /\ refused \subseteq ConnId

\* Who uses a connection: the client that dialed it, and no other.
MadeHasClient == \A c \in ConnId : Made(c) => client[c] \in Clients
FieldIsOwn ==
    \A k \in Clients : field[k] # None => Made(field[k]) /\ client[field[k]] = k
DialIsOwn ==
    \A k \in Clients : dialing[k] # None =>
        Made(dialing[k]) /\ client[dialing[k]] = k /\ loop[dialing[k]].pc = "none"
LoopIsOwn ==
    \A c \in ConnId :
        /\ loop[c].pc # "none" => Made(c)
        /\ loop[c].pc = "read" =>
             loop[c].on \in ConnId /\ Made(loop[c].on) /\ client[loop[c].on] = client[c]

\* A client with two connections has reconnected.
TwoMeansReconnect ==
    \A c, d \in ConnId :
        Made(c) /\ Made(d) /\ c # d /\ client[c] = client[d] => "reconnect" \in usage[client[c]]

\* A client that was connected once and not closed has its one connection, and
\* has closed done only if the one read loop is over.
UsedOnce ==
    /\ \A c \in ConnId : Made(c) /\ usage[client[c]] = {} =>
         /\ field[client[c]] = c
         /\ done[client[c]] => loop[c].pc = "over"
    /\ \A k \in Clients : done[k] => \E c \in ConnId : Made(c) /\ client[c] = k

ClientInv ==
    /\ SessionTypeOK
    /\ MadeHasClient /\ FieldIsOwn /\ DialIsOwn /\ LoopIsOwn /\ TwoMeansReconnect
    /\ UsedOnce /\ PanicOnlyByUse

\* A connection that is over is down.
OverIsDown == \A c \in ConnId : phase[c] = "over" => ~Up(c)

\* Nobody but Connect reads from a connection it waits on, unless the client
\* has reconnected: a message that comes first was sent before the greeting,
\* and once it is greeted there is something to read.
Waiting(c) ==
    Made(c) /\ dialing[client[c]] = c /\ "reconnect" \notin usage[client[c]]
Overtaken(c) == \E m \in Messages : carrier[m] = [conn |-> c, phase |-> "greeting"]
AuthComesFirst ==
    \A c \in ConnId : Waiting(c) =>
        /\ down[c] # <<>> => Head(down[c]) = "auth" \/ Overtaken(c)
        /\ phase[c] = "reading" /\ Up(c) => down[c] # <<>>

\* Nothing is on the wire of a connection that was not made, and only one that
\* was made is refused.
WireIsMade ==
    /\ \A c \in ConnId : ~Made(c) => down[c] = <<>>
    /\ \A c \in refused : Made(c)

WireInv == OverIsDown /\ AuthComesFirst /\ WireIsMade /\ RefusedOnlyByOvertaking

SessionInv == IInv /\ TakenOut /\ ClientInv /\ WireInv

-----------------------------------------------------------------------------
\* The initial state satisfies the invariant.
LEMMA InitSession ==
    ASSUME Init
    PROVE  SessionInv
  <1>1. IInv /\ TakenOut
    BY InitIInv, InitTakenOut DEF Init
  <1>2. SessionTypeOK
    BY DEF Init, SessionTypeOK, NoLoop, LoopPc, Phase
  <1>3. ClientInv
    BY <1>2 DEF Init, PoolInit, ClientInv, MadeHasClient, FieldIsOwn, DialIsOwn, LoopIsOwn,
                TwoMeansReconnect, UsedOnce, PanicOnlyByUse, Made, NoLoop
  <1>4. WireInv
    BY DEF Init, PoolInit, WireInv, OverIsDown, AuthComesFirst, WireIsMade,
           RefusedOnlyByOvertaking, Waiting, Made
  <1>. QED
    BY <1>1, <1>3, <1>4 DEF SessionInv

\* The pool half of the invariant: every step is one of the pool's, or breaks
\* sockets, or leaves the pool alone.
LEMMA StepPool ==
    ASSUME SessionInv, [Next]_vars
    PROVE  IInv' /\ TakenOut'
  <1>1. IInv /\ TakenOut /\ PoolTypeOK /\ SessionTypeOK
    BY DEF SessionInv, ClientInv, IInv
  <1>2. ASSUME alive' \in [ConnId -> BOOLEAN], UNCHANGED <<conns, status, owner, phase, closed>>
        PROVE  IInv' /\ TakenOut'
    BY <1>1, <1>2, BreakIInv DEF TakenOut
  <1>3. ASSUME NEW c \in ConnId, NEW k \in Clients, Dial(c, k)
        PROVE  IInv' /\ TakenOut'
    BY <1>1, <1>3, ConnectIInv, ConnectTakenOut, AgentSessionAssumption DEF Dial
  <1>4. ASSUME NEW c \in ConnId, PoolStep(c)
        PROVE  IInv' /\ TakenOut'
    <2>1. CASE Greet(c) \/ ReadLoopEnds(c)
      BY <1>1, <2>1, GreetIInv, ReadLoopIInv, OthersTakenOut
    <2>2. CASE HandleAgentResponse(c)
      BY <1>1, <1>2, <2>2 DEF HandleAgentResponse, poolVars, PoolTypeOK
    <2>. QED
      BY <1>4, <2>1, <2>2 DEF PoolStep, AuthResult
  <1>5. ASSUME NEW k, Panic(k)
        PROVE  IInv' /\ TakenOut'
    BY <1>1, <1>2, <1>5 DEF Panic, PoolTypeOK
  <1>6. ASSUME UNCHANGED poolVars
        PROVE  IInv' /\ TakenOut'
    BY <1>1, <1>2, <1>6 DEF poolVars, PoolTypeOK
  <1>7. ASSUME NEW c \in ConnId, LoopStep(c)
        PROVE  IInv' /\ TakenOut'
    BY <1>5, <1>6, <1>7 DEF LoopStep, LoopUsesField, LoopReads, LoopEnds, SendResponse,
                            PostWebhook
  <1>8. ASSUME NEW c \in ConnId, Break(c)
        PROVE  IInv' /\ TakenOut'
    BY <1>1, <1>2, <1>8 DEF Break, PoolTypeOK
  <1>9. ASSUME NEW k \in Clients, Connected(k) \/ Close(k)
        PROVE  IInv' /\ TakenOut'
    BY <1>1, <1>2, <1>9 DEF Connected, Close, PoolTypeOK
  <1>10. ASSUME NEW m \in Messages, NEW a \in Agents, SendToAgent(m, a)
         PROVE  IInv' /\ TakenOut'
    BY <1>6, <1>10 DEF SendToAgent
  <1>11. CASE UNCHANGED vars
    BY <1>6, <1>11 DEF vars
  <1>. QED
    BY <1>3, <1>4, <1>7, <1>8, <1>9, <1>10, <1>11 DEF Next

-----------------------------------------------------------------------------
\* Every step but Dial leaves the set of connections that were made alone.
SameMade == \A c \in ConnId : Made(c)' <=> Made(c)

\* A step that leaves the clients alone keeps their invariant.
LEMMA SameClients ==
    ASSUME ClientInv, SameMade, SessionTypeOK', UNCHANGED clientVars
    PROVE  ClientInv'
  <1>1. UNCHANGED <<client, field, dialing, loop, done, panicked, usage>>
    BY DEF clientVars
  <1>2. \A k \in Clients : field[k] # None => field[k] \in ConnId
    BY DEF ClientInv, SessionTypeOK
  <1>3. \A k \in Clients : dialing[k] # None => dialing[k] \in ConnId
    BY DEF ClientInv, SessionTypeOK
  <1>4. FieldIsOwn' /\ DialIsOwn' /\ MadeHasClient'
    BY <1>1, <1>2, <1>3 DEF ClientInv, FieldIsOwn, DialIsOwn, MadeHasClient, SameMade
  <1>5. LoopIsOwn' /\ TwoMeansReconnect'
    BY <1>1 DEF ClientInv, LoopIsOwn, TwoMeansReconnect, SameMade
  <1>6. UsedOnce' /\ PanicOnlyByUse'
    BY <1>1 DEF ClientInv, UsedOnce, PanicOnlyByUse, SameMade
  <1>. QED
    BY <1>4, <1>5, <1>6 DEF ClientInv

\* A read loop that goes on keeps the invariant.
LEMMA LoopGoesOn ==
    ASSUME ClientInv, SameMade, NEW c \in ConnId,
           down' \in [ConnId -> Seq(Messages \cup {"auth"})],
           loop[c].pc \notin {"none", "over"},
           NEW p \in LoopPc \ {"none", "over"}, NEW x \in {None} \cup ConnId,
           NEW m \in Messages \cup {NoMessage},
           p = "read" => x # None /\ x = field[client[c]],
           LoopTo(c, p, x, m),
           UNCHANGED <<client, field, dialing, done, panicked, usage, carrier, refused>>
    PROVE  ClientInv'
  <1>1. SessionTypeOK /\ Made(c) /\ client[c] \in Clients
    BY DEF ClientInv, LoopIsOwn, MadeHasClient
  <1>2. /\ loop'[c].pc = p /\ loop'[c].on = x
        /\ \A d \in ConnId \ {c} : loop'[d] = loop[d]
    BY <1>1 DEF LoopTo, SessionTypeOK
  <1>3. \A k \in Clients : field[k] # None => field[k] \in ConnId
    BY <1>1 DEF SessionTypeOK
  <1>4. \A k \in Clients : dialing[k] # None => dialing[k] \in ConnId /\ dialing[k] # c
    BY <1>1 DEF SessionTypeOK, ClientInv, DialIsOwn
  <1>11. SessionTypeOK'
    <2>1. [pc |-> p, on |-> x, msg |-> m]
            \in [pc : LoopPc, on : {None} \cup ConnId, msg : Messages \cup {NoMessage}]
      OBVIOUS
    <2>2. loop' \in [ConnId ->
                       [pc : LoopPc, on : {None} \cup ConnId, msg : Messages \cup {NoMessage}]]
      BY <1>1, <2>1 DEF SessionTypeOK, LoopTo
    <2>. QED
      BY <1>1, <2>2 DEF SessionTypeOK
  <1>5. FieldIsOwn' /\ DialIsOwn' /\ MadeHasClient'
    BY <1>2, <1>3, <1>4 DEF ClientInv, FieldIsOwn, DialIsOwn, MadeHasClient, SameMade
  <1>6. p = "read" => x \in ConnId /\ Made(x) /\ client[x] = client[c]
    BY <1>1, <1>3 DEF ClientInv, FieldIsOwn
  <1>7. LoopIsOwn'
    BY <1>1, <1>2, <1>6 DEF ClientInv, LoopIsOwn, SameMade
  <1>8. TwoMeansReconnect' /\ PanicOnlyByUse'
    BY DEF ClientInv, TwoMeansReconnect, PanicOnlyByUse, SameMade
  <1>9. usage[client[c]] = {} => ~done[client[c]]
    BY <1>1 DEF ClientInv, UsedOnce
  <1>10. UsedOnce'
    BY <1>2, <1>9 DEF ClientInv, UsedOnce, SameMade
  <1>. QED
    BY <1>5, <1>7, <1>8, <1>10, <1>11 DEF ClientInv

\* A panic of a client that the application reconnected or closed keeps the
\* invariant: everything of that client is gone.
LEMMA PanicClients ==
    ASSUME ClientInv, SameMade, NEW k \in Clients, usage[k] # {}, Panic(k)
    PROVE  ClientInv'
  <1>1. SessionTypeOK
    BY DEF ClientInv
  <1>2. /\ panicked' = [panicked EXCEPT ![k] = TRUE]
        /\ field' = [field EXCEPT ![k] = None]
        /\ dialing' = [dialing EXCEPT ![k] = None]
        /\ loop' = [c \in ConnId |-> IF client[c] = k THEN NoLoop ELSE loop[c]]
        /\ UNCHANGED <<client, done, usage, down, carrier, refused>>
    BY DEF Panic, wireVars
  <1>3. NoLoop \in [pc : LoopPc, on : {None} \cup ConnId, msg : Messages \cup {NoMessage}]
    BY DEF NoLoop, LoopPc
  <1>4. SessionTypeOK'
    BY <1>1, <1>2, <1>3 DEF SessionTypeOK
  <1>5. \A j \in Clients : field'[j] # None => field'[j] = field[j] /\ field[j] \in ConnId
    BY <1>1, <1>2 DEF SessionTypeOK
  <1>6. \A j \in Clients : dialing'[j] # None =>
          dialing'[j] = dialing[j] /\ dialing[j] \in ConnId
    BY <1>1, <1>2 DEF SessionTypeOK
  <1>7. \A c \in ConnId : loop'[c].pc # "none" => loop'[c] = loop[c]
    BY <1>2 DEF NoLoop
  <1>8. NoLoop.pc = "none"
    BY DEF NoLoop
  <1>9. FieldIsOwn' /\ DialIsOwn' /\ MadeHasClient'
    BY <1>2, <1>5, <1>6, <1>8 DEF ClientInv, FieldIsOwn, DialIsOwn, MadeHasClient, SameMade
  <1>10. LoopIsOwn' /\ TwoMeansReconnect'
    BY <1>2, <1>7 DEF ClientInv, LoopIsOwn, TwoMeansReconnect, SameMade
  <1>11. PanicOnlyByUse'
    BY <1>1, <1>2 DEF SessionTypeOK, ClientInv, PanicOnlyByUse
  <1>12. \A c \in ConnId : Made(c) /\ usage[client[c]] = {} =>
           loop'[c] = loop[c] /\ field'[client[c]] = field[client[c]]
    BY <1>1, <1>2 DEF SessionTypeOK, ClientInv, MadeHasClient
  <1>13. UsedOnce'
    BY <1>2, <1>12 DEF ClientInv, UsedOnce, SameMade
  <1>. QED
    BY <1>4, <1>9, <1>10, <1>11, <1>13 DEF ClientInv

\* A read loop finds its field empty only in a client that was used twice or
\* closed.
LEMMA EmptyField ==
    ASSUME ClientInv, NEW c \in ConnId, loop[c].pc # "none", field[client[c]] = None
    PROVE  client[c] \in Clients /\ usage[client[c]] # {}
  BY DEF ClientInv, LoopIsOwn, MadeHasClient, UsedOnce, ConnId, None

\* The uses of the field by a read loop keep the invariant.
LEMMA LoopUsesClients ==
    ASSUME ClientInv, SameMade, NEW c \in ConnId, LoopUsesField(c)
    PROVE  ClientInv'
  <1>1. loop[c].pc \in {"start", "top"} /\ SessionTypeOK /\ client[c] \in Clients
    BY DEF LoopUsesField, ClientInv, LoopIsOwn, MadeHasClient
  <1>2. CASE field[client[c]] = None
    BY <1>1, <1>2, EmptyField, PanicClients DEF LoopUsesField
  <1>3. CASE field[client[c]] # None
    <2>1. /\ UNCHANGED <<wireVars, client, field, dialing, done, panicked, usage>>
          /\ \/ LoopTo(c, "top", None, NoMessage)
             \/ LoopTo(c, "read", field[client[c]], NoMessage)
      BY <1>3 DEF LoopUsesField
    <2>2. field[client[c]] \in ConnId
      BY <1>1, <1>3 DEF SessionTypeOK
    <2>3. /\ down' \in [ConnId -> Seq(Messages \cup {"auth"})]
          /\ UNCHANGED <<carrier, refused>>
      BY <1>1, <2>1 DEF SessionTypeOK, wireVars
    <2>4. /\ "top" \in LoopPc \ {"none", "over"} /\ "read" \in LoopPc \ {"none", "over"}
          /\ None \in {None} \cup ConnId /\ NoMessage \in Messages \cup {NoMessage}
          /\ loop[c].pc \notin {"none", "over"}
      BY <1>1 DEF LoopPc
    <2>5. CASE LoopTo(c, "top", None, NoMessage)
      BY <2>1, <2>3, <2>4, <2>5, LoopGoesOn
    <2>6. CASE LoopTo(c, "read", field[client[c]], NoMessage)
      BY <1>3, <2>1, <2>2, <2>3, <2>4, <2>6, LoopGoesOn
    <2>. QED
      BY <2>1, <2>5, <2>6
  <1>. QED
    BY <1>2, <1>3

\* So does a read, of a message or of auth_result.
LEMMA LoopReadsClients ==
    ASSUME ClientInv, SameMade, NEW c \in ConnId, LoopReads(c)
    PROVE  ClientInv'
  <1>. DEFINE x == loop[c].on
              f == Head(down[x])
  <1>1. /\ loop[c].pc = "read" /\ SessionTypeOK /\ x \in ConnId
        /\ down[x] \in Seq(Messages \cup {"auth"}) /\ down[x] # <<>>
    BY DEF LoopReads, ClientInv, LoopIsOwn, SessionTypeOK
  <1>2. f \in Messages \cup {"auth"} /\ Tail(down[x]) \in Seq(Messages \cup {"auth"})
    BY <1>1
  <1>3. /\ down' = [down EXCEPT ![x] = Tail(@)]
        /\ UNCHANGED <<client, field, dialing, done, panicked, usage, carrier, refused>>
        /\ \/ LoopTo(c, "top", None, NoMessage)
           \/ f # "auth" /\ LoopTo(c, "handle", None, f)
    BY DEF LoopReads
  <1>. HIDE DEF f, x
  <1>4. down' \in [ConnId -> Seq(Messages \cup {"auth"})]
    BY <1>1, <1>2, <1>3 DEF SessionTypeOK
  <1>6. /\ "top" \in LoopPc \ {"none", "over"} /\ "handle" \in LoopPc \ {"none", "over"}
        /\ None \in {None} \cup ConnId /\ NoMessage \in Messages \cup {NoMessage}
        /\ loop[c].pc \notin {"none", "over"}
    BY <1>1 DEF LoopPc
  <1>7. CASE LoopTo(c, "top", None, NoMessage)
    BY <1>3, <1>4, <1>6, <1>7, LoopGoesOn
  <1>8. CASE f # "auth" /\ LoopTo(c, "handle", None, f)
    <2>1. f \in Messages \cup {NoMessage}
      BY <1>2, <1>8
    <2>. QED
      BY <1>3, <1>4, <1>6, <1>8, <2>1, LoopGoesOn
  <1>. QED
    BY <1>3, <1>7, <1>8

\* So does the answer, over the connection or over HTTP.
LEMMA LoopAnswersClients ==
    ASSUME ClientInv, SameMade, NEW c \in ConnId, SendResponse(c) \/ PostWebhook(c)
    PROVE  ClientInv'
  <1>1. loop[c].pc \in {"handle", "send"} /\ SessionTypeOK
    BY DEF SendResponse, PostWebhook, ClientInv
  <1>2. loop[c].msg \in Messages \cup {NoMessage}
    BY <1>1 DEF SessionTypeOK
  <1>3. CASE field[client[c]] = None /\ Panic(client[c])
    BY <1>1, <1>3, EmptyField, PanicClients
  <1>4. CASE ~(field[client[c]] = None /\ Panic(client[c]))
    <2>1. /\ UNCHANGED <<client, field, dialing, done, panicked, usage, down, carrier, refused>>
          /\ \/ LoopTo(c, "top", None, NoMessage)
             \/ LoopTo(c, "send", None, loop[c].msg)
      BY <1>4 DEF SendResponse, PostWebhook, wireVars
    <2>2. down' \in [ConnId -> Seq(Messages \cup {"auth"})]
      BY <1>1, <2>1 DEF SessionTypeOK
    <2>3. /\ "top" \in LoopPc \ {"none", "over"} /\ "send" \in LoopPc \ {"none", "over"}
          /\ None \in {None} \cup ConnId /\ NoMessage \in Messages \cup {NoMessage}
          /\ loop[c].pc \notin {"none", "over"}
      BY <1>1 DEF LoopPc
    <2>4. CASE LoopTo(c, "top", None, NoMessage)
      BY <2>1, <2>2, <2>3, <2>4, LoopGoesOn
    <2>5. CASE LoopTo(c, "send", None, loop[c].msg)
      BY <1>2, <2>1, <2>2, <2>3, <2>5, LoopGoesOn
    <2>. QED
      BY <2>1, <2>4, <2>5
  <1>. QED
    BY <1>3, <1>4

\* The end of a read loop keeps the invariant: done is closed a second time
\* only by a second read loop.
LEMMA LoopEndsClients ==
    ASSUME ClientInv, SameMade, NEW c \in ConnId, LoopEnds(c)
    PROVE  ClientInv'
  <1>. DEFINE k == client[c]
  <1>1. loop[c].pc = "read" /\ SessionTypeOK /\ Made(c) /\ k \in Clients
    BY DEF LoopEnds, ClientInv, LoopIsOwn, MadeHasClient
  <1>2. CASE done[k]
    <2>1. usage[k] # {}
      BY <1>1, <1>2 DEF ClientInv, UsedOnce
    <2>. QED
      BY <1>1, <1>2, <2>1, PanicClients DEF LoopEnds
  <1>3. CASE ~done[k]
    <2>1. /\ done' = [done EXCEPT ![k] = TRUE]
          /\ loop' = [loop EXCEPT ![c] = [pc |-> "over", on |-> None, msg |-> NoMessage]]
          /\ UNCHANGED <<wireVars, client, field, dialing, panicked, usage>>
      BY <1>3 DEF LoopEnds, LoopTo
    <2>. HIDE DEF k
    <2>2. SessionTypeOK'
      BY <1>1, <2>1 DEF SessionTypeOK, wireVars, LoopPc
    <2>3. loop'[c].pc = "over" /\ \A d \in ConnId \ {c} : loop'[d] = loop[d]
      BY <1>1, <2>1 DEF SessionTypeOK
    <2>4. \A j \in Clients : dialing[j] # None => dialing[j] \in ConnId /\ dialing[j] # c
      BY <1>1 DEF SessionTypeOK, ClientInv, DialIsOwn
    <2>5. \A j \in Clients : field[j] # None => field[j] \in ConnId
      BY <1>1 DEF SessionTypeOK
    <2>6. FieldIsOwn' /\ DialIsOwn' /\ MadeHasClient'
      BY <2>1, <2>3, <2>4, <2>5 DEF ClientInv, FieldIsOwn, DialIsOwn, MadeHasClient, SameMade
    <2>7. LoopIsOwn' /\ TwoMeansReconnect' /\ PanicOnlyByUse'
      BY <1>1, <2>1, <2>3 DEF ClientInv, LoopIsOwn, TwoMeansReconnect, PanicOnlyByUse, SameMade
    <2>8. ASSUME NEW d \in ConnId, Made(d), usage[client[d]] = {}
          PROVE  field[client[d]] = d /\ (done'[client[d]] => loop'[d].pc = "over")
      <3>1. CASE d = c
        BY <2>3, <2>8, <3>1 DEF ClientInv, UsedOnce
      <3>2. CASE d # c
        <4>1. client[d] # k
          BY <1>1, <2>8, <3>2 DEF ClientInv, TwoMeansReconnect, k
        <4>2. done'[client[d]] = done[client[d]] /\ loop'[d] = loop[d]
          BY <1>1, <2>1, <2>3, <2>8, <3>2, <4>1 DEF SessionTypeOK, ClientInv, MadeHasClient
        <4>. QED
          BY <2>8, <4>2 DEF ClientInv, UsedOnce
      <3>. QED
        BY <3>1, <3>2
    <2>9. \A j \in Clients : done'[j] => \E d \in ConnId : Made(d) /\ client[d] = j
      BY <1>1, <2>1 DEF SessionTypeOK, ClientInv, UsedOnce, k
    <2>10. UsedOnce'
      BY <2>1, <2>8, <2>9 DEF UsedOnce, SameMade
    <2>. QED
      BY <2>2, <2>6, <2>7, <2>10 DEF ClientInv
  <1>. QED
    BY <1>2, <1>3

\* Connect keeps the invariant: a client that had a connection before is on
\* record as reconnected.
LEMMA DialClients ==
    ASSUME IInv, ClientInv, NEW c \in ConnId, NEW k \in Clients, Dial(c, k)
    PROVE  ClientInv'
  <1>1. PoolTypeOK /\ SessionTypeOK /\ c # None
    BY DEF IInv, ClientInv, ConnId, None
  <1>2. /\ ~panicked[k] /\ phase[c] = "unused" /\ phase' = [phase EXCEPT ![c] = "greeting"]
        /\ client' = [client EXCEPT ![c] = k]
        /\ field' = [field EXCEPT ![k] = c]
        /\ dialing' = [dialing EXCEPT ![k] = c]
        /\ usage' = IF \E b \in ConnId : client[b] = k
                      THEN [usage EXCEPT ![k] = @ \cup {"reconnect"}] ELSE usage
        /\ UNCHANGED <<loop, done, panicked, down, carrier, refused>>
    BY DEF Dial, Connect, wireVars
  <1>3. usage' \in [Clients -> SUBSET {"reconnect", "close"}]
    BY <1>1, <1>2 DEF SessionTypeOK
  <1>4. SessionTypeOK'
    BY <1>1, <1>2, <1>3 DEF SessionTypeOK
  <1>5. /\ Made(c)' /\ ~Made(c) /\ client'[c] = k
        /\ \A d \in ConnId \ {c} : (Made(d)' <=> Made(d)) /\ client'[d] = client[d]
    BY <1>1, <1>2 DEF PoolTypeOK, SessionTypeOK, Made
  <1>6. loop[c].pc = "none"
    BY <1>5 DEF ClientInv, LoopIsOwn
  <1>7. \A j \in Clients : field[j] # None => field[j] \in ConnId /\ field[j] # c
    BY <1>1, <1>5 DEF SessionTypeOK, ClientInv, FieldIsOwn
  <1>8. \A j \in Clients : dialing[j] # None => dialing[j] \in ConnId /\ dialing[j] # c
    BY <1>1, <1>5 DEF SessionTypeOK, ClientInv, DialIsOwn
  <1>9. /\ field'[k] = c /\ dialing'[k] = c
        /\ \A j \in Clients \ {k} : /\ field'[j] = field[j] /\ dialing'[j] = dialing[j]
                                   /\ usage'[j] = usage[j]
    BY <1>1, <1>2 DEF SessionTypeOK
  <1>10. /\ usage[k] \subseteq usage'[k]
         /\ (\E b \in ConnId : client[b] = k) => "reconnect" \in usage'[k]
    BY <1>1, <1>2 DEF SessionTypeOK
  <1>11. MadeHasClient' /\ FieldIsOwn'
    BY <1>5, <1>7, <1>9 DEF ClientInv, MadeHasClient, FieldIsOwn
  <1>12. DialIsOwn'
    BY <1>2, <1>5, <1>6, <1>8, <1>9 DEF ClientInv, DialIsOwn
  <1>13. LoopIsOwn'
    <2>1. \A d \in ConnId : loop[d].pc = "read" => loop[d].on # c /\ d # c
      BY <1>5, <1>6 DEF ClientInv, LoopIsOwn
    <2>. QED
      BY <1>2, <1>5, <1>6, <2>1 DEF ClientInv, LoopIsOwn
  <1>14. \A d \in ConnId : Made(d) => client[d] \in Clients
    BY DEF ClientInv, MadeHasClient
  <1>15. TwoMeansReconnect'
    <2>1. ASSUME NEW d \in ConnId, NEW e \in ConnId, Made(d)', Made(e)', d # e,
                 client'[d] = client'[e]
          PROVE  "reconnect" \in usage'[client'[d]]
      <3>1. CASE d = c \/ e = c
        BY <1>5, <1>10, <2>1, <3>1
      <3>2. CASE d # c /\ e # c
        <4>1. "reconnect" \in usage[client[d]] /\ client[d] \in Clients
          BY <1>5, <1>14, <2>1, <3>2 DEF ClientInv, TwoMeansReconnect
        <4>. QED
          BY <1>5, <1>9, <1>10, <3>2, <4>1
      <3>. QED
        BY <3>1, <3>2
    <2>. QED
      BY <2>1 DEF TwoMeansReconnect
  <1>16. PanicOnlyByUse'
    BY <1>2, <1>9 DEF ClientInv, PanicOnlyByUse
  <1>17. UsedOnce'
    <2>1. ASSUME NEW d \in ConnId, Made(d)', usage'[client'[d]] = {}
          PROVE  field'[client'[d]] = d /\ (done[client'[d]] => loop[d].pc = "over")
      <3>1. CASE d = c
        <4>1. \A b \in ConnId : client[b] # k
          BY <1>5, <1>10, <2>1, <3>1
        <4>2. ~done[k]
          BY <4>1 DEF ClientInv, UsedOnce
        <4>. QED
          BY <1>5, <1>9, <3>1, <4>2
      <3>2. CASE d # c
        <4>1. Made(d) /\ client'[d] = client[d] /\ client[d] \in Clients
          BY <1>5, <1>14, <2>1, <3>2
        <4>2. client[d] # k
          BY <1>10, <2>1, <4>1
        <4>. QED
          BY <1>9, <2>1, <4>1, <4>2 DEF ClientInv, UsedOnce
      <3>. QED
        BY <3>1, <3>2
    <2>2. ASSUME NEW j \in Clients, done[j]
          PROVE  \E d \in ConnId : Made(d)' /\ client'[d] = j
      BY <1>5, <2>2 DEF ClientInv, UsedOnce
    <2>. QED
      BY <1>2, <2>1, <2>2 DEF UsedOnce
  <1>. QED
    BY <1>4, <1>11, <1>12, <1>13, <1>15, <1>16, <1>17 DEF ClientInv

\* The rest of Connect keeps the invariant: the read loop it starts is the
\* first of its connection.
LEMMA ConnectedClients ==
    ASSUME ClientInv, SameMade, NEW k \in Clients, Connected(k)
    PROVE  ClientInv'
  <1>. DEFINE c == dialing[k]
  <1>1. SessionTypeOK /\ c \in ConnId /\ Made(c) /\ client[c] = k /\ loop[c].pc = "none"
    BY DEF ClientInv, SessionTypeOK, DialIsOwn, Connected
  <1>2. /\ dialing' = [dialing EXCEPT ![k] = None]
        /\ loop' = loop \/ loop' = [loop EXCEPT ![c] = [NoLoop EXCEPT !.pc = "start"]]
        /\ refused' \in {refused, refused \cup {c}}
        /\ down' = down \/ (down[c] # <<>> /\ down' = [down EXCEPT ![c] = Tail(@)])
        /\ UNCHANGED <<client, field, done, panicked, usage, carrier>>
    BY DEF Connected
  <1>. HIDE DEF c
  <1>3. [NoLoop EXCEPT !.pc = "start"] = [pc |-> "start", on |-> None, msg |-> NoMessage]
    BY DEF NoLoop
  <1>4. /\ loop' \in [ConnId ->
                       [pc : LoopPc, on : {None} \cup ConnId, msg : Messages \cup {NoMessage}]]
        /\ \A d \in ConnId : loop'[d] = loop[d] \/ (d = c /\ loop'[d].pc = "start")
    <2>. DEFINE l == [pc |-> "start", on |-> None, msg |-> NoMessage]
    <2>1. /\ l \in [pc : LoopPc, on : {None} \cup ConnId, msg : Messages \cup {NoMessage}]
          /\ l.pc = "start"
      BY DEF LoopPc
    <2>2. loop' = loop \/ loop' = [loop EXCEPT ![c] = l]
      BY <1>2, <1>3
    <2>3. loop \in [ConnId ->
                      [pc : LoopPc, on : {None} \cup ConnId, msg : Messages \cup {NoMessage}]]
      BY <1>1 DEF SessionTypeOK
    <2>. HIDE DEF l
    <2>. QED
      BY <1>1, <2>1, <2>2, <2>3
  <1>5. down' \in [ConnId -> Seq(Messages \cup {"auth"})]
    <2>1. down[c] # <<>> => Tail(down[c]) \in Seq(Messages \cup {"auth"})
      BY <1>1 DEF SessionTypeOK
    <2>. QED
      BY <1>1, <1>2, <2>1 DEF SessionTypeOK
  <1>6. SessionTypeOK'
    BY <1>1, <1>2, <1>4, <1>5 DEF SessionTypeOK
  <1>7. \A j \in Clients : dialing'[j] # None =>
          dialing'[j] = dialing[j] /\ dialing[j] \in ConnId /\ j # k
    BY <1>1, <1>2 DEF SessionTypeOK
  <1>8. DialIsOwn'
    BY <1>1, <1>2, <1>4, <1>7 DEF ClientInv, DialIsOwn, SameMade
  <1>9. \A j \in Clients : field[j] # None => field[j] \in ConnId
    BY <1>1 DEF SessionTypeOK
  <1>10. FieldIsOwn' /\ MadeHasClient' /\ TwoMeansReconnect' /\ PanicOnlyByUse'
    BY <1>2, <1>9 DEF ClientInv, FieldIsOwn, MadeHasClient, TwoMeansReconnect, PanicOnlyByUse,
                      SameMade
  <1>11. LoopIsOwn'
    BY <1>1, <1>2, <1>4 DEF ClientInv, LoopIsOwn, SameMade
  <1>12. usage[k] = {} => ~done[k]
    BY <1>1 DEF ClientInv, UsedOnce
  <1>13. UsedOnce'
    BY <1>1, <1>2, <1>4, <1>12 DEF ClientInv, UsedOnce, SameMade
  <1>. QED
    BY <1>6, <1>8, <1>10, <1>11, <1>13 DEF ClientInv

\* Close keeps the invariant: it is on record.
LEMMA CloseClients ==
    ASSUME ClientInv, SameMade, NEW k \in Clients, Close(k)
    PROVE  ClientInv'
  <1>1. SessionTypeOK
    BY DEF ClientInv
  <1>2. /\ field' = [field EXCEPT ![k] = None]
        /\ usage' = [usage EXCEPT ![k] = @ \cup {"close"}]
        /\ UNCHANGED <<client, dialing, loop, done, panicked, down, carrier, refused>>
    BY DEF Close, wireVars
  <1>3. usage' \in [Clients -> SUBSET {"reconnect", "close"}]
    BY <1>1, <1>2 DEF SessionTypeOK
  <1>4. SessionTypeOK'
    BY <1>1, <1>2, <1>3 DEF SessionTypeOK
  <1>5. /\ \A j \in Clients : usage[j] \subseteq usage'[j]
        /\ usage'[k] # {}
        /\ \A j \in Clients \ {k} : field'[j] = field[j] /\ usage'[j] = usage[j]
        /\ field'[k] = None
    BY <1>1, <1>2 DEF SessionTypeOK
  <1>6. \A j \in Clients : field[j] # None => field[j] \in ConnId
    BY <1>1 DEF SessionTypeOK
  <1>7. \A j \in Clients : dialing[j] # None => dialing[j] \in ConnId
    BY <1>1 DEF SessionTypeOK
  <1>8. FieldIsOwn' /\ DialIsOwn' /\ MadeHasClient'
    BY <1>2, <1>5, <1>6, <1>7 DEF ClientInv, FieldIsOwn, DialIsOwn, MadeHasClient, SameMade
  <1>9. LoopIsOwn' /\ PanicOnlyByUse'
    BY <1>2, <1>5 DEF ClientInv, LoopIsOwn, PanicOnlyByUse, SameMade
  <1>10. TwoMeansReconnect'
    BY <1>2, <1>5 DEF ClientInv, MadeHasClient, TwoMeansReconnect, SameMade
  <1>11. UsedOnce'
    BY <1>2, <1>5 DEF ClientInv, MadeHasClient, UsedOnce, SameMade
  <1>. QED
    BY <1>4, <1>8, <1>9, <1>10, <1>11 DEF ClientInv

\* A step that does not connect makes no connection.
LEMMA StepMade ==
    ASSUME SessionInv, [Next]_vars,
           ~ \E c \in ConnId, k \in Clients : Dial(c, k)
    PROVE  SameMade
  <1>1. PoolTypeOK
    BY DEF SessionInv, IInv
  <1>2. ASSUME NEW c \in ConnId, Greet(c) \/ ReadLoopEnds(c)
        PROVE  SameMade
    BY <1>1, <1>2 DEF Greet, ReadLoopEnds, PoolTypeOK, SameMade, Made
  <1>3. ASSUME phase' = phase
        PROVE  SameMade
    BY <1>3 DEF SameMade, Made
  <1>4. ASSUME NEW c \in ConnId, LoopStep(c)
        PROVE  phase' = phase
    BY <1>4 DEF LoopStep, LoopUsesField, LoopReads, LoopEnds, SendResponse, PostWebhook, Panic,
                poolVars
  <1>. QED
    BY <1>2, <1>3, <1>4 DEF Next, PoolStep, AuthResult, HandleAgentResponse, Break, Connected,
                            Close, SendToAgent, poolVars, vars

\* Every step keeps the invariant of the clients.
LEMMA StepClients ==
    ASSUME SessionInv, [Next]_vars
    PROVE  ClientInv'
  <1>1. IInv /\ ClientInv /\ PoolTypeOK /\ SessionTypeOK
    BY DEF SessionInv, ClientInv, IInv
  <1>2. CASE \E c \in ConnId, k \in Clients : Dial(c, k)
    BY <1>1, <1>2, DialClients
  <1>3. CASE ~ \E c \in ConnId, k \in Clients : Dial(c, k)
    <2>1. SameMade
      BY <1>3, StepMade
    <2>2. ASSUME UNCHANGED clientVars,
                 down' \in [ConnId -> Seq(Messages \cup {"auth"})],
                 carrier' \in [Messages -> [conn : {None} \cup ConnId, phase : Phase]],
                 refused' = refused
          PROVE  ClientInv'
      <3>1. SessionTypeOK'
        BY <1>1, <2>2 DEF SessionTypeOK, clientVars
      <3>. QED
        BY <1>1, <2>1, <2>2, <3>1, SameClients
    <2>3. ASSUME UNCHANGED clientVars, UNCHANGED <<down, carrier, refused>>
          PROVE  ClientInv'
      BY <1>1, <2>2, <2>3 DEF SessionTypeOK
    <2>4. ASSUME NEW c \in ConnId, PoolStep(c)
          PROVE  ClientInv'
      <3>1. CASE AuthResult(c)
        <4>1. down' \in [ConnId -> Seq(Messages \cup {"auth"})]
          <5>1. Append(down[c], "auth") \in Seq(Messages \cup {"auth"})
            BY <1>1 DEF SessionTypeOK
          <5>. QED
            BY <1>1, <3>1, <5>1 DEF AuthResult, SessionTypeOK
        <4>. QED
          BY <1>1, <2>2, <3>1, <4>1 DEF AuthResult, SessionTypeOK
      <3>2. CASE HandleAgentResponse(c)
        BY <2>3, <3>2 DEF HandleAgentResponse
      <3>. QED
        BY <2>3, <2>4, <3>1, <3>2 DEF PoolStep, wireVars
    <2>5. ASSUME NEW m \in Messages, NEW a \in Agents, SendToAgent(m, a)
          PROVE  ClientInv'
      <3>1. conns[a] \in {None} \cup ConnId /\ conns[a] # None
        BY <1>1, <2>5 DEF SendToAgent, PoolTypeOK, IInv, StatusMatchesMap
      <3>2. Append(down[conns[a]], m) \in Seq(Messages \cup {"auth"})
        BY <1>1, <3>1 DEF SessionTypeOK
      <3>3. down' \in [ConnId -> Seq(Messages \cup {"auth"})]
        BY <1>1, <2>5, <3>2 DEF SendToAgent, SessionTypeOK
      <3>4. [conn |-> conns[a], phase |-> phase[conns[a]]]
              \in [conn : {None} \cup ConnId, phase : Phase]
        BY <1>1, <3>1 DEF PoolTypeOK
      <3>5. carrier' \in [Messages -> [conn : {None} \cup ConnId, phase : Phase]]
        BY <1>1, <2>5, <3>4 DEF SendToAgent, SessionTypeOK
      <3>. QED
        BY <2>2, <2>5, <3>3, <3>5 DEF SendToAgent
    <2>6. ASSUME NEW c \in ConnId, Break(c), UNCHANGED <<clientVars, wireVars>>
          PROVE  ClientInv'
      BY <2>3, <2>6 DEF wireVars
    <2>7. CASE UNCHANGED vars
      BY <2>3, <2>7 DEF vars, wireVars
    <2>8. ASSUME NEW c \in ConnId, LoopStep(c)
          PROVE  ClientInv'
      BY <1>1, <2>1, <2>8, LoopUsesClients, LoopReadsClients, LoopEndsClients,
         LoopAnswersClients DEF LoopStep
    <2>. QED
      BY <1>1, <1>3, <2>1, <2>4, <2>5, <2>6, <2>7, <2>8, ConnectedClients, CloseClients DEF Next
  <1>. QED
    BY <1>2, <1>3

-----------------------------------------------------------------------------
\* A step that puts nothing on the wire and takes nothing from it keeps the
\* invariant of the wire, whatever breaks or is closed.
LEMMA QuietWire ==
    ASSUME SessionInv, SameMade, UNCHANGED <<client, down, carrier, refused>>,
           \A k \in Clients : /\ dialing'[k] \in {dialing[k], None}
                              /\ usage[k] \subseteq usage'[k],
           \A c \in ConnId : /\ Up(c)' => Up(c)
                             /\ phase'[c] = phase[c] \/ (phase'[c] = "over" /\ ~Up(c)')
    PROVE  WireInv'
  <1>1. \A c \in ConnId : Made(c) => client[c] \in Clients
    BY DEF SessionInv, ClientInv, MadeHasClient
  <1>2. \A c \in ConnId : c # None
    BY DEF ConnId, None
  <1>3. \A c \in ConnId : Waiting(c)' => Waiting(c)
    BY <1>1, <1>2 DEF Waiting, SameMade
  <1>4. OverIsDown'
    BY DEF SessionInv, WireInv, OverIsDown
  <1>5. AuthComesFirst'
    BY <1>3 DEF SessionInv, WireInv, AuthComesFirst, Overtaken
  <1>6. refused \subseteq ConnId /\ \A c \in refused : Made(c)
    BY DEF SessionInv, ClientInv, SessionTypeOK, WireInv, WireIsMade
  <1>7. WireIsMade'
    BY <1>6 DEF SessionInv, WireInv, WireIsMade, SameMade
  <1>8. RefusedOnlyByOvertaking'
    BY <1>1, <1>6 DEF SessionInv, WireInv, RefusedOnlyByOvertaking
  <1>. QED
    BY <1>4, <1>5, <1>7, <1>8 DEF WireInv

\* A new connection is silent.
LEMMA DialWire ==
    ASSUME SessionInv, NEW c \in ConnId, NEW k \in Clients, Dial(c, k)
    PROVE  WireInv'
  <1>1. PoolTypeOK /\ SessionTypeOK /\ ~Made(c)
    BY DEF SessionInv, IInv, ClientInv, Dial, Connect, Made
  <1>2. /\ phase' = [phase EXCEPT ![c] = "greeting"]
        /\ closed' = [b \in ConnId |-> closed[b] \/ b = conns[AgentOf[k]]]
        /\ alive' = [alive EXCEPT ![c] = TRUE]
        /\ client' = [client EXCEPT ![c] = k]
        /\ dialing' = [dialing EXCEPT ![k] = c]
        /\ usage' = IF \E b \in ConnId : client[b] = k
                      THEN [usage EXCEPT ![k] = @ \cup {"reconnect"}] ELSE usage
        /\ UNCHANGED <<down, carrier, refused>>
    BY DEF Dial, Connect, wireVars
  <1>3. phase'[c] = "greeting" /\ client'[c] = k /\ down[c] = <<>>
    BY <1>1, <1>2 DEF PoolTypeOK, SessionTypeOK, SessionInv, WireInv, WireIsMade
  <1>4. \A d \in ConnId \ {c} : /\ phase'[d] = phase[d] /\ client'[d] = client[d]
                                /\ Up(d)' => Up(d)
    BY <1>1, <1>2 DEF PoolTypeOK, SessionTypeOK, Up
  <1>5. \A j \in Clients : usage[j] \subseteq usage'[j]
    BY <1>1, <1>2 DEF SessionTypeOK
  <1>6. \A d \in ConnId : Made(d) => client[d] \in Clients
    BY DEF SessionInv, ClientInv, MadeHasClient
  <1>7. \A d \in ConnId \ {c} : Waiting(d)' => Waiting(d)
    <2>1. \A j \in Clients \ {k} : dialing'[j] = dialing[j]
      BY <1>1, <1>2 DEF SessionTypeOK
    <2>2. dialing'[k] = c
      BY <1>1, <1>2 DEF SessionTypeOK
    <2>. QED
      BY <1>4, <1>5, <1>6, <2>1, <2>2 DEF Waiting, Made
  <1>8. OverIsDown'
    BY <1>3, <1>4 DEF SessionInv, WireInv, OverIsDown
  <1>9. AuthComesFirst'
    BY <1>2, <1>3, <1>4, <1>7 DEF SessionInv, WireInv, AuthComesFirst, Overtaken
  <1>10. refused \subseteq ConnId \ {c} /\ \A d \in refused : Made(d)
    BY <1>1 DEF SessionTypeOK, SessionInv, WireInv, WireIsMade
  <1>11. WireIsMade'
    BY <1>2, <1>3, <1>4, <1>10 DEF SessionInv, WireInv, WireIsMade, Made
  <1>12. RefusedOnlyByOvertaking'
    BY <1>2, <1>4, <1>5, <1>6, <1>10 DEF SessionInv, WireInv, RefusedOnlyByOvertaking
  <1>. QED
    BY <1>8, <1>9, <1>11, <1>12 DEF WireInv

\* What is at the head of a queue stays there when something is appended.
LEMMA HeadOfAppend ==
    ASSUME NEW S, NEW q \in Seq(S), NEW x \in S
    PROVE  /\ Append(q, x) # <<>>
           /\ q = <<>> => Head(Append(q, x)) = x
           /\ q # <<>> => Head(Append(q, x)) = Head(q)
  <1>1. Append(q, x) \in Seq(S) /\ Len(Append(q, x)) = Len(q) + 1 /\ Len(q) \in Nat
    OBVIOUS
  <1>2. CASE q = <<>>
    BY <1>1, <1>2
  <1>3. CASE q # <<>>
    <2>1. Len(q) >= 1 /\ 1 \in 1 .. Len(q)
      BY <1>1, <1>3
    <2>2. Append(q, x)[1] = q[1]
      BY <2>1
    <2>. QED
      BY <1>1, <1>3, <2>1, <2>2
  <1>. QED
    BY <1>2, <1>3

\* The greeting puts auth_result on the wire of a connection that is up.
LEMMA AuthResultWire ==
    ASSUME SessionInv, SameMade, NEW c \in ConnId, AuthResult(c)
    PROVE  WireInv'
  <1>1. PoolTypeOK /\ SessionTypeOK /\ Made(c)
    BY DEF SessionInv, IInv, ClientInv, AuthResult, Greet, Made
  <1>2. UNCHANGED <<client, dialing, usage, carrier, refused, alive>>
    BY DEF AuthResult, Greet, clientVars
  <1>3. /\ \A d \in ConnId : Up(d)' => Up(d)
        /\ \A d \in ConnId \ {c} : phase'[d] = phase[d]
        /\ phase'[c] = "reading" \/ (phase'[c] = "over" /\ ~Up(c)')
    BY <1>1 DEF AuthResult, Greet, PoolTypeOK, Up
  <1>4. /\ \A d \in ConnId \ {c} : down'[d] = down[d]
        /\ \/ down'[c] = down[c] /\ ~(Up(c)' /\ phase'[c] = "reading")
           \/ down'[c] = Append(down[c], "auth")
    BY <1>1, <1>3 DEF AuthResult, SessionTypeOK
  <1>5. down[c] \in Seq(Messages \cup {"auth"}) /\ "auth" \in Messages \cup {"auth"}
    BY <1>1 DEF SessionTypeOK
  <1>6. \A d \in ConnId : Waiting(d)' => Waiting(d)
    BY <1>2 DEF Waiting, SameMade
  <1>7. OverIsDown'
    BY <1>3 DEF SessionInv, WireInv, OverIsDown
  <1>8. AuthComesFirst'
    <2>1. ASSUME NEW d \in ConnId, Waiting(d)'
          PROVE  /\ down'[d] # <<>> => Head(down'[d]) = "auth" \/ Overtaken(d)
                 /\ phase'[d] = "reading" /\ Up(d)' => down'[d] # <<>>
      <3>1. CASE d # c
        BY <1>3, <1>4, <1>6, <2>1, <3>1 DEF SessionInv, WireInv, AuthComesFirst
      <3>2. CASE d = c
        <4>1. down[c] # <<>> => Head(down[c]) = "auth" \/ Overtaken(c)
          BY <1>6, <2>1, <3>2 DEF SessionInv, WireInv, AuthComesFirst
        <4>2. CASE down'[c] = down[c] /\ ~(Up(c)' /\ phase'[c] = "reading")
          BY <3>2, <4>1, <4>2
        <4>3. CASE down'[c] = Append(down[c], "auth")
          BY <1>5, <3>2, <4>1, <4>3, HeadOfAppend
        <4>. QED
          BY <1>4, <4>2, <4>3
      <3>. QED
        BY <3>1, <3>2
    <2>. QED
      BY <1>2, <2>1 DEF AuthComesFirst, Overtaken
  <1>9. refused \subseteq ConnId
    BY <1>1 DEF SessionTypeOK
  <1>10. WireIsMade' /\ RefusedOnlyByOvertaking'
    BY <1>1, <1>2, <1>4, <1>9 DEF SessionInv, WireInv, WireIsMade, RefusedOnlyByOvertaking,
                                  SameMade
  <1>. QED
    BY <1>7, <1>8, <1>10 DEF WireInv

\* A message is put on the wire of a connection that is up: it overtakes the
\* greeting, or the greeting is there.
LEMMA SendWire ==
    ASSUME SessionInv, SameMade, NEW m \in Messages, NEW a \in Agents, SendToAgent(m, a)
    PROVE  WireInv'
  <1>. DEFINE c == conns[a]
  <1>1. IInv /\ PoolTypeOK /\ SessionTypeOK
    BY DEF SessionInv, IInv, ClientInv
  <1>2. c \in ConnId /\ Made(c) /\ Up(c) /\ phase[c] \in Phase
    BY <1>1 DEF SendToAgent, IInv, PoolTypeOK, StatusMatchesMap, MapIsMade, Made
  <1>3. /\ carrier[m].conn = None
        /\ carrier' = [carrier EXCEPT ![m] = [conn |-> c, phase |-> phase[c]]]
        /\ down' = [down EXCEPT ![c] = Append(@, m)]
        /\ UNCHANGED <<poolVars, client, dialing, usage, refused>>
    BY DEF SendToAgent, clientVars
  <1>. HIDE DEF c
  <1>4. \A d \in ConnId : (Up(d)' <=> Up(d)) /\ phase'[d] = phase[d]
    BY <1>3 DEF poolVars, Up
  <1>5. carrier'[m] = [conn |-> c, phase |-> phase[c]]
        /\ \A n \in Messages \ {m} : carrier'[n] = carrier[n]
    BY <1>1, <1>3 DEF SessionTypeOK
  <1>6. \A d \in ConnId : Overtaken(d) => Overtaken(d)'
    <2>1. \A d \in ConnId : carrier[m] # [conn |-> d, phase |-> "greeting"]
      BY <1>3 DEF ConnId, None
    <2>. QED
      BY <1>5, <2>1 DEF Overtaken
  <1>7. down[c] \in Seq(Messages \cup {"auth"}) /\ m \in Messages \cup {"auth"}
    BY <1>1, <1>2 DEF SessionTypeOK
  <1>8. /\ down'[c] = Append(down[c], m)
        /\ \A d \in ConnId \ {c} : down'[d] = down[d]
    BY <1>1, <1>2, <1>3 DEF SessionTypeOK
  <1>9. \A d \in ConnId : Waiting(d)' => Waiting(d)
    BY <1>3 DEF Waiting, SameMade
  <1>10. OverIsDown'
    BY <1>4 DEF SessionInv, WireInv, OverIsDown
  <1>11. AuthComesFirst'
    <2>1. ASSUME NEW d \in ConnId, Waiting(d)'
          PROVE  /\ down'[d] # <<>> => Head(down'[d]) = "auth" \/ Overtaken(d)'
                 /\ phase[d] = "reading" /\ Up(d) => down'[d] # <<>>
      <3>1. CASE d # c
        BY <1>6, <1>8, <1>9, <2>1, <3>1 DEF SessionInv, WireInv, AuthComesFirst
      <3>2. CASE d = c
        <4>1. /\ down[c] # <<>> => Head(down[c]) = "auth" \/ Overtaken(c)
              /\ phase[c] = "reading" => down[c] # <<>>
          BY <1>2, <1>9, <2>1, <3>2 DEF SessionInv, WireInv, AuthComesFirst
        <4>2. phase[c] = "greeting" \/ phase[c] = "reading"
          BY <1>2 DEF SessionInv, WireInv, OverIsDown, Phase, Made
        <4>3. phase[c] = "greeting" => Overtaken(d)'
          BY <1>5, <3>2 DEF Overtaken
        <4>. QED
          BY <1>6, <1>7, <1>8, <3>2, <4>1, <4>2, <4>3, HeadOfAppend
      <3>. QED
        BY <3>1, <3>2
    <2>. QED
      BY <1>4, <2>1 DEF AuthComesFirst
  <1>12. refused \subseteq ConnId
    BY <1>1 DEF SessionTypeOK
  <1>13. WireIsMade'
    BY <1>2, <1>3, <1>8, <1>12 DEF SessionInv, WireInv, WireIsMade, SameMade
  <1>14. RefusedOnlyByOvertaking'
    BY <1>3, <1>6, <1>12 DEF SessionInv, WireInv, RefusedOnlyByOvertaking, Overtaken
  <1>. QED
    BY <1>10, <1>11, <1>13, <1>14 DEF WireInv

\* Connect stops waiting; what it refuses was overtaken.
LEMMA ConnectedWire ==
    ASSUME SessionInv, SameMade, NEW k \in Clients, Connected(k)
    PROVE  WireInv'
  <1>. DEFINE c == dialing[k]
  <1>1. PoolTypeOK /\ SessionTypeOK /\ c \in ConnId /\ Made(c) /\ client[c] = k
    BY DEF SessionInv, IInv, ClientInv, SessionTypeOK, DialIsOwn, Connected
  <1>2. /\ dialing' = [dialing EXCEPT ![k] = None]
        /\ alive' = alive \/ alive' = [alive EXCEPT ![c] = FALSE]
        /\ down' = down \/ down' = [down EXCEPT ![c] = Tail(@)]
        /\ \/ refused' = refused
           \/ down[c] # <<>> /\ Head(down[c]) # "auth" /\ refused' = refused \cup {c}
        /\ UNCHANGED <<client, usage, phase, closed, carrier>>
    BY DEF Connected
  <1>. HIDE DEF c
  <1>3. \A d \in ConnId : Up(d)' => Up(d)
    BY <1>1, <1>2 DEF PoolTypeOK, Up
  <1>4. \A d \in ConnId \ {c} : down'[d] = down[d]
    BY <1>1, <1>2 DEF SessionTypeOK
  <1>5. \A d \in ConnId : Waiting(d)' => Waiting(d) /\ d # c
    <2>1. /\ dialing'[k] = None
          /\ \A j \in Clients \ {k} : dialing'[j] = dialing[j]
      BY <1>1, <1>2 DEF SessionTypeOK
    <2>2. \A d \in ConnId : d # None /\ (Made(d) => client[d] \in Clients)
      BY DEF ConnId, None, SessionInv, ClientInv, MadeHasClient
    <2>. QED
      BY <1>1, <1>2, <2>1, <2>2 DEF Waiting, SameMade
  <1>6. OverIsDown'
    BY <1>2, <1>3 DEF SessionInv, WireInv, OverIsDown
  <1>7. AuthComesFirst'
    BY <1>2, <1>3, <1>4, <1>5 DEF SessionInv, WireInv, AuthComesFirst, Overtaken
  <1>8. refused \subseteq ConnId
    BY <1>1 DEF SessionTypeOK
  <1>9. WireIsMade'
    BY <1>1, <1>2, <1>4, <1>8 DEF SessionInv, WireInv, WireIsMade, SameMade
  <1>10. ASSUME down[c] # <<>>, Head(down[c]) # "auth"
         PROVE  Overtaken(c) \/ "reconnect" \in usage[client[c]]
    BY <1>1, <1>10 DEF SessionInv, WireInv, AuthComesFirst, Waiting, c
  <1>11. RefusedOnlyByOvertaking'
    BY <1>2, <1>10 DEF SessionInv, WireInv, RefusedOnlyByOvertaking, Overtaken
  <1>. QED
    BY <1>6, <1>7, <1>9, <1>11 DEF WireInv

\* A read loop takes nothing from a connection that Connect waits on, unless
\* it is that of an earlier connection of the client.
LEMMA ReadWire ==
    ASSUME SessionInv, SameMade, NEW c \in ConnId, LoopReads(c)
    PROVE  WireInv'
  <1>. DEFINE x == loop[c].on
  <1>1. /\ SessionTypeOK /\ loop[c].pc = "read" /\ Made(c)
        /\ x \in ConnId /\ Made(x) /\ client[x] = client[c] /\ client[c] \in Clients
    BY DEF SessionInv, ClientInv, LoopIsOwn, MadeHasClient, LoopReads
  <1>2. /\ down' = [down EXCEPT ![x] = Tail(@)]
        /\ UNCHANGED <<alive, closed, phase, client, dialing, usage, carrier, refused>>
    BY DEF LoopReads, poolVars
  <1>3. ~Waiting(x)
    <2>1. ASSUME dialing[client[x]] = x
          PROVE  "reconnect" \in usage[client[x]]
      <3>1. loop[x].pc = "none"
        BY <1>1, <2>1 DEF SessionInv, ClientInv, DialIsOwn, ConnId, None
      <3>2. x # c
        BY <1>1, <3>1
      <3>. QED
        BY <1>1, <3>2 DEF SessionInv, ClientInv, TwoMeansReconnect
    <2>. QED
      BY <2>1 DEF Waiting
  <1>. HIDE DEF x
  <1>4. \A d \in ConnId \ {x} : down'[d] = down[d]
    BY <1>1, <1>2 DEF SessionTypeOK
  <1>5. \A d \in ConnId : /\ Waiting(d)' => Waiting(d) /\ d # x
                          /\ Up(d)' <=> Up(d)
    BY <1>2, <1>3 DEF Waiting, SameMade, Up
  <1>6. OverIsDown'
    BY <1>2, <1>5 DEF SessionInv, WireInv, OverIsDown
  <1>7. AuthComesFirst'
    BY <1>2, <1>4, <1>5 DEF SessionInv, WireInv, AuthComesFirst, Overtaken
  <1>8. refused \subseteq ConnId
    BY <1>1 DEF SessionTypeOK
  <1>9. WireIsMade' /\ RefusedOnlyByOvertaking'
    BY <1>1, <1>2, <1>4, <1>8 DEF SessionInv, WireInv, WireIsMade, RefusedOnlyByOvertaking,
                                  SameMade
  <1>. QED
    BY <1>6, <1>7, <1>9 DEF WireInv

\* The condition QuietWire asks of a step.
Quiet ==
    /\ UNCHANGED <<client, down, carrier, refused>>
    /\ \A k \in Clients : dialing'[k] \in {dialing[k], None} /\ usage[k] \subseteq usage'[k]
    /\ \A c \in ConnId : /\ Up(c)' => Up(c)
                         /\ phase'[c] = phase[c] \/ (phase'[c] = "over" /\ ~Up(c)')

\* Every step keeps the invariant of the wire.
LEMMA StepWire ==
    ASSUME SessionInv, [Next]_vars
    PROVE  WireInv'
  <1>1. PoolTypeOK /\ SessionTypeOK
    BY DEF SessionInv, ClientInv, IInv
  <1>2. CASE \E c \in ConnId, k \in Clients : Dial(c, k)
    BY <1>2, DialWire
  <1>3. CASE ~ \E c \in ConnId, k \in Clients : Dial(c, k)
    <2>1. SameMade
      BY <1>3, StepMade
    <2>2. Quiet => WireInv'
      BY <2>1, QuietWire DEF Quiet
    <2>3. ASSUME UNCHANGED poolVars, UNCHANGED <<client, dialing, usage, down, carrier, refused>>
          PROVE  Quiet
      BY <2>3 DEF poolVars, Quiet, Up
    <2>4. ASSUME NEW k, Panic(k)
          PROVE  Quiet
      BY <1>1, <2>4 DEF Panic, wireVars, Quiet, PoolTypeOK, SessionTypeOK, Up
    <2>5. ASSUME NEW k \in Clients, Close(k)
          PROVE  Quiet
      BY <1>1, <2>5 DEF Close, wireVars, Quiet, PoolTypeOK, SessionTypeOK, Up
    <2>6. ASSUME NEW c \in ConnId, Break(c), UNCHANGED <<clientVars, wireVars>>
          PROVE  Quiet
      BY <1>1, <2>6 DEF Break, clientVars, wireVars, Quiet, PoolTypeOK, Up
    <2>7. ASSUME NEW c \in ConnId, ReadLoopEnds(c), UNCHANGED <<clientVars, wireVars>>
          PROVE  Quiet
      BY <1>1, <2>7 DEF ReadLoopEnds, disconnectAgent, clientVars, wireVars, Quiet, PoolTypeOK, Up
    <2>8. ASSUME NEW c \in ConnId, HandleAgentResponse(c)
          PROVE  Quiet
      BY <2>3, <2>8 DEF HandleAgentResponse, clientVars
    <2>9. ASSUME NEW c \in ConnId,
                 LoopUsesField(c) \/ LoopEnds(c) \/ SendResponse(c) \/ PostWebhook(c)
          PROVE  Quiet
      BY <2>3, <2>4, <2>9 DEF LoopUsesField, LoopEnds, SendResponse, PostWebhook, wireVars
    <2>10. CASE UNCHANGED vars
      BY <2>2, <2>3, <2>10 DEF vars, clientVars, wireVars
    <2>11. ASSUME NEW c \in ConnId, PoolStep(c) \/ LoopStep(c)
           PROVE  WireInv'
      BY <2>1, <2>2, <2>7, <2>8, <2>9, <2>11, AuthResultWire, ReadWire DEF PoolStep, LoopStep
    <2>. QED
      BY <1>3, <2>1, <2>2, <2>5, <2>6, <2>10, <2>11, ConnectedWire, SendWire DEF Next
  <1>. QED
    BY <1>2, <1>3

-----------------------------------------------------------------------------
\* The invariant holds in every state.
LEMMA SessionInvariant == Spec => []SessionInv
  <1>1. SessionInv /\ [Next]_vars => SessionInv'
    BY StepPool, StepClients, StepWire DEF SessionInv
  <1>. QED
    BY <1>1, InitSession, PTL DEF Spec

\* With real clients at the other end, which reconnect, close and panic, the
\* pool reports an agent online exactly when it has a connection of it to send
\* on.
THEOREM SessionStatusMatches == Spec => []StatusMatchesMap
  <1>1. SessionInv => StatusMatchesMap
    BY DEF SessionInv, IInv
  <1>. QED
    BY <1>1, SessionInvariant, PTL

\* It forgets no connection that is open: the one that HandleWebSocket replaced
\* has been closed.
THEOREM SessionOpenIsCurrent == Spec => []OpenIsCurrent
  <1>1. SessionInv => OpenIsCurrent
    BY DEF SessionInv, IInv
  <1>. QED
    BY <1>1, SessionInvariant, PTL

\* And it reports a listening agent offline only because disconnectAgent ran
\* for another of its connections.
THEOREM SessionOffline == Spec => []OfflineOnlyByEviction
  <1>1. SessionInv => OfflineOnlyByEviction
    BY OfflineIsTakenOut DEF SessionInv, IInv
  <1>. QED
    BY <1>1, SessionInvariant, PTL

\* A client that is connected once and not closed never panics in readLoop,
\* SendResponse or Close.
THEOREM SessionPanics == Spec => []PanicOnlyByUse
  <1>1. SessionInv => PanicOnlyByUse
    BY DEF SessionInv, ClientInv
  <1>. QED
    BY <1>1, SessionInvariant, PTL

\* Connect is refused on a connection that is up only because a message
\* overtook its auth_result or an earlier readLoop of the same client took it.
THEOREM SessionRefusals == Spec => []RefusedOnlyByOvertaking
  <1>1. SessionInv => RefusedOnlyByOvertaking
    BY DEF SessionInv, WireInv
  <1>. QED
    BY <1>1, SessionInvariant, PTL
=============================================================================
