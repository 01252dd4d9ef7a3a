--------------------------- MODULE WorkspaceProofs --------------------------
(***************************************************************************)
(* What the router guarantees for any number of agents, connections and    *)
(* messages, any bot mapping and any mentions, with one pool or with the   *)
(* two that main builds.                                                   *)
(***************************************************************************)
EXTENDS Workspace, WellFoundedInduction, TLAPS

Elements(q) == {q[i] : i \in DOMAIN q}

-----------------------------------------------------------------------------
\* The map never names a connection that was not made yet, and a connection
\* that was made has an owner.
MapIsMade ==
    /\ \A a \in Agents : conns[a] # None => phase[conns[a]] # "unused"
    /\ \A c \in ConnId : phase[c] # "unused" => owner[c] \in Agents

\* What the router relies on of a pool.
IInv == PoolTypeOK /\ StatusMatchesMap /\ MapIsMade

\* The empty pool satisfies the invariant.
LEMMA InitIInv ==
    ASSUME PoolInit
    PROVE  IInv
  BY DEF PoolInit, IInv, PoolTypeOK, StatusMatchesMap, MapIsMade, IsOnline, None,
         Phase

\* HandleWebSocket keeps the invariant.
LEMMA ConnectIInv ==
    ASSUME IInv, NEW c \in ConnId, NEW a \in Agents, Connect(c, a)
    PROVE  IInv'
  <1>1. PoolTypeOK /\ c # None
    BY AgentPoolAssumption DEF IInv, ConnId, None
  <1>2. PoolTypeOK'
    BY <1>1 DEF PoolTypeOK, Connect, Phase
  <1>3. \A b \in Agents : b # a => conns[b] # c
    BY <1>1 DEF IInv, MapIsMade, Connect
  <1>4. StatusMatchesMap'
    <2>1. ASSUME NEW b \in Agents
          PROVE  /\ status'[b] = "online" <=> conns'[b] # None
                 /\ conns'[b] # None => owner'[conns'[b]] = b
      <3>1. CASE b = a
        BY <1>1, <3>1 DEF Connect, PoolTypeOK
      <3>2. CASE b # a
        BY <1>1, <1>3, <3>2 DEF Connect, PoolTypeOK, IInv, StatusMatchesMap, IsOnline
      <3>. QED
        BY <3>1, <3>2
    <2>. QED
      BY <2>1 DEF StatusMatchesMap, IsOnline
  <1>5. MapIsMade'
    BY <1>1 DEF Connect, PoolTypeOK, IInv, MapIsMade
  <1>. QED
    BY <1>2, <1>4, <1>5 DEF IInv

\* Sending auth_result keeps the invariant.
LEMMA GreetIInv ==
    ASSUME IInv, NEW c \in ConnId, Greet(c)
    PROVE  IInv'
  <1>1. PoolTypeOK
    BY DEF IInv
  <1>2. PoolTypeOK'
    BY <1>1 DEF PoolTypeOK, Greet, Phase
  <1>3. MapIsMade'
    BY <1>1 DEF PoolTypeOK, Greet, IInv, MapIsMade, Phase
  <1>. QED
    BY <1>2, <1>3 DEF IInv, Greet, StatusMatchesMap, IsOnline

\* readLoop keeps the invariant.
LEMMA ReadLoopIInv ==
    ASSUME IInv, NEW c \in ConnId, ReadLoopEnds(c)
    PROVE  IInv'
  <1>. DEFINE a == owner[c]
  <1>1. PoolTypeOK /\ a \in Agents
    BY DEF IInv, MapIsMade, ReadLoopEnds
  <1>2. /\ closed' = [b \in ConnId |-> closed[b] \/ b = conns[a]]
        /\ conns' = [conns EXCEPT ![a] = None]
        /\ status' = [status EXCEPT ![a] = "offline"]
        /\ phase' = [phase EXCEPT ![c] = "over"]
        /\ owner' = owner /\ alive' = alive
    BY DEF ReadLoopEnds, disconnectAgent
  <1>. HIDE DEF a
  <1>3. PoolTypeOK'
    BY <1>1, <1>2 DEF PoolTypeOK, Phase
  <1>4. StatusMatchesMap'
    <2>1. ASSUME NEW b \in Agents
          PROVE  /\ status'[b] = "online" <=> conns'[b] # None
                 /\ conns'[b] # None => owner'[conns'[b]] = b
      <3>1. CASE b = a
        BY <1>1, <1>2, <3>1 DEF PoolTypeOK
      <3>2. CASE b # a
        BY <1>1, <1>2, <3>2 DEF PoolTypeOK, IInv, StatusMatchesMap, IsOnline
      <3>. QED
        BY <3>1, <3>2
    <2>. QED
      BY <2>1 DEF StatusMatchesMap, IsOnline
  <1>5. MapIsMade'
    <2>1. \A d \in ConnId : phase'[d] # "unused" <=> phase[d] # "unused"
      BY <1>1, <1>2 DEF PoolTypeOK, ReadLoopEnds
    <2>2. \A b \in Agents : conns'[b] # None => conns'[b] = conns[b] /\ conns[b] \in ConnId
      BY <1>1, <1>2 DEF PoolTypeOK
    <2>. QED
      BY <1>2, <2>1, <2>2 DEF IInv, MapIsMade
  <1>. QED
    BY <1>3, <1>4, <1>5 DEF IInv

\* Sockets that break, one or many at a time, keep the invariant: the pool
\* does not see it.
LEMMA BreakIInv ==
    ASSUME IInv, alive' \in [ConnId -> BOOLEAN],
           UNCHANGED <<conns, status, owner, phase, closed>>
    PROVE  IInv'
  BY DEF IInv, PoolTypeOK, StatusMatchesMap, MapIsMade, IsOnline

\* Every step of the pool keeps the invariant.
LEMMA StepIInv ==
    ASSUME IInv, [PoolNext]_poolVars
    PROVE  IInv'
  <1>1. ASSUME NEW c \in ConnId, Break(c)
        PROVE  IInv'
    BY <1>1, BreakIInv DEF Break, IInv, PoolTypeOK
  <1>2. CASE UNCHANGED poolVars
    BY <1>2 DEF poolVars, IInv, PoolTypeOK, StatusMatchesMap, MapIsMade, IsOnline
  <1>. QED
    BY <1>1, <1>2, ConnectIInv, GreetIInv, ReadLoopIInv DEF PoolNext

-----------------------------------------------------------------------------
\* A set of naturals that is not empty has a least element: what the
\* inductions over the list of mentions below are made of.
LEMMA LeastNatural ==
    ASSUME NEW T, T \subseteq Nat, T # {}
    PROVE  \E x \in T : \A y \in T : x <= y
  <1>1. PICK x \in T : \A y \in T : ~ (<<y, x>> \in OpToRel(<, Nat))
    BY NatLessThanWellFounded, WFMin
  <1>2. \A y \in T : ~ (y < x)
    <2>1. TAKE y \in T
    <2>2. <<y, x>> \in Nat \X Nat /\ y \in Nat /\ x \in Nat
      OBVIOUS
    <2>. QED
      BY <1>1, <2>2 DEF OpToRel
  <1>3. x \in Nat /\ \A y \in T : y \in Nat
    OBVIOUS
  <1>. QED
    BY <1>2, <1>3

\* The elements of a queue that grows at its end, or loses its head.
LEMMA ElementsOfAppend ==
    ASSUME NEW S, NEW q \in Seq(S), NEW x \in S
    PROVE  Elements(Append(q, x)) = Elements(q) \cup {x}
  <1>1. /\ Len(q) \in Nat /\ DOMAIN q = 1 .. Len(q)
        /\ DOMAIN Append(q, x) = 1 .. Len(q) + 1
        /\ Append(q, x)[Len(q) + 1] = x
        /\ \A i \in 1 .. Len(q) : Append(q, x)[i] = q[i]
    OBVIOUS
  <1>2. 1 .. Len(q) + 1 = (1 .. Len(q)) \cup {Len(q) + 1}
    BY <1>1
  <1>. QED
    BY <1>1, <1>2 DEF Elements

LEMMA ElementsOfTail ==
    ASSUME NEW S, NEW q \in Seq(S), q # <<>>
    PROVE  /\ Head(q) \in S /\ Tail(q) \in Seq(S)
           /\ Elements(q) = {Head(q)} \cup Elements(Tail(q))
  <1>1. /\ Len(q) \in Nat /\ Len(q) >= 1 /\ DOMAIN q = 1 .. Len(q)
        /\ Head(q) = q[1] /\ Head(q) \in S /\ Tail(q) \in Seq(S)
        /\ DOMAIN Tail(q) = 1 .. Len(q) - 1
        /\ \A i \in 1 .. Len(q) - 1 : Tail(q)[i] = q[i + 1]
    OBVIOUS
  <1>2. \A i \in 1 .. Len(q) : i = 1 \/ (i - 1 \in 1 .. Len(q) - 1 /\ q[i] = Tail(q)[i - 1])
    BY <1>1
  <1>3. \A i \in 1 .. Len(q) - 1 : i + 1 \in 1 .. Len(q)
    BY <1>1
  <1>4. Elements(q) \subseteq {Head(q)} \cup Elements(Tail(q))
    <2>1. ASSUME NEW i \in 1 .. Len(q)
          PROVE  q[i] = Head(q) \/ q[i] \in Elements(Tail(q))
      <3>1. CASE i = 1
        BY <1>1, <3>1
      <3>2. CASE i # 1
        <4>1. i - 1 \in DOMAIN Tail(q) /\ q[i] = Tail(q)[i - 1]
          BY <1>1, <1>2, <3>2
        <4>. QED
          BY <4>1 DEF Elements
      <3>. QED
        BY <3>1, <3>2
    <2>. QED
      BY <1>1, <2>1 DEF Elements
  <1>5. Head(q) \in Elements(q)
    BY <1>1 DEF Elements
  <1>6. Elements(Tail(q)) \subseteq Elements(q)
    <2>1. ASSUME NEW i \in 1 .. Len(q) - 1
          PROVE  Tail(q)[i] \in Elements(q)
      <3>1. i + 1 \in DOMAIN q /\ Tail(q)[i] = q[i + 1]
        BY <1>1, <1>3
      <3>. QED
        BY <3>1 DEF Elements
    <2>. QED
      BY <1>1, <2>1 DEF Elements
  <1>. QED
    BY <1>1, <1>4, <1>5, <1>6

\* One turn of the loop of resolveMentions.
Turn(f, names, i) ==
    IF i = 0 THEN <<>>
    ELSE IF names[i] \in DOMAIN BotNameToAgentID
           THEN Append(f[i - 1], BotNameToAgentID[names[i]])
           ELSE f[i - 1]

IsLoop(f, names, n) == f = [i \in 0 .. n |-> Turn(f, names, i)]

\* The loop is well defined, for mentions of any length.
LEMMA LoopExists ==
    ASSUME NEW names \in Seq(STRING)
    PROVE  \E f : IsLoop(f, names, Len(names))
  <1>. DEFINE Bad == {n \in Nat : ~ \E f : IsLoop(f, names, n)}
  <1>1. Bad = {}
    <2>1. SUFFICES ASSUME Bad # {} PROVE FALSE
      OBVIOUS
    <2>2. PICK n \in Bad : \A y \in Bad : n <= y
      BY <2>1, LeastNatural
    <2>3. n \in Nat /\ ~ \E f : IsLoop(f, names, n)
      OBVIOUS
    <2>4. CASE n = 0
      <3>. DEFINE g == [i \in 0 .. 0 |-> <<>>]
      <3>1. IsLoop(g, names, n)
        BY <2>4 DEF IsLoop, Turn
      <3>. QED
        BY <2>3, <3>1
    <2>5. CASE n # 0
      <3>1. n - 1 \in Nat /\ n - 1 < n
        BY <2>3, <2>5
      <3>2. n - 1 \notin Bad
        BY <2>2, <2>3, <3>1
      <3>3. PICK f : IsLoop(f, names, n - 1)
        BY <3>1, <3>2
      <3>. DEFINE g == [i \in 0 .. n |-> IF i = n THEN Turn(f, names, n) ELSE f[i]]
      <3>4. \A i \in 0 .. n - 1 : f[i] = Turn(f, names, i)
        BY <3>3 DEF IsLoop
      <3>5. \A i \in 0 .. n : g[i] = Turn(g, names, i)
        <4>1. TAKE i \in 0 .. n
        <4>2. i # 0 => i - 1 \in 0 .. n /\ i - 1 # n /\ g[i - 1] = f[i - 1]
          BY <2>3
        <4>3. Turn(g, names, i) = Turn(f, names, i)
          BY <4>2 DEF Turn
        <4>4. CASE i = n
          BY <4>3, <4>4
        <4>5. CASE i # n
          <5>1. i \in 0 .. n - 1
            BY <2>3, <4>5
          <5>. QED
            BY <3>4, <4>3, <4>5, <5>1
        <4>. QED
          BY <4>4, <4>5
      <3>6. IsLoop(g, names, n)
        <4>1. g = [i \in 0 .. n |-> g[i]]
          OBVIOUS
        <4>. HIDE DEF g
        <4>. QED
          BY <3>5, <4>1 DEF IsLoop
      <3>. QED
        BY <2>3, <3>6
    <2>. QED
      BY <2>4, <2>5
  <1>2. Len(names) \in Nat
    OBVIOUS
  <1>. QED
    BY <1>1, <1>2

\* resolveMentions returns the agents of exactly the bots that are mentioned.
LEMMA MentionsResolved ==
    ASSUME NEW names \in Seq(STRING)
    PROVE  /\ resolveMentions(names) \in Seq(Targets)
           /\ Elements(resolveMentions(names)) =
                {BotNameToAgentID[n] : n \in {b \in DOMAIN BotNameToAgentID :
                                                \E i \in DOMAIN names : names[i] = b}}
  <1>. DEFINE f == CHOOSE g : g = [i \in 0 .. Len(names) |-> Turn(g, names, i)]
              N == Len(names)
              Found(i) == {BotNameToAgentID[names[j]] :
                             j \in {l \in 1 .. i : names[l] \in DOMAIN BotNameToAgentID}}
              Good(i) == f[i] \in Seq(Targets) /\ Elements(f[i]) = Found(i)
              Bad == {i \in 0 .. N : ~ Good(i)}
  <1>1. f = [i \in 0 .. N |-> Turn(f, names, i)]
    BY LoopExists DEF IsLoop
  <1>2. resolveMentions(names) = f[N]
    BY Zenon DEF resolveMentions, Turn
  <1>. HIDE DEF f
  <1>3. N \in Nat /\ DOMAIN names = 1 .. N
    OBVIOUS
  <1>4. \A i \in 0 .. N : f[i] = Turn(f, names, i)
    BY <1>1
  <1>. HIDE DEF Good
  <1>5. Bad = {}
    <2>1. SUFFICES ASSUME Bad # {} PROVE FALSE
      OBVIOUS
    <2>2. PICK n \in Bad : \A y \in Bad : n <= y
      <3>1. Bad \subseteq Nat
        BY <1>3
      <3>. HIDE DEF Bad
      <3>. QED
        BY <2>1, <3>1, LeastNatural
    <2>3. n \in 0 .. N /\ ~ Good(n)
      OBVIOUS
    <2>4. CASE n = 0
      <3>1. f[0] = <<>>
        BY <1>4, <2>3, <2>4 DEF Turn
      <3>2. Found(0) = {} /\ Elements(<<>>) = {}
        BY DEF Elements
      <3>. QED
        BY <2>3, <2>4, <3>1, <3>2 DEF Good
    <2>5. CASE n # 0
      <3>1. n - 1 \in 0 .. N /\ n - 1 < n /\ n \in 1 .. N
        BY <1>3, <2>3, <2>5
      <3>2. Good(n - 1)
        BY <2>2, <2>3, <3>1
      <3>3. CASE names[n] \in DOMAIN BotNameToAgentID
        <4>1. f[n] = Append(f[n - 1], BotNameToAgentID[names[n]])
          BY <1>4, <2>3, <2>5, <3>3 DEF Turn
        <4>2. BotNameToAgentID[names[n]] \in Targets
          BY <3>3 DEF Targets
        <4>3. f[n] \in Seq(Targets)
          BY <3>2, <4>1, <4>2 DEF Good
        <4>4. Elements(f[n]) = Elements(f[n - 1]) \cup {BotNameToAgentID[names[n]]}
          BY <3>2, <4>1, <4>2, ElementsOfAppend DEF Good
        <4>5. Found(n) = Found(n - 1) \cup {BotNameToAgentID[names[n]]}
          BY <1>3, <3>1, <3>3
        <4>. QED
          BY <2>3, <3>2, <4>3, <4>4, <4>5 DEF Good
      <3>4. CASE names[n] \notin DOMAIN BotNameToAgentID
        <4>1. f[n] = f[n - 1]
          BY <1>4, <2>3, <2>5, <3>4 DEF Turn
        <4>2. Found(n) = Found(n - 1)
          BY <1>3, <3>1, <3>4
        <4>. QED
          BY <2>3, <3>2, <4>1, <4>2 DEF Good
      <3>. QED
        BY <3>3, <3>4
    <2>. QED
      BY <2>4, <2>5
  <1>6. Good(N)
    BY <1>3, <1>5
  <1>7. Found(N) = {BotNameToAgentID[n] : n \in {b \in DOMAIN BotNameToAgentID :
                                                  \E i \in DOMAIN names : names[i] = b}}
    BY <1>3
  <1>. QED
    BY <1>2, <1>6, <1>7 DEF Good

-----------------------------------------------------------------------------
\* The agents routeIncoming is done with for a message.
Reached(m) == {a \in Targets : outcome[m][a] # "none"}

Bots(e) ==
    {n \in DOMAIN BotNameToAgentID : \E i \in DOMAIN e.names : e.names[i] = n}

\* S is what the rules of resolveTargets demand for the event e, where the
\* agents in off were offline at some moment.
Due(e, off, S) ==
    CASE ~e.text -> S = {}
      [] e.text /\ Bots(e) # {} -> S = {BotNameToAgentID[n] : n \in Bots(e)}
      [] e.text /\ Bots(e) = {} /\ e.chat = "p2p" ->
           \E a \in Agents : S = {a} /\ (a \in PMs \/ PMs \subseteq off)
      [] OTHER -> S = {}

\* The targets routeIncoming is done with and those it has before it are the
\* ones that are due; it has some before it exactly while it works on the
\* message.
RouteInv ==
    \A m \in Messages :
        /\ route[m].pc = "new" => Reached(m) = {}
        /\ route[m].pc # "new" =>
             Due(sent[m], offline[m], Reached(m) \cup Elements(route[m].todo))
        /\ route[m].pc \in OnTheWay <=> route[m].todo # <<>>

\* A connection of agent a that was made and lost; and one that was made and
\* is the one the pool has now, or is lost.
Lost(a) ==
    \E c \in ConnId : phase[c] # "unused" /\ owner[c] = a /\ (closed[c] \/ ~alive[c])
HadConnection(a) ==
    \E c \in ConnId : /\ phase[c] # "unused" /\ owner[c] = a
                      /\ conns[a] = c \/ closed[c] \/ ~alive[c]
IsConnection(c, a) == c \in ConnId /\ phase[c] # "unused" /\ owner[c] = a

\* An agent that was found online has had a connection since, SendToAgent
\* writes to a connection of the agent it is for, and an agent to whom a
\* message was lost has lost a connection.
SendInv ==
    \A m \in Messages :
        /\ route[m].pc = "sending" =>
             ~TwoPools /\ Head(route[m].todo) \in Agents /\ HadConnection(Head(route[m].todo))
        /\ route[m].pc = "writing" => IsConnection(route[m].conn, Head(route[m].todo))
FailInv == \A m \in Messages, a \in Targets : outcome[m][a] = "failed" => Lost(a)

\* The history has every agent that is offline now; with one pool, also the
\* one a notice is about to be sent for, and those it was sent for.
OfflineInv ==
    \A m \in Messages, a \in Agents :
        /\ route[m].pc \in OnTheWay /\ ~IsOnline(a) => a \in offline[m]
        /\ ~TwoPools /\ route[m].pc = "notifying" /\ Head(route[m].todo) = a
             => a \in offline[m]
        /\ ~TwoPools /\ outcome[m][a] = "notified" => a \in offline[m]

\* The inductive invariant.
WInv == IInv /\ TypeOK /\ RouteInv /\ SendInv /\ FailInv /\ OfflineInv

\* What is due stays due when more agents have been offline.
LEMMA DueGrows ==
    ASSUME NEW e, NEW off, NEW more, off \subseteq more, NEW S, Due(e, off, S)
    PROVE  Due(e, more, S)
  BY DEF Due

\* Nothing is on its way at the start.
LEMMA InitWorkspace ==
    ASSUME Init
    PROVE  WInv
  <1>1. IInv /\ PoolTypeOK
    BY InitIInv DEF Init, IInv
  <1>2. /\ route = [m \in Messages |-> [pc |-> "new", todo |-> <<>>, conn |-> None]]
        /\ sent = [m \in Messages |-> NoEvent]
        /\ outcome = [m \in Messages |-> [a \in Targets |-> "none"]]
        /\ offline = [m \in Messages |-> {}]
    BY DEF Init
  <1>3. TypeOK
    BY <1>1, <1>2 DEF TypeOK, Outcome
  <1>4. RouteInv
    BY <1>2 DEF RouteInv, Reached, OnTheWay
  <1>5. SendInv /\ FailInv
    BY <1>2 DEF SendInv, FailInv
  <1>6. OfflineInv
    BY <1>2 DEF OfflineInv, OnTheWay, Targets
  <1>. QED
    BY <1>1, <1>3, <1>4, <1>5, <1>6 DEF WInv

\* A step of the pool: what an agent had, it has or has lost, and who goes
\* offline is noted down.
LEMMA PoolWorkspace ==
    ASSUME WInv, PoolStep \/ UNCHANGED vars
    PROVE  WInv'
  <1>1. [PoolNext]_poolVars /\ UNCHANGED routeVars
    BY DEF PoolStep, vars
  <1>2. IInv' /\ PoolTypeOK /\ PoolTypeOK'
    BY <1>1, StepIInv DEF WInv, IInv
  <1>3. /\ offline' \in [Messages -> SUBSET Agents]
        /\ \A m \in Messages : offline[m] \subseteq offline'[m]
        /\ \A m \in Messages, a \in Agents :
             route[m].pc \in OnTheWay /\ status'[a] = "offline" => a \in offline'[m]
    <2>1. CASE PoolStep
      BY <2>1 DEF PoolStep, WInv, TypeOK
    <2>2. CASE UNCHANGED vars
      BY <2>2 DEF vars, poolVars, WInv, TypeOK, OfflineInv, IsOnline
    <2>. QED
      BY <2>1, <2>2
  <1>4. TypeOK'
    BY <1>1, <1>2, <1>3 DEF WInv, TypeOK, routeVars
  <1>5. RouteInv'
    <2>1. ASSUME NEW m \in Messages, route[m].pc # "new"
          PROVE  Due(sent[m], offline'[m], Reached(m) \cup Elements(route[m].todo))
      BY <1>3, <2>1, DueGrows DEF WInv, RouteInv
    <2>2. \A m \in Messages : Reached(m)' = Reached(m)
      BY <1>1 DEF Reached, routeVars
    <2>. QED
      BY <1>1, <2>1, <2>2 DEF WInv, RouteInv, routeVars
  <1>. DEFINE Kept(d) == /\ phase'[d] # "unused" /\ owner'[d] = owner[d]
                         /\ closed[d] => closed'[d]
                         /\ ~alive[d] => ~alive'[d]
                         /\ \A a \in Agents : conns[a] = d => conns'[a] = d \/ closed'[d]
  <1>6. ASSUME NEW d \in ConnId, phase[d] # "unused"
        PROVE  Kept(d)
    <2>1. ASSUME NEW c \in ConnId, NEW a \in Agents, Connect(c, a)
          PROVE  Kept(d)
      BY <1>2, <1>6, <2>1, ZenonT(60) DEF Connect, PoolTypeOK
    <2>2. ASSUME NEW c \in ConnId, Greet(c) \/ Break(c)
          PROVE  Kept(d)
      BY <1>2, <1>6, <2>2 DEF Greet, Break, PoolTypeOK
    <2>3. ASSUME NEW c \in ConnId, ReadLoopEnds(c)
          PROVE  Kept(d)
      BY <1>2, <1>6, <2>3 DEF ReadLoopEnds, disconnectAgent, PoolTypeOK
    <2>4. CASE UNCHANGED poolVars
      BY <1>6, <2>4 DEF poolVars
    <2>. QED
      BY <1>1, <2>1, <2>2, <2>3, <2>4 DEF PoolNext
  <1>7. \A a \in Targets : Lost(a) => Lost(a)'
    BY <1>6 DEF Lost
  <1>8. \A a \in Agents : HadConnection(a) => HadConnection(a)'
    BY <1>6 DEF HadConnection
  <1>9. \A c, a : IsConnection(c, a) => IsConnection(c, a)'
    BY <1>6 DEF IsConnection
  <1>10. SendInv'
    BY <1>1, <1>8, <1>9 DEF WInv, SendInv, routeVars
  <1>11. FailInv'
    BY <1>1, <1>7 DEF WInv, FailInv, routeVars
  <1>12. OfflineInv'
    <2>1. \A a \in Agents : ~IsOnline(a)' => status'[a] = "offline"
      BY <1>2 DEF PoolTypeOK, IsOnline
    <2>. QED
      BY <1>1, <1>3, <2>1 DEF WInv, OfflineInv, routeVars
  <1>. QED
    BY <1>2, <1>4, <1>5, <1>10, <1>11, <1>12 DEF WInv

\* The agent a direct message goes to by default is registered, and a PM
\* unless no PM is online.
LEMMA DefaultIsPreferred ==
    ASSUME NEW a \in findDefaultAgent
    PROVE  a \in Agents /\ (a \in PMs \/ \A b \in PMs : b \in Agents /\ ~IsOnline(b))
  BY WorkspaceAssumption DEF findDefaultAgent, OnlineAgents, OnlineToRouter

\* handleMessage: the targets of a message are those that are due.
LEMMA ArriveWorkspace ==
    ASSUME WInv, NEW m \in Messages, Arrive(m)
    PROVE  WInv'
  <1>1. TypeOK /\ PoolTypeOK /\ Reached(m) = {} /\ UNCHANGED <<outcome, poolVars>>
    BY DEF WInv, TypeOK, RouteInv, Arrive
  <1>2. PICK e \in Message :
           /\ sent' = [sent EXCEPT ![m] = e]
           /\ \/ ~Passed(e) /\ Goto(m, "done", <<>>, None)
              \/ /\ Passed(e)
                 /\ \E targets \in resolveTargets(e.chat, resolveMentions(e.names)) :
                      Goto(m, IF targets = <<>> THEN "done" ELSE "routing", targets, None)
    BY DEF Arrive
  <1>. DEFINE ms == resolveMentions(e.names)
              off == {a \in Agents : ~IsOnline(a)}
  <1>3. /\ e.names \in Seq(STRING) /\ e.text \in BOOLEAN
        /\ e.chat \in {"p2p", "group", ""}
    BY WorkspaceAssumption DEF Message
  <1>4. ms \in Seq(Targets) /\ Elements(ms) = {BotNameToAgentID[n] : n \in Bots(e)}
    BY <1>3, MentionsResolved DEF Bots
  <1>. HIDE DEF ms
  <1>5. ms = <<>> <=> Bots(e) = {}
    <2>1. ms # <<>> => Elements(ms) # {}
      BY <1>4, ElementsOfTail
    <2>2. Elements(<<>>) = {}
      BY DEF Elements
    <2>. QED
      BY <1>4, <2>1, <2>2
  <1>6. \E targets \in Seq(Targets) :
           /\ Goto(m, IF targets = <<>> THEN "done" ELSE "routing", targets, None)
           /\ Due(e, off, Elements(targets))
    <2>1. Elements(<<>>) = {} /\ <<>> \in Seq(Targets)
      BY DEF Elements
    <2>2. CASE ~Passed(e)
      <3>1. ~e.text \/ (Bots(e) = {} /\ e.chat = "group")
        <4>1. e.names = <<>> => Bots(e) = {}
          BY DEF Bots
        <4>. QED
          BY <2>2, <4>1 DEF Passed
      <3>2. Due(e, off, {})
        BY <3>1 DEF Due
      <3>. QED
        BY <1>2, <2>1, <2>2, <3>2
    <2>3. CASE Passed(e)
      <3>1. PICK targets \in resolveTargets(e.chat, ms) :
                   Goto(m, IF targets = <<>> THEN "done" ELSE "routing", targets, None)
        BY <1>2, <2>3 DEF ms
      <3>2. e.text
        BY <2>3 DEF Passed
      <3>3. CASE ms # <<>>
        <4>1. targets = ms
          BY <3>1, <3>3 DEF resolveTargets
        <4>. QED
          BY <1>4, <1>5, <3>1, <3>2, <3>3, <4>1 DEF Due
      <3>4. CASE ms = <<>> /\ e.chat = "p2p"
        <4>1. PICK a \in findDefaultAgent : targets = <<a>>
          BY <3>1, <3>4 DEF resolveTargets
        <4>. a \in Agents /\ (a \in PMs \/ PMs \subseteq off)
          BY DefaultIsPreferred
        <4>2. Elements(<<a>>) = {a} /\ <<a>> \in Seq(Targets)
          BY DEF Elements, Targets
        <4>. QED
          BY <1>5, <3>1, <3>2, <3>4, <4>1, <4>2 DEF Due
      <3>5. CASE ms = <<>> /\ e.chat # "p2p"
        <4>1. targets = <<>>
          BY <3>1, <3>5 DEF resolveTargets
        <4>. QED
          BY <1>5, <2>1, <3>1, <3>2, <3>5, <4>1 DEF Due
      <3>. QED
        BY <3>3, <3>4, <3>5
    <2>. QED
      BY <2>2, <2>3
  <1>7. PICK targets \in Seq(Targets) :
           /\ Goto(m, IF targets = <<>> THEN "done" ELSE "routing", targets, None)
           /\ Due(e, off, Elements(targets))
    BY <1>6
  <1>8. /\ route' = [route EXCEPT ![m] = [pc |-> IF targets = <<>> THEN "done" ELSE "routing",
                                          todo |-> targets, conn |-> None]]
        /\ route'[m].pc = IF targets = <<>> THEN "done" ELSE "routing"
        /\ route'[m].todo = targets
        /\ \A n \in Messages \ {m} : route'[n] = route[n] /\ sent'[n] = sent[n]
        /\ sent'[m] = e /\ offline'[m] = off
        /\ offline' \in [Messages -> SUBSET Agents]
        /\ \A n \in Messages \ {m} : offline'[n] = offline[n]
    BY <1>1, <1>2, <1>7 DEF Arrive, Goto, TypeOK
  <1>9. IInv'
    BY <1>1, StepIInv DEF WInv
  <1>10. TypeOK'
    <2>1. sent' \in [Messages -> Message \cup {NoEvent}]
      BY <1>1, <1>2 DEF TypeOK
    <2>2. route' \in [Messages -> [pc : {"new", "done"} \cup OnTheWay, todo : Seq(Targets),
                                  conn : {None} \cup ConnId]]
      BY <1>1, <1>8 DEF TypeOK, OnTheWay
    <2>. QED
      BY <1>1, <1>8, <1>9, <2>1, <2>2 DEF TypeOK, IInv
  <1>11. RouteInv'
    <2>1. \A n \in Messages : Reached(n)' = Reached(n)
      BY <1>1 DEF Reached
    <2>2. route'[m].pc # "new" /\ (route'[m].pc \in OnTheWay <=> targets # <<>>)
      BY <1>8 DEF OnTheWay
    <2>3. {} \cup Elements(targets) = Elements(targets)
      OBVIOUS
    <2>. QED
      BY <1>1, <1>7, <1>8, <2>1, <2>2, <2>3, ZenonT(60) DEF WInv, RouteInv
  <1>12. SendInv' /\ FailInv'
    BY <1>1, <1>8 DEF WInv, SendInv, FailInv, HadConnection, IsConnection, Lost,
                          poolVars
  <1>13. OfflineInv'
    <2>1. \A b \in Agents : IsOnline(b)' <=> IsOnline(b)
      BY <1>1 DEF IsOnline, poolVars
    <2>2. \A b \in Agents : outcome[m][b] = "none"
      BY <1>1 DEF Reached, Targets
    <2>3. route'[m].pc # "notifying"
      BY <1>8
    <2>. QED
      BY <1>1, <1>8, <2>1, <2>2, <2>3 DEF WInv, OfflineInv
  <1>. QED
    BY <1>9, <1>10, <1>11, <1>12, <1>13 DEF WInv

\* routeIncoming is done with the next target.
LEMMA AdvanceWorkspace ==
    ASSUME WInv, NEW m \in Messages, NEW x \in Outcome, x # "none", Done(m, x),
           route[m].pc \in OnTheWay,
           UNCHANGED <<sent, offline, poolVars>>,
           x = "failed" => Lost(Head(route[m].todo)),
           x = "notified" => route[m].pc = "notifying"
    PROVE  WInv'
  <1>. DEFINE todo == route[m].todo
              a == Head(todo)
              after == IF Tail(todo) = <<>> THEN "done" ELSE "routing"
  <1>1. TypeOK /\ PoolTypeOK
    BY DEF WInv, TypeOK
  <1>2. todo \in Seq(Targets) /\ todo # <<>>
    BY <1>1 DEF WInv, TypeOK, RouteInv
  <1>3. a \in Targets /\ Tail(todo) \in Seq(Targets)
        /\ Elements(todo) = {a} \cup Elements(Tail(todo))
    BY <1>2, ElementsOfTail
  <1>4. /\ route' = [route EXCEPT ![m] = [pc |-> after, todo |-> Tail(todo), conn |-> None]]
        /\ route'[m].pc = after /\ route'[m].todo = Tail(todo)
        /\ \A n \in Messages \ {m} : route'[n] = route[n]
    BY <1>1 DEF Done, Goto, TypeOK
  <1>5. /\ after \in {"done", "routing"}
        /\ after \in OnTheWay <=> Tail(todo) # <<>>
    BY DEF OnTheWay
  <1>. HIDE DEF after
  <1>6. outcome' = [outcome EXCEPT ![m][a] = x]
    BY DEF Done
  <1>. HIDE DEF todo
  <1>7. /\ outcome'[m] = [outcome[m] EXCEPT ![a] = x]
        /\ outcome'[m][a] = x
        /\ \A b \in Targets \ {a} : outcome'[m][b] = outcome[m][b]
        /\ \A n \in Messages \ {m} : outcome'[n] = outcome[n]
    BY <1>1, <1>3, <1>6 DEF TypeOK
  <1>8. IInv'
    BY StepIInv DEF WInv
  <1>9. TypeOK'
    <2>1. outcome' \in [Messages -> [Targets -> Outcome]]
      BY <1>1, <1>3, <1>6 DEF TypeOK
    <2>2. route' \in [Messages -> [pc : {"new", "done"} \cup OnTheWay, todo : Seq(Targets),
                                  conn : {None} \cup ConnId]]
      BY <1>1, <1>3, <1>4, <1>5 DEF TypeOK, OnTheWay
    <2>. QED
      BY <1>1, <1>8, <2>1, <2>2 DEF TypeOK, IInv
  <1>10. /\ Reached(m)' = Reached(m) \cup {a}
         /\ \A n \in Messages \ {m} : Reached(n)' = Reached(n)
    BY <1>3, <1>7 DEF Reached
  <1>11. RouteInv'
    <2>1. Reached(m)' \cup Elements(Tail(todo)) = Reached(m) \cup Elements(todo)
      BY <1>3, <1>10
    <2>2. Due(sent[m], offline[m], Reached(m) \cup Elements(todo))
      BY DEF WInv, RouteInv, OnTheWay, todo
    <2>. QED
      BY <1>4, <1>5, <1>10, <2>1, <2>2 DEF WInv, RouteInv
  <1>12. SendInv'
    BY <1>4, <1>5 DEF WInv, SendInv, HadConnection, IsConnection, poolVars
  <1>13. FailInv'
    <2>1. \A b \in Targets : Lost(b)' <=> Lost(b)
      BY DEF Lost, poolVars
    <2>2. x = "failed" => Lost(a)
      BY DEF todo
    <2>3. ASSUME NEW n \in Messages, NEW b \in Targets, outcome'[n][b] = "failed"
          PROVE  Lost(b)
      <3>1. CASE n = m /\ b = a
        BY <1>7, <2>2, <2>3, <3>1
      <3>2. CASE ~(n = m /\ b = a)
        <4>1. outcome[n][b] = "failed"
          BY <1>7, <2>3, <3>2
        <4>. QED
          BY <4>1 DEF WInv, FailInv
      <3>. QED
        BY <3>1, <3>2
    <2>. QED
      BY <2>1, <2>3 DEF FailInv
  <1>14. OfflineInv'
    <2>1. \A b \in Agents : IsOnline(b)' <=> IsOnline(b)
      BY DEF IsOnline, poolVars
    <2>2. x = "notified" /\ ~TwoPools /\ a \in Agents => a \in offline[m]
      BY DEF WInv, OfflineInv, todo
    <2>3. Agents \subseteq Targets
      BY DEF Targets
    <2>4. ASSUME NEW n \in Messages, NEW b \in Agents, outcome'[n][b] = "notified", ~TwoPools
          PROVE  b \in offline[n]
      <3>1. CASE n = m /\ b = a
        BY <1>7, <2>2, <2>4, <3>1
      <3>2. CASE ~(n = m /\ b = a)
        <4>1. outcome[n][b] = "notified"
          BY <1>7, <2>3, <2>4, <3>2
        <4>. QED
          BY <2>4, <4>1 DEF WInv, OfflineInv
      <3>. QED
        BY <3>1, <3>2
    <2>5. ASSUME NEW n \in Messages
          PROVE  /\ route'[n].pc \in OnTheWay => n = m \/ route[n].pc \in OnTheWay
                 /\ route'[n].pc = "notifying" => n # m /\ route'[n] = route[n]
      BY <1>4, <1>5
    <2>. QED
      BY <2>1, <2>4, <2>5 DEF WInv, OfflineInv
  <1>. QED
    BY <1>8, <1>9, <1>11, <1>12, <1>13, <1>14 DEF WInv

\* routeIncoming goes from one step to the next with the same target.
LEMMA GotoWorkspace ==
    ASSUME WInv, NEW m \in Messages, NEW pc \in OnTheWay, NEW c \in {None} \cup ConnId,
           Goto(m, pc, route[m].todo, c), route[m].pc \in OnTheWay,
           UNCHANGED <<sent, outcome, offline, poolVars>>,
           pc = "sending" => /\ ~TwoPools /\ Head(route[m].todo) \in Agents
                             /\ HadConnection(Head(route[m].todo)),
           pc = "writing" => IsConnection(c, Head(route[m].todo)),
           pc = "notifying" /\ ~TwoPools /\ Head(route[m].todo) \in Agents
             => ~IsOnline(Head(route[m].todo))
    PROVE  WInv'
  <1>. DEFINE todo == route[m].todo
              a == Head(todo)
  <1>1. TypeOK /\ IInv
    BY DEF WInv
  <1>2. /\ route' = [route EXCEPT ![m] = [pc |-> pc, todo |-> todo, conn |-> c]]
        /\ route'[m].pc = pc /\ route'[m].todo = todo /\ route'[m].conn = c
        /\ \A n \in Messages \ {m} : route'[n] = route[n]
    BY <1>1 DEF Goto, TypeOK
  <1>3. IInv'
    BY <1>1, StepIInv DEF WInv
  <1>4. TypeOK'
    BY <1>1, <1>2, <1>3 DEF TypeOK, IInv
  <1>5. RouteInv'
    <2>1. \A n \in Messages : Reached(n)' = Reached(n)
      BY DEF Reached
    <2>. QED
      BY <1>2, <2>1 DEF WInv, RouteInv, OnTheWay
  <1>6. SendInv'
    <2>1. /\ \A b \in Agents : HadConnection(b)' <=> HadConnection(b)
          /\ \A d, b : IsConnection(d, b)' <=> IsConnection(d, b)
      BY DEF HadConnection, IsConnection, poolVars
    <2>. QED
      BY <1>2, <2>1 DEF WInv, SendInv
  <1>7. FailInv'
    BY DEF WInv, FailInv, Lost, poolVars
  <1>8. OfflineInv'
    <2>1. \A b \in Agents : IsOnline(b)' <=> IsOnline(b)
      BY DEF IsOnline, poolVars
    <2>2. pc = "notifying" /\ ~TwoPools /\ a \in Agents => a \in offline[m]
      BY DEF WInv, OfflineInv
    <2>. QED
      BY <1>2, <2>1, <2>2 DEF WInv, OfflineInv
  <1>. QED
    BY <1>3, <1>4, <1>5, <1>6, <1>7, <1>8 DEF WInv

\* pool.IsOnline: what it finds is a connection that was made.
LEMMA CheckWorkspace ==
    ASSUME WInv, NEW m \in Messages, CheckOnline(m)
    PROVE  WInv'
  <1>. DEFINE a == Head(route[m].todo)
  <1>1. IInv /\ route[m].pc \in OnTheWay /\ UNCHANGED <<sent, outcome, offline, poolVars>>
    BY DEF WInv, CheckOnline, OnTheWay
  <1>2. CASE ~OnlineToRouter(a)
    <2>1. Goto(m, "notifying", route[m].todo, None) /\ "notifying" \in OnTheWay
      BY <1>2 DEF CheckOnline, OnTheWay
    <2>2. ~TwoPools /\ a \in Agents => ~IsOnline(a)
      BY <1>2 DEF OnlineToRouter
    <2>. QED
      BY <1>1, <2>1, <2>2, GotoWorkspace
  <1>3. CASE OnlineToRouter(a)
    <2>1. Goto(m, "sending", route[m].todo, None) /\ "sending" \in OnTheWay
      BY <1>3 DEF CheckOnline, OnTheWay
    <2>2. ~TwoPools /\ a \in Agents /\ conns[a] # None
      BY <1>1, <1>3 DEF OnlineToRouter, IInv, StatusMatchesMap
    <2>3. HadConnection(a)
      <3>1. conns[a] \in ConnId /\ owner[conns[a]] = a /\ phase[conns[a]] # "unused"
        BY <1>1, <2>2 DEF IInv, PoolTypeOK, StatusMatchesMap, MapIsMade
      <3>. QED
        BY <3>1 DEF HadConnection
    <2>. QED
      BY <1>1, <2>1, <2>2, <2>3, GotoWorkspace
  <1>. QED
    BY <1>2, <1>3

\* sendOfflineNotice: IsOnline has said no.
LEMMA NoticeWorkspace ==
    ASSUME WInv, NEW m \in Messages, sendOfflineNotice(m)
    PROVE  WInv'
  <1>1. PICK x \in {"notified", "unannounced"} : Done(m, x)
    BY DEF sendOfflineNotice
  <1>2. /\ x \in Outcome /\ x # "none" /\ x # "failed"
        /\ route[m].pc = "notifying" /\ route[m].pc \in OnTheWay
        /\ UNCHANGED <<sent, offline, poolVars>>
    BY DEF sendOfflineNotice, Outcome, OnTheWay
  <1>. QED
    BY <1>1, <1>2, AdvanceWorkspace

\* pool.SendToAgent finds a connection of the agent, or the one that IsOnline
\* saw is lost.
LEMMA LookUpWorkspace ==
    ASSUME WInv, NEW m \in Messages, LookUp(m)
    PROVE  WInv'
  <1>. DEFINE a == Head(route[m].todo)
              c == conns[a]
  <1>1. /\ IInv /\ route[m].pc = "sending" /\ route[m].pc \in OnTheWay
        /\ UNCHANGED <<sent, offline, poolVars>>
    BY DEF WInv, LookUp, OnTheWay
  <1>2. ~TwoPools /\ a \in Agents /\ HadConnection(a)
    BY <1>1 DEF WInv, SendInv
  <1>3. ConnOfRouter(a) = c
    BY <1>2 DEF ConnOfRouter
  <1>4. CASE c = None
    <2>1. Done(m, "failed") /\ "failed" \in Outcome
      BY <1>3, <1>4 DEF LookUp, Outcome
    <2>2. Lost(a)
      BY <1>2, <1>4 DEF HadConnection, Lost, ConnId, None
    <2>. QED
      BY <1>1, <2>1, <2>2, AdvanceWorkspace
  <1>5. CASE c # None
    <2>1. Goto(m, "writing", route[m].todo, c) /\ UNCHANGED outcome /\ "writing" \in OnTheWay
      BY <1>3, <1>5 DEF LookUp, OnTheWay
    <2>2. IsConnection(c, a)
      BY <1>1, <1>2, <1>5 DEF IInv, PoolTypeOK, StatusMatchesMap, MapIsMade, IsConnection
    <2>3. c \in {None} \cup ConnId
      BY <2>2 DEF IsConnection
    <2>. QED
      BY <1>1, <2>1, <2>2, <2>3, GotoWorkspace
  <1>. QED
    BY <1>4, <1>5

\* conn.Send: where it fails, the connection it writes to is lost.
LEMMA WriteWorkspace ==
    ASSUME WInv, NEW m \in Messages, Write(m)
    PROVE  WInv'
  <1>1. PICK x \in {"delivered", "failed"} :
           Done(m, x) /\ (x = "failed" => ~Writable(route[m].conn))
    BY DEF Write
  <1>2. /\ x \in Outcome /\ x # "none" /\ x # "notified"
        /\ route[m].pc = "writing" /\ route[m].pc \in OnTheWay
        /\ UNCHANGED <<sent, offline, poolVars>>
    BY DEF Write, Outcome, OnTheWay
  <1>3. IsConnection(route[m].conn, Head(route[m].todo))
    BY <1>2 DEF WInv, SendInv
  <1>4. x = "failed" => Lost(Head(route[m].todo))
    BY <1>1, <1>3 DEF Writable, IsConnection, Lost
  <1>. QED
    BY <1>1, <1>2, <1>4, AdvanceWorkspace

\* Every step keeps the invariant.
LEMMA StepWorkspace ==
    ASSUME WInv, [Next]_vars
    PROVE  WInv'
  <1>1. CASE PoolStep \/ UNCHANGED vars
    BY <1>1, PoolWorkspace
  <1>. QED
    BY <1>1, ArriveWorkspace, CheckWorkspace, NoticeWorkspace, LookUpWorkspace,
       WriteWorkspace DEF Next, RouteStep

\* A specification's states satisfy the invariant.
LEMMA WorkspaceInvariant == Spec => []WInv
  <1>1. Init => WInv
    BY InitWorkspace
  <1>2. WInv /\ [Next]_vars => WInv'
    BY StepWorkspace
  <1>. QED
    BY <1>1, <1>2, PTL DEF Spec

-----------------------------------------------------------------------------
\* However the agents come and go between the router's questions, a message
\* that mentions bots is for exactly their agents, and a direct message
\* without one for exactly one registered agent, a PM unless every PM was
\* offline meanwhile; each of them gets the message, or its sender a notice,
\* unless the agent lost a connection.
THEOREM WorkspaceRoutes == Spec => [](TypeOK /\ RoutedAsDocumented)
  <1>1. WInv => TypeOK /\ RoutedAsDocumented
    <2>1. SUFFICES ASSUME WInv, NEW m \in Messages, route[m].pc = "done"
                   PROVE  /\ Due(sent[m], offline[m], Reached(m))
                          /\ \A a \in Reached(m) :
                               \/ outcome[m][a] \in {"delivered", "notified", "unannounced"}
                               \/ LostConnection(a)
      BY DEF WInv, RoutedAsDocumented, Due, Reached, Bots
    <2>2. /\ route[m].todo = <<>>
          /\ Due(sent[m], offline[m], Reached(m) \cup Elements(route[m].todo))
      BY <2>1 DEF WInv, RouteInv, OnTheWay
    <2>3. Reached(m) \cup Elements(<<>>) = Reached(m)
      BY DEF Elements
    <2>4. ASSUME NEW a \in Reached(m)
          PROVE  \/ outcome[m][a] \in {"delivered", "notified", "unannounced"}
                 \/ LostConnection(a)
      <3>1. a \in Targets /\ outcome[m][a] \in Outcome \ {"none"}
        BY <2>1, <2>4 DEF Reached, WInv, TypeOK
      <3>2. outcome[m][a] = "failed" => LostConnection(a)
        BY <2>1, <3>1 DEF WInv, FailInv, Lost, LostConnection
      <3>. QED
        BY <3>1, <3>2 DEF Outcome
    <2>. QED
      BY <2>2, <2>3, <2>4
  <1>. QED
    BY <1>1, WorkspaceInvariant, PTL

\* A message is lost without a notice only to an agent that lost, or replaced,
\* a connection.
THEOREM WorkspaceLoses == Spec => []LostOnlyByBreak
  <1>1. WInv => LostOnlyByBreak
    BY DEF WInv, FailInv, Lost, LostConnection, LostOnlyByBreak
  <1>. QED
    BY <1>1, WorkspaceInvariant, PTL

\* With the one pool of router_test.go the notices are true, though the notice
\* is sent after the question and without a lock: the agent was offline at
\* some moment since the message came in.  (With the two pools of main it need
\* not have been.)
THEOREM OnePoolNoticesTrue == ~TwoPools /\ Spec => []NoticeIsTrue
  <1>. SUFFICES ASSUME ~TwoPools PROVE Spec => []NoticeIsTrue
    OBVIOUS
  <1>1. WInv => NoticeIsTrue
    BY DEF WInv, OfflineInv, NoticeIsTrue
  <1>. QED
    BY <1>1, WorkspaceInvariant, PTL
=============================================================================
