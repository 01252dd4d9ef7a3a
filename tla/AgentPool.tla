------------------------------ MODULE AgentPool -----------------------------
(***************************************************************************)
(* The pool of WebSocket connections of the coco agents                    *)
(* (internal/agent/connection.go).  One step is one critical section of    *)
(* Pool.mu or one use of a connection outside it: HandleWebSocket enters   *)
(* the connection into the maps, releases the lock, sends auth_result and  *)
(* only then starts readLoop, whose deferred disconnectAgent knows nothing *)
(* but the agent id.                                                       *)
(***************************************************************************)
EXTENDS Integers

CONSTANTS
    Agents,    \* the agents of the registry (RegisterAgent)
    NoAgent,   \* the owner of a connection that does not exist yet
    MaxConns   \* bound: connections that authenticate

ASSUME AgentPoolAssumption == MaxConns \in Nat /\ NoAgent \notin Agents

ConnId == 1 .. MaxConns
None == 0

VARIABLES
    conns,    \* Pool.conns, None where the map has no entry
    status,   \* Pool.states[a].Status
    owner,    \* Conn.agentID
    phase,    \* what HandleWebSocket and readLoop have done with a connection
    closed,   \* Conn.closed
    alive     \* whether peer and network still hold the socket up

poolVars == <<conns, status, owner, phase, closed, alive>>

Phase == {"unused", "greeting", "reading", "over"}

IsOnline(a) == status[a] = "online"

-----------------------------------------------------------------------------
\* Mutants: the connection it replaces stays open; the state is not replaced.
ConnectKeepsOld(c, a) ==
    /\ phase[c] = "unused"
    /\ \A b \in ConnId : b < c => phase[b] # "unused"
    /\ conns' = [conns EXCEPT ![a] = c]
    /\ status' = [status EXCEPT ![a] = "online"]
    /\ owner' = [owner EXCEPT ![c] = a]
    /\ phase' = [phase EXCEPT ![c] = "greeting"]
    /\ alive' = [alive EXCEPT ![c] = TRUE]
    /\ UNCHANGED closed

ConnectKeepsState(c, a) ==
    /\ phase[c] = "unused"
    /\ \A b \in ConnId : b < c => phase[b] # "unused"
    /\ closed' = [b \in ConnId |-> closed[b] \/ b = conns[a]]
    /\ conns' = [conns EXCEPT ![a] = c]
    /\ owner' = [owner EXCEPT ![c] = a]
    /\ phase' = [phase EXCEPT ![c] = "greeting"]
    /\ alive' = [alive EXCEPT ![c] = TRUE]
    /\ UNCHANGED status

\* HandleWebSocket for an agent that passed the checks, up to the unlock.
Connect(c, a) ==
    /\ phase[c] = "unused"
    /\ \A b \in ConnId : b < c => phase[b] # "unused"
    /\ closed' = [b \in ConnId |-> closed[b] \/ b = conns[a]]
    /\ conns' = [conns EXCEPT ![a] = c]
    /\ status' = [status EXCEPT ![a] = "online"]
    /\ owner' = [owner EXCEPT ![c] = a]
    /\ phase' = [phase EXCEPT ![c] = "greeting"]
    /\ alive' = [alive EXCEPT ![c] = TRUE]

\* conn.Send(authResp).  It fails on a closed connection; on a dead socket it
\* may or may not.  A failure closes the connection and returns: readLoop, and
\* with it disconnectAgent, is never started.
Greet(c) ==
    /\ phase[c] = "greeting"
    /\ \/ /\ ~closed[c]
          /\ phase' = [phase EXCEPT ![c] = "reading"]
          /\ UNCHANGED closed
       \/ /\ closed[c] \/ ~alive[c]
          /\ phase' = [phase EXCEPT ![c] = "over"]
          /\ closed' = [closed EXCEPT ![c] = TRUE]
    /\ UNCHANGED <<conns, status, owner, alive>>

\* The agent hangs up, its network fails, or it misses its pongs.
Break(c) ==
    /\ alive[c]
    /\ alive' = [alive EXCEPT ![c] = FALSE]
    /\ UNCHANGED <<conns, status, owner, phase, closed>>

\* Mutants: the map entry is left; nothing is done.
disconnectStatusOnly(a) ==
    /\ closed' = [b \in ConnId |-> closed[b] \/ b = conns[a]]
    /\ status' = [status EXCEPT ![a] = "offline"]
    /\ UNCHANGED conns

disconnectNothing(a) == UNCHANGED <<closed, conns, status>>

\* disconnectAgent: whatever connection the agent has now.
disconnectAgent(a) ==
    /\ closed' = [b \in ConnId |-> closed[b] \/ b = conns[a]]
    /\ conns' = [conns EXCEPT ![a] = None]
    /\ status' = [status EXCEPT ![a] = "offline"]

\* ReadMessage fails, on a connection this server closed or a socket that
\* broke, and readLoop returns.
ReadLoopEnds(c) ==
    /\ phase[c] = "reading"
    /\ closed[c] \/ ~alive[c]
    /\ disconnectAgent(owner[c])
    /\ phase' = [phase EXCEPT ![c] = "over"]
    /\ UNCHANGED <<owner, alive>>

PoolInit ==
    /\ conns = [a \in Agents |-> None]
    /\ status = [a \in Agents |-> "offline"]
    /\ owner = [c \in ConnId |-> NoAgent]
    /\ phase = [c \in ConnId |-> "unused"]
    /\ closed = [c \in ConnId |-> FALSE]
    /\ alive = [c \in ConnId |-> FALSE]

PoolNext ==
    \E c \in ConnId :
        \/ \E a \in Agents : Connect(c, a)
        \/ Greet(c)
        \/ Break(c)
        \/ ReadLoopEnds(c)

\* The goroutines run: a read on a broken socket returns within pongWait.
PoolFairness == \A c \in ConnId : WF_poolVars(Greet(c)) /\ WF_poolVars(ReadLoopEnds(c))

PoolSpec == PoolInit /\ [][PoolNext]_poolVars /\ PoolFairness

-----------------------------------------------------------------------------
\* Every variable has its type.
PoolTypeOK ==
    /\ conns \in [Agents -> {None} \cup ConnId]
    /\ status \in [Agents -> {"offline", "online"}]
    /\ owner \in [ConnId -> Agents \cup {NoAgent}]
    /\ phase \in [ConnId -> Phase]
    /\ closed \in [ConnId -> BOOLEAN] /\ alive \in [ConnId -> BOOLEAN]

\* IsOnline and SendToAgent agree: the pool has a connection for exactly the
\* agents it reports online, and it is that agent's own.
StatusMatchesMap ==
    \A a \in Agents :
        /\ IsOnline(a) <=> conns[a] # None
        /\ conns[a] # None => owner[conns[a]] = a

\* A connection that is still open is the one SendToAgent uses: no agent ever
\* listens on a connection the pool has forgotten.
OpenIsCurrent ==
    \A c \in ConnId :
        phase[c] \in {"greeting", "reading"} /\ ~closed[c] => conns[owner[c]] = c

\* A broken connection is noticed: its agent does not stay online because of
\* it.
BreakIsNoticed ==
    \A c \in ConnId :
        (phase[c] = "reading" /\ ~alive[c]) ~> (\A a \in Agents : conns[a] # c)

\* connection_test.go: an agent is online after auth.  An agent whose newest
\* connection is up and greeted is offline only because the read loop of
\* another one has ended since: disconnectAgent takes down whatever connection
\* the agent has.
OfflineOnlyByEviction ==
    \A c \in ConnId :
        /\ phase[c] = "reading" /\ alive[c] /\ ~IsOnline(owner[c])
        /\ \A d \in ConnId : d > c => owner[d] # owner[c]
        =>  /\ closed[c]
            /\ \E d \in ConnId : d # c /\ owner[d] = owner[c] /\ phase[d] = "over"
=============================================================================
