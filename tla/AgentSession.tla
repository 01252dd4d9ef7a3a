----------------------------- MODULE AgentSession ---------------------------
(***************************************************************************)
(* Both ends of an agent's connection: the pool of module AgentPool and    *)
(* the WorkspaceClients of the agents (sdk/go/cova/workspace_client.go),   *)
(* with the frames on the wire between them and the way of an answer back  *)
(* to its channel (Router.HandleAgentResponse).                            *)
(*                                                                         *)
(* A client keeps its connection in a field that Connect and Close write   *)
(* and readLoop and SendResponse read again at every use, under different  *)
(* locks or none; a use of nil and a second close of done are panics, and  *)
(* a panic ends the process of the client.                                 *)
(***************************************************************************)
EXTENDS AgentPool, Sequences

CONSTANTS
    Clients,    \* WorkspaceClients, each in a process of its own
    AgentOf,    \* their WorkspaceConfig.AgentID
    Messages,   \* messages the router sends
    NoMessage

ASSUME AgentSessionAssumption ==
    /\ AgentOf \in [Clients -> Agents]
    /\ NoMessage \notin Messages /\ "auth" \notin Messages

VARIABLES
    client,    \* whose Connect dialed a connection
    field,     \* WorkspaceClient.conn
    dialing,   \* the connection whose auth_result Connect waits for
    loop,      \* per connection, the readLoop its Connect has started
    done,      \* whether WorkspaceClient.done is closed
    panicked,  \* whether the process of a client has panicked
    usage,     \* history: what the application did with a client
    down, up,  \* the frames on their way to the client, to the pool
    carrier,   \* per message: the connection that took it, and its phase
    answered,  \* the messages whose answer reached the channel
    refused    \* connections on which Connect read no auth_result

clientVars == <<client, field, dialing, loop, done, panicked, usage>>
wireVars == <<down, up, carrier, answered, refused>>
vars == <<poolVars, clientVars, wireVars>>

NoClient == "none"
NoLoop == [pc |-> "none", on |-> None, msg |-> NoMessage]

Up(c) == alive[c] /\ ~closed[c]

\* The process of client k is gone, and with it its sockets.
Panic(k) ==
    /\ panicked' = [panicked EXCEPT ![k] = TRUE]
    /\ alive' = [c \in ConnId |-> alive[c] /\ client[c] # k]
    /\ field' = [field EXCEPT ![k] = None]
    /\ dialing' = [dialing EXCEPT ![k] = None]
    /\ loop' = [c \in ConnId |-> IF client[c] = k THEN NoLoop ELSE loop[c]]
    /\ UNCHANGED <<client, done, usage, conns, status, owner, phase, closed, wireVars>>

-----------------------------------------------------------------------------
\* WorkspaceClient.Connect up to the wait for the answer, and HandleWebSocket
\* up to the unlock.
Dial(c, k) ==
    /\ ~panicked[k] /\ dialing[k] = None
    /\ Connect(c, AgentOf[k])
    /\ client' = [client EXCEPT ![c] = k]
    /\ field' = [field EXCEPT ![k] = c]
    /\ dialing' = [dialing EXCEPT ![k] = c]
    /\ usage' = IF \E b \in ConnId : client[b] = k
                  THEN [usage EXCEPT ![k] = @ \cup {"reconnect"}] ELSE usage
    /\ UNCHANGED <<loop, done, panicked, wireVars>>

\* Mutant: readLoop starts at once, and auth_result is left to it.
AuthResultLater(c) == Greet(c) /\ UNCHANGED <<clientVars, wireVars>>

\* The pool answers; the frame is lost with the socket.
AuthResult(c) ==
    /\ Greet(c)
    /\ down' = IF Up(c) /\ phase'[c] = "reading"
                 THEN [down EXCEPT ![c] = Append(@, "auth")] ELSE down
    /\ UNCHANGED <<clientVars, up, carrier, answered, refused>>

\* The rest of Connect: success only for an auth_result with success; any
\* other frame leaves success false.  An error closes the socket, not the
\* field.
Connected(k) ==
    LET c == dialing[k] IN
    /\ c # None
    /\ dialing' = [dialing EXCEPT ![k] = None]
    /\ \/ /\ down[c] # <<>> /\ Head(down[c]) = "auth"
          /\ loop' = [loop EXCEPT ![c] = [NoLoop EXCEPT !.pc = "start"]]
          /\ down' = [down EXCEPT ![c] = Tail(@)]
          /\ UNCHANGED <<alive, refused>>
       \/ /\ down[c] # <<>> /\ Head(down[c]) # "auth"
          /\ refused' = refused \cup {c}
          /\ alive' = [alive EXCEPT ![c] = FALSE]
          /\ down' = [down EXCEPT ![c] = Tail(@)]
          /\ UNCHANGED loop
       \/ /\ ~Up(c)
          /\ alive' = [alive EXCEPT ![c] = FALSE]
          /\ UNCHANGED <<loop, down, refused>>
    /\ UNCHANGED <<client, field, done, panicked, usage, conns, status, owner, phase, closed,
                   up, carrier, answered>>

LoopTo(c, pc, on, m) == loop' = [loop EXCEPT ![c] = [pc |-> pc, on |-> on, msg |-> m]]

\* A use of the field by readLoop: SetPongHandler first, ReadMessage then.
LoopUsesField(c) ==
    LET k == client[c] IN
    /\ loop[c].pc \in {"start", "top"}
    /\ \/ field[k] = None /\ Panic(k)
       \/ /\ field[k] # None
          /\ IF loop[c].pc = "start" THEN LoopTo(c, "top", None, NoMessage)
                                     ELSE LoopTo(c, "read", field[k], NoMessage)
          /\ UNCHANGED <<poolVars, wireVars, client, field, dialing, done, panicked, usage>>

\* ReadMessage returns a frame; onMessage is called for a message.
LoopReads(c) ==
    LET x == loop[c].on IN
    /\ loop[c].pc = "read"
    /\ down[x] # <<>>
    /\ down' = [down EXCEPT ![x] = Tail(@)]
    /\ IF Head(down[x]) = "auth" THEN LoopTo(c, "top", None, NoMessage)
                                 ELSE LoopTo(c, "handle", None, Head(down[x]))
    /\ UNCHANGED <<poolVars, client, field, dialing, done, panicked, usage,
                   up, carrier, answered, refused>>

\* Mutant: done is closed where the error is logged, too.
LoopEndsTwice(c) == loop[c].pc = "read" /\ ~Up(loop[c].on) /\ Panic(client[c])

\* ReadMessage fails; the deferred close of done panics the second time.
LoopEnds(c) ==
    LET k == client[c] IN
    /\ loop[c].pc = "read"
    /\ ~Up(loop[c].on)
    /\ \/ done[k] /\ Panic(k)
       \/ /\ ~done[k]
          /\ done' = [done EXCEPT ![k] = TRUE]
          /\ LoopTo(c, "over", None, NoMessage)
          /\ UNCHANGED <<poolVars, wireVars, client, field, dialing, panicked, usage>>

\* onMessage answers with SendResponse, whose check and whose use of the
\* field are two reads.
SendResponse(c) ==
    LET k == client[c]  x == field[k]  m == loop[c].msg IN
    \/ /\ loop[c].pc = "handle"
       /\ LoopTo(c, IF x = None THEN "top" ELSE "send", None, IF x = None THEN NoMessage ELSE m)
       /\ UNCHANGED <<poolVars, wireVars, client, field, dialing, done, panicked, usage>>
    \/ /\ loop[c].pc = "send"
       /\ \/ x = None /\ Panic(k)
          \/ /\ x # None
             /\ up' = IF Up(x) THEN [up EXCEPT ![x] = Append(@, m)] ELSE up
             /\ LoopTo(c, "top", None, NoMessage)
             /\ UNCHANGED <<poolVars, client, field, dialing, done, panicked, usage,
                            down, carrier, answered, refused>>

\* Or it answers over HTTP, on /webhook.
PostWebhook(c) ==
    /\ loop[c].pc = "handle"
    /\ answered' = answered \cup {loop[c].msg}
    /\ LoopTo(c, "top", None, NoMessage)
    /\ UNCHANGED <<poolVars, client, field, dialing, done, panicked, usage,
                   down, up, carrier, refused>>

\* The application closes its client.
Close(k) ==
    /\ ~panicked[k] /\ field[k] # None
    /\ alive' = [alive EXCEPT ![field[k]] = FALSE]
    /\ field' = [field EXCEPT ![k] = None]
    /\ usage' = [usage EXCEPT ![k] = @ \cup {"close"}]
    /\ UNCHANGED <<client, dialing, loop, done, panicked, conns, status, owner, phase, closed,
                   wireVars>>

-----------------------------------------------------------------------------
\* pool.SendToAgent, for an agent the router found online.
SendToAgent(m, a) ==
    LET c == conns[a] IN
    /\ carrier[m].conn = None
    /\ IsOnline(a) /\ Up(c)
    /\ carrier' = [carrier EXCEPT ![m] = [conn |-> c, phase |-> phase[c]]]
    /\ down' = [down EXCEPT ![c] = Append(@, m)]
    /\ UNCHANGED <<poolVars, clientVars, up, answered, refused>>

\* Mutant: the answer carries no platform, and HandleAgentResponse finds no
\* channel for it.
HandleWithoutPlatform(c) ==
    /\ phase[c] = "reading"
    /\ up[c] # <<>>
    /\ up' = [up EXCEPT ![c] = Tail(@)]
    /\ UNCHANGED <<poolVars, clientVars, down, carrier, answered, refused>>

\* Pool.readLoop gets a response and calls HandleAgentResponse.
HandleAgentResponse(c) ==
    /\ phase[c] = "reading"
    /\ up[c] # <<>>
    /\ up' = [up EXCEPT ![c] = Tail(@)]
    /\ answered' = answered \cup {Head(up[c])}
    /\ UNCHANGED <<poolVars, clientVars, down, carrier, refused>>

Init ==
    /\ PoolInit
    /\ client = [c \in ConnId |-> NoClient]
    /\ field = [k \in Clients |-> None]
    /\ dialing = [k \in Clients |-> None]
    /\ loop = [c \in ConnId |-> NoLoop]
    /\ done = [k \in Clients |-> FALSE]
    /\ panicked = [k \in Clients |-> FALSE]
    /\ usage = [k \in Clients |-> {}]
    /\ down = [c \in ConnId |-> <<>>]
    /\ up = [c \in ConnId |-> <<>>]
    /\ carrier = [m \in Messages |-> [conn |-> None, phase |-> "unused"]]
    /\ answered = {}
    /\ refused = {}

PoolStep(c) ==
    \/ AuthResult(c)
    \/ HandleAgentResponse(c)
    \/ ReadLoopEnds(c) /\ UNCHANGED <<clientVars, wireVars>>

LoopStep(c) == LoopUsesField(c) \/ LoopReads(c) \/ LoopEnds(c) \/ SendResponse(c) \/ PostWebhook(c)

Next ==
    \/ \E c \in ConnId :
         \/ \E k \in Clients : Dial(c, k)
         \/ PoolStep(c)
         \/ LoopStep(c)
         \/ Break(c) /\ UNCHANGED <<clientVars, wireVars>>
    \/ \E k \in Clients : Connected(k) \/ Close(k)
    \/ \E m \in Messages, a \in Agents : SendToAgent(m, a)

\* The goroutines of both processes run.
Spec ==
    /\ Init /\ [][Next]_vars
    /\ \A c \in ConnId : WF_vars(PoolStep(c)) /\ WF_vars(LoopStep(c))
    /\ \A k \in Clients : WF_vars(Connected(k))

-----------------------------------------------------------------------------
\* A client that is connected once and not closed never panics, whatever the
\* network, the pool and its other connections do.  (Connect after readLoop
\* has ended, and Close next to a running readLoop, do make it panic.)
PanicOnlyByUse == \A k \in Clients : panicked[k] => usage[k] # {}

\* An agent the pool has accepted can fail to connect on a socket that is up
\* only because a message was routed to it before its auth_result (it is
\* online before it is greeted), or because the readLoop of an earlier Connect
\* of the same client took the auth_result.
RefusedOnlyByOvertaking ==
    \A c \in refused :
        \/ \E m \in Messages : carrier[m] = [conn |-> c, phase |-> "greeting"]
        \/ "reconnect" \in usage[client[c]]

\* A message the pool has sent is answered, unless the connection is lost or
\* the agent was refused or closed its client.
SentIsAnswered ==
    \A m \in Messages, c \in ConnId :
        carrier[m].conn = c ~> (m \in answered \/ ~Up(c))
=============================================================================
