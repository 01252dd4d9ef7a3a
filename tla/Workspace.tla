------------------------------ MODULE Workspace -----------------------------
(***************************************************************************)
(* The workspace server (cmd/workspace/main.go): the Feishu channel        *)
(* (internal/channel/feishu/feishu.go) that hands messages to the router   *)
(* (internal/routing/router.go), in front of the pool of module AgentPool. *)
(* routeIncoming takes the pool's lock once per question it asks, so the   *)
(* agents connect and disconnect between its steps.                        *)
(*                                                                         *)
(* main builds two pools: the router keeps the first, the agents connect   *)
(* to the second.  TwoPools is that wiring; without it, router and agents  *)
(* share one pool, as in router_test.go.                                   *)
(***************************************************************************)
EXTENDS AgentPool, Sequences

CONSTANTS
    Messages,   \* incoming channel messages
    PMs,        \* the agents whose Info.Role is "PM"
    BotNameToAgentID,   \* Config.BotNameToAgentID, of parseBotMapping
    NameLists,  \* the lists of names a message may mention
    TwoPools    \* the wiring of main

ASSUME WorkspaceAssumption ==
    /\ PMs \subseteq Agents /\ Agents # {}
    /\ NameLists \subseteq Seq(STRING)
    /\ TwoPools \in BOOLEAN

VARIABLES
    route,    \* per message, where routeIncoming is, the targets left, and the
              \* connection SendToAgent has looked up
    sent,     \* per message, the event of the platform
    outcome,  \* per message and target, what became of it
    offline   \* history, per message: the agents that were offline at some
              \* moment while routeIncoming worked on it

routeVars == <<route, sent, outcome>>
vars == <<poolVars, routeVars, offline>>

\* "failed" is a message lost without a notice, "unannounced" a notice that
\* the platform did not take.
Outcome == {"none", "delivered", "failed", "notified", "unannounced"}

\* The pcs of routeIncoming.
OnTheWay == {"routing", "notifying", "sending", "writing"}

\* The ids a mention may resolve to; nothing compares them with the registry.
Targets == Agents \cup {BotNameToAgentID[n] : n \in DOMAIN BotNameToAgentID}

\* What the channel looks at: the chat, whether extractText and cleanMention
\* leave any text, and the names mentioned.
Message == [chat : {"p2p", "group", ""}, text : BOOLEAN, names : NameLists]
NoEvent == [chat |-> "", text |-> FALSE, names |-> <<>>]

-----------------------------------------------------------------------------
\* The router's view of the pool: RegisterAgent left every agent of the first
\* pool offline and nothing changes it.  An unknown id is not online.
OnlineToRouter(a) == ~TwoPools /\ a \in Agents /\ IsOnline(a)
ConnOfRouter(a) == IF TwoPools THEN None ELSE conns[a]

OnlineAgents == {a \in Agents : OnlineToRouter(a)}

\* Mutant: the first online agent, whatever its role.
findOnlineAgent ==
    IF OnlineAgents # {} THEN OnlineAgents ELSE IF PMs # {} THEN PMs ELSE Agents

\* The agents findDefaultAgent may return (ListAgents ranges over a map, so
\* among equals any one comes first).
findDefaultAgent ==
    IF OnlineAgents \cap PMs # {} THEN OnlineAgents \cap PMs
    ELSE IF OnlineAgents # {} THEN OnlineAgents
    ELSE IF PMs # {} THEN PMs ELSE Agents

\* Mutant: every mention is taken for an agent's name.
resolveAllMentions(names) ==
    [i \in DOMAIN names |->
        IF names[i] \in DOMAIN BotNameToAgentID THEN BotNameToAgentID[names[i]]
        ELSE CHOOSE a \in Agents : TRUE]

\* The mentions that are bots, as agent ids: the loop over the mentions, which
\* passes over every name that is no bot's.
resolveMentions(names) ==
    LET mentions[i \in 0 .. Len(names)] ==
          IF i = 0 THEN <<>>
          ELSE IF names[i] \in DOMAIN BotNameToAgentID
                 THEN Append(mentions[i - 1], BotNameToAgentID[names[i]])
                 ELSE mentions[i - 1]
    IN  mentions[Len(names)]

\* handleMessage passes a message on.
Passed(e) == e.text /\ (e.chat = "group" => e.names # <<>>)

\* resolveTargets, for a message of a chat type with these mentions.
resolveTargets(chat, mentions) ==
    IF mentions # <<>> THEN {mentions}
    ELSE IF chat = "p2p" THEN {<<a>> : a \in findDefaultAgent}
    ELSE {<<>>}

Goto(m, pc, todo, c) ==
    route' = [route EXCEPT ![m] = [pc |-> pc, todo |-> todo, conn |-> c]]

\* routeIncoming is done with the target it is at.
Done(m, x) ==
    LET todo == route[m].todo IN
    /\ outcome' = [outcome EXCEPT ![m][Head(todo)] = x]
    /\ Goto(m, IF Tail(todo) = <<>> THEN "done" ELSE "routing", Tail(todo), None)

\* handleMessage gets an event and hands it to routeIncoming.
Arrive(m) ==
    /\ route[m].pc = "new"
    /\ \E e \in Message :
         /\ sent' = [sent EXCEPT ![m] = e]
         /\ \/ ~Passed(e) /\ Goto(m, "done", <<>>, None)
            \/ /\ Passed(e)
               /\ \E targets \in resolveTargets(e.chat, resolveMentions(e.names)) :
                    Goto(m, IF targets = <<>> THEN "done" ELSE "routing", targets, None)
    /\ offline' = [offline EXCEPT ![m] = {a \in Agents : ~IsOnline(a)}]
    /\ UNCHANGED <<outcome, poolVars>>

\* Mutant: no question is asked before sending.
CheckNothing(m) ==
    /\ route[m].pc = "routing"
    /\ Goto(m, "sending", route[m].todo, None)
    /\ UNCHANGED <<sent, outcome, offline, poolVars>>

\* pool.IsOnline for the next target.
CheckOnline(m) ==
    /\ route[m].pc = "routing"
    /\ LET todo == route[m].todo IN
       Goto(m, IF OnlineToRouter(Head(todo)) THEN "sending" ELSE "notifying", todo, None)
    /\ UNCHANGED <<sent, outcome, offline, poolVars>>

\* sendOfflineNotice, whatever the agent has done since IsOnline said no; an
\* error of the channel is only logged.
sendOfflineNotice(m) ==
    /\ route[m].pc = "notifying"
    /\ Done(m, "notified") \/ Done(m, "unannounced")
    /\ UNCHANGED <<sent, offline, poolVars>>

\* pool.SendToAgent up to the unlock: the connection it finds, or the error
\* that routeIncoming logs.
LookUp(m) ==
    /\ route[m].pc = "sending"
    /\ LET todo == route[m].todo  c == ConnOfRouter(Head(todo)) IN
       \/ c = None /\ Done(m, "failed")
       \/ c # None /\ Goto(m, "writing", todo, c) /\ UNCHANGED outcome
    /\ UNCHANGED <<sent, offline, poolVars>>

Writable(c) == ~closed[c] /\ alive[c]

\* Mutant: the sender of a message that could not be sent is told that the
\* agent is offline.
WriteOrNotify(m) ==
    /\ route[m].pc = "writing"
    /\ IF Writable(route[m].conn)
         THEN Done(m, "delivered")
         ELSE Goto(m, "notifying", route[m].todo, None) /\ UNCHANGED outcome
    /\ UNCHANGED <<sent, offline, poolVars>>

\* The rest of SendToAgent, conn.Send without the lock.  It fails on a closed
\* connection; on a broken socket the message is gone, with or without an
\* error.  Either way nobody is told.
Write(m) ==
    /\ route[m].pc = "writing"
    /\ Done(m, IF Writable(route[m].conn) THEN "delivered" ELSE "failed")
    /\ UNCHANGED <<sent, offline, poolVars>>

Init ==
    /\ PoolInit
    /\ route = [m \in Messages |-> [pc |-> "new", todo |-> <<>>, conn |-> None]]
    /\ sent = [m \in Messages |-> NoEvent]
    /\ outcome = [m \in Messages |-> [a \in Targets |-> "none"]]
    /\ offline = [m \in Messages |-> {}]

RouteStep(m) == CheckOnline(m) \/ sendOfflineNotice(m) \/ LookUp(m) \/ Write(m)

\* A step of the pool, noted down for the messages on their way.
PoolStep ==
    /\ PoolNext
    /\ offline' = [m \in Messages |->
                     IF route[m].pc \in OnTheWay
                       THEN offline[m] \cup {a \in Agents : status'[a] = "offline"}
                       ELSE offline[m]]
    /\ UNCHANGED routeVars

Next ==
    \/ PoolStep
    \/ \E m \in Messages : Arrive(m) \/ RouteStep(m)

Spec == Init /\ [][Next]_vars

-----------------------------------------------------------------------------
\* Every variable has its type.
TypeOK ==
    /\ PoolTypeOK
    /\ route \in [Messages -> [pc : {"new", "done"} \cup OnTheWay, todo : Seq(Targets),
                               conn : {None} \cup ConnId]]
    /\ sent \in [Messages -> Message \cup {NoEvent}]
    /\ outcome \in [Messages -> [Targets -> Outcome]]
    /\ offline \in [Messages -> SUBSET Agents]

LostConnection(a) == \E c \in ConnId : owner[c] = a /\ (closed[c] \/ ~alive[c])

\* A message is lost without a notice only to an agent that lost, or replaced,
\* a connection.
LostOnlyByBreak ==
    \A m \in Messages, a \in Targets : outcome[m][a] = "failed" => LostConnection(a)

\* The routing rules of resolveTargets' comment, end to end.  1: a message that
\* mentions bots is for exactly their agents, in any chat and whoever else it
\* mentions.  2: a direct message without one is for exactly one registered
\* agent, a PM unless every PM was offline at some moment meanwhile.  3:
\* nothing else is for anyone.  Each of these agents gets the message, or its
\* sender a notice that the platform may refuse; neither happens only if the
\* agent lost a connection.
RoutedAsDocumented ==
    \A m \in Messages : route[m].pc = "done" =>
        LET targets == {a \in Targets : outcome[m][a] # "none"}
            bots    == {n \in DOMAIN BotNameToAgentID :
                           \E i \in DOMAIN sent[m].names : sent[m].names[i] = n}
        IN  /\ CASE ~sent[m].text -> targets = {}
                 [] sent[m].text /\ bots # {} -> targets = {BotNameToAgentID[n] : n \in bots}
                 [] sent[m].text /\ bots = {} /\ sent[m].chat = "p2p" ->
                      \E a \in Agents : /\ targets = {a}
                                        /\ a \in PMs \/ PMs \subseteq offline[m]
                 [] OTHER -> targets = {}
            /\ \A a \in targets : \/ outcome[m][a] \in {"delivered", "notified", "unannounced"}
                                  \/ LostConnection(a)

\* cmd/workspace/main.go: messages are routed to the agents.  A sender is told
\* that an agent is offline only if it was, at some moment since its message
\* came in; by the time of the notice it may be back.
NoticeIsTrue ==
    \A m \in Messages, a \in Agents :
        outcome[m][a] = "notified" => a \in offline[m]

=============================================================================
