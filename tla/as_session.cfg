SPECIFICATION Spec
CONSTANTS
    a1 = a1
    k1 = k1
    k2 = k2
    Agents = {a1}
    NoAgent = NoAgent
    MaxConns = 2
    Clients = {k1, k2}
    AgentOf <- AgentOfClients
    Messages = {m1}
    NoMessage = NoMessage
INVARIANTS
    OpenIsCurrent
    StatusMatchesMap
    OfflineOnlyByEviction
    PanicOnlyByUse
    RefusedOnlyByOvertaking
PROPERTIES
    SentIsAnswered
    BreakIsNoticed
CHECK_DEADLOCK FALSE
