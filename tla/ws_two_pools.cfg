SPECIFICATION Spec
CONSTANTS
    pm = "pm"
    dev = "dev"
    Agents = {"pm", "dev"}
    PMs = {"pm"}
    NoAgent = "none"
    MaxConns = 1
    Messages = {m1}
    BotNameToAgentID <- BotMapping
    NameLists <- MentionedNames
    TwoPools = TRUE
INVARIANTS
    NoticeIsTrue
CHECK_DEADLOCK FALSE
