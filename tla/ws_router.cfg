SPECIFICATION Spec
CONSTANTS
    pm = "pm"
    dev = "dev"
    Agents = {"pm", "dev"}
    PMs = {"pm"}
    NoAgent = "none"
    MaxConns = 3
    Messages = {m1}
    BotNameToAgentID <- BotMapping
    NameLists <- MentionedNames
    TwoPools = FALSE
INVARIANTS
    LostOnlyByBreak
    RoutedAsDocumented
    NoticeIsTrue
CHECK_DEADLOCK FALSE
