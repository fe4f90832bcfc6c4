\* Every platform, two messages at first and two that arrive, one fault.
SPECIFICATION Spec
CONSTANTS
    Platforms = {"slack", "gmail", "discord", "linkedin", "whatsapp",
                 "imessage", "contacts", "signal"}
    Conversations = {"a", "b"}
    None = None
    Families <- TwoPages
    ConvsPerPage = 1
    ConversationBudget = 1
    PageBudget = 1
    ChannelsPerRun = 1
    BackfillsPerRun = 1
    BatchLimit = 1
    DesktopOverlap = 2
    CallLog = "b"
    InitialMessages = 2
    MaxMessages = 4
    MaxFaults = 1
    Perils <- Withstood
INVARIANTS
    HistoryIsExhaustive
PROPERTIES
    BackfillCompletes
CHECK_DEADLOCK FALSE
