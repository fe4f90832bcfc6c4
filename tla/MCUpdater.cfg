SPECIFICATION FairSpec
CONSTANTS
    First <- Old
    Feed <- MCFeed
    Channels = {"stable", "internal", "dev"}
    MaxInstalls = 2
    MaxStops = 1
    None = None
INVARIANTS
    NewestIsOffered
    DatabaseSurvives
PROPERTIES
    UpdateIsDecided
    DaemonComesBack
CHECK_DEADLOCK FALSE
