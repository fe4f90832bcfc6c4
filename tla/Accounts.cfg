\* Two connect requests, of the daemon or of the command line, two sessions, one
\* other change and one stop of the daemon, for three of the platforms.
SPECIFICATION AccountsSpec
CONSTANTS
    Platforms = {"linkedin", "gmail", "signal"}
    MaxCalls = 2
    MaxSessions = 2
    MaxChanges = 1
    MaxStops = 1
    None = None
INVARIANTS
    LoginsHaveAccounts
PROPERTIES
    InvalidatedNeedsLogin
    LoginsEnd
CHECK_DEADLOCK FALSE
