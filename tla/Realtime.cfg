SPECIFICATION RealtimeSpec
CONSTANTS
    Platforms = {"slack", "signal", "whatsapp", "discord", "linkedin", "local"}
    Ids = {i1, i2, i3, i4}
    NoSession = NoSession
    MaxLogins = 2
    MaxSyncs = 2
    MaxFaults = 2
INVARIANTS
    LeftSessionsAreQuiet
PROPERTIES
    SessionsSettle
CHECK_DEADLOCK FALSE
