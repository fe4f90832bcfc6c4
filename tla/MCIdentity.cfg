\* Three events in a log, pages of two, one merge and one queued rebuild.
SPECIFICATION IdentitySpec
CONSTANTS
    None = None
    Events <- MCEvents
    PageSize = 2
    MaxEvents = 3
    MaxMerges = 1
    MaxRebuilds = 1
INVARIANTS
    EventsAreApplied
    AliasesAreFollowed
    RevokedStaysRevoked
    MergesHold
PROPERTIES
    RebuildsAgree
CHECK_DEADLOCK FALSE
