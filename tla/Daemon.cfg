\* Every mode, one lease overrun, hooks that exit; one sync and one slot, for
\* the safety properties are proved for any number of them.
SPECIFICATION FairSpec
CONSTANTS
    Syncs = {s1}
    s1 = s1
    IngestConcurrency = 1
    MaxPending = 1
    MaxArrivals = 1
    MaxRebuilds = 1
    MaxLogins = 1
    MaxOverruns = 1
INVARIANTS
    RebuildRunsAlone
    SlotsAreHonest
    WorkIsAttended
PROPERTIES
    DueWorkIsClaimed
    UpdateShutdownCompletes
CHECK_DEADLOCK FALSE
