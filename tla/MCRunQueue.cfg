SPECIFICATION Spec
CONSTANTS
    Runs = {r1, r2}
    Accounts = {a1, a2}
    NoAccount = NoAccount
    IngestLease = 1
    ProjectionLease = 2
    Delays = {0, 1}
    MaxClock = 2
    MaxClaims = 3
    MaxDaemons = 2
SYMMETRY Symmetry
INVARIANTS
    OnlyTheHolderSettles
    OneActiveRunPerAccount
PROPERTIES
    ImplementsLifecycle
