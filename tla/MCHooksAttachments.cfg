SPECIFICATION MCSpec
CONSTANTS
    Releases = {i1, i2}
    MaxRow = 5
    Sizes = {1, 2, 3}
    a1 = a1
    a2 = a2
    a3 = a3
    o1 = o1
    o2 = o2
    slack = slack
    plain = plain
    elsewhere = elsewhere
    Attachments = {a1, a2, a3}
    Fetches = {f1, f2}
    Objects = {o1, o2}
    NoObject = NoObject
    WithText = {a1}
    Payloads <- MCPayloads
    Bytes <- MCBytes
    Described <- MCDescribed
    Hosts = {slack, plain, elsewhere}
    NoHost = NoHost
    PlatformHosts <- MCPlatformHosts
    Encrypted = {slack, elsewhere}
    Private = {}
    MaxRedirects = 1
    CacheLimit = 2
    MaxChanges = 1
SYMMETRY Symmetry
INVARIANTS
    EmittedIsProjected
    ConservedWhenAlone
    ReadyHasFile
    DiskIsBounded
    CredentialsStay
CHECK_DEADLOCK FALSE
