\* Three pids, every way the files may have been left.
SPECIFICATION FairSpec
CONSTANTS
    Procs = {d1, d2, d3}
    d1 = d1
    d2 = d2
    d3 = d3
    NoProc = NoProc
    MaxSlow = 1
    MaxCrashes = 1
INVARIANTS
    OneDaemon
PROPERTIES
    SocketIsKept
    SomeDaemonServes
