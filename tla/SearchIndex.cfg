\* Safety and liveness together; no symmetry, which would be unsound for the latter.
SPECIFICATION FairSpec
CONSTANTS
    Messages = {m1, m2}
    m1 = m1
    m2 = m2
    Workers = {w1, w2}
    Daemon = Daemon
    NoWorker = NoWorker
    BatchSize = 1
    MaxVersion = 2
    MaxFaults = 2
INVARIANTS
    IndexIsRight
PROPERTIES
    QueueEmpties
