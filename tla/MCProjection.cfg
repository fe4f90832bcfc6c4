SPECIFICATION Spec
CONSTANTS
    Workers = {w1, w2}
    Daemon = Daemon
    NoWorker = NoWorker
    MaxRow = 3
    MaxDisruptions = 2
    PageSize = 1
SYMMETRY Symmetry
INVARIANTS
    Covered
    BacklogIsAttended
PROPERTIES
    WatermarkOnlyAdvances
