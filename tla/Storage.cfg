SPECIFICATION HistorySpec
CONSTANTS
    Procs = {p, q}
    Ids = {i, j}
    MaxMasters = 3
    MaxValues = 3
CHECK_DEADLOCK FALSE
SYMMETRY Symmetry
INVARIANTS
    TypeOK
    EntriesReadable
    AckedIsKept
PROPERTY ImplementsKeyStore
