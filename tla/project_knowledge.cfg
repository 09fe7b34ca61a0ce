SPECIFICATION Spec
CONSTANTS
    Paths = {"a"}
    Contents = {"v1", "v2"}
    Commits = {1, 2, 3, 4}
    Parents <- MCParents
    Reverts <- MCReverts
    Requests = {r1, r2}
    Notes = {n1}
    MaxEdits = 1
    MaxMoves = 2
    MaxCalls = 2
    MaxFaults = 1
    MaxCrashes = 1
INVARIANTS
    UpToDate
    HistoryComplete
    CountedOnce
    ProvenanceExact
    RecordsDurable
SYMMETRY Symmetric
CHECK_DEADLOCK FALSE
