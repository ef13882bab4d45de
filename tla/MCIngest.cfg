SPECIFICATION Spec
CONSTANTS
    Docs = {d1, d2}
    Versions = {v1, v2}
    Slots = {s1, s2}
    Calls = {c1, c2}
    None = None
    TeamStorage = FALSE
    DeletesMayFail = FALSE
    MaxOps = 3
    MaxRedeliveries = 1
    MaxCrashes = 1
SYMMETRY Symmetry
INVARIANTS NoStranded NoOrphanChunks ActiveIsIndexed
PROPERTIES WorkerNeverResurrects WorkerDeletesOnlyDeleting
CHECK_DEADLOCK FALSE
