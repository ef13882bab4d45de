SPECIFICATION Spec
CONSTANTS
    Docs = {d1, d2}
    Versions = {v1, v2}
    Slots = {s1, s2}
    Calls = {c1, c2}
    None = None
    TeamStorage = TRUE
    DeletesMayFail = TRUE
    MaxOps = 3
    MaxRedeliveries = 1
    MaxCrashes = 0
SYMMETRY Symmetry
INVARIANTS NoStranded ActiveHasChunks
CHECK_DEADLOCK FALSE
