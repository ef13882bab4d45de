SPECIFICATION FairSpec
CONSTANTS
    Docs = {d1}
    Versions = {v1}
    Slots = {s1, s2}
    Calls = {c1, c2}
    None = None
    TeamStorage = FALSE
    DeletesMayFail = FALSE
    MaxOps = 2
    MaxRedeliveries = 0
    MaxCrashes = 0
PROPERTIES DeletionFinishes
CHECK_DEADLOCK FALSE
