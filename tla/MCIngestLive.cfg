SPECIFICATION FairSpec
CONSTANTS
    Docs = {d1}
    Versions = {v1}
    Slots = {s1, s2}
    Calls = {c1, c2}
    None = None
    TeamStorage = FALSE
    DeletesMayFail = FALSE
    MaxOps = 3
    MaxRedeliveries = 1
    MaxCrashes = 1
PROPERTIES Settles DeletionBeforeClaimFinishes
CHECK_DEADLOCK FALSE
