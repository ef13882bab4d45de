CONSTANTS
    Owner = Owner
    Teams = {Owner, Reader}
    Syncers = {s1}
    Admins = {a1, a2}
    MaxVersions = 1
    MaxDocs = 2
    MaxRequests = 2
SPECIFICATION Spec
SYMMETRY Symmetry
CHECK_DEADLOCK FALSE
INVARIANTS
    LinkedOnly
    NoCascade
    NoOrphans
