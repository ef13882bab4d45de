CONSTANTS
    Owner = Owner
    Teams = {Owner}
    Syncers = {s1, s2}
    Admins = {}
    MaxVersions = 2
    MaxDocs = 2
    MaxRequests = 0
SPECIFICATION FairSpec
CHECK_DEADLOCK FALSE
INVARIANT OneRow
PROPERTY Converges
