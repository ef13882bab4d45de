CONSTANTS
    u1 = u1
    u2 = u2
    com = com
    net = net
    Users = {u1, u2}
    Domains = {com, net}
    Domain <- DomainOf
    Root = Root
    Prefix = Prefix
    Public = Public
    Requests = {r1, r2}
    MaxRequests = 4
SPECIFICATION Spec
SYMMETRY Symmetry
CHECK_DEADLOCK FALSE
INVARIANTS
    LastAdmin
    PendingMeansUnused
    DomainsApart
