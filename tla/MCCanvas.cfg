SPECIFICATION Spec
CONSTANTS
    Conns = {c1, c2}
    MaxVersions = 5
SYMMETRY Symmetry
INVARIANTS Lineage Timeline
PROPERTIES HeadMovesByOne LockHolds
CHECK_DEADLOCK FALSE
