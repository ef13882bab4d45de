CONSTANTS
    Tabs = {t1, t2}
    MaxPairs = 3
    MaxCodes = 2
SPECIFICATION Spec
SYMMETRY Symmetry
CHECK_DEADLOCK FALSE
INVARIANTS
    SelfHealing
    NeverSignedOut
    SignedOut
    OneCode
PROPERTY NoResurrection
