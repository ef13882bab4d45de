CONSTANTS
    x = x
    file = file
    foreign = foreign
    Tabs = {t1, t2}
    Documents = {s1, s2, file, foreign}
    Templates = {s1, s2}
    TeamFiles = {s1, s2, file}
    Shapes <- Trees
    Labels = {x}
    Parties = {party}
    Names = {n1, n2}
    Blank = Blank
    MaxCommands = 2
    MaxBatch = 2
SPECIFICATION Spec
SYMMETRY Symmetry
CHECK_DEADLOCK FALSE
INVARIANTS
    UniqueIds
    AimedRight
    NothingLost
    TermsMatch
    Grounded
