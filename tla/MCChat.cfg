CONSTANTS
    t1 = t1
    t2 = t2
    c1 = c1
    c2 = c2
    Teams = {t1, t2}
    Conns = {c1, c2}
    Wants = {{}, {t1}}
    Starts <- Situations
    MaxRetries = 2
    RecentTurns = 1
    MaxFaults = 1
SPECIFICATION Spec
SYMMETRY Symmetry
VIEW View
CHECK_DEADLOCK FALSE
INVARIANTS
    MemoryScoped
    OwnAnswers
    SavedOnce
    SummaryKeeps
    NoMutualWait
