SPECIFICATION Spec
CONSTANTS
    f1 = f1  f2 = f2
    None = None
    Findings = {f1, f2}
    MaxCalls = 3
SYMMETRY MCSymmetry
CHECK_DEADLOCK FALSE
INVARIANTS
    TypeOK
    CacheIsFresh
    DecidedLeavesQueue
    LastAskedIsShown
