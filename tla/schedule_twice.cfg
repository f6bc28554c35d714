SPECIFICATION Spec
CONSTANTS
    None = None
    Turn = {t1, t2, t3}
    Write = {w1, w2}
    Entries = 2
    MaxActions = 2
    MaxCalls = 2
INVARIANT PlanCommittedOnce
CHECK_DEADLOCK FALSE
SYMMETRY CallSymmetry
