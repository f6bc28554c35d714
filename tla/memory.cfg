SPECIFICATION Spec
CONSTANTS
    Proc = {p1, p2}
    Caller = {c1, c2}
    Thread = {t1, t2}
    None = None
    Limit = 2
    MaxFrozen = 1
    MaxWrites = 2
    MaxRefreshes = 1
    MaxTurns = 2
    MaxCrashes = 1
INVARIANTS DatedPromptsAreCurrent
PROPERTIES NoEntryLost
CHECK_DEADLOCK FALSE
SYMMETRY Symmetry
