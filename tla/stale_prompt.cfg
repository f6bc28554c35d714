SPECIFICATION Spec
CONSTANTS
    Proc = {p1, p2}
    Caller = {c1, c2}
    Thread = {t1}
    None = None
    Limit = 2
    MaxFrozen = 1
    MaxWrites = 1
    MaxRefreshes = 2
    MaxTurns = 3
    MaxCrashes = 0
INVARIANT PromptsAreCurrent
CHECK_DEADLOCK FALSE
