SPECIFICATION Spec
CONSTANTS
    Run = {r1, r2}
    Reaper = {p1}
    None = None
    MaxRetries = 2
    LeaseDuration = 2
    InitialDelay = 1
    MaxDelay = 1
    Timely = FALSE
    Faults = {}
    MaxFaults = 0
    MaxAttempts = 3
SYMMETRY RunSymmetry
INVARIANT CancelledReadsFull
CHECK_DEADLOCK FALSE
