SPECIFICATION Spec
CONSTANTS
    Run = {r1, r2}
    Reaper = {p1}
    None = None
    MaxRetries = 2
    LeaseDuration = 2
    InitialDelay = 1
    MaxDelay = 1
    Timely = FALSE
    Faults = {"worker_crash"}
    MaxFaults = 1
    MaxAttempts = 3
SYMMETRY RunSymmetry
INVARIANT RetryPromiseKept
CHECK_DEADLOCK FALSE
