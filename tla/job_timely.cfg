SPECIFICATION FairSpec
CONSTANTS
    Run = {r1, r2}
    Reaper = {p1}
    None = None
    MaxRetries = 2
    LeaseDuration = 2
    InitialDelay = 1
    MaxDelay = 1
    Timely = TRUE
    Faults = {"worker_crash", "reaper_crash", "sweep_error", "retry_error"}
    MaxFaults = 2
    MaxAttempts = 5
INVARIANT OneExecutor
PROPERTY AbandonedIsRecovered
PROPERTY EventuallySettles
CHECK_DEADLOCK FALSE
