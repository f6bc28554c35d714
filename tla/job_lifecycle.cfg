SPECIFICATION Spec
CONSTANTS
    Run = {r1, r2}
    Reaper = {p1}
    None = None
    MaxRetries = 3
    LeaseDuration = 2
    InitialDelay = 1
    MaxDelay = 2
    Timely = FALSE
    Faults = {"worker_crash", "worker_stop", "api_crash", "sweep_error", "retry_error"}
    MaxFaults = 3
    MaxAttempts = 4
SYMMETRY RunSymmetry
PROPERTY ImplementsLifecycle
CHECK_DEADLOCK FALSE
