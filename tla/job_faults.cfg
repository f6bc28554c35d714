SPECIFICATION Spec
CONSTANTS
    Run = {r1, r2}
    Reaper = {p1}
    None = None
    MaxRetries = 2
    LeaseDuration = 2
    InitialDelay = 1
    MaxDelay = 1
    Timely = FALSE
    Faults <- AllFaults
    MaxFaults = 2
    MaxAttempts = 3
SYMMETRY RunSymmetry
INVARIANT RunningIsLeased
INVARIANT OwnerRunsTheAttempt
INVARIANT QueuedIsOwed
INVARIANT RetryIsOwed
PROPERTY OutcomeByOwner
PROPERTY CancelledStays
CHECK_DEADLOCK FALSE
