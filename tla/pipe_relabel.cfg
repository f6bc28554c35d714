SPECIFICATION Spec
CONSTANTS
    Worker = {w1, w2}
    Request = {h1}
    None = None
    Plans <- TwoPlans
    MaxRevisions = 1
    DispatchTimeout = 1
    LeaseDuration = 1
    Faults <- AllFaults
    MaxFaults = 1
    MaxResumes = 0
INVARIANT InputsAreLabelled
CHECK_DEADLOCK FALSE
