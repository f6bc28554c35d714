SPECIFICATION Spec
CONSTANTS
    Worker = {w1, w2}
    Request = {h1, h2}
    None = None
    Plans <- OnePlan
    MaxRevisions = 1
    DispatchTimeout = 1
    LeaseDuration = 1
    Faults <- AllFaults
    MaxFaults = 1
    MaxResumes = 1
SYMMETRY WorkerSymmetry
PROPERTY MovedRunsAreLeftAlone
CHECK_DEADLOCK FALSE
