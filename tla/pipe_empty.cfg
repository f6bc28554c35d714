SPECIFICATION Spec
CONSTANTS
    Worker = {w1, w2}
    Request = {h1}
    None = None
    Plans <- OnePlan
    MaxRevisions = 1
    DispatchTimeout = 1
    LeaseDuration = 1
    Faults <- AllFaults
    MaxFaults = 0
    MaxResumes = 1
PROPERTY CheckpointedIsRestored
CHECK_DEADLOCK FALSE
