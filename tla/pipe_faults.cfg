SPECIFICATION Spec
CONSTANTS
    Worker = {w1, w2}
    Request = {h1, h2}
    None = None
    Plans <- TwoPlans
    MaxRevisions = 2
    DispatchTimeout = 1
    LeaseDuration = 1
    Faults <- AllFaults
    MaxFaults = 1
    MaxResumes = 1
SYMMETRY WorkerSymmetry
INVARIANT ShownIsDurable
INVARIANT CancelledLeavesNothing
INVARIANT CompletedIsLabelled
PROPERTY EventsBelongToTheirAttempt
PROPERTY NothingIsPaidTwice
PROPERTY RevisionsAddUp
PROPERTY ImplementsLog
CHECK_DEADLOCK FALSE
