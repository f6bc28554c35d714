SPECIFICATION Spec
CONSTANTS
    None = None
    k1 = k1
    HeaderKey <- MCHeaderKey
    Keys <- MCKeys
    Client = {c1, c2}
    Executor = {e1, e2}
    MaxPublications = 2
    MaxAttempts = 2
    MaxFaults = 2
INVARIANTS PostedOnce KeyPostsOnce BooksAgree
PROPERTIES PostedStays KeepsThePromise
CHECK_DEADLOCK FALSE
SYMMETRY ActorSymmetry
