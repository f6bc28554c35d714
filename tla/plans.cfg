SPECIFICATION Spec
CONSTANTS
    None = None
    MaxSteps = 2
    MaxRevisions = 2
    RepairCap = 3
    MaxReply = 3
    DefaultPlan <- TwoSteps
    Entries <- SomeEntries
INVARIANTS PlanIsSound SalvageKeepsMeaning WithinRecursionLimit
PROPERTIES CompletedStaysPut
CHECK_DEADLOCK FALSE
