SPECIFICATION FairSpec
CONSTANTS
    Watcher = {b1}
    PageSize = 2
    MaxRetries = 1
    NotifyEnabled = TRUE
    MaxEvents = 4
    MaxBreaks = 2
    MaxOutages = 1
INVARIANTS NothingMissed NoLostWakeup
PROPERTIES HangsUpOnNews EveryWatcherTold WatchedRunsEnd
CHECK_DEADLOCK FALSE
