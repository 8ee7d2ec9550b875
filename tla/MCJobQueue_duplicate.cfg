CONSTANTS
    Jobs = {1}
    Watchers = {w1, w2}
    NoWatcher = NoWatcher
    MaxFix = 1
    Inotify = TRUE
    Supervised = FALSE
    MaxStarts = 2
    MaxKills = 0
    RunCap = 2
SPECIFICATION Spec
INVARIANTS
    NoDuplicateExecution
CHECK_DEADLOCK FALSE
