CONSTANTS
    Jobs = {1, 2}
    Watchers = {w1, w2}
    NoWatcher = NoWatcher
    MaxFix = 1
    Inotify = TRUE
    Supervised = TRUE
    MaxStarts = 0
    MaxKills = 1
    RunCap = 2
SPECIFICATION Spec
INVARIANTS
    TypeOK
    OneRunner
    FreshRunOnce
    MetricMatchesFile
PROPERTIES
    ImplementsLifecycle
CHECK_DEADLOCK FALSE
