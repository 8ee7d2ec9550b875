CONSTANTS
    Jobs = {1}
    Watchers = {w1, w2}
    NoWatcher = NoWatcher
    MaxFix = 1
    Inotify = FALSE
    Supervised = FALSE
    MaxStarts = 2
    MaxKills = 1
    RunCap = 2
SPECIFICATION FairSpec
PROPERTIES
    RestartLeavesWatcher
CHECK_DEADLOCK FALSE
