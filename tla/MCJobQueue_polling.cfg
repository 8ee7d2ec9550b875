CONSTANTS
    Jobs = {1, 2}
    Watchers = {w1, w2}
    NoWatcher = NoWatcher
    MaxFix = 1
    Inotify = FALSE
    Supervised = FALSE
    MaxStarts = 2
    MaxKills = 1
    RunCap = 2
SPECIFICATION FairSpec
INVARIANTS
    FinishedRowAgrees
PROPERTIES
    EveryJobFinishes
    StaleLeasesReturn
CHECK_DEADLOCK FALSE
