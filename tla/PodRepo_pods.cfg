CONSTANTS
    Name = {"web", "train"}
    Short = {1}
    WatchBreaks = TRUE
    MaxPods = 3
    MaxQueue = 2
SPECIFICATION FairSpec
INVARIANTS
    TypeOK
    NothingMissing
    GhostsAreMissedDeletes
PROPERTIES
    NeverResurrected
    Recovers
