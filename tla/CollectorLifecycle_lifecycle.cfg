SPECIFICATION FairSpec
INVARIANTS
    TypeOK
    OrderlyStopDrains
PROPERTIES
    ExitsEventually
    KeepsRefreshing
