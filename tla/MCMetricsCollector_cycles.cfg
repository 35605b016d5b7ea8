CONSTANTS
    d1 = d1
    d2 = d2
    c1 = c1
    m1 = m1
    Device = {d1}
    Container = {c1, m1}
    MetaxContainer = {m1}
    Matches <- MixedMatches
    Claims <- OneEach
    QueriesFail = {}
    TimeoutsHappen = TRUE
SPECIFICATION FairSpec
PROPERTIES
    AppearsEventually
    VanishedPruned
INVARIANTS
    KnownUseExposed
