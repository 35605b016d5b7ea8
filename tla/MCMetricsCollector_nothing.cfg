CONSTANTS
    d1 = d1
    d2 = d2
    c1 = c1
    m1 = m1
    Device = {d1}
    Container = {}
    MetaxContainer = {}
    Matches <- NoMatches
    Claims <- OneEach
    QueriesFail = {}
    TimeoutsHappen = FALSE
SPECIFICATION Spec
PROPERTIES
    NothingWrittenKeepsCells
