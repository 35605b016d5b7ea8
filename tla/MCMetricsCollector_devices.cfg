CONSTANTS
    d1 = d1
    d2 = d2
    c1 = c1
    m1 = m1
    Device = {d1, d2}
    Container = {}
    MetaxContainer = {}
    Matches <- NoMatches
    Claims <- OneEach
    TimeoutsHappen = TRUE
    QueriesFail = {"driver"}
SYMMETRY DeviceSymmetry
SPECIFICATION Spec
INVARIANTS
    TypeOK
    KnownDeviceExposed
    RegistryAccounted
    OneTupleAtRest
PROPERTIES
    OnlyCommitDeletes
    ImplementsBoard
