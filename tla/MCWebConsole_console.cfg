CONSTANTS
    n1 = n1
    n2 = n2
    c1 = c1
    c2 = c2
    c3 = c3
    t1 = t1
    t2 = t2
    A = A
    B = B
    V = V
    None = None
    NoName = NoName
    Nodes = {n1, n2}
    Cards = {c1, c2, c3}
    Tasks = {t1, t2}
    NodeOf <- OnNodes
    TypeOf <- OfTypes
    Healthy = {c1}
    External = {c3}
    CoreOf <- Figures3
    MemoryOf <- Figures3
    SharesOf <- Figures3
    Schedulable = {n1}
    ExternalNodes = {n2}
    NodeCores <- Figures2
    WorkloadOf <- Workloads
    CardsOf <- OnCards
    StatusOf <- States
    Allocated <- Given
    VendorOf <- Vendors
    Monitored = {A, B}
    Texts = {"", "x"}
    CardHits <- FindsCards
    NodeHits <- FindsNodes
    TaskHits <- FindsTasks
    Columns = {"name", "status"}
    PageSizes = {1, 2}
    Presets = {60, 180}
    Customs = {15840000}
    MaxFlights = 2
    MaxLists = 2
    MaxGone = 1
    MaxUses = 2
    Opened = {c1, c3}
    LookedUp = {n2}
SPECIFICATION Spec
INVARIANTS
    TypeOK
    ListsAnswerTheirFilters
    ScopeKept
    NoBlankPage
    PagesAgree
    DetailOfRoute
    ChartsOfRange
PROPERTIES
    Settles
