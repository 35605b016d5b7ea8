CONSTANTS
    n1 = n1
    n2 = n2
    nvidia = nvidia
    mlu = mlu
    Node = {n1, n2}
    Provider = {nvidia, mlu}
    Order <- Vendors
    Labelled <- MixedLabels
    PromProvider = {mlu}
    BadSelector = {}
    Sizes = {2}
    MaxPending = 1
    OutagesHappen = TRUE
SPECIFICATION FairSpec
INVARIANTS
    TypeOK
    SteadyNodesExact
    NoLostUpdate
PROPERTIES
    HealsAfterOutage
