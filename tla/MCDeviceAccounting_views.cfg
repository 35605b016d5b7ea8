CONSTANTS
    x1 = x1
    x2 = x2
    Card <- Collision
    Container = {x1, x2}
    Reports <- Outages
    MaxUse = 2
SYMMETRY ContainerSymmetry
SPECIFICATION Spec
INVARIANTS
    TypeOK
    CardsExact
    TotalsExact
    DrillDownExact
    TasksNameTheirCards
