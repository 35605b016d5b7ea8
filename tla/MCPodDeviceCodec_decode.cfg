CONSTANTS
    d1 = d1
    d2 = d2
    Device = {d1, d2}
    Blank = Blank
    MaxCtrs = 2
    MaxSegs = 3
    MaxItems = 2
    MaxFields = 7
    MaxStep = 3
    MaxSteps = 5
SYMMETRY DeviceSymmetry
SPECIFICATION MCSpec
INVARIANTS
    TypeOK
    NeverMisattributed
    PanicsOnGapsOnly
    SeriesExact
