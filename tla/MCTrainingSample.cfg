CONSTANTS
    Bit = {1, 2, 3}
    PerCenter = 2
    Subset = 2
    M = 1
    M0 = 2
    EfConstruction = 3
    EfSearch = 3
    Catalog <- MCCatalog
    Options <- MCOptions
    MaxIter = 2
    Level = {0, 1}
    Vector <- MCVector
    MaxProbe = 4
    MaxTrainings = 1
SPECIFICATION Spec
CHECK_DEADLOCK FALSE
INVARIANT
    EveryImageSampled
