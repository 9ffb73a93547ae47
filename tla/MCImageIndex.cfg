CONSTANTS
    Hash = {h1, h2, h3}
    Counts = {0, 1}
    Deleter = {d1, d2}
    Chunk = 1
    VecCap = 2
    MaxId = 3
SPECIFICATION Spec
SYMMETRY MCSymmetry
INVARIANTS
    TypeOK
    IndexedIsPresent
    DeletionIsClean
    NeverRemappedApart
    BuildTakesAll
