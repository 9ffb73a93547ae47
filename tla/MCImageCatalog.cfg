CONSTANTS
    Hash = {h1, h2}
    Counts <- MCCounts
    Reloaders = {r1}
    MaxId = 3
    None = None
SPECIFICATION Spec
SYMMETRY MCSymmetry
INVARIANTS
    TypeOK
    RangesDisjoint
    FreshCacheAgrees
    StaleCacheHarmless
PROPERTIES
    GapsStayGaps
    DeletedStaysDeleted
