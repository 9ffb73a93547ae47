CONSTANTS
    Entry = {a, b}
    Deleter = {d}
    MaxShards = 3
    NoFile = NoFile
    Overlap = FALSE
SPECIFICATION Spec
SYMMETRY MCSymmetry
INVARIANTS
    TypeOK
    NothingLost
    PurgeIsFinal
    OpensAfterBuild
    NoHiddenShards
PROPERTIES
    ImplementsVectorSet
