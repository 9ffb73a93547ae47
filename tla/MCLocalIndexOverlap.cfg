CONSTANTS
    Entry = {a, b}
    Deleter = {d}
    MaxShards = 3
    NoFile = NoFile
    Overlap = TRUE
SPECIFICATION Spec
SYMMETRY MCSymmetry
INVARIANTS
    PurgeIsFinal
