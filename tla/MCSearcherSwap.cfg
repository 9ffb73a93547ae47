CONSTANTS
    Image = {i1, i2}
    Deleter = {d1, d2}
    Builder = builder
    Slot = {s1, s2, s3}
    MaxShards = 2
    Threshold = 2
    NoFile = NoFile
SPECIFICATION Spec
SYMMETRY MCSymmetry
INVARIANTS
    TypeOK
    ServedIsOpen
    PurgeSeenApart
    BuiltIsServed
