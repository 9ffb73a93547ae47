CONSTANTS
    Input <- MCInput
    Entry = {1, 2, 3, 4, 5}
    Query = {1, 2}
    List = {1, 2}
    Files = 2
    Worker = {v, w}
    K = 3
    NProbe = 2
    MaxDist = 1
    MaxResults = 2
    MaxDeleted = 1
SPECIFICATION Spec
SYMMETRY WorkerSymmetry
INVARIANT
    NeverCrashes
