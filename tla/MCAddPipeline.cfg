CONSTANTS
    Hash = {"a", "b", "x"}
    Importer = "importer"
    Server = "server"
    Conn = {c1, c2, c3, c4}
    Floor = 2
    ServerDefault = 1
    NProbe = {1, 3, 4}
    Given = {1, 2, 3, 5, 8}
    MaxQueryDescs = 5
    MaxAttempts = 2
    MaxQueries = 3
    MaxFailures = 2
    File <- MCFile
    Worker = {v, w}
    PathCap = 1
    JobCap = 1
    BatchSize = 2
    MaxRuns = 2
    MaxOthers = 2
SPECIFICATION Spec
SYMMETRY MCSymmetry
INVARIANTS
    TypeOK
    CountsAreTrue
    NoneForgotten
    IndexedAfterImport
    SearchedAsAsked
