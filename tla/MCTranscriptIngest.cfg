CONSTANTS
    f1 = f1
    f2 = f2
    m1 = m1
    m2 = m2
    p1 = p1
    p2 = p2
    Files <- TwoFiles
    Ids = {m1, m2}
    Outputs = {1, 2}
    Contents <- SharedContents
    Passes = {p1, p2}
    NoFile = NoFile
    MaxBatchEvents = 2
    MaxBatchFiles = 1
    MaxEdits = 1
SPECIFICATION Spec
SYMMETRY Symmetry
INVARIANTS
    SkippedFileWasRead
    NoStaleOpinion
    WatermarkNeverAhead
CHECK_DEADLOCK FALSE
