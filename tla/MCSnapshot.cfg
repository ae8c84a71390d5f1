SPECIFICATION SnapshotSpec
CONSTANTS
    Requests = {q1, q2}
    Versions = {1, 2}
    Length <- TwoLengths
    Flat = TRUE
    MaxFiles = 3
INVARIANTS SnapshotWholeAlone
SYMMETRY RequestSymmetry
CHECK_DEADLOCK FALSE
