SPECIFICATION FairSpec
CONSTANTS
    a = a
    b = b
    Devices = {1, 2}
    Words = {a, b}
    Kept = 2
    Recur = FALSE
    MaxRevision = 4
    MaxEdits = 2
    MaxTurns = 1
CONSTRAINT Bounds
INVARIANT BlobsStay
CHECK_DEADLOCK FALSE
PROPERTY Settles
