SPECIFICATION FairSpec
CONSTANTS
    Calls = {c1, c2}
    Words = {a, b}
    Tries = 2
    MaxPendingRequests = 1
    MaxPerProject = 1
    MaxRequests = 2
    MaxPictures = 2
    MaxWrites = 2
    MaxCrashes = 1
INVARIANT DrawnOnce
PROPERTIES Decided PlacingSpares DrawingEnds
CHECK_DEADLOCK FALSE
