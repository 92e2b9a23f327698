SPECIFICATION FairSpec
CONSTANTS
    W = 6
    FirstNrs = {0, 3, 5}
    Wnds = {3}
    Waits = TRUE
    MaxMade = 3
    MaxHeard = 4
    MaxDepth = 2
CHECK_DEADLOCK FALSE
INVARIANTS
    InFlightCounted
    WindowInOrder
    UnackedKept
PROPERTIES
    FlushMeansAcked
    CallEnds
