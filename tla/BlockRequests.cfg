SPECIFICATION FairSpec
CONSTANTS
    Size = 5
    InfoPieceLen = 4
    BLOCK_LEN = 2
    Conns = {c1, c2}
    MaxQueue = 4
    MaxInFlight = 1
    MaxAsked = 2
CHECK_DEADLOCK FALSE
INVARIANTS
    IndicesInRange
    OnlyOvertakenAskedAgain
    BalancedRequests
PROPERTIES
    EverythingArrives
