SPECIFICATION WriterFairSpec
CONSTANTS
    NumPieces = 3
CHECK_DEADLOCK FALSE
INVARIANTS
    NilMeansComplete
PROPERTIES
    ReturnsWhenDelivered
