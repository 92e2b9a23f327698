SPECIFICATION FairSpec
CONSTANTS
    Peers = {p1, p2}
    NumPieces = 3
    HandshakeParses = TRUE
CHECK_DEADLOCK FALSE
INVARIANTS
    PutBackNeverBlocks
    AllAsleepOnlyWhenServed
    ClientsLostOnlyInRace
PROPERTIES
    ImplementsWorkPool
    CommonPieceTaken
