SPECIFICATION FairSpec
CONSTANTS
    Size = 12
    InfoPieceLen = 7
    BLOCK_LEN = 2
    index = 0
    BitfieldLen = 2
    MaxRead = 4
CHECK_DEADLOCK FALSE
INVARIANTS
    RequestsAreBlocks
    OneRequestAhead
PROPERTIES
    ReturnMeansAllRequested
    NothingAfterChoke
    LoopEnds
