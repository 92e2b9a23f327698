SPECIFICATION WireSpec
CONSTANTS
    Size = 4
    InfoPieceLen = 3
    BLOCK_LEN = 2
    File <- MCFile
    Shares = {1}
    HavePieces = {0, 8}
    MaxPending = 2
    MaxLost = 2
CHECK_DEADLOCK FALSE
INVARIANTS
    BytesInPlace
    BitfieldIsSet
PROPERTIES
    ImplementsChannel
