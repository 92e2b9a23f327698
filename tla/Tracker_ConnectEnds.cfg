SPECIFICATION FairSpec
CONSTANTS
    BufferMade = TRUE
    MaxResets = 2
CHECK_DEADLOCK FALSE
PROPERTIES
    ConnectEnds
