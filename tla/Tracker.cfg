SPECIFICATION FairSpec
CONSTANTS
    BufferMade = TRUE
    MaxResets = 2
CHECK_DEADLOCK FALSE
INVARIANTS
    DeadlineComesOff
    OneTrialAtATime
PROPERTIES
    AnnounceFollowsReply
    AnsweredConnectEnds
    ConnectEndsUnlessRaced
