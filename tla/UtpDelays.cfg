SPECIFICATION Spec
CONSTANTS
    D = 2
    M = 8
    AGE = 4
    BASE_HISTORY = 2
    RTT_UNIT = 3
    senderConnID = 1
    FirstNrs = {1}
    Ticks = {3}
    Stamps = {0}
    Nrs = {1, 2}
    Rtts = {4}
    MaxEpoch = 1
    MaxWindow = 2
    MaxDepth = 1
    MaxMade = 2
    MaxTaken = 3
CHECK_DEADLOCK FALSE
INVARIANTS
    BaseDelaysAreMinima
    PeriodsOfAMinute
    NumbersInOrder
PROPERTIES
    SamplesOfOneRtt
