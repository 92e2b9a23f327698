SPECIFICATION Spec
CONSTANTS
    W = 8
    FirstNrs = {0, 1, 2, 3, 4, 5, 6, 7}
    Wnds = {3}
    Waits = FALSE
    MaxMade = 2
    MaxHeard = 1
    MaxDepth = 1
CHECK_DEADLOCK FALSE
INVARIANTS
    WindowWasWritten
