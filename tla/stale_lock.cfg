SPECIFICATION Spec
CONSTANTS
    Processes = {p1, p2}
    Facts = {x, y}
    MaxAttempts = 2
    MaxDepth = 0
    MaxStarts = 3
    MaxTroubles = 1
INVARIANTS
    NothingLost
CHECK_DEADLOCK FALSE
