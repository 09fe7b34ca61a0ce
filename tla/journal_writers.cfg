SPECIFICATION FairSpec
CONSTANTS
    Processes = {p1, p2}
    Facts = {x, y}
    MaxAttempts = 2
    MaxDepth = 1
    MaxStarts = 3
    MaxTroubles = 1
INVARIANTS
    NothingForgotten
    NothingLostUnderLock
PROPERTIES
    JournalGrows
    EveryWriteEnds
CHECK_DEADLOCK FALSE
