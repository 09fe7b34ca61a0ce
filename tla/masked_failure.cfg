SPECIFICATION Spec
CONSTANTS
    Commands = {"test", "typecheck", "build", "other"}
    MaxRequested = 2
    MaxRewrites = 0
INVARIANTS
    PassedMeansAllRequired
CHECK_DEADLOCK FALSE
