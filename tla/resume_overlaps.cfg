SPECIFICATION Spec
CONSTANTS
    Flows = {f1, f2}
    Modes = {"edit"}
    Boxed = {TRUE}
    MaxRepairAttempts = 1
    MaxIterations = 2
    MaxMutations = 2
    MaxReplans = 1
    MaxRepairs = 1
    MaxDrafts = 4
    MaxCrashes = 0
    MaxFaults = 0
    MaxEdits = 0
INVARIANTS
    OneLoopAtATime
