SPECIFICATION Spec
CONSTANTS
    Flows = {f1}
    Modes = {"edit"}
    Boxed = {TRUE}
    MaxRepairAttempts = 1
    MaxIterations = 2
    MaxMutations = 2
    MaxReplans = 1
    MaxRepairs = 1
    MaxDrafts = 4
    MaxCrashes = 0
    MaxFaults = 1
    MaxEdits = 0
PROPERTIES
    CompletedIsFinal
