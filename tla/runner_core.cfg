SPECIFICATION FairSpec
CONSTANTS
    Flows = {f1}
    Modes = {"ask", "plan", "edit", "auto"}
    Boxed = {TRUE, FALSE}
    MaxRepairAttempts = 1
    MaxIterations = 3
    MaxMutations = 2
    MaxReplans = 1
    MaxRepairs = 1
    MaxDrafts = 6
    MaxCrashes = 0
    MaxFaults = 0
    MaxEdits = 0
INVARIANTS
    WorkspaceAtRest
    CompletedDelivers
    AtMostOneChangeAfterCancel
PROPERTIES
    Returns
    AllOrNothing
