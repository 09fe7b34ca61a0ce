SPECIFICATION Spec
CONSTANTS
    Flows = {f1}
    Modes = {"ask", "plan", "edit", "auto"}
    Boxed = {TRUE, FALSE}
    MaxRepairAttempts = 1
    MaxIterations = 2
    MaxMutations = 1
    MaxReplans = 1
    MaxRepairs = 1
    MaxDrafts = 5
    MaxCrashes = 1
    MaxFaults = 1
    MaxEdits = 1
INVARIANTS
    TypeOK
    ResumeDataPresent
    MutationsAreApproved
    MutationsWithinBudget
