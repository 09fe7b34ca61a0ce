SPECIFICATION FairSpec
CONSTANTS
    Paths = {"a.ts", "b.ts", "c.ts"}
    Planned = {"a.ts", "b.ts", "c.ts"}
    Allowed = {"create", "modify", "delete", "rename"}
    MaxFiles = 2
    MaxAttempts = 2
    MaxFaults = 2
    MaxEdits = 2
    Repository <- Tree
INVARIANTS
    NothingLeftBehind
    SuccessIsVerified
    TimelyEditsSurvive
PROPERTIES
    Ends
CHECK_DEADLOCK FALSE
