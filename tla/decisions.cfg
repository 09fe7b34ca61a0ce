SPECIFICATION Spec
CONSTANTS
    Commands = {"test", "typecheck", "other"}
    MaxRequested = 2
    MaxRewrites = 1
    Files = {"a", "b", "d"}
    Tasks = {"t1", "t2"}
    MaxProposals = 2
    MaxRetries = 1
    Models = {1, 2, 3}
    Budgets = {2}
    ProposalIds = {"p1", "p2"}
    MaxReworks = 1
    Denied = {"git_diff"}
    MaxPlannings = 2
    MaxAttempts = 1
    MaxRoots = 3
    MaxEdits = 1
    MaxTaken = 2
    MaxTroubles = 2
INVARIANTS
    FeedbackFiled
    LaterMissesNeverRaise
    SuccessCredited
    RunsJustified
    AcceptedIsSound
    CallsRecorded
    
    PatchesExact
    ImportsReachTheirFile
    RiskierAsksMore
    CompletedAsReviewed
    VerdictSound
    KeptWork
CHECK_DEADLOCK FALSE
