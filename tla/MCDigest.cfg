\* Two episodes and two weeks, a second digest on request, a crash, a refused write.
SPECIFICATION Spec
CONSTANTS
    e1 = e1
    e2 = e2
    Episodes = {e1, e2}
    Recency <- MCRecency
    Published <- MCPublished
    CatchUp = 1
    Digests = {1, 2}
    NONE = NONE
    MaxTriage = 2
    MaxTranscripts = 1
    MaxSummaries = 1
    MaxRetries = 1
    CrashBudget = 1
    MaxMishaps = 1
    MaxRuns = 1
    MaxRefusals = 1
    MaxRequests = 1
    Actors = {"pipeline", "digest", "manual"}
INVARIANTS
    CompleteMeansClaimed
    ListedOnceWithoutFailure
PROPERTIES
    ImplementsLedger
CHECK_DEADLOCK FALSE
