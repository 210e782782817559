\* One episode, one pipeline run and one digest, two requests of the owner.
SPECIFICATION Spec
CONSTANTS
    e1 = e1
    e2 = e2
    Episodes = {e1}
    Recency <- MCRecency
    Published <- MCPublished
    CatchUp = 1
    Digests = {1}
    NONE = NONE
    MaxTriage = 2
    MaxTranscripts = 2
    MaxSummaries = 2
    MaxRetries = 1
    CrashBudget = 1
    MaxMishaps = 0
    MaxRuns = 1
    MaxRefusals = 0
    MaxRequests = 2
    Actors = {"pipeline", "digest", "demand", "retry", "escalate", "rescore"}
INVARIANTS
    StatusHasSubstance
    PublishedWasListed
CHECK_DEADLOCK FALSE
