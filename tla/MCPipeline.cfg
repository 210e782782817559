\* One transcript and one summary a run, so that the older episode waits behind the
\* newer one.  One crash or refused write, besides crashes of an acquisition.
SPECIFICATION FairPipelineSpec
CONSTANTS
    e1 = e1
    e2 = e2
    Episodes <- MCEpisodes
    Recency <- MCRecency
    Digests = {}
    NONE = NONE
    MaxTriage = 2
    MaxTranscripts = 1
    MaxSummaries = 1
    MaxRetries = 2
    CrashBudget = 2
    MaxMishaps = 1
INVARIANTS
    CrashBudgetHolds
    RetryBudgetHolds
    StatusHasSubstance
    VerdictMatchesScore
PROPERTIES
    DrainsUnlessCutShort
