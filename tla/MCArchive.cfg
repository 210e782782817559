\* A budget of one episode and one month a run: the second episode of the month is
\* reached by a rewind only.
SPECIFICATION FairSpec
CONSTANTS
    s1 = s1
    a = a
    b = b
    Shows = {s1}
    Entries = {a, b}
    ShowOf <- MCShowOf
    MonthOf <- MCMonthOf
    NONE = NONE
    FirstMonth = 3
    LastMonth = 4
    Window = 1
    MaxWindow = 2
    MonthsPerRun = 1
    EpisodesPerRun = 1
    NewsShows = {}
    HasTranscript = {a}
    MaxMishaps = 1
    MaxRequests = 1
    MaxSwitches = 1
INVARIANTS
    NothingSteppedOver
    ShelvedOnce
PROPERTIES
    EveryEntryShelved
    WindowIsWalked
