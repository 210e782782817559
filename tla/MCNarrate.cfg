SPECIFICATION Spec
CONSTANTS
    Periods = {1, 2, 3}
    Texts <- MCTexts
    Scripts <- MCScripts
    max_chars = 5
    NEWEST_SCAN = 2
    MaxRuns = 3
    MaxSummaries = 1
    MaxDeaths = 1
    NONE = NONE
INVARIANTS
    TextsCutWell
PROPERTIES
    ImplementsAudiobook
    HourlyIsNewest
CHECK_DEADLOCK FALSE
