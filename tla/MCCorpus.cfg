SPECIFICATION CorpusSpec
CONSTANTS
    e1 = e1
    e2 = e2
    Episodes = {e1, e2}
    Rank <- MCRank
    Late = {e2}
    MaxTexts = 2
    BATCH = 1
    Limit = 2
    MaxMishaps = 1
    NONE = NONE
INVARIANTS
    SignaturesTell
PROPERTIES
    IndexCatchesUp
    OldTextsGo
