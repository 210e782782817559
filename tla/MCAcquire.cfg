SPECIFICATION Spec
CONSTANTS
    job = job
    request = request
    spoken = spoken
    Actors = {job, request}
    Episodes = {spoken}
    Published = {spoken}
    Scraped = {spoken}
    Enclosed = {spoken}
    Chunks = 3
    MaxRecordings = 2
    max_bytes = 3
    max_resume_attempts = 1
    download_concurrency = 2
    asr_concurrency = 1
    MaxCrashes = 1
    NONE = NONE
    GAP = GAP
INVARIANTS
    WholeUnlessShared
    NoAudioLeft
PROPERTIES
    EveryAcquisitionEnds
