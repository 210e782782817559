SPECIFICATION Spec
CONSTANTS
    Requests = {r1, r2}
    Levels = {1, 2}
    File <- MCFile
    MaxSaves = 2
    QUEUE_LIMIT = 1
    DRAIN_BATCH = 1
    MaxEvents = 1
    Jobs = {"backfill"}
    Declining = {}
    PidsReused = FALSE
    MaxBoots = 2
    Legacy = {"aired", "archived"}
    InArchive = {"archived"}
    Shows = {"walking", "done"}
    Walks <- MCWalks
    Window <- MCWindow
    Months = 2
    Weeks = {"old", "crashed", "lost"}
    Files <- MCFiles
    Documents <- MCDocuments
    BATCH = 1
    NoMonth = NoMonth
    NoFile = NoFile
INVARIANTS
    CleanStopReleases
    MigratedBeforeJobs
    PendingSinceStart
PROPERTIES
    StopsInTheEnd
CHECK_DEADLOCK FALSE
