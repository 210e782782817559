\* Two runs: one loses the lease, the other takes it over or finds it taken.
SPECIFICATION FairSpec
CONSTANTS
    Runs = {r1, r2}
    NoRun = NoRun
    TTL = 3
INVARIANTS
    LeaseSafety
PROPERTIES
    LiveLeaseKept
    AbandonedLeaseLapses
    ImplementsExclusion
