SPECIFICATION Spec
CONSTANTS
    Callers = {c1, c2}
    Tiers = {"tier1"}
    MapReduced = {"tier1"}
    Endpoints = {"local", "cloud", "spare"}
    Cloud = {"cloud"}
    Configured <- MCConfigured
    allow_cloud_fallback <- MCAllow
    validation_retries = 1
    ENDPOINT_COOLDOWN = 2
    Pieces = 2
    MAX_CHUNKS = 1
    MaxOutages = 1
    MaxRejections = 1
INVARIANTS
    UnavailableMeansFailed
PROPERTIES
    HealthyIsOffered
