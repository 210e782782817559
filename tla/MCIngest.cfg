SPECIFICATION Spec
CONSTANTS
    old = old
    young = young
    new = new
    moved = moved
    u1 = u1
    u2 = u2
    Urls = {u1, u2}
    Configured = u1
    Entries = {old, young, new, moved}
    FeedOf <- MCFeedOf
    Date <- MCDate
    Walled = {young}
    Lookback = 2
    CIRCUIT_BREAKER_THRESHOLD = 1
    StartDay = 4
    FirstDays = {5}
    MaxDay = 5
    MaxFailures = 2
    MaxRequests = 1
    NONE = NONE
INVARIANTS
    RoutineAloneLooksForward
    NothingBehindValidators
PROPERTIES
    OfferedIsTaken
