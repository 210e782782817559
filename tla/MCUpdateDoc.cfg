\* As many tries as there are calls, two sends a put.
SPECIFICATION UpdateSpec
CONSTANTS
    c1 = c1
    c2 = c2
    c3 = c3
    Calls = {c1, c2, c3}
    MaxTries = 3
    MaxSends = 2
SYMMETRY MCSymmetry
INVARIANTS
    NoUpdateLost
    AppliedOnceWhenAnswered
    EnoughTries
PROPERTIES
    ImplementsAtomic
CHECK_DEADLOCK FALSE
