SPECIFICATION FairAuthority
CONSTANTS
    k1 = k1
    k2 = k2
    p1 = p1
    p2 = p2
    RequestKeys = {k1, k2}
    Fingerprints = {p1, p2}
    MaxConversions = 3
    MaxTasks = 2
    MaxOutages = 1
    MaxLosses = 1
INVARIANTS
    OneLiveAttempt
    ConvertedOnce
PROPERTIES
    EveryConversionEnds
