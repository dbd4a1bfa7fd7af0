SPECIFICATION Spec
CONSTANTS
    s1 = s1
    Sessions = {s1}
    Viewers = {v1, v2}
    Nonces = {n1}
    NoNonce = NoNonce
    LeaseTtl = 1
    MaxLeases = 2
    SessionOf <- OneSession
    MaxTime = 2
    ClientRequests = {c1}
    NoRequest = NoRequest
    Compositions = {comp1}
    RequestIds = {r1}
    EventTypes = {load}
    NoBinding = NoBinding
    PendingTtl = 1
    ExecutingTtl = 2
    CompletedRetention = 1
    MaxNonTerminal = 1
    MaxCompleted = 1
    MaxCompletedPerSession = 1
    MaxActiveSessions = 1
    MaxTombstones = 1
    MaxTransactions = 2
SYMMETRY ViewerSymmetry
INVARIANTS
    ClosedHasNoActiveLease
    OneActivePrimary
    RetriedClaimIsOneLease
PROPERTIES
    EndedStaysEnded
    ImplementsExclusiveStage
