\* Two viewers of one session and one of another: supersession,
\* cancellation, expiry and the limits of the tables.
SPECIFICATION Spec
SYMMETRY Viewers
CONSTANTS
    s1 = s1
    s2 = s2
    l1 = l1
    l2 = l2
    l3 = l3
    Sessions = {s1, s2}
    Leases = {l1, l2, l3}
    SessionOf <- TwoSessions
    ClientRequests = {c1}
    NoRequest = NoRequest
    Compositions = {m1}
    RequestIds = {r1}
    EventTypes = {openStageRequest}
    NoBinding = NoBinding
    PendingTtl = 1
    ExecutingTtl = 1
    CompletedRetention = 1
    MaxNonTerminal = 2
    MaxCompleted = 2
    MaxCompletedPerSession = 1
    MaxActiveSessions = 1
    MaxTombstones = 3
    MaxTransactions = 3
    MaxTime = 1
INVARIANTS
    OneOpenTransactionPerSession
    CancelledMeansNotRunning
    ActiveIsLastApplied
