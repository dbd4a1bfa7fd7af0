SPECIFICATION Spec
CONSTANTS
    k1 = k1
    k2 = k2
    Keys = {k1, k2}
    WithEventId = {k1}
    Plain = {k2}
    MaxPolls = 1
    MaxJobs = 2
    MaxConversions = 2
    MaxTasks = 2
    MaxOutages = 0
    MaxCrashes = 1
    MaxManual = 1
    MaxFaults = 1
    MaxTroubles = 1
INVARIANTS
    QueuedIsCarried
    DispatchedIsWatched
    CallbacksBounded
    OneJobInFlight
    PlainRetryIsNotRefused
    OneConversionPerKey
