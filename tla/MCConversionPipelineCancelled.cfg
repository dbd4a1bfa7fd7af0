SPECIFICATION Spec
CONSTANTS
    k1 = k1
    k2 = k2
    Keys = {k1}
    WithEventId = {}
    Plain = {k1}
    MaxPolls = 2
    MaxJobs = 2
    MaxConversions = 2
    MaxTasks = 2
    MaxOutages = 0
    MaxCrashes = 0
    MaxManual = 1
    MaxFaults = 0
    MaxTroubles = 2
INVARIANTS
    NoneIsStuck
