SPECIFICATION FairSpec
CONSTANTS
    k1 = k1
    k2 = k2
    Keys = {k1, k2}
    WithEventId = {}
    Plain = {k1, k2}
    MaxPolls = 2
    MaxJobs = 2
    MaxConversions = 2
    MaxTasks = 2
    MaxOutages = 1
    MaxCrashes = 0
    MaxManual = 0
    MaxFaults = 0
    MaxTroubles = 0
PROPERTIES
    EveryIntakeSettles
