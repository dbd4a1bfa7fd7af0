SPECIFICATION Spec
CONSTANTS
    k1 = k1
    k2 = k2
    Keys = {k1, k2}
    Directions = 2
    NoName = NoName
    MaxRuns = 2
    MaxPosts = 2
    MaxCancels = 1
    MaxCrashes = 1
PROPERTIES
    FirstComeFirstServed
