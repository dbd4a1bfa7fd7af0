SPECIFICATION Spec
CONSTANTS
    p1 = p1
    p2 = p2
    Passes = {p1, p2}
    WithTarget <- MCWithTarget
    MaxAttempts = 2
    MaxEntries = 1
    MaxFaults = 0
    MaxCrashes = 0
INVARIANTS
    AcknowledgedStaysDelivered
