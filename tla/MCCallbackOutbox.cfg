SPECIFICATION Spec
CONSTANTS
    p1 = p1
    p2 = p2
    Passes = {p1, p2}
    WithTarget <- MCWithTarget
    MaxAttempts = 2
    MaxEntries = 3
    MaxFaults = 2
    MaxCrashes = 2
SYMMETRY MCSymmetry
INVARIANTS
    DeliveredWasAccepted
    AcknowledgedIsDelivered
    PostsBounded
