SPECIFICATION Spec
CONSTANTS
    a = a
    b = b
    FinalEvents <- MCFinalEvents
    MaxCuts = 1
    MaxCheckpoints = 3
    MaxFaults = 2
    MaxCrashes = 2
INVARIANTS
    CloseTypeOK
    AuditTrail
    FinalEventsOfOneRequest
    ClosedIsAuditedOnce
PROPERTIES
    RecoveredAtStartup
    ReclaimedInTheEnd
