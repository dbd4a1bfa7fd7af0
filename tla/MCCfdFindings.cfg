SPECIFICATION FairFindingSpec
CONSTANTS
    c1 = c1
    c2 = c2
    Findings = {1, 2, 3, 4}
    KindOf <- Kinds
    Plans <- SomePlans
    Calls = {c1, c2}
    MaxEvaluations = 4
    MaxTroubles = 3
    MaxLate = 1
    MaxRestarts = 2
INVARIANTS
    OneAnnotationPerFinding
    RecordedIsOpened
PROPERTIES
    EveryEvaluationEnds
CHECK_DEADLOCK FALSE
