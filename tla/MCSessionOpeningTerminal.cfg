SPECIFICATION Spec
CONSTANTS
    a = a
    b = b
    rq = rq
    ak = ak
    akk = akk
    k1 = k1
    q = q
    Ids <- AllIds
    NoId = NoId
    RandomIds = {a, b}
    Keys = {k1}
    DerivedId <- Derived
    Requests = {q}
    RequestId <- OneRequest
    NoFile = NoFile
    CutOff = CutOff
    MaxSessions = 3
    MaxHeld = 1
    MaxTroubles = 0
PROPERTIES
    ClosedStaysClosed
