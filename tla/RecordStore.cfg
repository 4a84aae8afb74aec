SPECIFICATION Safety
CONSTANTS
    Keys = {"doc", "list"}
    StatusKey = "list"
    Records = {"a", "b", "l", "x"}
    NoRecord = NoRecord
    SelfSigned = {"a", "b"}
    IssuerSigned = {"l"}
    Owner <- MCOwner
    Requests <- AllRequests
    Senders = {"peer"}
    BanThreshold = 2
    Tasks = {t1, t2, t3}
    TTL = 0
    HasCache = TRUE
SYMMETRY TaskSymmetry
CHECK_DEADLOCK FALSE
INVARIANTS OnlyVerifiedRecords StoresExclusive UpdateByAnOwner
PROPERTIES ImplementsRegister
