SPECIFICATION Safety
CONSTANTS
    NoNode = NoNode
    Ids <- FewIds
    Local = 0
    IdBits <- MCIdBits
    IdBit <- MCIdBit
    LongId <- MCLongId
    MaxLong <- MCMaxLong
    Apart <- MCApart
    KSize = 2
    ReplacementFactor = 1
INVARIANTS
    NeighborsAreClosest
