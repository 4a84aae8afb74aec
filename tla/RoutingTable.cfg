SPECIFICATION Safety
CONSTANTS
    NoNode = NoNode
    Ids <- SpreadIds
    Local = 0
    IdBits <- MCIdBits
    IdBit <- MCIdBit
    LongId <- MCLongId
    MaxLong <- MCMaxLong
    Apart <- MCApart
    KSize = 2
    ReplacementFactor = 1
INVARIANTS
    TypeOK
    Partitioned
    WellFormedBuckets
    SplitInv
    NeighborsComplete
    OwnBucketFirst
PROPERTIES
    InsertKeepsContacts
    InsertKeepsPrimaries
    SplitNarrows
    ReturnedLruIsRival
