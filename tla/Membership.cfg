SPECIFICATION MSpec
CONSTANTS
    NoNode = NoNode
    Ids <- TightIds
    Local = 0
    IdBits <- MCIdBits
    IdBit <- MCIdBit
    LongId <- MCLongId
    MaxLong <- MCMaxLong
    Apart <- MCApart
    KSize = 1
    ReplacementFactor = 1
    Heard <- TrioHeard
    Held <- NearKey
    Tasks = {t1, t2}
CHECK_DEADLOCK FALSE
INVARIANTS TasksWellFormed
PROPERTIES EveryWelcomeEnds
