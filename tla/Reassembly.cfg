SPECIFICATION FragSafety
CONSTANTS
    p1 = p1
    p2 = p2
    one = one
    two = two
    pair = pair
    three = three
    four = four
    Peers = {p1, p2}
    Messages = {two, pair}
    Length <- MCLength
    FragChunkSize = 2
    MaxMessageSize = 6
    FragSpace = 2
    WorkerCount = 2
    Repeats <- BothChoices
    MaxLosses = 0
    MaxTimeouts = 2
    MaxRestarts = 1
    Missing = Missing
CHECK_DEADLOCK FALSE
INVARIANTS
    TypeOK
    DeliveredIntact
    BuffersWait
    FragmentsFit
PROPERTIES
    NothingDroppedEarly
