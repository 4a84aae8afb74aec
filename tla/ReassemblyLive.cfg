SPECIFICATION FragSpec
CONSTANTS
    p1 = p1
    p2 = p2
    one = one
    two = two
    pair = pair
    three = three
    four = four
    Peers = {p1, p2}
    Messages = {one, three, four}
    Length <- MCLength
    FragChunkSize = 2
    MaxMessageSize = 7
    FragSpace = 4
    WorkerCount = 2
    Repeats <- NoRepeats
    MaxLosses = 1
    MaxTimeouts = 0
    MaxRestarts = 0
    Missing = Missing
CHECK_DEADLOCK FALSE
PROPERTIES
    SentIsDelivered
