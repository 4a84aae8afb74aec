SPECIFICATION PoolSpec
CONSTANTS
    NumWorkers = 2
    QueueDepth = 1
    Datagrams = {d1, d2, d3, d4, d5}
    Nothing = Nothing
CHECK_DEADLOCK FALSE
INVARIANTS NoneLost
PROPERTIES EachHandled
