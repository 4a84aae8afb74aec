SPECIFICATION LookupSpec
CONSTANTS
    Nodes = {1, 2, 3, 4, 5, 6}
    K = 4
    Alpha = 3
    Modes <- BothModes
    Seeds <- OneSeed
    Values = {v, w}
    NoValue = NoValue
CHECK_DEADLOCK FALSE
INVARIANTS ResultComplete HitIsReturned
PROPERTIES Terminates
