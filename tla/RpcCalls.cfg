SPECIFICATION Spec
CONSTANTS
    c1 = c1
    c2 = c2
    c3 = c3
    Calls = {c1, c2, c3}
    Peers = {p, q}
    Unaddressed = {q}
    Ops <- MCOps
    IdSpace = 2
    MaxRestarts = 1
    NoCall = NoCall
CHECK_DEADLOCK FALSE
INVARIANTS AnswersMatch PendingExact
PROPERTIES EveryCallReturns
