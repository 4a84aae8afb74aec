\* Three coroutines, two ports, two listens and two saving tasks.
CONSTANTS
    Callers = {"main", "join", "serve"}
    Makes <- MCMakes
    Ports = {"p1", "p2"}
    MaxListens = 2
    MaxSavers = 2
SPECIFICATION Spec
INVARIANTS OneProtocolPerCall LoopsAccounted
PROPERTIES QuietAfterStop EveryCallReturns
