\* Up to two bootstrap and two publishing attempts, and one process that ends.
CONSTANTS
    Nodes = {1, 2, 3}
    Versions = {"first", "second", "third", "rekeyed", "rival"}
    None = "absent"
    Newer <- MCNewer
    Owner <- MCOwner
    Clients = {"publisher", "retriever", "holder", "deputy", "heir"}
    Home <- MCHome
    Nobody = "nobody"
    Gone = "gone"
    MaxStray = 1
    Seed = 3
    Publisher = "publisher"
    Retriever = "retriever"
    First = "first"
    Casts <- MCCasts
    MaxBootstraps = 2
SPECIFICATION Spec
INVARIANTS AckedMeansStored
PROPERTIES RollsBackOnlyOvertaken  ProgramsSettle
CHECK_DEADLOCK FALSE
