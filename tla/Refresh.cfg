SPECIFICATION RefreshSafety
CONSTANTS
    MaxLong <- MCMaxLong
    TailBits = 1
    LongId <- MCLongId
    Entries = {"e"}
    KeyOf <- MCKeyOf
    Hour = 2
    MaxRound = 1
INVARIANTS RegionsLookedUp EntriesOffered
