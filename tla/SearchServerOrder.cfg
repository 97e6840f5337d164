\* The results of a search are sorted by frequency.
SPECIFICATION Spec
CONSTANTS
    c1 = c1
    c2 = c2
    Alpha = 3
    Texts <- FourLines
    Clients = {c1}
    MayVanish = {}
    Keys <- TypedKeys
    Limit = 2
    Garbage = Garbage
    MaxWord = 2
    MaxUnread = 2
\* A client whose user typed a backslash waits for ever.
CHECK_DEADLOCK FALSE
INVARIANTS
    SortedByFreq
