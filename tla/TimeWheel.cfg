CONSTANTS
    e1 = e1
    e2 = e2
    e3 = e3
    Entry = {e1, e2, e3}
    Null = Null
    BucketCount = 3
    TickInterval = 2
    Timeouts <- MCTimeouts
SPECIFICATION FairSpec
INVARIANTS
    TypeOK
    ListsOK
    NoEntryLost
PROPERTIES
    KeepsDeadlines
    EventuallyExpires
