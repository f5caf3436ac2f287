SPECIFICATION FairSpec
CHECK_DEADLOCK FALSE
CONSTANTS
    Code = {k1, k2}
    Fd = {f1, f2, f3}
    MaxUploads = 2
    MaxActive = 2
    MaxStarts = 2
INVARIANTS
    ListedIsStored
    NothingLeftBehind
    LimitHolds
PROPERTIES
    ExpiredIsDeleted
