CONSTANTS
    w1 = w1
    w2 = w2
    c1 = c1
    c2 = c2
    t1 = t1
    t2 = t2
    t3 = t3
    t4 = t4
    Worker = {w1, w2}
    Caller = {c1, c2}
    Task = {t1, t2, t3, t4}
    None = None
    MaxQueue = 2
SPECIFICATION FairSpec
CHECK_DEADLOCK FALSE
INVARIANTS
    NoLostWakeup
    DrainedWhenGone
PROPERTIES
    IsWorkQueue
    DestructorReturns
