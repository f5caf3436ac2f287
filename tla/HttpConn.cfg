CONSTANTS
    Cap = 1
    HeadUnits <- MCHeadUnits
    BodyUnits = 2
    MaxRequests = 2
    Kinds <- AllKinds
    Faults <- AllFaults
SPECIFICATION FairSpec
CHECK_DEADLOCK FALSE
INVARIANTS
    StreamIntact
    NoLostWakeup
    NoSpareAnswer
PROPERTIES
    ClosesOnlyWhenDone
    TerminatesOnlyBy
    EveryRequestAnswered
    ClosesWhenAsked
