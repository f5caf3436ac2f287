CONSTANTS
    Cap = 1
    HeadUnits <- MCHeadUnits
    BodyUnits = 2
    MaxRequests = 2
    Kinds <- FileOnly
    Faults <- FinOnly
SPECIFICATION Spec
CHECK_DEADLOCK FALSE
INVARIANTS
    SurvivesDisconnect
