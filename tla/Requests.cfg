SPECIFICATION Spec
CONSTANTS
    Word <- MCWord
    Decode <- MCDecode
    Half = 3
    Method = {"GET"}
    Patterns <- MCPatterns
    Targets <- MCTargets
    Sizes = {0, 1, 2}
    MaxRoutes = 3
INVARIANTS ChosenIsBest ParamsBound RangeExact Framed
CHECK_DEADLOCK FALSE
