SPECIFICATION Spec
CHECK_DEADLOCK FALSE
CONSTANTS
    Code = {k1}
    Fd = {f1, f2}
    MaxUploads = 1
    MaxActive = 1
    MaxStarts = 1
INVARIANTS
    CountIsInFlight
