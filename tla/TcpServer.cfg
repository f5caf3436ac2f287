SPECIFICATION Spec
CONSTANTS
    MaxFd = 2
    Conn = {c1, c2, c3}
    Entry = {e1, e2, e3}
    Null = Null
    MaxPeers = 3
    MaxReplaced = 1
    MaxFiles = 1
SYMMETRY Addresses
INVARIANTS
    NoDanglingCallback
    TablesAgree
    Supervised
    NoForgottenPeer
PROPERTIES
    WheelContract
    ClosedForCause
CHECK_DEADLOCK FALSE
