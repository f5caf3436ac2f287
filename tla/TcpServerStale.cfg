SPECIFICATION Spec
CHECK_DEADLOCK FALSE
CONSTANTS
    MaxFd = 2
    Conn = {c1, c2, c3}
    Entry = {e1, e2, e3}
    Null = Null
    MaxPeers = 2
    MaxReplaced = 1
    MaxFiles = 1
SYMMETRY Addresses
PROPERTIES
    NoCallbackAfterRemoval
