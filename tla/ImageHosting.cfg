SPECIFICATION UploadSpec
CONSTANTS
    Worker = {w1, w2}
    Caller = {server}
    Server = server
    Task = {i1, i2, i3, i4}
    None = none
    MaxQueue = 1
    Units = 2
CHECK_DEADLOCK FALSE
PROPERTIES
    AnsweredIsStored
    ServedWhole
