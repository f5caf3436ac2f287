SPECIFICATION Spec
CONSTANTS
    Byte <- MCByte
    Zero = "0"
    HeadRoom = 2
    Initial = 2
    Extra = 2
    Chunks <- MCChunks
    Reserves = {0, 2}
    MaxSize = 9
INVARIANT IndicesOK
PROPERTY IsByteQueue
