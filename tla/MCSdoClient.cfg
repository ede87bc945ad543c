SPECIFICATION Spec
CONSTANTS
    Byte = {1, 2, 3, 4, 5}
    Object <- MCObject
    FifoLen = 3
    BufLen = 2
    SegLen = 2
    Timeout = 3
    Garbage = Garbage
INVARIANT TypeOK
PROPERTIES
    ImplementsSdoTransfer
    TransferEnds
