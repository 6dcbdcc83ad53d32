CONSTANTS
    NFile = 2
    Fd = {1, 2, 3, 4}
    FileOf <- MCFileOf
    RdWr = {1, 2, 3}
    SECTOR_SIZE = 2
    NR_SECTS = 3
    FSBUF_SECTS = 2
    NSect = 10
    Data <- MCData
    Length = {1, 3, 5, 7}
    MaxCalls = 4
    MaxPos = 9
SPECIFICATION Spec
CHECK_DEADLOCK FALSE

PROPERTIES KeepsPromise WritesInPlace
