CONSTANTS
    BITS = 4
    SECTOR_SIZE = 3
    NR_SECTS = 8
    FIRST_INODE = 7
    SmapSects = {1, 2, 3, 4, 5, 6}
SPECIFICATION Spec
CHECK_DEADLOCK FALSE
PROPERTIES KeepsExtents
