CONSTANTS
    u = u
    HD = HD
    SYS = SYS
    FS = FS
    User = {u}
    Disk <- MCDisk
    Tables <- MCTables
    Partition <- MCPartition
    Request <- MCRequest
    SECTOR_SIZE = 512
    NR_PART_PER_DRIVE = 3
    NR_SUB_PER_PART = 3
    REG_NSECTOR = 2
    HD_TIMEOUT = 2
    MaxOpen = 2
    ANY = ANY
    INTERRUPT = INTERRUPT
    NO_TASK = NO_TASK
    HARD_INT = HARD_INT
SPECIFICATION Spec
CHECK_DEADLOCK FALSE
INVARIANTS StopsOnlyLate PartitionsRead RepliesDone
PROPERTIES RequestsAnswered
