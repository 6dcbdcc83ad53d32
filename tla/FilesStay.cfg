CONSTANTS
    Proc = {p1}
    Child = {}
    Name = {a, b, c, d}
    LongName = {}
    TTY_NAME = dev_tty0
    NR_FILES = 2
    NR_FILE_DESC = 2
    NR_INODE = 3
    NInode = 6
    NExtent = 4
    PerBlock = 8
    MaxEntries = 6
    MaxCnt = 2
SPECIFICATION Spec
CHECK_DEADLOCK FALSE
PROPERTIES FilesStay
