CONSTANTS
    Proc = {p1}
    Child = {c1}
    Name = {a, b, c}
    LongName = {}
    TTY_NAME = dev_tty0
    NR_FILES = 2
    NR_FILE_DESC = 2
    NR_INODE = 3
    NInode = 6
    NExtent = 3
    PerBlock = 4
    MaxEntries = 5
    MaxCnt = 2
SPECIFICATION Spec
CHECK_DEADLOCK FALSE
SYMMETRY MCSymmetry
INVARIANTS TypeOK OpenFilesKept ExtentsExact NamesResolve UnlinkFindsEntry
PROPERTIES DescriptorsStable
