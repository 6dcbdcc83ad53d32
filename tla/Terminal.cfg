CONSTANTS
    p1 = p1
    p2 = p2
    User = {p1, p2}
    TTY = TTY
    FS = FS
    Binding <- MCBinding
    Program <- MCProgram
    Key <- MCKey
    MaxLen = 2
    NR_CONSOLES = 2
    KB_IN_BYTES = 2
    TTY_IN_BYTES = 2
    MaxKeys = 2
    ANY = ANY
    INTERRUPT = INTERRUPT
    NO_TASK = NO_TASK
    HARD_INT = HARD_INT
SPECIFICATION Spec
CHECK_DEADLOCK FALSE
INVARIANTS TypeOK NoAssertFails ReaderServed BufferKept HaltsOnlyCrossing
PROPERTIES CallsReturn
