CONSTANTS
    MM = MM
    FS = FS
    InitProc = InitProc
    Slot = {1, 2, 3}
    Program <- MCProgram
    ANY = ANY
    INTERRUPT = INTERRUPT
    NO_TASK = NO_TASK
    HARD_INT = HARD_INT
SPECIFICATION Spec
CHECK_DEADLOCK FALSE
INVARIANTS ForkComplete
PROPERTIES ForkAnswered ChildReturns
