CONSTANTS
    Proc = {p1, p2, p3, p4}
    IntTask = {p1}
    Type = {t1}
    ANY = ANY
    INTERRUPT = INTERRUPT
    NO_TASK = NO_TASK
    HARD_INT = HARD_INT
    NULL = NULL
SPECIFICATION AtomicSpec
CHECK_DEADLOCK FALSE
SYMMETRY MCSymmetry
INVARIANTS ListsExact NoMissedRendezvous
PROPERTIES InterruptsKept CallsAreAtomic
