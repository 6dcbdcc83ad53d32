CONSTANTS
    Proc = {p1, p2, p3, p4}
    IntTask = {p1}
    Type = {t1, t2}
    ANY = ANY
    INTERRUPT = INTERRUPT
    NO_TASK = NO_TASK
    HARD_INT = HARD_INT
SPECIFICATION Spec
CHECK_DEADLOCK FALSE
SYMMETRY MCSymmetry
INVARIANTS TypeOK PcbConsistent QueuesExact NoSendCycle NoMissedRendezvous NoMissedInterrupt
PROPERTIES SenderResumesDelivered ReceiverResumesAsked NoOvertaking KeepsPromise
