CONSTANTS
    p1 = p1
    p2 = p2
    p3 = p3
    p4 = p4
    c1 = c1
    c2 = c2
    NIL = NIL
    WILD = WILD
    Residue = {NIL, WILD}
    READY = READY
    FREE = FREE
    Process <- MCProcess
    Main = p1
    Area <- MCProcess
    MainArea = p1
    AreaOf <- MCAreaOf
    Channel = {c1, c2}
    MaxGuards = 2
    CardSize = 4
SPECIFICATION Spec
SYMMETRY MCSymmetry
INVARIANTS
    OnePlace
    NoLostWakeup
    TriesEveryGuard
    ResumesSavedStack
PROPERTIES
    ImplementsRendezvous
CHECK_DEADLOCK FALSE
