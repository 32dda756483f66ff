CONSTANTS
    p1 = p1
    p2 = p2
    p3 = p3
    p4 = p4
    NIL = NIL
    Uninit = Uninit
    Process <- MCProcess
    Main = p1
    Area <- MCProcess
    MainArea = p1
    AreaOf <- MCAreaOf
    Signal = {a, b}
SPECIFICATION FairSpec
INVARIANTS
    ChainsOK
    DeadlockExact
PROPERTIES
    WaitEnds
    ImplementsSignals
CHECK_DEADLOCK FALSE
