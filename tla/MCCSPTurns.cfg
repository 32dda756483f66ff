CONSTANTS
    p1 = p1
    p2 = p2
    p3 = p3
    p4 = p4
    c1 = c1
    c2 = c2
    NIL = NIL
    WILD = WILD
    Residue = {NIL}
    READY = READY
    FREE = FREE
    Process <- MCProcess4
    Main = p1
    Area <- MCProcess4
    MainArea = p1
    AreaOf <- MCAreaOf4
    Channel = {c1}
    MaxGuards = 1
    CardSize = 4
SPECIFICATION FairSpec
CONSTRAINT MCGoing
PROPERTIES
    ReadyRuns
CHECK_DEADLOCK FALSE
