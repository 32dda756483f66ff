CONSTANTS
    c1 = c1
    NONE = NONE
    MaxProcs = 4
    MaxGroups = 2
    Data = {0, 1}
    Value = {0, 1}
    Ident = {1, 2}
    Channel <- MCChannel
    Process <- MCProcess
    Var <- MCProcess
SPECIFICATION Spec
INVARIANTS
    TreeOK
    StackKept
PROPERTIES
    ImplementsHandshake
    DeadlockExact
    EveryTurn
CHECK_DEADLOCK FALSE
