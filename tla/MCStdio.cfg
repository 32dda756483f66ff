CONSTANTS
    file = file
    tty = tty
    Stream <- MCStream
    Tty <- MCTty
    Char = {10, 97}
    NL = 10
    Stale = 0
    BUFSIZ = 2
    Sizes = {0, 1}
    NEXITS = 2
    MaxLen <- MCMaxLen
    MaxFaults = 1
SPECIFICATION MCSpec
INVARIANTS
    StreamOK
    AllOut
PROPERTIES
    NoSilentLoss
    ImplementsFiles
CHECK_DEADLOCK FALSE
