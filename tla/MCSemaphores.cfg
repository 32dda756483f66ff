\* Three processes, one mutex and one signalling semaphore, every call.
CONSTANTS
    p1 = p1
    p2 = p2
    p3 = p3
    NIL = NIL
    Process <- MCProcess
    Area <- MCProcess
    AreaOf <- MCAreaOf
    Main = p1
    MainArea = p1
    Sema = {m, s}
    Mutex = {m}
    MaxStep = 5
    MaxLevel = 2
SPECIFICATION FairSpec
INVARIANTS MutualExclusion DeadlockExact
PROPERTIES ReScheduleEnds NoStarvation
CHECK_DEADLOCK FALSE
