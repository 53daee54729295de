SPECIFICATION FairSpec
CONSTANTS
    n1 = n1
    n2 = n2
    n3 = n3
    a1 = a1
    b1 = b1
    NoPrompt = NoPrompt
    Casts = {b1}
    x1 = x1
    x2 = x2
    s1 = s1
    s2 = s2
    Notifies = {n1, n2, n3}
    Asks = {a1}
    Scheds = {x1, x2}
    Sockets = {s1, s2}
    AskScheds = {x2}
    NoSched = NoSched
    NoSock = NoSock
    Loads <- MailLoads
    Cap = 2
    TTL = 1
    DrainMax = 1
    FlushMax = 2
    MaxTime = 1
    MaxCrash = 1
    SleepCap = 1
    MaxFault = 1
INVARIANTS TypeOK AcpAskerTold OneShotOnce
PROPERTIES BoxSpec ReplayedOnConnect AcpResolved DueFires
CHECK_DEADLOCK FALSE
