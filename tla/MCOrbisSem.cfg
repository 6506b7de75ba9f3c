SPECIFICATION LiveSpec
CONSTANTS
    t1 = t1
    t2 = t2
    t3 = t3
    Threads = {t1, t2, t3}
    Prio <- MCPrio
    Timed = {t2}
    Deleters = {t3}
    MaxCount = 2
    None = None
CHECK_DEADLOCK FALSE
INVARIANT NoServableWaiter ChargedIffOK BookkeepingOK
PROPERTY ServedInOrder DecidedReturns
