SPECIFICATION LiveSpec
CONSTANTS
    Threads = {t1, t2}
    Conds = {c1}
    Mutexes = {m1}
    Recursive = {m1}
    MaxDeferWaiters = 1
    MaxCount = 1
    TimedWaiters = {}
    Cancellable = {t1}
    None = None
CHECK_DEADLOCK FALSE
INVARIANT IdleNotQueued UnreachableNeedsTimeout
PROPERTY SignalledWaiterWakes
