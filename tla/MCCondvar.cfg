SPECIFICATION Spec
CONSTANTS
    Threads = {t1, t2, t3}
    Conds = {c1}
    Mutexes = {m1}
    Recursive = {}
    MaxDeferWaiters = 1
    MaxCount = 0
    TimedWaiters = {t1}
    Cancellable = {}
    None = None
SYMMETRY Symmetry
CHECK_DEADLOCK FALSE
INVARIANT DeferredAreOwed SleepQueuesConserved NoLostWakeup
PROPERTY ImplementsMonitor
