SPECIFICATION SyncSpec
CONSTANTS
    Threads = {t1, t2, t3, t4}
    FlagThreads = {t1, t2, t3}
    Initial = 1
    Max = 2
    Cancellable = {t1, t2}
    Timed = {t1}
    Bits = {b1, b2}
CHECK_DEADLOCK FALSE
INVARIANT CountersInRange TokensConserved RunsOnce DoneMeansRun SleepersAreHeard
          WaitersCounted CancelReachesAll SleepersUnsatisfied
PROPERTY EveryCallReturns CancelReturns
