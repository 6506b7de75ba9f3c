SPECIFICATION LiveSpec
CONSTANTS
    Natives = {main, a, b}
    Main = main
    Objs = {o0, o1, o2}
    MainObj = o0
    GcThreshold = 1
    MaxCachedThreads = 1
    MaxCalls = 4
    None = None
CHECK_DEADLOCK FALSE
INVARIANT StaleOnlyInTails JoinedStays ObjectsAccounted
PROPERTY DeadIsCollected JoinReturns
