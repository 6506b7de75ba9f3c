SPECIFICATION LiveSpec
CONSTANTS
    Threads = {t1, t2, t3, t4}
    Timed = {t1}
    MaxReads = 2
    None = None
CHECK_DEADLOCK FALSE
INVARIANT Exclusion OwnershipOK SleepersLockedOut
PROPERTY ReaderHasPriority
