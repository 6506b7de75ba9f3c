SPECIFICATION LiveSpec
CONSTANTS
    Waiters = {w1, w2}
    Pollers = {w2}
    Edge = {e}
    Level = {}
    Timer = {p}
    HrTimer = {h}
    Small = {s}
    Num = 1
    MaxCalls = 6
    MaxOwed = 2
    None = None
CHECK_DEADLOCK FALSE
INVARIANT NotifyOneSuffices PeriodicStaysArmed DeliveriesOK
PROPERTY TriggerIsTaken
