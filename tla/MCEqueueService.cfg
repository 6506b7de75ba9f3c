SPECIFICATION LiveSpec
CONSTANTS
    Waiters = {w1}
    Pollers = {}
    Edge = {}
    Level = {}
    Timer = {}
    HrTimer = {h}
    Small = {}
    Num = 1
    MaxCalls = 6
    MaxOwed = 1
    None = None
CHECK_DEADLOCK FALSE
PROPERTY ExpiryIsServed
