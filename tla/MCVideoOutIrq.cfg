SPECIFICATION Spec
CONSTANTS
    Guests = {g}
    EopBuffers = {0, 1}
    CpuBuffers = {2}
    Groups = {0}
    Rates = {0}
    VblankMod = 1
    MaxPending = 1
    MaxCalls = 4
    None = None
CHECK_DEADLOCK FALSE
INVARIANT FlipIrqAssertion
