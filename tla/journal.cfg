SPECIFICATION Spec
CONSTANTS
    RotateAt = 2
    MaxSeq = 6
    MaxTears = 1
    MaxOpens = 3
    Faults = {"refuse", "sync", "tear"}
INVARIANTS
    SeqIncreasing
    OneLostPerTear
    GapVisible
PROPERTIES
    HookServed
CHECK_DEADLOCK FALSE
