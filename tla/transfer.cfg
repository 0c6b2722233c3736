SPECIFICATION Spec
CONSTANTS
    a = a
    b = b
    f1 = f1
    f2 = f2
    Peers = {a, b}
    Files = {f1, f2}
    Plan <- MCPlan
    Total = 2
    Window = 2
    MaxConcurrent = 1
    MaxVersion = 2
    MaxStarts = 3
    MaxDisturbances = 2
INVARIANTS
    TypeOK
    PartHoldsProgress
    NoSlotLost
    AckedIsOnDisk
    NobodyWaits
PROPERTIES
    CompletedIsSaved
    OnlyWholeCopies
CHECK_DEADLOCK FALSE
