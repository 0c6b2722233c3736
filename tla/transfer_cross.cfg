SPECIFICATION Spec
CONSTANTS
    a = a
    b = b
    f1 = f1
    f2 = f2
    Peers = {a, b}
    Files = {f1, f2}
    Plan <- MCCrossPlan
    Total = 2
    Window = 2
    MaxConcurrent = 1
    MaxVersion = 1
    MaxStarts = 2
    MaxDisturbances = 1
PROPERTIES
    CompletedIsSaved
CHECK_DEADLOCK FALSE
