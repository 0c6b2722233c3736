SPECIFICATION Spec
CONSTANTS
    Sources = {1}
    Devices = {"d"}
    Slots = {1, 2}
    MaxWrites = 2
    MaxFaults = 0
INVARIANTS
    RevocationKept
CHECK_DEADLOCK FALSE
