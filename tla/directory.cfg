SPECIFICATION Spec
CONSTANTS
    Sources = {1, 2}
    Devices = {"d", "e"}
    Slots = {1, 2}
    MaxWrites = 2
    MaxFaults = 1
INVARIANTS
    
    OneTableAtATime
PROPERTIES
    RepushConverges
CHECK_DEADLOCK FALSE
