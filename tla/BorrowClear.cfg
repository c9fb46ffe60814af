SPECIFICATION Spec
CONSTANTS
    N = 3
    Ids <- MCIds
    Memory <- MCMemory
    WaitTimes = 2
    MaxElections = 1
INVARIANTS TypeOK ClearSucceeds RolesAreRight
CHECK_DEADLOCK FALSE
