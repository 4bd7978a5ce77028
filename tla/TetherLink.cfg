SPECIFICATION Spec
CONSTANTS
    Slots = 3
    Backlog = 2
    BufferSize = 2
    Commands = {1, 2}
    Junk = 0
    SilenceLimit = 1
    MaxBeat = 2
    MaxCuts = 2
    MayStop = FALSE
INVARIANTS
    CoordinatorTypeOK
    CommandsInOrder
    TelemetryInOrder
    NoSplicedLine
CHECK_DEADLOCK FALSE
