SPECIFICATION FairSpec
CONSTANTS
    Slots = 2
    Backlog = 2
    BufferSize = 2
    Commands = {1}
    Junk = 0
    SilenceLimit = 1
    MaxBeat = 1
    MaxCuts = 1
    MayStop = TRUE
PROPERTY
    LinkComesBack
CHECK_DEADLOCK FALSE
