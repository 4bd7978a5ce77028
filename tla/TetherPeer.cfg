SPECIFICATION FairSpec
CONSTANTS
    Slots = 1
    Backlog = 1
    BufferSize = 2
    Commands = {goal}
    Junk = junk
    SilenceLimit = 2
    MaxBeat = 1
INVARIANT
    AgentTypeOK
PROPERTIES
    KeepsLinkMonitor
    SilenceIsReported
    StopReturns
CHECK_DEADLOCK FALSE
