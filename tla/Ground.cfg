SPECIFICATION GSpec
CONSTANTS
    Drones = {"a", "b"}
    Fence <- MCFence
    Floor = 1
    Ceil = 4
    MinSeparation = 2
    NaN = NaN
    Requests = {r1, r2}
    Proposals <- MCProposals
    None = None
INVARIANTS
    ServerTypeOK
    BatchSeparated
    PushIsAtomic
PROPERTY
    FleetStopReturns
