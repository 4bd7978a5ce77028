SPECIFICATION RaySpec
CONSTANTS
    Axis <- MCAxis
    N = 3
    V = 4
    Starts <- MCStarts
    Directions <- MCDirections
    Horizon = 12
    Infinity = 1000
INVARIANTS
    RayTypeOK
    FollowsRay
    CrossesAll
CHECK_DEADLOCK FALSE
