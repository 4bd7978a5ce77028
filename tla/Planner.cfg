SPECIFICATION PSpec
CONSTANTS
    Axis <- MCAxis
    N = 3
    V = 2
    min_points = 2
    Fine = 60
    max_association_distance = 3
    max_track_age = 3
    Resolution = 1
    Horizon = 3
    SafetyMargin = 2
    Meter = 2
    AltitudeBand = 10
    Scenes <- MCScenes
    Drones <- MCDrones
    Trips <- MCTrips
    MaxTime = 4
    Size = 6
    Infinite = Infinite
    None = None
INVARIANTS
    PlannerTypeOK
    ComponentsAreClusters
    OneTrackPerCluster
    FootprintsBlocked
    SearchTree
    RouteSound
    RouteCheapest
