SPECIFICATION MFairSpec
CONSTANTS
    Axis <- MCAxis
    N = 4
    V = 5
    Width = 3
    Height = 3
    Cameras <- MCCameras
    Scenes <- MCScenes
    Beam <- MCBeam
    Options <- MCOptions
    motion_threshold = 3
    min_region_size = 4
    percentile = 30
    SampleInterval = 2
    Cap = 2
    Full = 1
    Positions <- MCPositions
    Headings <- MCHeadings
    Speeds <- MCSpeeds
    UnitsPerMeter = 10
    NaN = NaN
    NoFrame = NoFrame
INVARIANTS
    MTypeOK
    StandingObstacleVetoes
PROPERTIES
    QuietMapFades
    ChangeReachesMap
CHECK_DEADLOCK FALSE
