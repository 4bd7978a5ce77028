SPECIFICATION FairSpec
CONSTANTS
    PoseFresh = 1
    BatteryLevels = {10}
    Thresholds = {20}
    PositionFresh = 1
    AgeCap = 2
PROPERTY
    KillReachesEmergencyStop
CHECK_DEADLOCK FALSE
