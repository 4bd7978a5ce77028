SPECIFICATION FairSpec
CONSTANTS
    PoseFresh = 1
    BatteryLevels = {10}
    Thresholds = {20}
    PositionFresh = 1
    AgeCap = 2
INVARIANT
    PTypeOK
PROPERTIES
    KillStopsMotion
    PositionLossStopsMotion
CHECK_DEADLOCK FALSE
