SPECIFICATION Spec
CONSTANTS
    PoseFresh = 2
    BatteryLevels = {10}
    Thresholds = {20}
    PositionFresh = 2
    AgeCap = 3
INVARIANTS
    TypeOK
    OneSetpointAfterRevocation
    OneSetpointAfterPositionLoss
PROPERTY
    EngagesAtRest
