SPECIFICATION HSpec
CONSTANTS
    PoseFresh = 2
    BatteryLevels = {10, 30, 60}
    Thresholds = {0, 20, 50}
INVARIANTS
    TypeOK
    LatchGrounds
    FlownOnlyIfArmed
PROPERTY
    ReturnIsFinal
