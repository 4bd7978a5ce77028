SPECIFICATION TSpec
CONSTANTS
    PoseFresh = 2
    BatteryLevels = {10}
    Thresholds = {20}
    WorkerCalls = {"request_idle", "request_arm", "request_autonomy", "request_teleop", "request_disarm",
                   "on_tether_loss", "on_tether_recover", "on_kill", "reset_fault"}
    PilotCalls = {"on_bad_cfc", "return_or_land"}
INVARIANTS
    KillGrounds
