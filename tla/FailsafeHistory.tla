--------------------------- MODULE FailsafeHistory ---------------------------
(***************************************************************************)
(* The failsafe state machine with one history variable: whether the       *)
(* operator has armed the vehicle since it last booted, was disarmed,      *)
(* faulted or began a return.  The code keeps no such bit; it is what a    *)
(* reader of failsafe.hpp expects the chain of modes to guarantee.         *)
(***************************************************************************)
EXTENDS Failsafe

VARIABLE armed

historyVars == <<cfg, state, nan_seen, kill_requested, armed>>

HInit == Init /\ armed = FALSE

HNext ==
    \/ RequestArm /\ armed' = TRUE
    \/ (RequestIdle \/ RequestAutonomy \/ RequestTeleop) /\ UNCHANGED armed
    \/ RequestDisarm /\ armed' = FALSE
    \/ (OnTetherLoss \/ OnTetherRecover) /\ UNCHANGED armed
    \/ (OnBadCfc \/ OnKill) /\ armed' = FALSE
    \/ ((\E pct \in BatteryLevels : OnLowBattery(pct)) \/ OnGeofenceBreach) /\ armed' = FALSE
    \/ ResetFault /\ UNCHANGED armed

HSpec == HInit /\ [][HNext]_historyVars

Controlled == {"ARMED", "AUTONOMOUS", "TELEOP", "LINK_LOSS"}

\* The vehicle is in a mode it can be flown in only if the operator armed it
\* and no disarm, fault, return or landing has come since: neither
\* reset_fault nor a tether that comes back can put it there
\* (failsafe.hpp:54-117, 162-166).
FlownOnlyIfArmed == state \in Controlled => armed
=============================================================================
