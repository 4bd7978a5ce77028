------------------------------ MODULE Failsafe ------------------------------
(***************************************************************************)
(* The failsafe state machine of control/failsafe.hpp: one mode, two       *)
(* latched flags and a configuration fixed by the constructor.  Each       *)
(* public method that can change the object is one action; a call that     *)
(* returns early without an assignment is a stuttering step, and so is     *)
(* on_backhaul_loss, which only logs.                                      *)
(*                                                                         *)
(* This module lets every method be called at any time, one call at a      *)
(* time.  Modules that embed the object drive the same actions from the    *)
(* threads that really call them.                                          *)
(***************************************************************************)
EXTENDS Integers

CONSTANTS
    PoseFresh,      \* allow_autonomy accepts poses younger than this (100 ms)
    BatteryLevels,  \* battery percentages a caller may report
    Thresholds      \* values of low_batt_pct the object may be built with

ASSUME FailsafeConstants ==
    /\ PoseFresh \in Nat \ {0}
    /\ BatteryLevels \subseteq Int
    /\ Thresholds \subseteq Int

VARIABLES
    cfg,            \* the Config the object was constructed with
    state,          \* state_
    nan_seen,       \* nan_seen_
    kill_requested  \* kill_requested_

failsafeVars == <<cfg, state, nan_seen, kill_requested>>

LinkLossAction == {"HOVER", "RETURN_ALONG_TRACK", "LAND"}

State == {"BOOT", "IDLE", "ARMED", "AUTONOMOUS", "TELEOP", "LINK_LOSS",
          "RTL", "LANDING", "FAULT"}

Config == [link_loss_action : LinkLossAction, low_batt_pct : Thresholds]

Init ==
    /\ cfg \in Config
    /\ state = "BOOT"
    /\ nan_seen = FALSE
    /\ kill_requested = FALSE

-----------------------------------------------------------------------------
(* Mode requests.                                                          *)

\* A request moves the mode along only from the modes it names, and leaves
\* the two latched flags alone.
Request(from, to) ==
    /\ state \in from
    /\ state' = to
    /\ UNCHANGED <<cfg, nan_seen, kill_requested>>

RequestIdle     == Request({"BOOT"}, "IDLE")
RequestArm      == Request({"IDLE"}, "ARMED")
RequestAutonomy == Request({"ARMED"}, "AUTONOMOUS")
RequestTeleop   == Request({"ARMED", "AUTONOMOUS"}, "TELEOP")
\* Mutant: disarming is not restricted to the modes the method names.
RequestDisarmAnywhere == Request(State \ {"FAULT"}, "IDLE")

RequestDisarm   == Request({"ARMED", "TELEOP", "AUTONOMOUS"}, "IDLE")

-----------------------------------------------------------------------------
(* Event hooks.                                                            *)

\* Mutant: a tether that comes back also ends a fault.
OnTetherRecoverFromFault == Request({"LINK_LOSS", "FAULT"}, "AUTONOMOUS")

OnTetherLoss    == Request({"AUTONOMOUS", "TELEOP"}, "LINK_LOSS")
OnTetherRecover == Request({"LINK_LOSS"}, "AUTONOMOUS")

OnBadCfc ==
    /\ nan_seen' = TRUE
    /\ state' = "FAULT"
    /\ UNCHANGED <<cfg, kill_requested>>

OnKill ==
    /\ state' = "FAULT"
    /\ kill_requested' = TRUE
    /\ UNCHANGED <<cfg, nan_seen>>

\* Mutant: the configured action is stored as the mode.
ReturnOrLandNamesAction == cfg.link_loss_action

\* apply_return_or_land: taken from every mode, FAULT and BOOT included.
ReturnOrLand == IF cfg.link_loss_action = "LAND" THEN "LANDING" ELSE "RTL"

ApplyReturnOrLand ==
    /\ state' = ReturnOrLand
    /\ UNCHANGED <<cfg, nan_seen, kill_requested>>

OnLowBattery(pct)  == pct < cfg.low_batt_pct /\ ApplyReturnOrLand
OnGeofenceBreach   == ApplyReturnOrLand

\* Mutant: a fault is reset to the mode before IDLE was left.
ResetFaultToArmed ==
    /\ nan_seen' = FALSE
    /\ kill_requested' = FALSE
    /\ state' = IF state = "FAULT" THEN "ARMED" ELSE state
    /\ UNCHANGED cfg

ResetFault ==
    /\ nan_seen' = FALSE
    /\ kill_requested' = FALSE
    /\ state' = IF state = "FAULT" THEN "IDLE" ELSE state
    /\ UNCHANGED cfg

\* The query of the control loop and of the flight-controller bridge, for a
\* pose of the given age.
AllowAutonomy(age) == state = "AUTONOMOUS" /\ age < PoseFresh /\ ~nan_seen

-----------------------------------------------------------------------------
ModeRequest ==
    \/ RequestIdle
    \/ RequestArm
    \/ RequestAutonomy
    \/ RequestTeleop
    \/ RequestDisarm

Event ==
    \/ OnTetherLoss
    \/ OnTetherRecover
    \/ OnBadCfc
    \/ OnKill
    \/ \E pct \in BatteryLevels : OnLowBattery(pct)
    \/ OnGeofenceBreach

Next == ModeRequest \/ Event \/ ResetFault

Spec == Init /\ [][Next]_failsafeVars

-----------------------------------------------------------------------------
(* Correctness.                                                            *)

TypeOK ==
    /\ cfg \in Config
    /\ state \in State
    /\ nan_seen \in BOOLEAN
    /\ kill_requested \in BOOLEAN

\* While a kill or a bad CfC output is latched the mode is FAULT or one of
\* the two automatic ways down: no sequence of requests and events after
\* on_kill or on_bad_cfc reaches a mode the vehicle can be flown in before
\* reset_fault (failsafe.hpp:125-141, 162-166).
Grounded == {"FAULT", "RTL", "LANDING"}

LatchGrounds == (nan_seen \/ kill_requested) => state \in Grounded

\* A return or a landing that was started is never handed back to a request
\* or to the tether: only a fault ends it, and a second trigger changes
\* nothing (failsafe.hpp:148-157, 189-197 against every other assignment of
\* state_).  The comment at failsafe.hpp:193-194 says of this very case that
\* "callers can override by re-requesting a mode": the code disagrees with it,
\* since no request_* method has a transition out of RTL or LANDING.
ReturnIsFinal ==
    [][(state \in {"RTL", "LANDING"}) => (state' \in {state, "FAULT"})]_failsafeVars
=============================================================================
