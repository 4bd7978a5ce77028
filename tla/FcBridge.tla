------------------------------- MODULE FcBridge -------------------------------
(***************************************************************************)
(* The flight-controller bridge of control/fc_bridge/fc_bridge.cpp with    *)
(* the pose provider it feeds and the failsafe it consults.                *)
(*                                                                         *)
(* Three threads meet here: MAVSDK's telemetry callbacks push poses, some  *)
(* thread drives the failsafe, and one caller runs send().  send() reads   *)
(* the provider, the failsafe and the position clock one after the other,  *)
(* each under its own lock or none, may block in offboard->start(), and    *)
(* issues its setpoint at the end; each of those is a step.  A telemetry   *)
(* callback holds pm_ from its first assignment to the push, so it is one  *)
(* step.                                                                   *)
(*                                                                         *)
(* Time is counted in ticks and kept as ages, saturated at AgeCap: a tick  *)
(* may fall between any two steps of any thread.                           *)
(***************************************************************************)
EXTENDS Integers

CONSTANTS
    PoseFresh, BatteryLevels, Thresholds,  \* of the failsafe
    PositionFresh,  \* send() accepts a position up to this old (100 ms)
    AgeCap          \* ages saturate here

ASSUME FcBridgeConstants ==
    /\ PositionFresh \in Nat
    /\ AgeCap \in Nat
    /\ AgeCap > PositionFresh /\ AgeCap >= PoseFresh

VARIABLES
    cfg, state, nan_seen, kill_requested,  \* the failsafe object
    connected,  \* connected_
    pos_ok,     \* a position has arrived
    att_ok,     \* an attitude has arrived
    posAge,     \* now - last_pose_time_: age of the position telemetry
    poseAge,    \* now - timestamp of the provider's pose
    pc,         \* where send() stands
    latest,     \* age of the pose send() copied from the provider
    out,        \* the setpoint send() has decided on
    offboard,   \* the autopilot is in offboard mode
    setpoint,   \* what MAVSDK streams to it
    late        \* history: velocity setpoints issued since permission ended

failsafeVars  == <<cfg, state, nan_seen, kill_requested>>
telemetryVars == <<connected, pos_ok, att_ok, posAge, poseAge>>
sendVars      == <<pc, latest, out>>
fcVars        == <<offboard, setpoint>>
vars          == <<failsafeVars, telemetryVars, sendVars, fcVars, late>>

F == INSTANCE Failsafe

CommandType == {"VELOCITY_SETPOINT", "HOLD", "LAND", "EMERGENCY_STOP", "POSITION_SETPOINT"}
Setpoint    == {"NONE", "ZERO", "VELOCITY"}
Age         == 0..AgeCap
Older(age)  == IF age < AgeCap THEN age + 1 ELSE AgeCap

have_pose == pos_ok /\ att_ok   \* the provider has been given a pose

\* Permission, for the history variable: the modes a velocity of the policy is
\* in order in.  LINK_LOSS is one of them, by the word of failsafe.hpp:99-102
\* and docs/TETHER.md:66, although allow_autonomy refuses it (96).
Authorised == state \in {"AUTONOMOUS", "LINK_LOSS"} /\ ~nan_seen

\* The position clock's part of it.
Positioned == posAge <= PositionFresh

Init ==
    /\ F!Init
    /\ connected = FALSE /\ pos_ok = FALSE /\ att_ok = FALSE
    /\ posAge = AgeCap /\ poseAge = AgeCap
    /\ pc = "idle" /\ latest = AgeCap /\ out = "NONE"
    /\ offboard = FALSE /\ setpoint = "NONE"
    /\ late = [authority |-> 0, position |-> 0]

-----------------------------------------------------------------------------
(* connect() and the two telemetry callbacks.                              *)

\* A connection without an autopilot returns early and changes nothing.
Connect ==
    /\ ~connected
    /\ connected' = TRUE
    /\ UNCHANGED <<failsafeVars, pos_ok, att_ok, posAge, poseAge, sendVars, fcVars, late>>

\* push_if_ready: the pose is stamped with the time of the push, whichever of
\* the two callbacks makes it.
PushIfReady == poseAge' = IF pos_ok' /\ att_ok' THEN 0 ELSE poseAge

PositionArrives ==
    /\ connected
    /\ pos_ok' = TRUE
    /\ posAge' = 0
    /\ late' = [late EXCEPT !.position = 0]
    /\ UNCHANGED <<failsafeVars, connected, att_ok, sendVars, fcVars>>
    /\ PushIfReady

AttitudeArrives ==
    /\ connected
    /\ att_ok' = TRUE
    /\ UNCHANGED <<failsafeVars, connected, pos_ok, posAge, sendVars, fcVars, late>>
    /\ PushIfReady

-----------------------------------------------------------------------------
(* send().                                                                 *)

GoTo(where) == pc' = where
Decide(sp)  == out' = sp /\ GoTo("ensure")   \* the setpoint this call will issue

\* Mutant: HOLD stores the command's own type as the setpoint.
SendStoresType(type) ==
    /\ connected /\ pc = "idle"
    /\ \/ type = "VELOCITY_SETPOINT" /\ GoTo("read") /\ UNCHANGED out
       \/ type = "HOLD" /\ Decide(type)
       \/ type \in {"LAND", "EMERGENCY_STOP"} /\ GoTo("stop") /\ UNCHANGED out
    /\ UNCHANGED <<failsafeVars, telemetryVars, latest, fcVars, late>>

\* The switch on the command type.  LAND and EMERGENCY_STOP take the same path.
Send(type) ==
    /\ connected /\ pc = "idle"
    /\ \/ type = "VELOCITY_SETPOINT" /\ GoTo("read") /\ UNCHANGED out
       \/ type = "HOLD" /\ Decide("ZERO")
       \/ type \in {"LAND", "EMERGENCY_STOP"} /\ GoTo("stop") /\ UNCHANGED out
    /\ UNCHANGED <<failsafeVars, telemetryVars, latest, fcVars, late>>

\* provider_.get_latest_pose(latest)
ReadPose ==
    /\ pc = "read"
    /\ \/ have_pose /\ latest' = poseAge /\ GoTo("vet") /\ UNCHANGED out
       \/ ~have_pose /\ Decide("ZERO") /\ UNCHANGED latest
    /\ UNCHANGED <<failsafeVars, telemetryVars, fcVars, late>>

\* Mutant: the bridge vets the pose alone.
VetPoseOnly ==
    /\ pc = "vet"
    /\ \/ latest < PoseFresh /\ GoTo("age") /\ UNCHANGED out
       \/ latest >= PoseFresh /\ Decide("ZERO")
    /\ UNCHANGED <<failsafeVars, telemetryVars, latest, fcVars, late>>

\* failsafe_->allow_autonomy(latest)
Vet ==
    /\ pc = "vet"
    /\ \/ F!AllowAutonomy(latest) /\ GoTo("age") /\ UNCHANGED out
       \/ ~F!AllowAutonomy(latest) /\ Decide("ZERO")
    /\ UNCHANGED <<failsafeVars, telemetryVars, latest, fcVars, late>>

\* Mutant: the age is taken from the pose's own timestamp.
CheckPoseAge ==
    /\ pc = "age"
    /\ Decide(IF latest > PositionFresh THEN "ZERO" ELSE "VELOCITY")
    /\ UNCHANGED <<failsafeVars, telemetryVars, latest, fcVars, late>>

\* pose_age_ms() > 100, on the clock of the position callback alone
CheckPositionAge ==
    /\ pc = "age"
    /\ Decide(IF posAge > PositionFresh THEN "ZERO" ELSE "VELOCITY")
    /\ UNCHANGED <<failsafeVars, telemetryVars, latest, fcVars, late>>

\* Mutant: no zero setpoint before start().
EnsureOffboardBare ==
    /\ pc = "ensure"
    /\ GoTo(IF offboard THEN "set" ELSE "start")
    /\ UNCHANGED <<failsafeVars, telemetryVars, latest, out, fcVars, late>>

\* ensure_offboard: a zero setpoint first, then start(), whose failure is
\* logged and otherwise ignored.
EnsureOffboard ==
    /\ pc = "ensure"
    /\ \/ offboard /\ GoTo("set") /\ UNCHANGED setpoint
       \/ ~offboard /\ setpoint' = "ZERO" /\ GoTo("start")
    /\ UNCHANGED <<failsafeVars, telemetryVars, latest, out, offboard, late>>

StartOffboard ==
    /\ pc = "start"
    /\ offboard' \in BOOLEAN
    /\ GoTo("set")
    /\ UNCHANGED <<failsafeVars, telemetryVars, latest, out, setpoint, late>>

Bump(n) == IF n < 2 THEN n + 1 ELSE 2

SetVelocity ==
    /\ pc = "set"
    /\ setpoint' = out
    /\ GoTo("idle")
    /\ late' = IF out # "VELOCITY" THEN late ELSE
               [authority |-> IF Authorised THEN late.authority ELSE Bump(late.authority),
                position  |-> IF Positioned THEN late.position ELSE Bump(late.position)]
    /\ UNCHANGED <<failsafeVars, telemetryVars, latest, out, offboard>>

StopOffboard ==
    /\ pc = "stop"
    /\ offboard' = FALSE
    /\ setpoint' = IF offboard THEN "NONE" ELSE setpoint
    /\ GoTo("idle")
    /\ UNCHANGED <<failsafeVars, telemetryVars, latest, out, late>>

SendStep ==
    \/ ReadPose
    \/ Vet
    \/ CheckPositionAge
    \/ EnsureOffboard
    \/ StartOffboard
    \/ SetVelocity
    \/ StopOffboard

-----------------------------------------------------------------------------
(* The rest of the world.                                                  *)

\* The autopilot leaves offboard mode (a pilot's switch, its own failsafe)
\* and MAVSDK stops streaming.
FcLeavesOffboard ==
    /\ offboard
    /\ offboard' = FALSE
    /\ setpoint' = "NONE"
    /\ UNCHANGED <<failsafeVars, telemetryVars, sendVars, late>>

\* Some thread calls a method of the failsafe; a mode that permits autonomy
\* again starts a new count.
FailsafeCall ==
    /\ F!Next
    /\ late' = IF Authorised' THEN [late EXCEPT !.authority = 0] ELSE late
    /\ UNCHANGED <<telemetryVars, sendVars, fcVars>>

Tick ==
    /\ posAge' = Older(posAge)
    /\ poseAge' = Older(poseAge)
    /\ latest' = Older(latest)
    /\ UNCHANGED <<failsafeVars, connected, pos_ok, att_ok, pc, out, fcVars, late>>

Environment ==
    \/ Connect
    \/ PositionArrives
    \/ AttitudeArrives
    \/ FcLeavesOffboard
    \/ FailsafeCall

Next ==
    \/ \E type \in CommandType : Send(type)
    \/ SendStep
    \/ Environment
    \/ Tick

Spec == Init /\ [][Next]_vars

-----------------------------------------------------------------------------
(* Correctness.                                                            *)

TypeOK ==
    /\ F!TypeOK
    /\ {connected, pos_ok, att_ok, offboard} \subseteq BOOLEAN
    /\ {posAge, poseAge, latest} \subseteq Age
    /\ pc \in {"idle", "read", "vet", "age", "ensure", "start", "set", "stop"}
    /\ {out, setpoint} \subseteq Setpoint
    /\ late \in [authority : 0..2, position : 0..2]

\* The vehicle is flown by a velocity the bridge streams.
Moving == offboard /\ setpoint = "VELOCITY"

\* Once the operator, a fault, a return or a landing takes the vehicle from the
\* policy (or a bad output is seen), at most the one velocity setpoint whose
\* checks had already passed is still issued before the policy may command
\* again, however long send() blocks (fc_bridge.cpp:113-131).  Losing the
\* tether is not counted as taking it away: the documents say that the policy
\* flies on in LINK_LOSS and the gate holds the vehicle there, and this
\* property sides with neither.
OneSetpointAfterRevocation == late.authority <= 1

\* Once the position is too old, at most one more velocity setpoint is issued
\* before the next position, even while attitude telemetry keeps the pose's
\* own timestamp fresh (fc_bridge.cpp:64-85, 104-117).
OneSetpointAfterPositionLoss == late.position <= 1

\* Offboard mode is engaged with the vehicle told to stand still, also when an
\* earlier start() failed and left a velocity behind (fc_bridge.cpp:87-99).
EngagesAtRest == [][(~offboard /\ offboard') => setpoint' = "ZERO"]_vars
=============================================================================
