----------------------------- MODULE OnboardPilot -----------------------------
(***************************************************************************)
(* The 20 Hz loop of control/pilot_main.cpp over the bridge: read the      *)
(* latest pose, ask the failsafe, run the CfC policy or hold, send, sleep. *)
(* The loop consults the failsafe for the pose it copied at the top; the   *)
(* bridge consults it again, for a pose of its own, when send() runs.      *)
(*                                                                         *)
(* pilot_main builds the failsafe and leaves it in BOOT; the threads that  *)
(* drive it (operator, tether agent, battery monitor) are the module's     *)
(* environment, which may call any of its methods at any time.             *)
(***************************************************************************)
EXTENDS FcBridge

VARIABLES
    has_model,  \* pilot.has_model(): the ONNX policy was loaded
    running,    \* g_running, cleared by SIGINT and SIGTERM
    loop,       \* where the loop stands
    seen        \* age of the pose the loop copied

loopVars  == <<has_model, running, loop, seen>>
pilotVars == <<vars, loopVars>>

PInit ==
    /\ Init
    /\ has_model \in BOOLEAN
    /\ running = TRUE
    /\ loop = "top"
    /\ seen = AgeCap

\* Without a pose the loop sleeps and starts over, which changes nothing; a
\* cleared flag ends it, and with it the process and MAVSDK's stream.
Top ==
    /\ loop = "top"
    /\ running /\ have_pose
    /\ seen' = poseAge
    /\ loop' = "decide"
    /\ UNCHANGED <<vars, has_model, running>>

Exit ==
    /\ loop = "top" /\ ~running
    /\ loop' = "exited"
    /\ setpoint' = "NONE" /\ offboard' = FALSE
    /\ UNCHANGED <<failsafeVars, telemetryVars, sendVars, late, has_model, running, seen>>

\* Hand a command to the bridge.
Issue(type) ==
    /\ loop' = "sending"
    /\ Send(type)
    /\ UNCHANGED <<has_model, running, seen>>

\* Mutant: a refusal skips the cycle and leaves the last setpoint streaming.
DecisionSkips ==
    /\ loop = "decide"
    /\ loop' = IF has_model /\ F!AllowAutonomy(seen) THEN "infer" ELSE "top"
    /\ UNCHANGED <<vars, has_model, running, seen>>

\* The loop's own gate: the policy runs only if the failsafe allows autonomy
\* for the copied pose, otherwise the loop sends HOLD.
Decision ==
    /\ loop = "decide"
    /\ IF has_model /\ F!AllowAutonomy(seen)
       THEN loop' = "infer" /\ UNCHANGED <<vars, has_model, running, seen>>
       ELSE Issue("HOLD")

\* CfCPilot::step: a velocity, or HOLD when the safety filter vetoes it.
Infer ==
    /\ loop = "infer"
    /\ \E type \in {"VELOCITY_SETPOINT", "HOLD"} : Issue(type)

\* send() has returned; sleep 50 ms and go round.
Return ==
    /\ loop = "sending" /\ pc = "idle"
    /\ loop' = "top"
    /\ UNCHANGED <<vars, has_model, running, seen>>

Bridge  == SendStep /\ UNCHANGED loopVars
World   == Environment /\ UNCHANGED loopVars
Signal  == running /\ running' = FALSE /\ UNCHANGED <<vars, has_model, loop, seen>>
Time    == Tick /\ seen' = Older(seen) /\ UNCHANGED <<has_model, running, loop>>

Pilot == Top \/ Exit \/ Decision \/ Infer \/ Return \/ Bridge

PNext == Pilot \/ (loop # "exited" /\ (World \/ Signal \/ Time))

PSpec == PInit /\ [][PNext]_pilotVars

\* The loop's thread is scheduled, no MAVSDK call blocks for ever, and time
\* passes; nothing is assumed of telemetry or of the failsafe's callers.
Fairness == WF_pilotVars(Pilot) /\ WF_pilotVars(loop # "exited" /\ Time)

FairSpec == PSpec /\ Fairness

-----------------------------------------------------------------------------
(* Correctness.                                                            *)

PTypeOK ==
    /\ TypeOK
    /\ {has_model, running} \subseteq BOOLEAN
    /\ loop \in {"top", "decide", "infer", "sending", "exited"}
    /\ seen \in Age

\* A latched kill eventually stops the streamed velocity, unless reset_fault
\* clears it first: the loop replaces the last velocity by a zero one even
\* though nothing tells it of the kill (pilot_main.cpp:139-177).
KillStopsMotion == kill_requested ~> (~Moving \/ ~kill_requested)

\* When position telemetry stops for good the vehicle is brought to rest, even
\* while attitude telemetry keeps refreshing the pose (fc_bridge.cpp:104-123).
PositionLossStopsMotion == []<>(Positioned \/ ~Moving)

-----------------------------------------------------------------------------
(* What the comments say.                                                  *)

\* failsafe.hpp:135-136: a kill is "highest priority" and the bridge "maps this
\* straight to EMERGENCY_STOP (motors off)".  Nothing reads kill_requested_: the
\* loop keeps holding, which keeps the vehicle in offboard mode.
KillReachesEmergencyStop == (kill_requested /\ offboard) ~> (~offboard \/ ~kill_requested)
=============================================================================
