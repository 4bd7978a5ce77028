---------------------------- MODULE FcBridgeProofs ----------------------------
(***************************************************************************)
(* The bridge's check-then-act gaps, for every value of the time limits,   *)
(* every configuration of the failsafe and every caller: however the       *)
(* telemetry, the failsafe's callers and the steps of send() interleave,   *)
(* one velocity setpoint can slip through a gate that has closed, never    *)
(* two.                                                                    *)
(***************************************************************************)
EXTENDS OnboardPilot, TLAPS

\* send() has passed the failsafe's gate, or also the position's, and has not
\* issued its setpoint yet.
PastPosition == pc \in {"ensure", "start", "set"} /\ out = "VELOCITY"
PastFailsafe == pc = "age" \/ PastPosition

Counts == late \in [authority : 0..2, position : 0..2]

AuthorityInv ==
    /\ Counts
    /\ Authorised => late.authority = 0
    /\ PastFailsafe => late.authority = 0
    /\ late.authority <= 1

PositionInv ==
    /\ Counts
    /\ posAge \in Age
    /\ Positioned => late.position = 0
    /\ PastPosition => late.position = 0
    /\ late.position <= 1

\* Once permission has gone (LINK_LOSS is no end of it) and the setpoint in flight
\* is out, send() cannot get past its gates again without a permission that
\* resets the count
\* (fc_bridge.cpp:113-131).
THEOREM OneSetpointAfterRevocationAlways == Spec => []OneSetpointAfterRevocation
<1>1. Init => AuthorityInv
  BY DEF Init, AuthorityInv, Counts, PastFailsafe, PastPosition
<1>2. AuthorityInv /\ [Next]_vars => AuthorityInv'
  <2> SUFFICES ASSUME AuthorityInv, [Next]_vars PROVE AuthorityInv'
    OBVIOUS
  <2> USE DEF AuthorityInv, Counts, PastFailsafe, PastPosition, Authorised
  <2>1. ASSUME NEW type \in CommandType, Send(type) PROVE AuthorityInv'
    BY <2>1 DEF Send, Decide, GoTo, failsafeVars
  <2>2. CASE ReadPose
    BY <2>2 DEF ReadPose, Decide, GoTo, failsafeVars
  <2>3. CASE Vet
    \* passing the gate needs the permission that keeps the count at zero
    BY <2>3 DEF Vet, Decide, GoTo, failsafeVars, F!AllowAutonomy
  <2>4. CASE CheckPositionAge
    BY <2>4 DEF CheckPositionAge, Decide, GoTo, failsafeVars
  <2>5. CASE EnsureOffboard \/ StartOffboard
    BY <2>5 DEF EnsureOffboard, StartOffboard, GoTo, failsafeVars
  <2>6. CASE SetVelocity
    BY <2>6 DEF SetVelocity, GoTo, Bump, failsafeVars
  <2>7. CASE StopOffboard
    BY <2>7 DEF StopOffboard, GoTo, failsafeVars
  <2>8. CASE Connect \/ PositionArrives \/ AttitudeArrives \/ FcLeavesOffboard
    BY <2>8 DEF Connect, PositionArrives, AttitudeArrives, FcLeavesOffboard, failsafeVars, sendVars
  <2>9. CASE FailsafeCall
    BY <2>9 DEF FailsafeCall, sendVars
  <2>10. CASE Tick
    BY <2>10 DEF Tick, failsafeVars
  <2>11. CASE UNCHANGED vars
    BY <2>11 DEF vars, failsafeVars, sendVars
  <2> QED
    BY <2>1, <2>2, <2>3, <2>4, <2>5, <2>6, <2>7, <2>8, <2>9, <2>10, <2>11
    DEF Next, SendStep, Environment
<1>3. AuthorityInv => OneSetpointAfterRevocation
  BY DEF AuthorityInv, OneSetpointAfterRevocation
<1> QED
  BY <1>1, <1>2, <1>3, PTL DEF Spec

\* Time only ever ages a position that is already too old.
LEMMA AgingKeepsStale ==
    ASSUME posAge \in Age, posAge' = Older(posAge)
    PROVE  posAge' \in Age /\ (Positioned' => Positioned)
BY FcBridgeConstants DEF Age, Older, Positioned

\* The same for the age of the position, which no attitude telemetry renews
\* (fc_bridge.cpp:64-85, 104-117).
THEOREM OneSetpointAfterPositionLossAlways == Spec => []OneSetpointAfterPositionLoss
<1>1. Init => PositionInv
  BY FcBridgeConstants DEF Init, PositionInv, Counts, PastPosition, Age
<1>2. PositionInv /\ [Next]_vars => PositionInv'
  <2> SUFFICES ASSUME PositionInv, [Next]_vars PROVE PositionInv'
    OBVIOUS
  <2> USE DEF PositionInv, Counts, PastPosition
  <2>1. ASSUME NEW type \in CommandType, Send(type) PROVE PositionInv'
    BY <2>1 DEF Send, Decide, GoTo, telemetryVars, Positioned
  <2>2. CASE ReadPose \/ Vet
    BY <2>2 DEF ReadPose, Vet, Decide, GoTo, telemetryVars, Positioned
  <2>3. CASE CheckPositionAge
    \* passing the gate needs the fresh position that keeps the count at zero
    BY <2>3, FcBridgeConstants DEF CheckPositionAge, Decide, GoTo, telemetryVars, Positioned, Age
  <2>4. CASE EnsureOffboard \/ StartOffboard
    BY <2>4 DEF EnsureOffboard, StartOffboard, GoTo, telemetryVars, Positioned
  <2>5. CASE SetVelocity
    BY <2>5 DEF SetVelocity, GoTo, Bump, telemetryVars, Positioned
  <2>6. CASE StopOffboard
    BY <2>6 DEF StopOffboard, GoTo, telemetryVars, Positioned
  <2>7. CASE PositionArrives
    BY <2>7, FcBridgeConstants DEF PositionArrives, sendVars, Age
  <2>8. CASE Connect \/ AttitudeArrives \/ FcLeavesOffboard
    BY <2>8 DEF Connect, AttitudeArrives, FcLeavesOffboard, telemetryVars, sendVars, Positioned
  <2>9. CASE FailsafeCall
    BY <2>9 DEF FailsafeCall, telemetryVars, sendVars, Positioned
  <2>10. CASE Tick
    BY <2>10, AgingKeepsStale DEF Tick
  <2>11. CASE UNCHANGED vars
    BY <2>11 DEF vars, telemetryVars, sendVars, Positioned
  <2> QED
    BY <2>1, <2>2, <2>3, <2>4, <2>5, <2>6, <2>7, <2>8, <2>9, <2>10, <2>11
    DEF Next, SendStep, Environment
<1>3. PositionInv => OneSetpointAfterPositionLoss
  BY DEF PositionInv, OneSetpointAfterPositionLoss
<1> QED
  BY <1>1, <1>2, <1>3, PTL DEF Spec

\* Between the zero setpoint and start() nothing else touches the stream.
StartInv == pc = "start" => ~offboard /\ setpoint = "ZERO"

\* Offboard mode is engaged by start() alone, and start() follows a zero setpoint
\* (fc_bridge.cpp:87-99).
THEOREM EngagesAtRestAlways == Spec => EngagesAtRest
<1>1. Init => StartInv
  BY DEF Init, StartInv
<1>2. StartInv /\ [Next]_vars => StartInv' /\ [(~offboard /\ offboard') => setpoint' = "ZERO"]_vars
  <2> SUFFICES ASSUME StartInv, [Next]_vars
               PROVE  StartInv' /\ ((~offboard /\ offboard') => setpoint' = "ZERO")
    OBVIOUS
  <2> USE DEF StartInv
  <2>1. ASSUME NEW type \in CommandType, Send(type)
        PROVE  StartInv' /\ ((~offboard /\ offboard') => setpoint' = "ZERO")
    BY <2>1 DEF Send, Decide, GoTo, fcVars
  <2>2. CASE ReadPose \/ Vet \/ CheckPositionAge
    BY <2>2 DEF ReadPose, Vet, CheckPositionAge, Decide, GoTo, fcVars
  <2>3. CASE EnsureOffboard \/ StartOffboard \/ SetVelocity \/ StopOffboard
    BY <2>3 DEF EnsureOffboard, StartOffboard, SetVelocity, StopOffboard, GoTo
  <2>4. CASE Environment \/ Tick
    BY <2>4 DEF Environment, Connect, PositionArrives, AttitudeArrives, FcLeavesOffboard,
                FailsafeCall, Tick, fcVars, sendVars
  <2>5. CASE UNCHANGED vars
    BY <2>5 DEF vars, fcVars, sendVars
  <2> QED
    BY <2>1, <2>2, <2>3, <2>4, <2>5 DEF Next, SendStep
<1> QED
  BY <1>1, <1>2, PTL DEF Spec, EngagesAtRest

-----------------------------------------------------------------------------
(* Types, of the bridge and of the loop over it.                           *)

\* A call on the failsafe keeps the object's types.
LEMMA FailsafeKeepsTypes == F!TypeOK /\ F!Next => F!TypeOK'
<1> SUFFICES ASSUME F!TypeOK, F!Next PROVE F!TypeOK'
  OBVIOUS
<1>1. CASE F!ModeRequest
  BY <1>1 DEF F!ModeRequest, F!RequestIdle, F!RequestArm, F!RequestAutonomy, F!RequestTeleop,
              F!RequestDisarm, F!Request, F!TypeOK, F!State
<1>2. CASE F!Event
  BY <1>2 DEF F!Event, F!OnTetherLoss, F!OnTetherRecover, F!Request, F!OnBadCfc, F!OnKill,
              F!OnLowBattery, F!OnGeofenceBreach, F!ApplyReturnOrLand, F!ReturnOrLand, F!TypeOK, F!State
<1>3. CASE F!ResetFault
  BY <1>3 DEF F!ResetFault, F!TypeOK, F!State
<1> QED
  BY <1>1, <1>2, <1>3 DEF F!Next

\* Ages stay at most AgeCap.
LEMMA OlderIsAge == \A age \in Age : Older(age) \in Age
  BY FcBridgeConstants DEF Older, Age

LEMMA TypesInitially == Init => TypeOK
<1> SUFFICES ASSUME Init PROVE TypeOK
  OBVIOUS
<1>1. F!TypeOK
  BY DEF Init, F!Init, F!TypeOK, F!State
<1>2. {posAge, poseAge, latest} \subseteq Age
  BY FcBridgeConstants DEF Init, Age
<1>3. {connected, pos_ok, att_ok, offboard} \subseteq BOOLEAN
  BY DEF Init
<1>4. late \in [authority : 0..2, position : 0..2]
  BY DEF Init
<1> QED
  BY <1>1, <1>2, <1>3, <1>4 DEF Init, TypeOK, Setpoint

LEMMA SendTypes == ASSUME TypeOK, NEW type, Send(type) PROVE TypeOK'
  BY DEF TypeOK, Send, Decide, GoTo, Setpoint, failsafeVars, telemetryVars, fcVars, F!TypeOK

LEMMA SendStepTypes == ASSUME TypeOK, SendStep PROVE TypeOK'
<1> USE DEF TypeOK, F!TypeOK, Decide, GoTo, Setpoint
<1>1. CASE ReadPose
  BY <1>1 DEF ReadPose, failsafeVars, telemetryVars, fcVars
<1>2. CASE Vet
  BY <1>2 DEF Vet, failsafeVars, telemetryVars, fcVars
<1>3. CASE CheckPositionAge
  BY <1>3 DEF CheckPositionAge, failsafeVars, telemetryVars, fcVars
<1>4. CASE EnsureOffboard \/ StartOffboard
  BY <1>4 DEF EnsureOffboard, StartOffboard, failsafeVars, telemetryVars
<1>5. CASE SetVelocity
  <2>1. late' \in [authority : 0..2, position : 0..2]
    BY <1>5 DEF SetVelocity, Bump
  <2> QED
    BY <1>5, <2>1 DEF SetVelocity, failsafeVars, telemetryVars
<1>6. CASE StopOffboard
  BY <1>6 DEF StopOffboard, failsafeVars, telemetryVars
<1> QED
  BY <1>1, <1>2, <1>3, <1>4, <1>5, <1>6 DEF SendStep

LEMMA EnvironmentTypes == ASSUME TypeOK, Environment PROVE TypeOK'
<1> USE DEF TypeOK
<1>1. 0 \in Age
  BY FcBridgeConstants DEF Age
<1>2. CASE Connect \/ AttitudeArrives \/ FcLeavesOffboard
  BY <1>1, <1>2 DEF Connect, AttitudeArrives, FcLeavesOffboard, PushIfReady, F!TypeOK, Setpoint,
                    failsafeVars, telemetryVars, sendVars, fcVars
<1>3. CASE PositionArrives
  BY <1>1, <1>3 DEF PositionArrives, PushIfReady, F!TypeOK, failsafeVars, sendVars, fcVars
<1>4. CASE FailsafeCall
  BY <1>4, FailsafeKeepsTypes DEF FailsafeCall, telemetryVars, sendVars, fcVars
<1> QED
  BY <1>2, <1>3, <1>4 DEF Environment

LEMMA TickTypes == ASSUME TypeOK, Tick PROVE TypeOK'
  BY OlderIsAge DEF TypeOK, Tick, F!TypeOK, failsafeVars, fcVars

LEMMA StutterTypes == ASSUME TypeOK, UNCHANGED vars PROVE TypeOK'
  BY DEF TypeOK, F!TypeOK, vars, failsafeVars, telemetryVars, sendVars, fcVars

\* The bridge's variables keep their types, for all time limits.
THEOREM BridgeTypes == Spec => []TypeOK
<1>1. TypeOK /\ [Next]_vars => TypeOK'
  BY SendTypes, SendStepTypes, EnvironmentTypes, TickTypes, StutterTypes DEF Next
<1> QED
  BY <1>1, TypesInitially, PTL DEF Spec

\* So do the loop's, which drives the bridge in its own order
\* (pilot_main.cpp:139-177).
THEOREM PilotTypes == PSpec => []PTypeOK
<1>1. PInit => PTypeOK
  BY TypesInitially, FcBridgeConstants DEF PInit, PTypeOK, Age
<1>2. PTypeOK /\ [PNext]_pilotVars => PTypeOK'
  <2> SUFFICES ASSUME PTypeOK, [PNext]_pilotVars PROVE PTypeOK'
    OBVIOUS
  <2> USE DEF PTypeOK
  <2>1. CASE Top
    <3>1. TypeOK'
      BY <2>1, StutterTypes DEF Top
    <3>2. seen' \in Age
      BY <2>1 DEF Top, TypeOK
    <3> QED
      BY <2>1, <3>1, <3>2 DEF Top
  <2>2. CASE Exit
    <3>1. TypeOK'
      BY <2>2 DEF Exit, TypeOK, F!TypeOK, Setpoint, failsafeVars, telemetryVars, sendVars
    <3> QED
      BY <2>2, <3>1 DEF Exit
  <2>3. ASSUME NEW type, Issue(type) PROVE PTypeOK'
    BY <2>3, SendTypes DEF Issue
  <2>4. CASE Decision
    BY <2>3, <2>4, StutterTypes DEF Decision
  <2>5. CASE Infer
    BY <2>3, <2>5 DEF Infer
  <2>6. CASE Return
    BY <2>6, StutterTypes DEF Return
  <2>7. CASE Bridge \/ World
    BY <2>7, SendStepTypes, EnvironmentTypes DEF Bridge, World, loopVars
  <2>8. CASE Signal
    BY <2>8, StutterTypes DEF Signal
  <2>9. CASE Time
    BY <2>9, TickTypes, OlderIsAge DEF Time
  <2>10. CASE UNCHANGED pilotVars
    BY <2>10, StutterTypes DEF pilotVars, loopVars
  <2> QED
    BY <2>1, <2>2, <2>4, <2>5, <2>6, <2>7, <2>8, <2>9, <2>10 DEF PNext, Pilot
<1> QED
  BY <1>1, <1>2, PTL DEF PSpec
=============================================================================
