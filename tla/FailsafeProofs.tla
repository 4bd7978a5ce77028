---------------------------- MODULE FailsafeProofs ----------------------------
(***************************************************************************)
(* What the failsafe machine guarantees for every configuration, every     *)
(* battery threshold and every order of calls.                             *)
(***************************************************************************)
EXTENDS FailsafeHistory, FailsafeThreads, TLAPS

\* Every mode an action assigns is a mode of the enum (failsafe.hpp:36-46).
THEOREM TypeCorrect == Spec => []TypeOK
<1>1. Init => TypeOK
  BY DEF Init, TypeOK, State
<1>2. TypeOK /\ [Next]_failsafeVars => TypeOK'
  <2> SUFFICES ASSUME TypeOK, [Next]_failsafeVars PROVE TypeOK'
    OBVIOUS
  <2>1. CASE ModeRequest
    BY <2>1 DEF ModeRequest, RequestIdle, RequestArm, RequestAutonomy, RequestTeleop,
                RequestDisarm, Request, TypeOK, State
  <2>2. CASE Event
    BY <2>2 DEF Event, OnTetherLoss, OnTetherRecover, Request, OnBadCfc, OnKill, OnLowBattery,
                OnGeofenceBreach, ApplyReturnOrLand, ReturnOrLand, TypeOK, State
  <2>3. CASE ResetFault
    BY <2>3 DEF ResetFault, TypeOK, State
  <2>4. CASE UNCHANGED failsafeVars
    BY <2>4 DEF failsafeVars, TypeOK
  <2> QED
    BY <2>1, <2>2, <2>3, <2>4 DEF Next
<1> QED
  BY <1>1, <1>2, PTL DEF Spec

\* A latched kill or bad output keeps the vehicle grounded, whatever is called
\* next (failsafe.hpp:125-141, 162-166).
THEOREM LatchGroundsAlways == Spec => []LatchGrounds
<1>1. Init => LatchGrounds
  BY DEF Init, LatchGrounds
<1>2. LatchGrounds /\ [Next]_failsafeVars => LatchGrounds'
  <2> SUFFICES ASSUME LatchGrounds, [Next]_failsafeVars PROVE LatchGrounds'
    OBVIOUS
  <2>1. CASE ModeRequest
    \* every request starts in a mode the latch excludes
    BY <2>1 DEF ModeRequest, RequestIdle, RequestArm, RequestAutonomy, RequestTeleop,
                RequestDisarm, Request, LatchGrounds, Grounded
  <2>2. CASE OnTetherLoss \/ OnTetherRecover
    BY <2>2 DEF OnTetherLoss, OnTetherRecover, Request, LatchGrounds, Grounded
  <2>3. CASE OnBadCfc \/ OnKill
    BY <2>3 DEF OnBadCfc, OnKill, LatchGrounds, Grounded
  <2>4. CASE (\E pct \in BatteryLevels : OnLowBattery(pct)) \/ OnGeofenceBreach
    BY <2>4 DEF OnLowBattery, OnGeofenceBreach, ApplyReturnOrLand, ReturnOrLand,
                LatchGrounds, Grounded
  <2>5. CASE ResetFault
    BY <2>5 DEF ResetFault, LatchGrounds
  <2>6. CASE UNCHANGED failsafeVars
    BY <2>6 DEF failsafeVars, LatchGrounds
  <2> QED
    BY <2>1, <2>2, <2>3, <2>4, <2>5, <2>6 DEF Next, Event
<1> QED
  BY <1>1, <1>2, PTL DEF Spec

\* What the latch is for: after a kill, and until reset_fault, no pose is
\* fresh enough for the control loop (failsafe.hpp:92-97, 137-141).
THEOREM KillBlocksAutonomy ==
    ASSUME NEW CONSTANT age PROVE Spec => [](kill_requested => ~AllowAutonomy(age))
<1>1. LatchGrounds => (kill_requested => ~AllowAutonomy(age))
  BY DEF LatchGrounds, Grounded, AllowAutonomy
<1> QED
  BY <1>1, LatchGroundsAlways, PTL

\* The inductive fact behind the next theorem: the way down a vehicle is on is
\* the one ReturnOrLand would choose again, so a second trigger changes nothing
\* (failsafe.hpp:189-197).
Configured == state \in {"RTL", "LANDING"} => state = ReturnOrLand

\* A vehicle coming down does it the one way its configuration selects.
LEMMA OneWayDown == Spec => []Configured
<1>1. Init => Configured
  BY DEF Init, Configured
<1>2. Configured /\ [Next]_failsafeVars => Configured'
  <2> SUFFICES ASSUME Configured, [Next]_failsafeVars PROVE Configured'
    OBVIOUS
  <2>1. CASE ModeRequest
    BY <2>1 DEF ModeRequest, RequestIdle, RequestArm, RequestAutonomy, RequestTeleop,
                RequestDisarm, Request, Configured
  <2>2. CASE OnTetherLoss \/ OnTetherRecover \/ OnBadCfc \/ OnKill
    BY <2>2 DEF OnTetherLoss, OnTetherRecover, Request, OnBadCfc, OnKill, Configured
  <2>3. CASE (\E pct \in BatteryLevels : OnLowBattery(pct)) \/ OnGeofenceBreach
    BY <2>3 DEF OnLowBattery, OnGeofenceBreach, ApplyReturnOrLand, ReturnOrLand,
                Configured
  <2>4. CASE ResetFault
    BY <2>4 DEF ResetFault, Configured, ReturnOrLand
  <2>5. CASE UNCHANGED failsafeVars
    BY <2>5 DEF failsafeVars, Configured, ReturnOrLand
  <2> QED
    BY <2>1, <2>2, <2>3, <2>4, <2>5 DEF Next, Event
<1> QED
  BY <1>1, <1>2, PTL DEF Spec

\* No request and no tether event ends a return or a landing, against what the
\* comment at failsafe.hpp:193-194 lets its reader expect
\* (failsafe.hpp:148-157, 189-197).
THEOREM ReturnIsFinalAlways == Spec => ReturnIsFinal
<1> DEFINE Final == (state \in {"RTL", "LANDING"}) => (state' \in {state, "FAULT"})
<1>1. Configured /\ [Next]_failsafeVars => [Final]_failsafeVars
  <2> SUFFICES ASSUME Configured, Next, state \in {"RTL", "LANDING"}
               PROVE  state' \in {state, "FAULT"}
    OBVIOUS
  <2>1. CASE ModeRequest
    BY <2>1 DEF ModeRequest, RequestIdle, RequestArm, RequestAutonomy, RequestTeleop,
                RequestDisarm, Request
  <2>2. CASE OnTetherLoss \/ OnTetherRecover \/ OnBadCfc \/ OnKill
    BY <2>2 DEF OnTetherLoss, OnTetherRecover, Request, OnBadCfc, OnKill
  <2>3. CASE (\E pct \in BatteryLevels : OnLowBattery(pct)) \/ OnGeofenceBreach
    \* the second trigger chooses the same way down
    BY <2>3 DEF OnLowBattery, OnGeofenceBreach, ApplyReturnOrLand, Configured
  <2>4. CASE ResetFault
    BY <2>4 DEF ResetFault
  <2> QED
    BY <2>1, <2>2, <2>3, <2>4 DEF Next, Event
<1> QED
  BY <1>1, OneWayDown, PTL DEF Spec, ReturnIsFinal

\* Nobody flies without having armed since the last disarm, fault or return
\* (failsafe.hpp:54-117).
THEOREM FlownOnlyIfArmedAlways == HSpec => []FlownOnlyIfArmed
<1>1. HInit => FlownOnlyIfArmed
  BY DEF HInit, Init, FlownOnlyIfArmed, Controlled
<1>2. FlownOnlyIfArmed /\ [HNext]_historyVars => FlownOnlyIfArmed'
  <2> SUFFICES ASSUME FlownOnlyIfArmed, [HNext]_historyVars PROVE FlownOnlyIfArmed'
    OBVIOUS
  <2>1. CASE RequestArm /\ armed' = TRUE
    BY <2>1 DEF FlownOnlyIfArmed
  <2>2. CASE (RequestIdle \/ RequestAutonomy \/ RequestTeleop) /\ UNCHANGED armed
    BY <2>2 DEF RequestIdle, RequestAutonomy, RequestTeleop, Request, FlownOnlyIfArmed, Controlled
  <2>3. CASE RequestDisarm /\ armed' = FALSE
    BY <2>3 DEF RequestDisarm, Request, FlownOnlyIfArmed, Controlled
  <2>4. CASE (OnTetherLoss \/ OnTetherRecover) /\ UNCHANGED armed
    BY <2>4 DEF OnTetherLoss, OnTetherRecover, Request, FlownOnlyIfArmed, Controlled
  <2>5. CASE (OnBadCfc \/ OnKill) /\ armed' = FALSE
    BY <2>5 DEF OnBadCfc, OnKill, FlownOnlyIfArmed, Controlled
  <2>6. CASE ((\E pct \in BatteryLevels : OnLowBattery(pct)) \/ OnGeofenceBreach)
               /\ armed' = FALSE
    BY <2>6 DEF OnLowBattery, OnGeofenceBreach, ApplyReturnOrLand, ReturnOrLand,
                FlownOnlyIfArmed, Controlled
  <2>7. CASE ResetFault /\ UNCHANGED armed
    BY <2>7 DEF ResetFault, FlownOnlyIfArmed, Controlled
  <2>8. CASE UNCHANGED historyVars
    BY <2>8 DEF historyVars, FlownOnlyIfArmed
  <2> QED
    BY <2>1, <2>2, <2>3, <2>4, <2>5, <2>6, <2>7, <2>8 DEF HNext
<1> QED
  BY <1>1, <1>2, PTL DEF HSpec

-------------------------------------------------------------------------------

(***************************************************************************)
(* A latched kill survives every interleaving of the two threads' memory   *)
(* accesses, for every configuration and every set of calls that respects  *)
(* the assignment of methods to threads.                                   *)
(***************************************************************************)

worker == todo["worker"]
pilot  == todo["pilot"]

\* What the worker can still have to do, with what it has already ensured: a
\* test that was passed proves that no kill is latched, and the store that
\* precedes the kill flag has grounded the vehicle.
Untested ==
    \E from \in SUBSET State, to \in State :
        worker = <<Test(from), Store(to)>> /\ from \cap Grounded = {}

Tested     == \E to \in State : worker = <<Store(to)>> /\ ~kill_requested
Killing    == worker = <<Store("FAULT"), Flag("kill", TRUE)>>
Killed     == worker = <<Flag("kill", TRUE)>> /\ state \in Grounded
Resetting  == worker = <<Flag("nan", FALSE), Flag("kill", FALSE), Test({"FAULT"}), Store("IDLE")>>
Unlatching == worker = <<Flag("kill", FALSE), Test({"FAULT"}), Store("IDLE")>>
Unlatched  == worker = <<Test({"FAULT"}), Store("IDLE")>> /\ ~kill_requested

WorkerInv ==
    \/ worker = <<>>
    \/ Untested
    \/ Tested
    \/ Killing
    \/ Killed
    \/ Resetting
    \/ Unlatching
    \/ Unlatched

\* The pilot's thread only ever grounds the vehicle.
PilotInv ==
    \/ pilot = <<>>
    \/ pilot = <<Flag("nan", TRUE), Store("FAULT")>>
    \/ \E to \in Grounded : pilot = <<Store(to)>>

KillInv ==
    /\ DOMAIN todo = Thread
    /\ WorkerInv
    /\ PilotInv
    /\ KillGrounds

LEMMA InitKillInv == TInit => KillInv
  BY DEF TInit, Init, KillInv, Thread, WorkerInv, PilotInv, worker, pilot, KillGrounds

\* The front and the rest of the sequences of accesses.
LEMMA One == ASSUME NEW a PROVE Head(<<a>>) = a /\ Tail(<<a>>) = <<>>
  OBVIOUS
LEMMA Two == ASSUME NEW a, NEW b PROVE Head(<<a, b>>) = a /\ Tail(<<a, b>>) = <<b>>
  OBVIOUS
LEMMA Three ==
  ASSUME NEW a, NEW b, NEW c
  PROVE  Head(<<a, b, c>>) = a /\ Tail(<<a, b, c>>) = <<b, c>>
  OBVIOUS
LEMMA Reset ==
  ASSUME NEW x
  PROVE  LET reset == <<Flag("nan", x), Flag("kill", x), Test({"FAULT"}), Store("IDLE")>>
         IN  /\ Head(reset) = Flag("nan", x)
             /\ Tail(reset) = <<Flag("kill", x), Test({"FAULT"}), Store("IDLE")>>
  OBVIOUS

LEMMA Fields ==
  ASSUME NEW a, NEW b
  PROVE  /\ Test(a).kind = "test" /\ Test(a).from = a
         /\ Store(a).kind = "store" /\ Store(a).to = a
         /\ Flag(a, b).kind = a /\ Flag(a, b).to = b
  BY DEF Test, Store, Flag

LEMMA UntestedIntro ==
  ASSUME NEW from \in SUBSET State, NEW to \in State, from \cap Grounded = {},
         worker' = <<Test(from), Store(to)>>
  PROVE  Untested'
  BY Zenon DEF Untested

LEMMA WorkerCallKeepsKillInv == KillInv /\ Call("worker") => KillInv'
<1> SUFFICES ASSUME KillInv, Call("worker") PROVE KillInv'
  OBVIOUS
<1> USE DEF failsafeVars
<1>1. PICK call \in WorkerCalls : worker' = Body(call)
  BY DEF Call, Calls, Thread, KillInv, worker
<1>2. /\ DOMAIN todo' = Thread
      /\ PilotInv'
      /\ KillGrounds'
  BY DEF Call, KillInv, Thread, PilotInv, pilot, KillGrounds, Grounded
<1>3. CASE call \in {"request_idle", "request_arm", "request_autonomy", "request_teleop",
                     "request_disarm", "on_tether_loss", "on_tether_recover"}
  <2> SUFFICES Untested'
    BY <1>2 DEF KillInv, WorkerInv
  <2> USE DEF Body, State, Grounded
  <2>1. CASE call = "request_idle"
    BY <1>1, <2>1, UntestedIntro
  <2>2. CASE call = "request_arm"
    BY <1>1, <2>2, UntestedIntro
  <2>3. CASE call = "request_autonomy"
    BY <1>1, <2>3, UntestedIntro
  <2>4. CASE call = "request_teleop"
    BY <1>1, <2>4, UntestedIntro
  <2>5. CASE call = "request_disarm"
    BY <1>1, <2>5, UntestedIntro
  <2>6. CASE call = "on_tether_loss"
    BY <1>1, <2>6, UntestedIntro
  <2>7. CASE call = "on_tether_recover"
    BY <1>1, <2>7, UntestedIntro
  <2> QED
    BY <1>3, <2>1, <2>2, <2>3, <2>4, <2>5, <2>6, <2>7
<1>4. CASE call = "on_kill"
  BY <1>1, <1>2, <1>4 DEF Body, Killing, KillInv, WorkerInv
<1>5. CASE call = "reset_fault"
  BY <1>1, <1>2, <1>5 DEF Body, Resetting, KillInv, WorkerInv
<1> QED
  BY <1>1, <1>3, <1>4, <1>5, ThreadAssignment

LEMMA PilotCallKeepsKillInv == KillInv /\ Call("pilot") => KillInv'
<1> SUFFICES ASSUME KillInv, Call("pilot") PROVE KillInv'
  OBVIOUS
<1> USE DEF failsafeVars
<1>1. PICK call \in PilotCalls : pilot' = Body(call)
  BY DEF Call, Calls, Thread, KillInv, pilot
<1>2. /\ DOMAIN todo' = Thread
      /\ worker' = worker
      /\ UNCHANGED <<state, kill_requested>>
  BY DEF Call, KillInv, Thread, worker
<1>3. WorkerInv' /\ KillGrounds'
  BY <1>2 DEF KillInv, WorkerInv, KillGrounds, Untested, Tested, Killing, Killed, Resetting,
              Unlatching, Unlatched
<1>4. CASE call = "on_bad_cfc"
  BY <1>1, <1>2, <1>3, <1>4 DEF Body, KillInv, PilotInv
<1>5. CASE call = "return_or_land"
  <2>1. ReturnOrLand \in Grounded /\ UNCHANGED ReturnOrLand
    BY DEF ReturnOrLand, Grounded, Call
  <2>2. pilot' = <<Store(ReturnOrLand)>>
    BY <1>1, <1>5 DEF Body
  <2>3. PilotInv'
    BY <2>1, <2>2 DEF PilotInv
  <2> QED
    BY <1>2, <1>3, <2>3 DEF KillInv
<1> QED
  BY <1>1, <1>4, <1>5, ThreadAssignment

\* What an access of each kind does.
LEMMA OnTest ==
  ASSUME NEW t \in Thread, DOMAIN todo = Thread, Access(t),
         NEW from, Head(todo[t]) = Test(from)
  PROVE  /\ todo'[t] = IF state \in from THEN Tail(todo[t]) ELSE <<>>
         /\ UNCHANGED <<state, kill_requested>>
  BY DEF Access, Test

LEMMA OnStore ==
  ASSUME NEW t \in Thread, DOMAIN todo = Thread, Access(t),
         NEW to, Head(todo[t]) = Store(to)
  PROVE  /\ todo'[t] = Tail(todo[t])
         /\ state' = to
         /\ UNCHANGED kill_requested
  BY DEF Access, Store

LEMMA OnFlag ==
  ASSUME NEW t \in Thread, DOMAIN todo = Thread, Access(t),
         NEW name \in {"nan", "kill"}, NEW to, Head(todo[t]) = Flag(name, to)
  PROVE  /\ todo'[t] = Tail(todo[t])
         /\ UNCHANGED state
         /\ kill_requested' = IF name = "kill" THEN to ELSE kill_requested
  BY DEF Access, Flag

LEMMA AccessFrame ==
  ASSUME NEW t \in Thread, NEW u \in Thread \ {t}, DOMAIN todo = Thread, Access(t)
  PROVE  DOMAIN todo' = Thread /\ todo'[u] = todo[u] /\ todo[t] # <<>>
  BY DEF Access

LEMMA PilotAccessKeepsKillInv == KillInv /\ Access("pilot") => KillInv'
<1> SUFFICES ASSUME KillInv, Access("pilot") PROVE KillInv'
  OBVIOUS
<1>1. /\ DOMAIN todo' = Thread
      /\ worker' = worker
      /\ pilot # <<>>
  BY AccessFrame DEF Thread, KillInv, worker, pilot
<1>2. /\ PilotInv'
      /\ kill_requested' = kill_requested
      /\ state' = state \/ state' \in Grounded
  <2>1. CASE pilot = <<Flag("nan", TRUE), Store("FAULT")>>
    <3>1. Head(pilot) = Flag("nan", TRUE) /\ Tail(pilot) = <<Store("FAULT")>>
      BY <2>1, Two, Zenon
    <3>2. pilot' = <<Store("FAULT")>> /\ UNCHANGED <<state, kill_requested>>
      BY <3>1, OnFlag DEF Thread, KillInv, pilot
    <3> QED
      BY <3>2 DEF PilotInv, Grounded
  <2>2. CASE \E to \in Grounded : pilot = <<Store(to)>>
    <3>1. PICK to \in Grounded : pilot = <<Store(to)>>
      BY <2>2
    <3>2. Head(pilot) = Store(to) /\ Tail(pilot) = <<>>
      BY <3>1, One, Zenon
    <3>3. pilot' = <<>> /\ state' = to /\ UNCHANGED kill_requested
      BY <3>2, OnStore DEF Thread, KillInv, pilot
    <3> QED
      BY <3>3 DEF PilotInv
  <2> QED
    BY <1>1, <2>1, <2>2 DEF KillInv, PilotInv
<1>3. WorkerInv'
  BY <1>1, <1>2 DEF KillInv, WorkerInv, Untested, Tested, Killing, Killed, Resetting,
                    Unlatching, Unlatched
<1>4. KillGrounds'
  BY <1>2 DEF KillInv, KillGrounds
<1> QED
  BY <1>1, <1>2, <1>3, <1>4 DEF KillInv

LEMMA WorkerAccessKeepsKillInv == KillInv /\ Access("worker") => KillInv'
<1> SUFFICES ASSUME KillInv, Access("worker") PROVE KillInv'
  OBVIOUS
<1>1. /\ DOMAIN todo' = Thread
      /\ pilot' = pilot
      /\ worker # <<>>
  BY AccessFrame DEF Thread, KillInv, pilot, worker
<1>2. PilotInv'
  BY <1>1 DEF KillInv, PilotInv
<1>3. DOMAIN todo = Thread /\ "worker" \in Thread
  BY DEF KillInv, Thread
<1>4. CASE Untested
  \* The test passes only in a mode that is not grounded, so without a kill.
  <2>1. PICK from \in SUBSET State, to \in State :
           worker = <<Test(from), Store(to)>> /\ from \cap Grounded = {}
    BY <1>4 DEF Untested
  <2>2. Head(worker) = Test(from) /\ Tail(worker) = <<Store(to)>>
    BY <2>1, Two, Zenon
  <2>3. /\ worker' = IF state \in from THEN <<Store(to)>> ELSE <<>>
        /\ UNCHANGED <<state, kill_requested>>
    BY <1>3, <2>2, OnTest DEF worker
  <2>4. WorkerInv'
    BY <2>1, <2>3 DEF KillInv, KillGrounds, WorkerInv, Tested
  <2> QED
    BY <1>1, <1>2, <2>3, <2>4 DEF KillInv, KillGrounds
<1>5. CASE Tested
  <2>1. PICK to \in State : worker = <<Store(to)>> /\ ~kill_requested
    BY <1>5 DEF Tested
  <2>2. Head(worker) = Store(to) /\ Tail(worker) = <<>>
    BY <2>1, One, Zenon
  <2>3. worker' = <<>> /\ UNCHANGED kill_requested
    BY <1>3, <2>2, OnStore DEF worker
  <2> QED
    BY <1>1, <1>2, <2>1, <2>3 DEF KillInv, KillGrounds, WorkerInv
<1>6. CASE Killing
  <2>1. Head(worker) = Store("FAULT") /\ Tail(worker) = <<Flag("kill", TRUE)>>
    BY <1>6, Two, Zenon DEF Killing
  <2>2. worker' = <<Flag("kill", TRUE)>> /\ state' = "FAULT"
    BY <1>3, <2>1, OnStore, Zenon DEF worker
  <2>3. Killed' /\ KillGrounds'
    BY <2>2 DEF KillGrounds, Killed, Grounded
  <2> QED
    BY <1>1, <1>2, <2>3 DEF KillInv, WorkerInv
<1>7. CASE Killed
  <2>1. Head(worker) = Flag("kill", TRUE) /\ Tail(worker) = <<>>
    BY <1>7, One, Zenon DEF Killed
  <2>2. worker' = <<>> /\ state' = state
    BY <1>3, <2>1, OnFlag DEF worker
  <2> QED
    BY <1>1, <1>2, <1>7, <2>2 DEF KillInv, KillGrounds, WorkerInv, Killed
<1>8. CASE Resetting
  <2>1. /\ Head(worker) = Flag("nan", FALSE)
        /\ Tail(worker) = <<Flag("kill", FALSE), Test({"FAULT"}), Store("IDLE")>>
    BY <1>8, Reset, Zenon DEF Resetting
  <2>2. Unlatching' /\ UNCHANGED <<state, kill_requested>>
    BY <1>3, <2>1, OnFlag DEF worker, Unlatching
  <2> QED
    BY <1>1, <1>2, <2>2 DEF KillInv, KillGrounds, WorkerInv
<1>9. CASE Unlatching
  <2>1. /\ Head(worker) = Flag("kill", FALSE)
        /\ Tail(worker) = <<Test({"FAULT"}), Store("IDLE")>>
    BY <1>9, Three, Zenon DEF Unlatching
  <2>2. Unlatched'
    BY <1>3, <2>1, OnFlag DEF worker, Unlatched
  <2> QED
    BY <1>1, <1>2, <2>2 DEF KillInv, KillGrounds, WorkerInv, Unlatched
<1>10. CASE Unlatched
  <2>1. Head(worker) = Test({"FAULT"}) /\ Tail(worker) = <<Store("IDLE")>>
    BY <1>10, Two, Zenon DEF Unlatched
  <2>2. /\ ~kill_requested'
        /\ worker' = <<>> \/ worker' = <<Store("IDLE")>>
    BY <1>3, <1>10, <2>1, OnTest DEF worker, Unlatched
  <2> QED
    BY <1>1, <1>2, <2>2 DEF KillInv, KillGrounds, WorkerInv, Tested, State
<1> QED
  BY <1>1, <1>4, <1>5, <1>6, <1>7, <1>8, <1>9, <1>10 DEF KillInv, WorkerInv

LEMMA StutterKeepsKillInv == KillInv /\ UNCHANGED threadVars => KillInv'
<1> SUFFICES ASSUME KillInv, UNCHANGED threadVars PROVE KillInv'
  OBVIOUS
<1>1. UNCHANGED <<todo, state, kill_requested>>
  BY DEF threadVars
<1>2. WorkerInv' /\ PilotInv'
  BY <1>1, Zenon DEF KillInv, WorkerInv, PilotInv, Untested, Tested, Killing, Killed,
                     Resetting, Unlatching, Unlatched, worker, pilot
<1> QED
  BY <1>1, <1>2 DEF KillInv, KillGrounds

\* No interleaving of the two threads leaves FAULT, RTL and LANDING behind a
\* latched kill (failsafe.hpp:137-141 against 54-117 and 129-197).
THEOREM KillGroundsAlways == TSpec => []KillGrounds
<1>1. KillInv /\ [TNext]_threadVars => KillInv'
  BY WorkerCallKeepsKillInv, PilotCallKeepsKillInv, WorkerAccessKeepsKillInv,
     PilotAccessKeepsKillInv, StutterKeepsKillInv DEF TNext, Thread
<1>2. KillInv => KillGrounds
  BY DEF KillInv
<1> QED
  BY InitKillInv, <1>1, <1>2, PTL DEF TSpec
=============================================================================
