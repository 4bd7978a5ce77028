--------------------------- MODULE FailsafeThreads ---------------------------
(***************************************************************************)
(* The same Failsafe object driven by two threads without a lock.  The     *)
(* header says that one thread drives it and that no internal sync is      *)
(* required; the tether agent's README wires on_tether_loss,               *)
(* on_tether_recover and the dispatch of ground commands to the agent's    *)
(* worker thread, while the control loop owns the bad-output, battery and  *)
(* geofence events.  state_ and the two flags are plain members, so the    *)
(* loads and stores of two calls interleave; each is one step here.        *)
(***************************************************************************)
EXTENDS Failsafe, Sequences

CONSTANTS
    WorkerCalls,  \* methods called on the tether agent's worker thread
    PilotCalls    \* methods called on the control loop's thread

\* Everything that tests state_ before it assigns it is called on one thread.
ASSUME ThreadAssignment ==
    /\ WorkerCalls \subseteq {"request_idle", "request_arm", "request_autonomy", "request_teleop",
                             "request_disarm", "on_tether_loss", "on_tether_recover", "on_kill",
                             "reset_fault"}
    /\ PilotCalls \subseteq {"on_bad_cfc", "return_or_land"}

VARIABLE todo     \* [thread |-> memory accesses its current call still has to make]

threadVars == <<cfg, state, nan_seen, kill_requested, todo>>

Thread == {"worker", "pilot"}
Calls == [worker |-> WorkerCalls, pilot |-> PilotCalls]

\* Mutant: a method assigns state_ whatever it finds there.
TestNothing(from) == [kind |-> "test", from |-> State]

\* The three kinds of access a method makes: a test of state_ that returns
\* early when it fails, a store to state_, and a store to a flag.
Test(from)     == [kind |-> "test", from |-> from]
Store(to)      == [kind |-> "store", to |-> to]
Flag(name, to) == [kind |-> name, to |-> to]

\* The accesses of each method in program order.
Body(call) ==
    CASE call = "request_idle"      -> <<Test({"BOOT"}), Store("IDLE")>>
      [] call = "request_arm"       -> <<Test({"IDLE"}), Store("ARMED")>>
      [] call = "request_autonomy"  -> <<Test({"ARMED"}), Store("AUTONOMOUS")>>
      [] call = "request_teleop"    -> <<Test({"ARMED", "AUTONOMOUS"}), Store("TELEOP")>>
      [] call = "request_disarm"    -> <<Test({"ARMED", "TELEOP", "AUTONOMOUS"}), Store("IDLE")>>
      [] call = "on_tether_loss"    -> <<Test({"AUTONOMOUS", "TELEOP"}), Store("LINK_LOSS")>>
      [] call = "on_tether_recover" -> <<Test({"LINK_LOSS"}), Store("AUTONOMOUS")>>
      [] call = "on_bad_cfc"        -> <<Flag("nan", TRUE), Store("FAULT")>>
      [] call = "on_kill"           -> <<Store("FAULT"), Flag("kill", TRUE)>>
      [] call = "return_or_land"    -> <<Store(ReturnOrLand)>>
      [] call = "reset_fault"       -> <<Flag("nan", FALSE), Flag("kill", FALSE),
                                         Test({"FAULT"}), Store("IDLE")>>

TInit == Init /\ todo = [t \in Thread |-> <<>>]

Call(t) ==
    /\ todo[t] = <<>>
    /\ \E call \in Calls[t] : todo' = [todo EXCEPT ![t] = Body(call)]
    /\ UNCHANGED failsafeVars

Access(t) ==
    /\ todo[t] # <<>>
    /\ LET a == Head(todo[t]) IN
        /\ todo' = [todo EXCEPT ![t] = IF a.kind = "test" /\ state \notin a.from
                                       THEN <<>> ELSE Tail(@)]
        /\ state' = IF a.kind = "store" THEN a.to ELSE state
        /\ nan_seen' = IF a.kind = "nan" THEN a.to ELSE nan_seen
        /\ kill_requested' = IF a.kind = "kill" THEN a.to ELSE kill_requested
        /\ UNCHANGED cfg

TNext == \E t \in Thread : Call(t) \/ Access(t)

TSpec == TInit /\ [][TNext]_threadVars

\* A kill that has been latched is not undone by the other thread: as long
\* as every method that tests state_ before assigning it runs on one thread
\* together with on_kill and reset_fault, no interleaving with the control
\* loop's unconditional assignments leaves FAULT, RTL and LANDING
\* (failsafe.hpp:137-141 against 54-117 and 129-197).
KillGrounds == kill_requested => state \in Grounded
=============================================================================
