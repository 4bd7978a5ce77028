----------------------------- MODULE Coordinator -----------------------------
(***************************************************************************)
(* The ground's end of the fiber: the tether side of Coordinator in        *)
(* ground/coordinator/coordinator.cpp.  Callers queue commands from any    *)
(* thread; tether_worker dials the drone, drains the queue onto the socket *)
(* and parses telemetry; stop() runs on the caller's thread, touches the   *)
(* same descriptor, and joins.                                             *)
(*                                                                         *)
(* The fleet listener only reads what this module keeps and is left out.   *)
(***************************************************************************)
EXTENDS Wire

VARIABLES
    co_running,   \* impl_->running
    cpc,          \* where tether_worker stands
    tether_fd,    \* slot of the connection, 0 for no descriptor
    co_pending,   \* impl_->tx_pending: tokens of the commands queued by send_*
    out,          \* tokens of the batch swapped out of co_pending, being sent
    co_rx,        \* rx_pending: partial inbound line
    last_state,   \* beat of the latest telemetry frame
    telemetry     \* telemetry callback of the latest step, 0 if none

coordinatorVars == <<co_running, cpc, tether_fd, co_pending, out, co_rx, last_state, telemetry>>

CoordinatorInit ==
    /\ co_running = FALSE /\ cpc = "off" /\ tether_fd = 0
    /\ co_pending = <<>> /\ out = <<>> /\ co_rx = <<>>
    /\ last_state = 0 /\ telemetry = 0

\* Steps of the worker that only move it on.
GoTo(pc) == cpc' = pc /\ telemetry' = 0

ShutFd == conn' = [conn EXCEPT ![tether_fd] = Shut(@, "ground")] /\ tether_fd' = 0

-----------------------------------------------------------------------------
(* Calls from other threads.                                               *)

StartCoordinator ==
    /\ ~co_running /\ cpc = "off"
    /\ co_running' = TRUE
    /\ GoTo("loop")
    /\ UNCHANGED <<wireVars, tether_fd, co_pending, out, co_rx, last_state>>

\* send_goal, send_teleop, send_kill and send_mode queue a line and answer
\* true, connected or not, running or not.
SendCommand(c) ==
    /\ co_pending' = co_pending \o Tokens(c)
    /\ telemetry' = 0
    /\ UNCHANGED <<wireVars, co_running, cpc, tether_fd, out, co_rx, last_state>>

\* stop() closes the descriptor under the worker before it joins it.  The join
\* changes nothing here; whether it returns is FleetListener's question.
StopCoordinator ==
    /\ co_running
    /\ co_running' = FALSE
    /\ IF tether_fd # 0 THEN ShutFd ELSE UNCHANGED <<conn, tether_fd>>
    /\ telemetry' = 0
    /\ UNCHANGED <<listening, backlog, cpc, co_pending, out, co_rx, last_state>>

-----------------------------------------------------------------------------
(* tether_worker.                                                          *)

\* Mutant: the batch is copied and the queue not emptied.
DrainCopies ==
    /\ out' = co_pending /\ UNCHANGED co_pending
    /\ GoTo(IF co_pending = <<>> THEN "poll" ELSE "send")

\* The queue is swapped out under the mutex: from here on nothing but `out`
\* holds these commands.
Drain ==
    /\ out' = co_pending /\ co_pending' = <<>>
    /\ GoTo(IF co_pending = <<>> THEN "poll" ELSE "send")

\* A descriptor that is still open needs no dialling.
StayConnected ==
    /\ cpc = "loop" /\ co_running /\ tether_fd # 0
    /\ Drain
    /\ UNCHANGED <<wireVars, co_running, tether_fd, co_rx, last_state>>

DialBegins ==
    /\ cpc = "loop" /\ co_running /\ tether_fd = 0
    /\ GoTo("dial")
    /\ UNCHANGED <<wireVars, co_running, tether_fd, co_pending, out, co_rx, last_state>>

\* Mutant: what the last connection left of a line is kept.
DialKeepsRx ==
    /\ cpc = "dial"
    /\ \E s \in Slot : Open(s) /\ tether_fd' = s
    /\ Drain
    /\ UNCHANGED <<listening, co_running, co_rx, last_state>>

\* dial_tether can return a descriptor after stop() has looked for one.
DialSucceeds ==
    /\ cpc = "dial"
    /\ \E s \in Slot : Open(s) /\ tether_fd' = s
    /\ co_rx' = <<>>
    /\ Drain
    /\ UNCHANGED <<listening, co_running, last_state>>

\* Refused, or not answered within a second: sleep and dial again.
DialFails ==
    /\ cpc = "dial"
    /\ GoTo("loop")
    /\ UNCHANGED <<wireVars, co_running, tether_fd, co_pending, out, co_rx, last_state>>

\* send_all_blocking keeps writing until the whole batch is in the kernel.
SendSome ==
    /\ cpc = "send" /\ tether_fd # 0
    /\ \E n \in 1..Len(out) :
        /\ n <= Room(tether_fd, "ground")
        /\ Put(tether_fd, "ground", SubSeq(out, 1, n))
        /\ out' = SubSeq(out, n + 1, Len(out))
    /\ GoTo(IF out' = <<>> THEN "poll" ELSE "send")
    /\ UNCHANGED <<listening, backlog, co_running, tether_fd, co_pending, co_rx, last_state>>

\* Mutant: the closed descriptor is not forgotten.
SendFailsKeepsFd ==
    /\ cpc = "send"
    /\ IF tether_fd = 0 THEN UNCHANGED conn
       ELSE Gone(tether_fd, "ground") /\ conn' = [conn EXCEPT ![tether_fd] = Shut(@, "ground")]
    /\ out' = <<>>
    /\ GoTo("loop")
    /\ UNCHANGED <<listening, backlog, co_running, tether_fd, co_pending, co_rx, last_state>>

\* A hard error, or a descriptor closed by stop(): what is left of the batch
\* is dropped with the connection.
SendFails ==
    /\ cpc = "send"
    /\ IF tether_fd = 0 THEN UNCHANGED <<conn, tether_fd>>
       ELSE Gone(tether_fd, "ground") /\ ShutFd
    /\ out' = <<>>
    /\ GoTo("loop")
    /\ UNCHANGED <<listening, backlog, co_running, co_pending, co_rx, last_state>>

\* select() timed out, or failed on the descriptor stop() has closed.
PollNothing ==
    /\ cpc = "poll"
    /\ GoTo("loop")
    /\ UNCHANGED <<wireVars, co_running, tether_fd, co_pending, out, co_rx, last_state>>

\* FD_SET of -1 writes outside the set: a fortified build aborts.
PollBadFd ==
    /\ cpc = "poll" /\ tether_fd = 0
    /\ GoTo("crashed")
    /\ UNCHANGED <<wireVars, co_running, tether_fd, co_pending, out, co_rx, last_state>>

PollBytes ==
    /\ cpc = "poll" /\ tether_fd # 0
    /\ LET waiting == conn[tether_fd].sent.ground
       IN  \E n \in 1..Len(waiting) :
            /\ Take(tether_fd, "ground", n)
            /\ co_rx' = co_rx \o SubSeq(waiting, 1, n)
    /\ GoTo("parse")
    /\ UNCHANGED <<listening, backlog, co_running, tether_fd, co_pending, out, last_state>>

\* Mutant: an end of stream is taken for a timeout.
PollGoneIgnored ==
    /\ cpc = "poll" /\ tether_fd # 0
    /\ GoTo("loop")
    /\ UNCHANGED <<wireVars, co_running, tether_fd, co_pending, out, co_rx, last_state>>

PollGone ==
    /\ cpc = "poll" /\ tether_fd # 0
    /\ conn[tether_fd].sent.ground = <<>> /\ Gone(tether_fd, "ground")
    /\ ShutFd
    /\ GoTo("loop")
    /\ UNCHANGED <<listening, backlog, co_running, co_pending, out, co_rx, last_state>>

\* Each complete line updates the snapshot and is handed to the callback, if
\* it parses.
ParseState ==
    /\ cpc = "parse" /\ HasLine(co_rx)
    /\ co_rx' = Rest(co_rx)
    /\ telemetry' = IF Whole(Line(co_rx)) THEN Line(co_rx)[1].frame ELSE 0
    /\ last_state' = IF telemetry' # 0 THEN telemetry' ELSE last_state
    /\ UNCHANGED <<wireVars, co_running, cpc, tether_fd, co_pending, out>>

ParseEnds ==
    /\ cpc = "parse" /\ ~HasLine(co_rx)
    /\ GoTo("loop")
    /\ UNCHANGED <<wireVars, co_running, tether_fd, co_pending, out, co_rx, last_state>>

\* The worker leaves its loop and closes what it still has open.
LoopEnds ==
    /\ cpc = "loop" /\ ~co_running
    /\ IF tether_fd # 0 THEN ShutFd ELSE UNCHANGED <<conn, tether_fd>>
    /\ GoTo("done")
    /\ UNCHANGED <<listening, backlog, co_running, co_pending, out, co_rx, last_state>>

TetherWorker ==
    \/ StayConnected
    \/ DialBegins
    \/ DialSucceeds
    \/ DialFails
    \/ SendSome
    \/ SendFails
    \/ PollNothing
    \/ PollBadFd
    \/ PollBytes
    \/ PollGone
    \/ ParseState
    \/ ParseEnds
    \/ LoopEnds

-----------------------------------------------------------------------------
CoordinatorTypeOK ==
    /\ co_running \in BOOLEAN
    /\ cpc \in {"off", "loop", "dial", "send", "poll", "parse", "done", "crashed"}
    /\ tether_fd \in 0..Slots
    /\ {last_state, telemetry} \subseteq Nat
    /\ tether_fd # 0 => conn[tether_fd].ground = "open"
    /\ out # <<>> => cpc = "send"
=============================================================================
