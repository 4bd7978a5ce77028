----------------------------- MODULE TetherAgent -----------------------------
(***************************************************************************)
(* The drone's end of the fiber: TetherAgent of                            *)
(* link/tether_agent/tether_agent.cpp.  Its worker thread accepts one      *)
(* client at a time and, in every pass of the session loop, reads lines,   *)
(* queues a heartbeat, writes, and checks the silence watchdog.            *)
(*                                                                         *)
(* The clock is sampled once per pass, so time advances only at the top of *)
(* a pass.  A tick is at least a heartbeat period and a fraction of the    *)
(* silence limit.                                                          *)
(***************************************************************************)
EXTENDS Wire

CONSTANTS
    Commands,      \* ground commands as they travel in a line
    Junk,          \* a line that does not parse: empty, malformed, unknown mode
    SilenceLimit,  \* ticks without a line before the watchdog fires (1 s)
    MaxBeat        \* bound: heartbeats the telemetry source produces

ASSUME TetherAgentConstants ==
    /\ SilenceLimit \in Nat \ {0}
    /\ MaxBeat \in Nat
    /\ Junk \notin Commands

VARIABLES
    running,       \* impl_->running
    apc,           \* where worker_loop stands
    serving,       \* slot of the client's connection, 0 for none
    in_link_loss,
    silence,       \* now - last_rx
    beat_due,      \* now - last_heartbeat >= HEARTBEAT
    rx_pending,    \* partial inbound line of the session
    line,          \* the line being handled
    tx_pending,    \* heartbeat tokens not written yet
    beats,         \* heartbeats produced so far
    peer_closed,
    callback       \* callback made by the latest step, <<>> if none

agentVars == <<running, apc, serving, in_link_loss, silence, beat_due, rx_pending, line,
               tx_pending, beats, peer_closed, callback>>

AgentInit ==
    /\ running = FALSE /\ apc = "off" /\ serving = 0 /\ in_link_loss = FALSE
    /\ silence = 0 /\ beat_due = FALSE /\ rx_pending = <<>> /\ line = <<>>
    /\ tx_pending = <<>> /\ beats = 0 /\ peer_closed = FALSE /\ callback = <<>>

\* The loss and recovery hooks, each with the flag that makes it fire once.
FireLoss    == in_link_loss' = TRUE /\ callback' = <<"loss">>
FireRecover == in_link_loss' = FALSE /\ callback' = <<"recover">>
NoCallback  == callback' = <<>> /\ UNCHANGED in_link_loss

-----------------------------------------------------------------------------
(* start(), stop() and accept.                                             *)

StartAgent ==
    /\ ~running /\ apc = "off"
    /\ running' = TRUE /\ listening' = TRUE /\ apc' = "accept"
    /\ NoCallback
    /\ UNCHANGED <<conn, backlog, serving, silence, beat_due, rx_pending, line, tx_pending, beats, peer_closed>>

\* stop() closes the listening socket, which refuses the clients still queued.
\* It then joins the worker.
StopAgent ==
    /\ running
    /\ running' = FALSE /\ listening' = FALSE
    /\ conn' = [s \in Slot |-> IF conn[s].agent = "queued" THEN Shut(conn[s], "agent") ELSE conn[s]]
    /\ backlog' = <<>>
    /\ NoCallback
    /\ UNCHANGED <<apc, serving, silence, beat_due, rx_pending, line, tx_pending, beats, peer_closed>>

\* A client is accepted and its session starts from fresh buffers and clocks.
\* in_link_loss is kept from session to session.
Accept ==
    /\ apc = "accept" /\ running
    /\ backlog # <<>>
    /\ serving' = Head(backlog)
    /\ backlog' = Tail(backlog)
    /\ conn' = [conn EXCEPT ![serving'].agent = "open"]
    /\ apc' = "top"
    /\ silence' = 0 /\ beat_due' = FALSE
    /\ rx_pending' = <<>> /\ tx_pending' = <<>> /\ peer_closed' = FALSE
    /\ NoCallback
    /\ UNCHANGED <<running, listening, line, beats>>

\* The loop ends when stop() was called.
AcceptEnds ==
    /\ apc = "accept" /\ ~running
    /\ apc' = "done"
    /\ NoCallback
    /\ UNCHANGED <<wireVars, running, serving, silence, beat_due, rx_pending, line, tx_pending, beats,
                   peer_closed>>

\* A hard accept error: running is cleared and the worker returns without a
\* callback and without closing the listening socket.
AcceptFails ==
    /\ apc = "accept" /\ running
    /\ running' = FALSE
    /\ apc' = "done"
    /\ NoCallback
    /\ UNCHANGED <<wireVars, serving, silence, beat_due, rx_pending, line, tx_pending, beats, peer_closed>>

-----------------------------------------------------------------------------
(* One pass of the session loop.                                           *)

\* Mutant: stop() does not end a session.
PassIgnoresStop ==
    /\ apc = "top"
    /\ apc' = IF ~peer_closed THEN "recv" ELSE "close"
    /\ NoCallback
    /\ UNCHANGED <<wireVars, running, serving, silence, beat_due, rx_pending, line, tx_pending, beats,
                   peer_closed>>

\* The loop condition; time passes while the thread sleeps before it.
Pass ==
    /\ apc = "top"
    /\ apc' = IF running /\ ~peer_closed THEN "recv" ELSE "close"
    /\ NoCallback
    /\ UNCHANGED <<wireVars, running, serving, silence, beat_due, rx_pending, line, tx_pending, beats,
                   peer_closed>>

\* read_line returns a line: whatever it holds, it counts as a sign of life and
\* ends a link loss before it is parsed.
ReceiveLine ==
    /\ apc = "recv" /\ HasLine(rx_pending)
    /\ line' = Line(rx_pending)
    /\ rx_pending' = Rest(rx_pending)
    /\ silence' = 0
    /\ IF in_link_loss THEN FireRecover ELSE NoCallback
    /\ apc' = "parse"
    /\ UNCHANGED <<wireVars, running, serving, beat_due, tx_pending, beats, peer_closed>>

\* A line that parses is handed to the dispatcher, any other is dropped.
ParseLine ==
    /\ apc = "parse"
    /\ apc' = "recv"
    /\ line' = <<>>
    /\ UNCHANGED in_link_loss
    /\ callback' = IF Whole(line) /\ line[1].frame \in Commands
                   THEN <<"command", line[1].frame>> ELSE <<>>
    /\ UNCHANGED <<wireVars, running, serving, silence, beat_due, rx_pending, tx_pending, beats,
                   peer_closed>>

Waiting == conn[serving].sent.agent

ReceiveBytes ==
    /\ apc = "recv" /\ ~HasLine(rx_pending)
    /\ \E n \in 1..Len(Waiting) :
        /\ Take(serving, "agent", n)
        /\ rx_pending' = rx_pending \o SubSeq(Waiting, 1, n)
    /\ NoCallback
    /\ UNCHANGED <<listening, backlog, running, apc, serving, silence, beat_due, line, tx_pending, beats,
                   peer_closed>>

\* Nothing more to read, or nothing more has arrived yet: go on, or drop the
\* client if it is gone.
ReceiveNothing ==
    /\ apc = "recv" /\ ~HasLine(rx_pending)
    /\ peer_closed' = (Waiting = <<>> /\ Gone(serving, "agent"))
    /\ apc' = "send"
    /\ NoCallback
    /\ UNCHANGED <<wireVars, running, serving, silence, beat_due, rx_pending, line, tx_pending, beats>>

\* The rest of the pass, which shares nothing but the socket with any other
\* thread.  A heartbeat that is due goes behind what is still being written.
Beating == ~peer_closed /\ beat_due

Queue == IF Beating /\ beats < MaxBeat THEN tx_pending \o Tokens(beats + 1) ELSE tx_pending

Heartbeat ==
    /\ beat_due' = (beat_due /\ ~Beating)
    /\ beats' = IF Beating /\ beats < MaxBeat THEN beats + 1 ELSE beats

\* Mutant: a partial write forgets how far it came.
WriteForgetsOffset ==
    /\ \E n \in 0..Len(Queue) :
        /\ n <= Room(serving, "agent")
        /\ Put(serving, "agent", SubSeq(Queue, 1, n))
        /\ tx_pending' = IF n = Len(Queue) THEN <<>> ELSE Queue
    /\ UNCHANGED peer_closed

\* write_all: as many tokens as the kernel takes, possibly none; a client that
\* is gone may be reported as a hard error.
Write ==
    \/ \E n \in 0..Len(Queue) :
        /\ n <= Room(serving, "agent")
        /\ Put(serving, "agent", SubSeq(Queue, 1, n))
        /\ tx_pending' = SubSeq(Queue, n + 1, Len(Queue))
        /\ UNCHANGED peer_closed
    \/ /\ Queue # <<>> /\ Gone(serving, "agent")
       /\ peer_closed' = TRUE
       /\ tx_pending' = Queue
       /\ UNCHANGED conn

\* Mutant: the loss is reported in every pass.
WatchdogRepeats == IF silence >= SilenceLimit THEN FireLoss ELSE NoCallback

\* Silence is reported once; the session goes on.
Watchdog == IF ~in_link_loss /\ silence >= SilenceLimit THEN FireLoss ELSE NoCallback

FinishPass ==
    /\ apc = "send"
    /\ Heartbeat
    /\ Write
    /\ Watchdog
    /\ apc' = "top"
    /\ UNCHANGED <<listening, backlog, running, serving, silence, rx_pending, line>>

\* Mutants: the session ends without its loss, or keeps its descriptor.
CloseSessionSilently ==
    /\ apc = "close"
    /\ conn' = [conn EXCEPT ![serving] = Shut(@, "agent")]
    /\ serving' = 0
    /\ NoCallback
    /\ apc' = IF running THEN "accept" ELSE "done"
    /\ UNCHANGED <<listening, backlog, running, silence, beat_due, rx_pending, line, tx_pending, beats,
                   peer_closed>>

CloseSessionKeepsFd ==
    /\ apc = "close"
    /\ conn' = [conn EXCEPT ![serving] = Shut(@, "agent")]
    /\ IF ~in_link_loss THEN FireLoss ELSE NoCallback
    /\ apc' = IF running THEN "accept" ELSE "done"
    /\ UNCHANGED <<listening, backlog, running, serving, silence, beat_due, rx_pending, line, tx_pending,
                   beats, peer_closed>>

\* The session is over: close, report the loss if none is pending, accept again.
CloseSession ==
    /\ apc = "close"
    /\ conn' = [conn EXCEPT ![serving] = Shut(@, "agent")]
    /\ serving' = 0
    /\ IF ~in_link_loss THEN FireLoss ELSE NoCallback
    /\ apc' = IF running THEN "accept" ELSE "done"
    /\ UNCHANGED <<listening, backlog, running, silence, beat_due, rx_pending, line, tx_pending, beats,
                   peer_closed>>

\* Time passes while the worker sleeps between two passes.
AgentTick ==
    /\ apc = "top"
    /\ silence' = IF silence < SilenceLimit THEN silence + 1 ELSE silence
    /\ beat_due' = TRUE
    /\ NoCallback
    /\ UNCHANGED <<wireVars, running, apc, serving, rx_pending, line, tx_pending, beats, peer_closed>>

WorkerStep ==
    \/ Accept
    \/ AcceptEnds
    \/ Pass
    \/ ReceiveLine
    \/ ParseLine
    \/ ReceiveBytes
    \/ ReceiveNothing
    \/ FinishPass
    \/ CloseSession

AgentNext == WorkerStep \/ StartAgent \/ StopAgent \/ AcceptFails \/ AgentTick

-----------------------------------------------------------------------------
AgentTypeOK ==
    /\ {running, in_link_loss, beat_due, peer_closed} \subseteq BOOLEAN
    /\ apc \in {"off", "accept", "top", "recv", "parse", "send", "close", "done"}
    /\ serving \in 0..Slots
    /\ (serving # 0) <=> (apc \in {"top", "recv", "parse", "send", "close"})
    /\ silence \in 0..SilenceLimit
    /\ beats \in 0..MaxBeat

Monitor == INSTANCE LinkMonitor WITH up <- ~in_link_loss
=============================================================================
