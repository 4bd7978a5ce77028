----------------------------- MODULE TetherLink -----------------------------
(***************************************************************************)
(* Both ends of the fiber: the ground coordinator and the tether agent     *)
(* over connections that can be cut, with an operator who queues the       *)
(* commands 1, 2, ... in turn.  The history variables record what each end *)
(* handed to its callbacks, and whether the ground's kernel has a reason   *)
(* to doubt the connection.                                                *)
(***************************************************************************)
EXTENDS TetherAgent, Coordinator, FiniteSets

CONSTANTS
    MaxCuts,   \* bound: connections the network cuts
    MayStop    \* whether stop() is called on the coordinator

ASSUME TetherLinkConstants ==
    /\ MaxCuts \in Nat
    /\ MayStop \in BOOLEAN
    /\ Commands = 1..Cardinality(Commands)

VARIABLES
    issued,      \* commands send_* has answered true to
    dispatched,  \* commands handed to the drone's dispatcher, in order
    reported,    \* beats handed to on_telemetry, in order
    cuts,        \* connections cut so far
    unacked      \* the ground has bytes on its connection that a cut swallowed

historyVars == <<issued, dispatched, reported, cuts, unacked>>
linkVars == <<wireVars, agentVars, coordinatorVars, historyVars>>

LinkInit ==
    /\ WireInit /\ AgentInit /\ CoordinatorInit
    /\ issued = 0 /\ dispatched = <<>> /\ reported = <<>> /\ cuts = 0 /\ unacked = FALSE

AgentStep ==
    /\ WorkerStep \/ StartAgent \/ AgentTick
    /\ dispatched' = IF callback' # <<>> /\ callback'[1] = "command"
                     THEN Append(dispatched, callback'[2]) ELSE dispatched
    /\ UNCHANGED <<coordinatorVars, issued, reported, cuts, unacked>>

Operator ==
    /\ issued + 1 \in Commands
    /\ SendCommand(issued + 1)
    /\ issued' = issued + 1
    /\ UNCHANGED <<dispatched, reported, cuts, unacked>>

\* Bytes written to a connection that is cut are retransmitted and never
\* acknowledged; a new descriptor starts without any.
WritesIntoCut == cpc = "send" /\ tether_fd # 0 /\ conn[tether_fd].cut /\ out' # out

CoordinatorStep ==
    /\ TetherWorker \/ StartCoordinator \/ (MayStop /\ StopCoordinator)
    /\ reported' = IF telemetry' # 0 THEN Append(reported, telemetry') ELSE reported
    /\ unacked' = (tether_fd' = tether_fd /\ (unacked \/ WritesIntoCut))
    /\ UNCHANGED <<issued, dispatched, cuts>>

NetworkStep ==
    /\ \/ /\ cuts < MaxCuts /\ cuts' = cuts + 1
          /\ \E s \in Slot : /\ Cut(s)
                            /\ unacked' = (unacked \/ (s = tether_fd /\ conn'[s].sent.agent # conn[s].sent.agent))
       \/ UNCHANGED <<cuts, unacked>> /\ \E s \in Slot, e \in End : Notice(s, e)
    /\ UNCHANGED <<agentVars, coordinatorVars, issued, dispatched, reported>>

Next ==
    \/ AgentStep
    \/ (Operator \/ CoordinatorStep) /\ UNCHANGED agentVars
    \/ NetworkStep

Spec == LinkInit /\ [][Next]_linkVars

\* Both programs are started and their threads scheduled; what has arrived is
\* read in the end, and a dial that can succeed is not refused for ever.  No
\* socket asks for keepalives, so a kernel gives a cut connection up only if it
\* has something to retransmit on it: the drone's has on the one it serves,
\* where a heartbeat follows every 200 ms (MaxBeat bounds the model, not the
\* code), the ground's only when a command was lost in the cut or written
\* since.
FairSpec ==
    /\ Spec
    /\ WF_linkVars(StartAgent /\ AgentStep)
    /\ WF_linkVars(StartCoordinator /\ CoordinatorStep /\ UNCHANGED agentVars)
    /\ WF_linkVars(WorkerStep /\ AgentStep)
    /\ SF_linkVars(ReceiveBytes /\ AgentStep)
    /\ WF_linkVars(TetherWorker /\ CoordinatorStep /\ UNCHANGED agentVars)
    /\ SF_linkVars((PollBytes \/ PollGone) /\ CoordinatorStep /\ UNCHANGED agentVars)
    /\ SF_linkVars(DialSucceeds /\ CoordinatorStep /\ UNCHANGED agentVars)
    /\ \A s \in Slot :
        /\ WF_linkVars(serving = s /\ Notice(s, "agent") /\ NetworkStep)
        /\ WF_linkVars(tether_fd = s /\ unacked /\ Notice(s, "ground") /\ NetworkStep)

Increasing(q) == \A i, j \in DOMAIN q : i < j => q[i] < q[j]

-----------------------------------------------------------------------------
\* Over any number of reconnects a command reaches the dispatcher at most once
\* and never after a later one, although nothing on the wire numbers or
\* acknowledges them (coordinator.cpp:427-453, 482-498; tether_agent.cpp:
\* 449-480).
CommandsInOrder == Increasing(dispatched) /\ \A i \in DOMAIN dispatched : dispatched[i] <= issued

\* The ground never sees an older state after a newer one, and its snapshot is
\* the newest it has been told (coordinator.cpp:511-537; tether_agent.cpp:
\* 482-511).
TelemetryInOrder ==
    /\ Increasing(reported)
    /\ last_state = IF reported = <<>> THEN 0 ELSE reported[Len(reported)]

\* A line cut off by a lost connection is never completed by bytes of the next
\* one, at either end (coordinator.cpp:476; tether_agent.cpp:449-452).
NoSplicedLine ==
    /\ line # <<>> => Whole(line)
    /\ HasLine(co_rx) => Whole(Line(co_rx))

\* The drone serves the very connection the ground holds.
Together == tether_fd # 0 /\ serving = tether_fd

\* The ground holds a dead connection, has written nothing it would have to
\* retransmit, and only selects for reading.
NobodyTells ==
    /\ tether_fd # 0 /\ conn[tether_fd].cut
    /\ ~unacked /\ "ground" \notin conn[tether_fd].err

\* After the last cut the two ends find each other again and stay together, in
\* whatever order the cut is noticed and however many half-open connections
\* wait in the backlog - unless the ground has nothing to say: without
\* keepalives (coordinator.cpp:304-335) a worker that only selects for reading
\* (502-518) keeps a dead connection for ever, and the next command brings the
\* link back (coordinator.cpp:466-498; tether_agent.cpp:421-438, 476-479, 524).
LinkComesBack == <>[](~co_running \/ Together) \/ <>[]NobodyTells
=============================================================================
