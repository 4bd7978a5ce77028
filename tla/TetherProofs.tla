----------------------------- MODULE TetherProofs -----------------------------
(***************************************************************************)
(* Proofs about the tether agent facing any client: its callbacks are      *)
(* those of an abstract link monitor, for every number of connections,     *)
(* buffer size, set of commands and silence limit.                         *)
(***************************************************************************)
EXTENDS TetherPeer, TLAPS

\* A line reaches the parser only once the loss it ends has been reported as
\* over: what separates a dispatch from the recovery before it.
LineEndsLoss == apc = "parse" => ~in_link_loss

LEMMA InitLineEndsLoss == PeerInit => LineEndsLoss
  BY DEF PeerInit, AgentInit, LineEndsLoss

LEMMA StepLineEndsLoss == LineEndsLoss /\ [Next]_peerVars => LineEndsLoss'
<1> SUFFICES ASSUME LineEndsLoss, [Next]_peerVars PROVE LineEndsLoss'
  OBVIOUS
<1> USE DEF LineEndsLoss
<1>1. CASE ReceiveLine
  BY <1>1 DEF ReceiveLine, FireRecover, NoCallback
<1>2. CASE WorkerStep /\ ~ReceiveLine
  BY <1>2 DEF WorkerStep, Accept, AcceptEnds, Pass, ParseLine, ReceiveBytes, ReceiveNothing,
              FinishPass, CloseSession, NoCallback
<1>3. CASE StartAgent \/ StopAgent \/ AcceptFails \/ AgentTick
  BY <1>3 DEF StartAgent, StopAgent, AcceptFails, AgentTick, NoCallback
<1>4. CASE PeerNext
  BY <1>4 DEF PeerNext
<1>5. CASE UNCHANGED peerVars
  BY <1>5 DEF peerVars, agentVars
<1> QED
  BY <1>1, <1>2, <1>3, <1>4, <1>5 DEF Next, AgentNext

-----------------------------------------------------------------------------
LEMMA InitRefines == PeerInit => Monitor!Init
  BY DEF PeerInit, AgentInit, Monitor!Init

\* Each step of the agent is the step of the monitor its callback names.
LEMMA StepRefines == LineEndsLoss /\ [Next]_peerVars => [Monitor!Next]_(Monitor!monitorVars)
<1> SUFFICES ASSUME LineEndsLoss, [Next]_peerVars
             PROVE  Monitor!Next \/ UNCHANGED Monitor!monitorVars
  BY DEF Monitor!monitorVars
<1> USE DEF Monitor!Next
<1>1. ASSUME NoCallback PROVE Monitor!Quiet
  BY <1>1 DEF NoCallback, Monitor!Quiet
<1>2. ASSUME FireLoss, ~in_link_loss PROVE Monitor!Loss
  BY <1>2 DEF FireLoss, Monitor!Loss
<1>3. ASSUME FireRecover, in_link_loss PROVE Monitor!Recover
  BY <1>3 DEF FireRecover, Monitor!Recover
<1>4. CASE ParseLine
  <2>1. ~in_link_loss /\ ~in_link_loss'
    BY <1>4 DEF ParseLine, LineEndsLoss
  <2>2. CASE Whole(line) /\ line[1].frame \in Commands
    <3>1. callback' = <<"command", line[1].frame>>
      BY <1>4, <2>2 DEF ParseLine
    <3> QED
      BY <2>1, <2>2, <3>1 DEF Monitor!Dispatch
  <2>3. CASE ~(Whole(line) /\ line[1].frame \in Commands)
    BY <1>4, <2>1, <2>3 DEF ParseLine, Monitor!Quiet
  <2> QED
    BY <2>2, <2>3
<1>5. CASE ReceiveLine
  BY <1>1, <1>3, <1>5 DEF ReceiveLine
<1>6. CASE FinishPass \/ CloseSession
  BY <1>1, <1>2, <1>6 DEF FinishPass, Watchdog, CloseSession
<1>7. CASE StartAgent \/ StopAgent \/ AcceptFails \/ AgentTick \/ Accept \/ AcceptEnds \/ Pass
  BY <1>1, <1>7 DEF StartAgent, StopAgent, AcceptFails, AgentTick, Accept, AcceptEnds, Pass
<1>8. CASE ReceiveBytes \/ ReceiveNothing
  BY <1>1, <1>8 DEF ReceiveBytes, ReceiveNothing
<1>9. CASE PeerNext
  BY <1>9 DEF PeerNext, Monitor!Quiet
<1>10. CASE UNCHANGED peerVars
  BY <1>10 DEF peerVars, agentVars, Monitor!monitorVars
<1> QED
  BY <1>4, <1>5, <1>6, <1>7, <1>8, <1>9, <1>10 DEF Next, AgentNext, WorkerStep

\* Loss and recovery alternate and a command is dispatched only while the link
\* counts as up, whatever the client does (tether_agent.cpp:463-474, 514-530).
THEOREM AgentKeepsLinkMonitor == Spec => KeepsLinkMonitor
<1>1. Spec => []LineEndsLoss
  BY InitLineEndsLoss, StepLineEndsLoss, PTL DEF Spec
<1> QED
  BY <1>1, InitRefines, StepRefines, PTL DEF Spec, KeepsLinkMonitor, Monitor!Spec
-----------------------------------------------------------------------------
\* The client a session serves comes from the accept queue, so the queue holds
\* connections and nothing else.
AgentInv == AgentTypeOK /\ backlog \in Seq(Slot)

LEMMA InitAgentInv == PeerInit => AgentInv
<1> SUFFICES ASSUME PeerInit PROVE AgentInv
  OBVIOUS
<1>1. backlog = <<>> /\ <<>> \in Seq(Slot)
  BY DEF PeerInit, WireInit
<1>2. {running, in_link_loss, beat_due, peer_closed} \subseteq BOOLEAN
  BY DEF PeerInit, AgentInit
<1> QED
  BY <1>1, <1>2, WireConstants, TetherAgentConstants DEF PeerInit, AgentInit, AgentTypeOK, AgentInv

LEMMA StepAgentInv == AgentInv /\ [Next]_peerVars => AgentInv'
<1> SUFFICES ASSUME AgentInv, [Next]_peerVars PROVE AgentInv'
  OBVIOUS
<1> USE WireConstants, TetherAgentConstants DEF AgentInv, AgentTypeOK
<1>1. FireLoss \/ FireRecover \/ NoCallback => in_link_loss' \in BOOLEAN
  BY DEF FireLoss, FireRecover, NoCallback
<1>2. CASE Accept
  <2>1. Head(backlog) \in Slot /\ Tail(backlog) \in Seq(Slot)
    BY <1>2 DEF Accept
  <2>2. serving' \in 0..Slots /\ serving' # 0
    BY <1>2, <2>1 DEF Accept, Slot
  <2>3. beat_due' \in BOOLEAN /\ peer_closed' \in BOOLEAN
    BY <1>2 DEF Accept
  <2>4. running' \in BOOLEAN /\ in_link_loss' \in BOOLEAN
    BY <1>1, <1>2 DEF Accept
  <2> QED
    BY <1>2, <2>1, <2>2, <2>3, <2>4 DEF Accept
<1>3. CASE AcceptEnds \/ AcceptFails \/ Pass
  BY <1>1, <1>3 DEF AcceptEnds, AcceptFails, Pass, wireVars
<1>4. CASE ReceiveLine \/ ParseLine
  BY <1>1, <1>4 DEF ReceiveLine, ParseLine, wireVars
<1>5. CASE ReceiveBytes \/ ReceiveNothing
  BY <1>1, <1>5 DEF ReceiveBytes, ReceiveNothing, wireVars
<1>6. CASE FinishPass
  <2>1. beats' \in 0..MaxBeat /\ beat_due' \in BOOLEAN
    BY <1>6 DEF FinishPass, Heartbeat
  <2>2. peer_closed' \in BOOLEAN
    BY <1>6 DEF FinishPass, Write
  <2>3. in_link_loss' \in BOOLEAN
    BY <1>1, <1>6 DEF FinishPass, Watchdog
  <2> QED
    BY <1>6, <2>1, <2>2, <2>3 DEF FinishPass
<1>7. CASE CloseSession
  BY <1>1, <1>7 DEF CloseSession
<1>8. CASE StartAgent
  BY <1>1, <1>8 DEF StartAgent
<1>9. CASE StopAgent
  <2>1. backlog' \in Seq(Slot)
    BY <1>9 DEF StopAgent
  <2> QED
    BY <1>1, <1>9, <2>1 DEF StopAgent
<1>10. CASE AgentTick
  BY <1>1, <1>10 DEF AgentTick, wireVars
<1>11. CASE PeerNext
  <2>1. backlog' \in Seq(Slot)
    <3>1. \A s \in Slot : Open(s) => backlog' \in Seq(Slot)
      BY DEF Open
    <3>2. \/ UNCHANGED backlog
          \/ \E s \in Slot : Open(s)
      BY <1>11 DEF PeerNext, PeerDial, PeerSend, PeerReceive, PeerClose, Network, Cut, Notice
    <3> QED
      BY <3>1, <3>2
  <2> QED
    BY <1>11, <2>1 DEF PeerNext
<1>12. CASE UNCHANGED peerVars
  BY <1>12 DEF peerVars, wireVars, agentVars
<1> QED
  BY <1>2, <1>3, <1>4, <1>5, <1>6, <1>7, <1>8, <1>9, <1>10, <1>11, <1>12
     DEF Next, AgentNext, WorkerStep

\* A session has a connection exactly while the worker is in its loop, and the
\* watchdog never counts past its limit, whatever the client does
\* (tether_agent.cpp:440-541).
THEOREM AgentTypes == Spec => []AgentTypeOK
<1>1. AgentInv => AgentTypeOK
  BY DEF AgentInv
<1> QED
  BY <1>1, InitAgentInv, StepAgentInv, PTL DEF Spec
=============================================================================
