------------------------------ MODULE TetherPeer ------------------------------
(***************************************************************************)
(* The tether agent facing any client: one that dials, sends well-formed   *)
(* and junk lines, leaves and comes back as it likes, over connections     *)
(* that can be cut.  The client is not code of the repository; it stands   *)
(* for every program that can connect to the agent's port.                 *)
(***************************************************************************)
EXTENDS TetherAgent

peerVars == <<wireVars, agentVars>>

PeerInit == WireInit /\ AgentInit

PeerDial(s) == Open(s) /\ UNCHANGED listening

PeerSend(s) ==
    /\ conn[s].ground = "open" /\ "ground" \notin conn[s].err
    /\ Room(s, "ground") >= 2
    /\ \E f \in Commands \cup {Junk} : Put(s, "ground", Tokens(f))
    /\ UNCHANGED <<listening, backlog>>

PeerReceive(s) ==
    /\ conn[s].ground = "open" /\ conn[s].sent.ground # <<>>
    /\ Take(s, "ground", Len(conn[s].sent.ground))
    /\ UNCHANGED <<listening, backlog>>

PeerClose(s) ==
    /\ conn[s].ground = "open"
    /\ conn' = [conn EXCEPT ![s] = Shut(@, "ground")]
    /\ UNCHANGED <<listening, backlog>>

Network ==
    \E s \in Slot : Cut(s) \/ \E e \in End : Notice(s, e)

\* The latest callback is history, not state of the peer or of the network.
PeerNext ==
    /\ \/ \E s \in Slot : PeerDial(s) \/ PeerSend(s) \/ PeerReceive(s) \/ PeerClose(s)
       \/ Network
    /\ callback' = <<>>
    /\ UNCHANGED <<running, apc, serving, in_link_loss, silence, beat_due, rx_pending, line,
                   tx_pending, beats, peer_closed>>

Next == AgentNext \/ PeerNext

Spec == PeerInit /\ [][Next]_peerVars

\* The worker thread is scheduled, and every pass sleeps, so that many passes
\* take a tick.  Nothing is assumed of the client: it may keep the receive
\* buffer filled, and the worker inside its receive loop, for ever.
FairSpec ==
    /\ Spec
    /\ WF_peerVars(WorkerStep)
    /\ SF_peerVars(AgentTick)

-----------------------------------------------------------------------------
\* The callbacks keep their promise to the failsafe and to the dispatcher:
\* loss and recovery alternate over all the sessions, whichever of the
\* watchdog and the disconnect comes first, and a command is dispatched only
\* after the recovery it implies (tether_agent.cpp:463-474, 514-530).
KeepsLinkMonitor == Monitor!Spec

\* The client's lines never stop.  (Bytes that never stop and hold no newline
\* would do the same to the loops below; the client of this module ends its
\* lines.)
LinesKeepComing == []<>(line # <<>>)

\* A client that stays silent, leaves or hangs is reported: once there has
\* been a session, either lines keep coming or link loss is declared for good
\* (tether_agent.cpp:513-530).
SilenceIsReported ==
    <>(serving # 0) => (LinesKeepComing \/ <>[]in_link_loss)

\* stop() returns, from every place of the worker it joins, whether the client
\* is silent, gone, cut off or still queued (tether_agent.cpp:402-407, 424,
\* 456) - unless the client floods it: the receive loop (460-480) and the one
\* inside read_line (301-316) leave on EAGAIN, end of file or an error and do
\* not look at running, so that a socket that is never empty holds stop() for
\* ever.
StopReturns == LinesKeepComing \/ ((~running /\ apc # "off") ~> (apc = "done"))

\* "on_tether_recover fires once on the first good frame after a loss"
\* (tether_agent.hpp:118-119): a recovery is the answer to a line that parses.
RecoversOnGoodFrame ==
    [][(callback' = <<"recover">>) =>
         (Whole(line') /\ line'[1].frame \in Commands)]_peerVars
=============================================================================
