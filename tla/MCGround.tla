------------------------------- MODULE MCGround -------------------------------
(***************************************************************************)
(* The two ground programs side by side.  They share no state, so a step   *)
(* of one is explored only while the other is at rest, and the coordinator *)
(* only beside a mission server that has put nothing on file yet.          *)
(***************************************************************************)
EXTENDS MissionServer, FleetListener

P(x, y, z) == [x |-> x, y |-> y, z |-> z]
C(x, y)    == [x |-> x, y |-> y]
G(d, p)    == [drone |-> d, target |-> p, fence |-> <<>>, flaw |-> "none"]

\* A concave fence.
MCFence == << C(0, 0), C(6, 0), C(6, 6), C(3, 3), C(0, 6) >>

\* A goal too close to another drone's, which is accepted once that drone has
\* been moved away; one too high, and the same drone lower; the notch of the
\* fence and a fence of the goal's own around the same place, with an altitude
\* that is no number, before a corner that is no number.
MCProposals == {
    << G("a", P(1, 1, 2)), G("b", P(2, 1, 2)), G("a", P(4, 1, 2)), G("b", P(1, 1, 2)) >>,
    << G("b", P(1, 1, 5)), G("b", P(1, 1, 2)) >>,
    << G("a", P(3, 5, 2)), [G("b", P(3, 5, NaN)) EXCEPT !.fence = <<C(0, 3), C(6, 3), C(3, 9)>>],
       [G("b", P(1, 1, 2)) EXCEPT !.flaw = "bad corner"] >> }

groundVars == <<serverVars, listenerVars>>
Resting == \A r \in Requests : step[r] = "idle"

GInit == ServerInit /\ ListenerInit

\* Asking and judging touch nothing that requests share: while one does, no other
\* takes a step.
Alone(r) == \A q \in Requests \ {r} : step[q] # "judge"

\* A request may begin to push into another one's push, or wait for its end; the
\* goals they have left to push between them are bounded.
MaxOverlap == 3
Overlaps(r) ==
    (step[r] = "judge" /\ todo[r] = <<>>)
    => \A q \in Requests : Pushing(q) => Len(accepted[r]) + Len(todo[q]) <= MaxOverlap

Mission ==
    /\ at = "off" /\ client = "away"
    /\ Crash \/ \E r \in Requests : Alone(r) /\ Overlaps(r) /\ Handle(r)
    /\ UNCHANGED listenerVars

Fleet(A) == Resting /\ fleet = 0 /\ tmp = 0 /\ A /\ UNCHANGED serverVars

GSpec ==
    /\ GInit /\ [][Mission \/ Fleet(ListenerNext)]_groundVars
    /\ WF_groundVars(Fleet(Worker)) /\ WF_groundVars(Fleet(Stopper))
    /\ WF_groundVars(Fleet(TetherGoesOn))
=============================================================================
