------------------------------- MODULE Validator -------------------------------
(***************************************************************************)
(* The deterministic validator between the language model and the fleet:   *)
(* server/validator.py.  Coordinates are integers in a unit the instance   *)
(* chooses, and an altitude may be NaN, which JSON lets a goal carry.       *)
(***************************************************************************)
EXTENDS Integers, Sequences, FiniteSets

CONSTANTS
    Drones,
    Fence,          \* the configured polygon, a sequence of corners
    Floor, Ceil,    \* altitude band
    MinSeparation,
    NaN,            \* the altitude that is no number
    None            \* no target

ASSUME ValidatorConstants ==
    /\ {Floor, Ceil} \subseteq Int
    /\ MinSeparation \in Nat
    /\ NaN \notin Int

Altitude == Int \cup {NaN}
Corner   == [x : Int, y : Int]
Target   == [x : Int, y : Int, z : Altitude]

ASSUME NoneIsNoTarget == None \notin Target

\* A goal of a batch.  "fence" is the goal's own polygon, empty for none;
\* "flaw" says what a goal carries that is no goal: a forbidden key, a
\* coordinate that is no number, a corner that does not convert.
Goal == [drone : Drones, target : Target, fence : Seq(Corner),
         flaw : {"none", "forbidden", "not numeric", "bad corner"}]

\* Comparisons with NaN are false.
Less(a, b) == a # NaN /\ b # NaN /\ a < b

-----------------------------------------------------------------------------
(* _point_in_polygon: the ray to the right of the point crosses an odd      *)
(* number of edges.                                                         *)

Previous(i, n) == IF i = 1 THEN n ELSE i - 1

\* px < x_int with the division by the edge's height multiplied out.
Crosses(px, py, c, d) ==
    /\ (c.y > py) # (d.y > py)
    /\ LET rise == d.y - c.y
           run  == (d.x - c.x) * (py - c.y)
       IN  IF rise > 0 THEN (px - c.x) * rise < run ELSE (px - c.x) * rise > run

PointInPolygon(px, py, poly) ==
    LET n == Len(poly)
    IN  n >= 3 /\ Cardinality({i \in 1..n : Crosses(px, py, poly[i], poly[Previous(i, n)])}) % 2 = 1

-----------------------------------------------------------------------------
(* validate_goals, for one goal of the batch.                               *)

Square(n) == n * n

\* d < min_sep for two targets.
TooClose(p, q) ==
    /\ NaN \notin {p.z, q.z}
    /\ Square(p.x - q.x) + Square(p.y - q.y) + Square(p.z - q.z) < Square(MinSeparation)

InFence(g) == PointInPolygon(g.target.x, g.target.y, IF g.fence = <<>> THEN Fence ELSE g.fence)
InBand(g)  == ~Less(g.target.z, Floor) /\ ~Less(Ceil, g.target.z)

\* Separation from the targets the batch has assigned to other drones.
Separated(g, assigned) ==
    \A d \in Drones \ {g.drone} : assigned[d] # None => ~TooClose(g.target, assigned[d])

Acceptable(g, assigned) ==
    /\ g.flaw = "none"
    /\ InFence(g) /\ InBand(g) /\ Separated(g, assigned)

\* A corner that does not convert raises, past the two checks before it.
Raises(g) == g.flaw = "bad corner"
=============================================================================
