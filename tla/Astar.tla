-------------------------------- MODULE Astar --------------------------------
(***************************************************************************)
(* astar_pathfinding of core/navigation.hpp: a search over the places of a *)
(* square map, one step per node taken from the queue.  Step costs are in  *)
(* 1/100 of the resolution.                                                *)
(*                                                                         *)
(* Here the queue is a set that hands its nodes out in any order; Planner  *)
(* restricts the order to that of the heap.  An index that is queued twice *)
(* is taken once, for its second copy is found closed.                     *)
(***************************************************************************)
EXTENDS Integers

CONSTANTS
    Size,      \* width and height of the map
    Infinite,  \* g of a node that was not reached
    None       \* came_from of the start and of unreached nodes

Place == (0..Size - 1) \X (0..Size - 1)

ASSUME AstarConstants ==
    Size \in Nat \ {0} /\ Infinite \notin Nat /\ None \notin Place

VARIABLES
    occupied,  \* places that are impassable
    costs,     \* cost of each place, in tenths
    start, goal,
    spc,       \* "off", "search", or the result "found", "none"
    g, came_from, open, closed,
    in_order   \* history: no node was taken while a smaller key waited

Off ==
    /\ spc = "off" /\ start = <<0, 0>> /\ goal = <<0, 0>>
    /\ g = [p \in Place |-> Infinite] /\ came_from = [p \in Place |-> None]
    /\ open = {} /\ closed = {} /\ in_order = TRUE

AbsValue(x) == IF x < 0 THEN -x ELSE x
Lesser(x, y) == IF x < y THEN x ELSE y

\* Mutant: diagonal steps are counted as two straight ones.
HeuristicManhattan(p) == 100 * (AbsValue(p[1] - goal[1]) + AbsValue(p[2] - goal[2]))

\* octile_heuristic.
Heuristic(p) ==
    LET dx == AbsValue(p[1] - goal[1])
        dy == AbsValue(p[2] - goal[2])
    IN  100 * (dx + dy) - 60 * Lesser(dx, dy)

\* f of a node: what a route through it costs at least.
Key(p) == IF g[p] = Infinite THEN Infinite ELSE g[p] + Heuristic(p)

Diagonal(p, q) == p[1] # q[1] /\ p[2] # q[2]

\* Mutant: diagonal steps are not checked against the two corners.
MovesThroughCorners(p) ==
    {q \in Place \ occupied :
        q # p /\ q[1] - p[1] \in -1..1 /\ q[2] - p[2] \in -1..1}

\* Free neighbours, those across an occupied corner left out.
Moves(p) ==
    {q \in Place \ occupied :
        /\ q # p /\ q[1] - p[1] \in -1..1 /\ q[2] - p[2] \in -1..1
        /\ Diagonal(p, q) => <<q[1], p[2]>> \notin occupied /\ <<p[1], q[2]>> \notin occupied}

StepCost(p, q) == (IF Diagonal(p, q) THEN 14 ELSE 10) * (10 + costs[q])

\* From a clamped start to a clamped goal, both free.
Begin(s, t) ==
    /\ spc = "off"
    /\ start' = s /\ goal' = t
    /\ IF s \in occupied \/ t \in occupied
       THEN spc' = "none" /\ UNCHANGED <<g, came_from, open, closed>>
       ELSE /\ spc' = "search"
            /\ g' = [g EXCEPT ![s] = 0]
            /\ open' = {s}
            /\ UNCHANGED <<came_from, closed>>
    /\ UNCHANGED <<occupied, costs, in_order>>

Better(c) ==
    {q \in Moves(c) \ closed : g[q] = Infinite \/ g[c] + StepCost(c, q) < g[q]}

\* Mutant: a cheaper way to a node that waits already lowers its g alone.
TakeKeepsParent(c) ==
    /\ spc = "search" /\ c \in open
    /\ closed' = closed \cup {c}
    /\ in_order' = (in_order /\ \A q \in open : Key(c) <= Key(q))
    /\ IF c = goal
       THEN spc' = "found" /\ open' = open \ {c} /\ UNCHANGED <<g, came_from>>
       ELSE /\ g' = [q \in Place |-> IF q \in Better(c) THEN g[c] + StepCost(c, q) ELSE g[q]]
            /\ came_from' = [q \in Place |-> IF q \in Better(c) \ open THEN c ELSE came_from[q]]
            /\ open' = (open \ {c}) \cup Better(c)
            /\ UNCHANGED spc
    /\ UNCHANGED <<start, goal>> /\ UNCHANGED <<occupied, costs>>

Take(c) ==
    /\ spc = "search" /\ c \in open
    /\ closed' = closed \cup {c}
    /\ in_order' = (in_order /\ \A q \in open : Key(c) <= Key(q))
    /\ IF c = goal
       THEN spc' = "found" /\ open' = open \ {c} /\ UNCHANGED <<g, came_from>>
       ELSE /\ g' = [q \in Place |-> IF q \in Better(c) THEN g[c] + StepCost(c, q) ELSE g[q]]
            /\ came_from' = [q \in Place |-> IF q \in Better(c) THEN c ELSE came_from[q]]
            /\ open' = (open \ {c}) \cup Better(c)
            /\ UNCHANGED spc
    /\ UNCHANGED <<start, goal>> /\ UNCHANGED <<occupied, costs>>

Exhausted ==
    /\ spc = "search" /\ open = {}
    /\ spc' = "none"
    /\ UNCHANGED <<start, goal, g, came_from, open, closed, in_order>> /\ UNCHANGED <<occupied, costs>>

Search == (\E c \in Place : Take(c)) \/ Exhausted

astarVars == <<occupied, costs, start, goal, spc, g, came_from, open, closed, in_order>>

\* One search over any map.
SearchInit == Off /\ occupied \in SUBSET Place /\ costs \in [Place -> Nat]
SearchSpec == SearchInit /\ [][(\E s, t \in Place : Begin(s, t)) \/ Search]_astarVars

-----------------------------------------------------------------------------
(* Correctness.                                                            *)

\* The parents form a tree of legal moves rooted at the start, every node at
\* exactly its parent's cost and one step, however nodes are improved while
\* they wait: following came_from from any reached node walks a route of that
\* cost backwards and ends (navigation.hpp:405-457).
SearchTree ==
    /\ \A p \in open \cup closed : p # start => came_from[p] # None
    /\ start \in open \cup closed => g[start] = 0 /\ came_from[start] = None
    /\ \A p \in Place : came_from[p] # None =>
          /\ came_from[p] \in closed
          /\ p \in Moves(came_from[p])
          /\ g[p] = g[came_from[p]] + StepCost(came_from[p], p)

LegalStep(p, q) ==
    /\ p # q /\ \A i \in 1..2 : q[i] - p[i] \in -1..1
    /\ q \notin occupied /\ <<p[1], q[2]>> \notin occupied /\ <<q[1], p[2]>> \notin occupied

\* The search gives up only when the places it has taken are a trap: the start
\* is in it, the goal is not, and no legal step leads out of it, so that there
\* is no route at all (navigation.hpp:385-448).
NoneOnlyIfCutOff ==
    spc = "none" =>
        \/ start \in occupied \/ goal \in occupied
        \/ /\ start \in closed /\ goal \notin closed
           /\ \A p \in closed, q \in Place : LegalStep(p, q) => q \in closed
=============================================================================
