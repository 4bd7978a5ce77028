---------------------------- MODULE PlannerProofs ----------------------------
(***************************************************************************)
(* Proofs about the planning pipeline, for every grid, scene, drone, trip, *)
(* size of the map and tuning constant.                                    *)
(*                                                                         *)
(* The search comes first, by itself: on any map and in any order of the   *)
(* queue it keeps a tree of legal moves, finds routes of the cost it says  *)
(* and misses none, and in the order of f what it finds is a cheapest one. *)
(* Then clusters, the map made of them, the search on that map, the route  *)
(* that is read back from it, and the tracks.                              *)
(***************************************************************************)
EXTENDS Planner, FiniteSetTheorems, WellFoundedInduction, NaturalsInduction, TLAPS

-----------------------------------------------------------------------------
(* The search keeps a tree.                                                *)

SearchType ==
    /\ occupied \in SUBSET Place /\ costs \in [Place -> Nat]
    /\ start \in Place /\ goal \in Place
    /\ spc \in {"off", "search", "found", "none"}
    /\ g \in [Place -> Nat \cup {Infinite}]
    /\ came_from \in [Place -> Place \cup {None}]
    /\ open \in SUBSET Place /\ closed \in SUBSET Place
    /\ in_order \in BOOLEAN

\* Reached nodes have a cost, the start among them once the search runs, and
\* before it nothing is reached.
Frontier ==
    /\ \A p \in open \cup closed : g[p] \in Nat
    /\ spc = "search" => start \in open \cup closed
    /\ spc = "off" => open = {} /\ closed = {} /\ \A p \in Place : came_from[p] = None

TreeInv == SearchType /\ Frontier /\ SearchTree

-----------------------------------------------------------------------------
LEMMA StepCostPositive ==
    ASSUME SearchType, NEW p \in Place, NEW q \in Place
    PROVE  StepCost(p, q) \in Nat /\ StepCost(p, q) > 0
<1>1. costs[q] \in Nat
  BY DEF SearchType
<1> QED
  BY <1>1 DEF StepCost

\* What a node improves is free, open or new, and never the start.
LEMMA BetterProperties ==
    ASSUME TreeInv, spc = "search", NEW c \in open
    PROVE  /\ Better(c) \in SUBSET Place
           /\ Better(c) \cap closed = {} /\ c \notin Better(c) /\ start \notin Better(c)
           /\ \A q \in Better(c) : q \in Moves(c)
<1>1. Better(c) \in SUBSET (Moves(c) \ closed) /\ Moves(c) \in SUBSET Place /\ c \notin Moves(c)
  BY DEF Better, Moves
<1>2. ASSUME start \in Better(c) PROVE FALSE
  <2>1. start \in open /\ g[start] = 0
    BY <1>1, <1>2 DEF TreeInv, Frontier, SearchTree
  <2>2. g[c] \in Nat /\ c \in Place /\ start \in Place
    BY DEF TreeInv, Frontier, SearchType
  <2>3. StepCost(c, start) \in Nat
    BY <2>2, StepCostPositive DEF TreeInv
  <2>4. 0 # Infinite
    BY AstarConstants
  <2> QED
    BY <1>2, <2>1, <2>2, <2>3, <2>4 DEF Better
<1> QED
  BY <1>1, <1>2

LEMMA TreeInitially == SearchInit => TreeInv
<1> SUFFICES ASSUME SearchInit PROVE TreeInv
  OBVIOUS
<1>1. <<0, 0>> \in Place
  BY AstarConstants DEF Place
<1>2. SearchType
  BY <1>1 DEF SearchInit, Off, SearchType
<1> QED
  BY <1>2 DEF SearchInit, Off, TreeInv, Frontier, SearchTree

LEMMA BeginKeeps ==
    ASSUME TreeInv, NEW s \in Place, NEW t \in Place, Begin(s, t)
    PROVE  TreeInv'
<1>1. SearchType'
  BY DEF TreeInv, SearchType, Begin
<1>2. CASE s \in occupied \/ t \in occupied
  <2>1. open' = {} /\ closed' = {} /\ came_from' = came_from /\ spc' = "none"
    BY <1>2 DEF TreeInv, Frontier, Begin
  <2>2. \A p \in Place : came_from[p] = None
    BY DEF TreeInv, Frontier, Begin
  <2> QED
    BY <1>1, <2>1, <2>2 DEF TreeInv, Frontier, SearchTree
<1>3. CASE ~(s \in occupied \/ t \in occupied)
  <2>1. /\ spc' = "search" /\ start' = s /\ open' = {s} /\ closed' = {}
        /\ came_from' = came_from /\ \A p \in Place : came_from[p] = None
        /\ g'[s] = 0
    BY <1>3 DEF TreeInv, SearchType, Frontier, Begin
  <2> QED
    BY <1>1, <2>1 DEF TreeInv, Frontier, SearchTree
<1> QED
  BY <1>2, <1>3

LEMMA TakeKeeps ==
    ASSUME TreeInv, NEW c \in Place, Take(c)
    PROVE  TreeInv'
<1> USE DEF TreeInv
<1>1. /\ c \in open /\ spc = "search" /\ closed' = closed \cup {c}
      /\ start' = start /\ goal' = goal /\ occupied' = occupied /\ costs' = costs
      /\ g[c] \in Nat
  BY DEF Take, Frontier
<1>2. \A p : Moves(p)' = Moves(p)
  BY <1>1 DEF Moves
<1>3. \A p, q : StepCost(p, q)' = StepCost(p, q)
  BY <1>1 DEF StepCost
<1>4. CASE c = goal
  <2>1. g' = g /\ came_from' = came_from /\ spc' = "found" /\ open' \cup closed' = open \cup closed
    BY <1>1, <1>4 DEF Take
  <2>2. SearchType'
    BY <1>1, <2>1 DEF SearchType, Take
  <2>3. Frontier'
    BY <1>1, <2>1 DEF Frontier
  <2>4. SearchTree'
    BY <1>1, <1>2, <1>3, <2>1 DEF SearchTree
  <2> QED
    BY <2>2, <2>3, <2>4
<1>5. CASE c # goal
  <2> DEFINE B == Better(c)
  <2>1. /\ B \in SUBSET Place /\ B \cap closed = {} /\ c \notin B /\ start \notin B
        /\ \A q \in B : q \in Moves(c)
    BY <1>1, BetterProperties
  <2>2. /\ \A q \in B : g'[q] = g[c] + StepCost(c, q) /\ came_from'[q] = c
        /\ \A q \in Place \ B : g'[q] = g[q] /\ came_from'[q] = came_from[q]
        /\ open' \cup closed' = open \cup closed \cup B
        /\ spc' = "search"
    BY <1>1, <1>5, <2>1 DEF Take
  <2>3. \A q \in B : g'[q] \in Nat
    BY <1>1, <2>1, <2>2, StepCostPositive
  <2>4. SearchType'
    <3>1. /\ g' = [q \in Place |-> IF q \in B THEN g[c] + StepCost(c, q) ELSE g[q]]
          /\ came_from' = [q \in Place |-> IF q \in B THEN c ELSE came_from[q]]
          /\ open' = (open \ {c}) \cup B
      BY <1>5 DEF Take
    <3>2. g' \in [Place -> Nat \cup {Infinite}]
      BY <2>2, <2>3, <3>1 DEF SearchType
    <3>3. came_from' \in [Place -> Place \cup {None}]
      BY <3>1 DEF SearchType
    <3>4. in_order' \in BOOLEAN
      BY DEF Take
    <3> QED
      BY <1>1, <2>1, <2>2, <3>1, <3>2, <3>3, <3>4 DEF SearchType
  <2>5. Frontier'
    BY <1>1, <2>1, <2>2, <2>3 DEF Frontier, SearchType
  <2>6. SearchTree'
    <3>1. \A p \in open' \cup closed' : p # start => came_from'[p] # None
      BY <2>1, <2>2, AstarConstants DEF SearchTree, SearchType
    <3>2. start \in open' \cup closed' => g'[start] = 0 /\ came_from'[start] = None
      BY <2>1, <2>2 DEF SearchTree, SearchType
    <3>3. ASSUME NEW p \in Place, came_from'[p] # None
          PROVE  /\ came_from'[p] \in closed'
                 /\ p \in Moves(came_from'[p])
                 /\ g'[p] = g'[came_from'[p]] + StepCost(came_from'[p], p)
      <4>1. CASE p \in B
        BY <4>1, <1>1, <2>1, <2>2
      <4>2. CASE p \notin B
        <5>1. came_from'[p] = came_from[p] /\ g'[p] = g[p]
          BY <4>2, <2>2
        <5>2. /\ came_from[p] \in closed /\ p \in Moves(came_from[p])
              /\ g[p] = g[came_from[p]] + StepCost(came_from[p], p)
          BY <3>3, <5>1 DEF SearchTree
        <5>3. g'[came_from[p]] = g[came_from[p]]
          BY <2>1, <2>2, <5>2 DEF SearchType
        <5> QED
          BY <1>1, <5>1, <5>2, <5>3
      <4> QED
        BY <4>1, <4>2
    <3> QED
      BY <1>1, <1>2, <1>3, <3>1, <3>2, <3>3 DEF SearchTree
  <2> QED
    BY <2>4, <2>5, <2>6
<1> QED
  BY <1>4, <1>5

LEMMA TreeStep ==
    TreeInv /\ [(\E s, t \in Place : Begin(s, t)) \/ Search]_astarVars => TreeInv'
<1> SUFFICES ASSUME TreeInv, [(\E s, t \in Place : Begin(s, t)) \/ Search]_astarVars
             PROVE  TreeInv'
  OBVIOUS
<1>1. CASE \E s, t \in Place : Begin(s, t)
  BY <1>1, BeginKeeps
<1>2. CASE \E c \in Place : Take(c)
  BY <1>2, TakeKeeps
<1>3. CASE Exhausted
  BY <1>3 DEF Exhausted, TreeInv, SearchType, Frontier, SearchTree, Moves, StepCost
<1>4. CASE UNCHANGED astarVars
  BY <1>4 DEF astarVars, TreeInv, SearchType, Frontier, SearchTree, Moves, StepCost
<1> QED
  BY <1>1, <1>2, <1>3, <1>4 DEF Search

\* Every reached node hangs on the start by legal moves at the cost of its
\* route, for every map and every order in which equal or lowered keys leave
\* the queue (navigation.hpp:405-457).
THEOREM SearchTreeAlways == SearchSpec => []SearchTree
<1>1. TreeInv => SearchTree
  BY DEF TreeInv
<1> QED
  BY <1>1, TreeInitially, TreeStep, PTL DEF SearchSpec

-----------------------------------------------------------------------------
(* The search misses no route.                                             *)

\* What has been reached has a cost and is free, and what a taken node leads
\* to has been reached; the goal is the last node taken.
Explored ==
    /\ \A p \in Place : g[p] # Infinite => p \in open \cup closed
    /\ (open \cup closed) \cap occupied = {}
    /\ \A p \in closed : p # goal => Moves(p) \subseteq open \cup closed
    /\ spc = "search" => goal \notin closed

ReachInv == TreeInv /\ Explored /\ NoneOnlyIfCutOff

LEMMA LegalMoves ==
    ASSUME NEW p \in Place, NEW q \in Place
    PROVE  /\ LegalStep(p, q) => q \in Moves(p)
           /\ q \in Moves(p) /\ p \notin occupied => LegalStep(p, q)
<1>1. p = <<p[1], p[2]>> /\ q = <<q[1], q[2]>>
  BY DEF Place
<1> QED
  BY <1>1 DEF LegalStep, Moves, Diagonal

LEMMA ReachInitially == SearchInit => ReachInv
<1> SUFFICES ASSUME SearchInit PROVE ReachInv
  OBVIOUS
<1>1. TreeInv
  BY TreeInitially
<1> QED
  BY <1>1 DEF SearchInit, Off, ReachInv, Explored, NoneOnlyIfCutOff

LEMMA BeginReaches ==
    ASSUME ReachInv, NEW s \in Place, NEW t \in Place, Begin(s, t)
    PROVE  ReachInv'
<1>1. TreeInv'
  BY BeginKeeps DEF ReachInv
<1>2. open = {} /\ closed = {} /\ spc = "off" /\ g \in [Place -> Nat \cup {Infinite}]
  BY DEF ReachInv, TreeInv, SearchType, Frontier, Begin
<1>3. \A p \in Place : g[p] = Infinite
  BY <1>2 DEF ReachInv, Explored
<1>4. CASE s \in occupied \/ t \in occupied
  <2>1. spc' = "none" /\ start' = s /\ goal' = t /\ UNCHANGED <<g, open, closed, occupied>>
    BY <1>4 DEF Begin
  <2> QED
    BY <1>1, <1>2, <1>3, <1>4, <2>1 DEF ReachInv, Explored, NoneOnlyIfCutOff
<1>5. CASE ~(s \in occupied \/ t \in occupied)
  <2>1. spc' = "search" /\ open' = {s} /\ g' = [g EXCEPT ![s] = 0] /\ UNCHANGED <<closed, occupied>>
    BY <1>5 DEF Begin
  <2>2. \A p \in Place : p # s => g'[p] = Infinite
    BY <1>2, <1>3, <2>1
  <2> QED
    BY <1>1, <1>2, <1>5, <2>1, <2>2 DEF ReachInv, Explored, NoneOnlyIfCutOff
<1> QED
  BY <1>4, <1>5

LEMMA TakeReaches ==
    ASSUME ReachInv, NEW c \in Place, Take(c)
    PROVE  ReachInv'
<1>1. TreeInv'
  BY TakeKeeps DEF ReachInv
<1>2. /\ c \in open /\ spc = "search" /\ closed' = closed \cup {c} /\ UNCHANGED <<goal, occupied>>
      /\ TreeInv /\ Explored /\ g \in [Place -> Nat \cup {Infinite}]
  BY DEF Take, ReachInv, TreeInv, SearchType
<1>3. \A p : Moves(p)' = Moves(p)
  BY <1>2 DEF Moves
<1>4. CASE c = goal
  <2>1. g' = g /\ spc' = "found" /\ open' \cup closed' = open \cup closed
    BY <1>2, <1>4 DEF Take
  <2> QED
    BY <1>1, <1>2, <1>3, <1>4, <2>1 DEF ReachInv, Explored, NoneOnlyIfCutOff
<1>5. CASE c # goal
  <2> DEFINE B == Better(c)
  <2>1. /\ B \in SUBSET Place /\ B \cap closed = {} /\ \A q \in B : q \in Moves(c)
    BY <1>2, BetterProperties
  <2>2. /\ \A q \in Place \ B : g'[q] = g[q]
        /\ open' \cup closed' = (open \cup closed) \cup B
        /\ spc' = "search"
    BY <1>2, <1>5 DEF Take
  <2>3. ASSUME NEW q \in Moves(c) PROVE q \in open' \cup closed'
    <3>1. q \in B \/ q \in closed \/ g[q] # Infinite
      BY DEF Better
    <3>2. q \in Place
      BY DEF Moves
    <3> QED
      BY <1>2, <2>2, <3>1, <3>2 DEF Explored
  <2>4. B \cap occupied = {}
    BY <2>1 DEF Moves
  <2> HIDE DEF B
  <2>5. Explored'
    <3>1. \A p \in Place : g'[p] # Infinite => p \in open' \cup closed'
      BY <1>2, <2>2 DEF Explored
    <3>2. (open' \cup closed') \cap occupied' = {}
      BY <1>2, <2>2, <2>4 DEF Explored
    <3>3. ASSUME NEW p \in closed', p # goal' PROVE Moves(p)' \subseteq open' \cup closed'
      <4>1. CASE p = c
        BY <1>3, <2>3, <4>1
      <4>2. CASE p \in closed
        BY <1>2, <1>3, <2>2, <3>3, <4>2 DEF Explored
      <4> QED
        BY <1>2, <4>1, <4>2
    <3>4. goal' \notin closed'
      BY <1>2, <1>5 DEF Explored
    <3> QED
      BY <3>1, <3>2, <3>3, <3>4 DEF Explored
  <2> QED
    BY <1>1, <2>2, <2>5 DEF ReachInv, NoneOnlyIfCutOff
<1> QED
  BY <1>4, <1>5

\* An empty queue leaves a trap.
LEMMA ExhaustedReaches == ASSUME ReachInv, Exhausted PROVE ReachInv'
<1>1. /\ spc = "search" /\ open = {} /\ spc' = "none"
      /\ UNCHANGED <<occupied, costs, start, goal, g, came_from, open, closed, in_order>>
  BY DEF Exhausted
<1>2. TreeInv'
  BY <1>1 DEF ReachInv, TreeInv, SearchType, Frontier, SearchTree, Moves, StepCost
<1>3. Explored'
  BY <1>1 DEF ReachInv, Explored, Moves
<1>4. start \in closed /\ goal \notin closed /\ closed \in SUBSET Place
  BY <1>1 DEF ReachInv, TreeInv, SearchType, Frontier, Explored
<1>5. ASSUME NEW p \in closed, NEW q \in Place, LegalStep(p, q) PROVE q \in closed
  <2>1. q \in Moves(p)
    BY <1>4, <1>5, LegalMoves
  <2> QED
    BY <1>1, <1>4, <2>1 DEF ReachInv, Explored
<1>6. NoneOnlyIfCutOff'
  <2>1. \A p, q : LegalStep(p, q)' = LegalStep(p, q)
    BY <1>1 DEF LegalStep
  <2> QED
    BY <1>1, <1>4, <1>5, <2>1 DEF NoneOnlyIfCutOff
<1> QED
  BY <1>2, <1>3, <1>6 DEF ReachInv

LEMMA ReachStep ==
    ReachInv /\ [(\E s, t \in Place : Begin(s, t)) \/ Search]_astarVars => ReachInv'
<1> SUFFICES ASSUME ReachInv, [(\E s, t \in Place : Begin(s, t)) \/ Search]_astarVars
             PROVE  ReachInv'
  OBVIOUS
<1>1. CASE \E s, t \in Place : Begin(s, t)
  BY <1>1, BeginReaches
<1>2. CASE \E c \in Place : Take(c)
  BY <1>2, TakeReaches
<1>3. CASE Exhausted
  BY <1>3, ExhaustedReaches
<1>4. CASE UNCHANGED astarVars
  <2>1. TreeInv'
    BY <1>4, TreeStep DEF ReachInv
  <2>2. Explored'
    BY <1>4 DEF astarVars, ReachInv, Explored, Moves
  <2>3. NoneOnlyIfCutOff'
    BY <1>4 DEF astarVars, ReachInv, NoneOnlyIfCutOff, LegalStep
  <2> QED
    BY <2>1, <2>2, <2>3 DEF ReachInv
<1> QED
  BY <1>1, <1>2, <1>3, <1>4 DEF Search

\* The search gives up only in a trap, for every map and every order of the
\* queue (navigation.hpp:385-448).
THEOREM GivesUpOnlyIfCutOff == SearchSpec => []NoneOnlyIfCutOff
<1>1. ReachInv => NoneOnlyIfCutOff
  BY DEF ReachInv
<1> QED
  BY <1>1, ReachInitially, ReachStep, PTL DEF SearchSpec

-----------------------------------------------------------------------------
(* Routes.                                                                 *)

\* Some n legal steps from the start to p; cost sums them up.
IsRoute(r, cost, n, p) ==
    /\ r \in [0..n -> Place] /\ cost \in [0..n -> Nat]
    /\ r[0] = start /\ r[n] = p /\ cost[0] = 0
    /\ \A i \in 1..n :
          LegalStep(r[i - 1], r[i]) /\ cost[i] = cost[i - 1] + StepCost(r[i - 1], r[i])

LEMMA LeastOf ==
    ASSUME NEW T, T \subseteq Nat, T # {}
    PROVE  \E m \in T : \A n \in T : m <= n
<1> DEFINE R == {ss \in Nat \X Nat : ss[1] < ss[2]}
<1>1. IsWellFoundedOn(R, Nat)
  BY NatLessThanWellFounded DEF OpToRel
<1>2. \A m, n \in Nat : <<n, m>> \in R <=> n < m
  OBVIOUS
<1> HIDE DEF R
<1>3. PICK m \in T : \A n \in T : ~(<<n, m>> \in R)
  BY <1>1, WFMin
<1>4. \A n \in T : m <= n
  <2> TAKE n \in T
  <2>1. m \in Nat /\ n \in Nat
    OBVIOUS
  <2>2. ~(<<n, m>> \in R)
    BY <1>3
  <2>3. ~(n < m)
    BY <1>2, <2>1, <2>2
  <2> QED
    BY <2>1, <2>3
<1> QED
  BY <1>4

\* Every node that was taken has a route along which costs are what g says.
LEMMA RoutesToClosed ==
    ASSUME ReachInv, NEW p \in closed
    PROVE  \E n \in Nat : \E r \in [0..n -> Place], cost \in [0..n -> Nat] :
              IsRoute(r, cost, n, p) /\ \A i \in 0..n : cost[i] = g[r[i]]
<1> DEFINE Has(q) == \E n \in Nat : \E r \in [0..n -> Place], cost \in [0..n -> Nat] :
                        IsRoute(r, cost, n, q) /\ \A i \in 0..n : cost[i] = g[r[i]]
           T == {k \in Nat : \E q \in closed : k = g[q] /\ ~Has(q)}
<1>1. /\ SearchType /\ SearchTree /\ (open \cup closed) \cap occupied = {}
      /\ closed \in SUBSET Place /\ start \in Place
      /\ \A q \in closed : g[q] \in Nat
  BY DEF ReachInv, TreeInv, SearchType, Frontier, Explored
<1>2. start \in closed => Has(start)
  <2> SUFFICES ASSUME start \in closed PROVE Has(start)
    OBVIOUS
  <2> DEFINE r == [i \in 0..0 |-> start]
             cost == [i \in 0..0 |-> 0]
  <2>1. IsRoute(r, cost, 0, start)
    BY <1>1 DEF IsRoute
  <2>2. \A i \in 0..0 : cost[i] = g[r[i]]
    BY <1>1 DEF SearchTree
  <2>3. r \in [0..0 -> Place] /\ cost \in [0..0 -> Nat]
    BY <1>1
  <2> QED
    BY <2>1, <2>2, <2>3
<1>3. ASSUME NEW q \in closed, NEW c \in closed, came_from[q] = c, q # start, Has(c)
      PROVE  Has(q)
  <2>1. /\ q \in Moves(c) /\ g[q] = g[c] + StepCost(c, q) /\ q \in Place /\ c \in Place
        /\ c \notin occupied
    BY <1>1, <1>3, AstarConstants DEF SearchTree
  <2>2. PICK n \in Nat : \E r \in [0..n -> Place], cost \in [0..n -> Nat] :
                            IsRoute(r, cost, n, c) /\ \A i \in 0..n : cost[i] = g[r[i]]
    BY <1>3
  <2>3. PICK r \in [0..n -> Place], cost \in [0..n -> Nat] :
                            IsRoute(r, cost, n, c) /\ \A i \in 0..n : cost[i] = g[r[i]]
    BY <2>2
  <2> DEFINE m == n + 1
             r2 == [i \in 0..m |-> IF i = m THEN q ELSE r[i]]
             cost2 == [i \in 0..m |-> IF i = m THEN g[q] ELSE cost[i]]
  <2>4. m \in Nat /\ g[q] \in Nat /\ \A i \in 0..n : i \in 0..m /\ i # m
    BY <1>1
  <2>5. r2 \in [0..m -> Place] /\ cost2 \in [0..m -> Nat]
    BY <2>1, <2>4
  <2>6. /\ \A i \in 0..n : r2[i] = r[i] /\ cost2[i] = cost[i]
        /\ r2[m] = q /\ cost2[m] = g[q]
    BY <2>4
  <2>7. LegalStep(c, q)
    BY <2>1, LegalMoves
  <2>8. ASSUME NEW i \in 1..m
        PROVE  /\ LegalStep(r2[i - 1], r2[i])
               /\ cost2[i] = cost2[i - 1] + StepCost(r2[i - 1], r2[i])
    <3>1. CASE i = m
      <4>1. i - 1 = n /\ n \in 0..n
        BY <3>1
      <4>2. r2[i - 1] = c /\ cost2[i - 1] = g[c] /\ r2[i] = q /\ cost2[i] = g[q]
        BY <2>3, <2>6, <3>1, <4>1 DEF IsRoute
      <4> QED
        BY <2>1, <2>7, <4>2
    <3>2. CASE i # m
      <4>1. i \in 1..n /\ i \in 0..n /\ i - 1 \in 0..n
        BY <3>2
      <4>2. r2[i - 1] = r[i - 1] /\ cost2[i - 1] = cost[i - 1] /\ r2[i] = r[i] /\ cost2[i] = cost[i]
        BY <2>6, <4>1
      <4> QED
        BY <2>3, <4>1, <4>2 DEF IsRoute
    <3> QED
      BY <3>1, <3>2
  <2>9. r2[0] = start /\ cost2[0] = 0 /\ \A i \in 0..m : cost2[i] = g[r2[i]]
    <3>1. \A i \in 0..m : i \in 0..n \/ i = m
      BY <2>4
    <3> QED
      BY <2>3, <2>6, <3>1 DEF IsRoute
  <2> HIDE DEF r2, cost2, m
  <2>10. IsRoute(r2, cost2, m, q)
    BY <2>5, <2>6, <2>8, <2>9 DEF IsRoute
  <2> QED
    BY <2>4, <2>5, <2>9, <2>10
<1> HIDE DEF Has
<1>4. T = {}
  <2> SUFFICES ASSUME T # {} PROVE FALSE
    OBVIOUS
  <2>1. PICK k \in T : \A j \in T : k <= j
    BY LeastOf
  <2>2. PICK q \in closed : k = g[q] /\ ~Has(q)
    OBVIOUS
  <2>3. q # start /\ q \in Place
    BY <1>1, <1>2, <2>2
  <2> DEFINE c == came_from[q]
  <2>4. c \in closed /\ q \in Moves(c) /\ g[q] = g[c] + StepCost(c, q)
    BY <1>1, <2>2, <2>3 DEF SearchTree
  <2> HIDE DEF c
  <2>5. c \in Place /\ g[c] \in Nat /\ k \in Nat
    BY <1>1, <2>4
  <2>6. StepCost(c, q) \in Nat /\ StepCost(c, q) > 0
    BY <1>1, <2>3, <2>5, StepCostPositive
  <2>7. g[c] < k
    BY <2>2, <2>4, <2>5, <2>6
  <2>8. g[c] \notin T
    BY <2>1, <2>5, <2>7
  <2>9. Has(c)
    BY <2>4, <2>5, <2>8
  <2> QED
    BY <1>3, <2>2, <2>3, <2>4, <2>9 DEF c
<1>5. Has(p)
  BY <1>1, <1>4
<1> QED
  BY <1>5 DEF Has

\* When the search has found the goal, there is a route of legal steps to it
\* and the goal's g is what that route costs (navigation.hpp:411-457).
FoundIsARoute ==
    spc = "found" =>
        \E n \in Nat : \E r \in [0..n -> Place], cost \in [0..n -> Nat] :
            IsRoute(r, cost, n, goal) /\ cost[n] = g[goal]

\* When it has found none, there is none (navigation.hpp:385-448).
NoneIsNone ==
    spc = "none" =>
        \/ start \in occupied \/ goal \in occupied
        \/ \A n \in Nat : \A r \in [0..n -> Place], cost \in [0..n -> Nat] :
               ~IsRoute(r, cost, n, goal)

LEMMA TrapHasNoRoute == ReachInv => NoneIsNone
<1> SUFFICES ASSUME ReachInv, spc = "none", start \notin occupied, goal \notin occupied,
                    NEW n \in Nat, NEW r \in [0..n -> Place], NEW cost \in [0..n -> Nat],
                    IsRoute(r, cost, n, goal)
             PROVE  FALSE
  BY DEF NoneIsNone
<1>1. /\ start \in closed /\ goal \notin closed
      /\ \A p \in closed, q \in Place : LegalStep(p, q) => q \in closed
  BY DEF ReachInv, NoneOnlyIfCutOff
<1> DEFINE T == {i \in 0..n : r[i] \notin closed}
<1>2. T \subseteq Nat /\ n \in T
  BY <1>1 DEF IsRoute
<1>3. PICK m \in T : \A i \in T : m <= i
  BY <1>2, LeastOf
<1>4. m # 0 /\ m \in 0..n
  BY <1>1 DEF IsRoute
<1>5. m \in 1..n /\ m - 1 \in 0..n /\ ~(m <= m - 1)
  BY <1>4
<1>6. r[m - 1] \in closed /\ LegalStep(r[m - 1], r[m]) /\ r[m] \in Place
  BY <1>3, <1>4, <1>5 DEF IsRoute
<1> QED
  BY <1>1, <1>6

\* No route is missed, for every map and every order of the queue.
THEOREM NoRouteMissed == SearchSpec => []NoneIsNone
<1> QED
  BY TrapHasNoRoute, ReachInitially, ReachStep, PTL DEF SearchSpec

-----------------------------------------------------------------------------
(* In order, the route found is a cheapest one.                            *)

\* No taken node is behind a waiting one, and every taken node has passed its
\* cost on to where it leads.
InOrder ==
    in_order =>
        /\ \A p \in closed, q \in open : g[p] + Heuristic(p) <= g[q] + Heuristic(q)
        /\ \A p \in closed : p # goal => \A q \in Moves(p) : g[q] <= g[p] + StepCost(p, q)

OrderInv ==
    /\ ReachInv /\ InOrder
    /\ open \cap closed = {}
    /\ spc = "found" => goal \in closed /\ start \in open \cup closed

\* The estimate is a cost.
LEMMA HeuristicIsNat == ASSUME SearchType, NEW p \in Place PROVE Heuristic(p) \in Nat
<1>1. p[1] \in Int /\ p[2] \in Int /\ goal[1] \in Int /\ goal[2] \in Int
  BY AstarConstants DEF Place, SearchType
<1> DEFINE dx == AbsValue(p[1] - goal[1])
           dy == AbsValue(p[2] - goal[2])
<1>2. dx \in Nat /\ dy \in Nat
  BY <1>1 DEF AbsValue
<1>3. Heuristic(p) = 100 * (dx + dy) - 60 * Lesser(dx, dy)
  BY DEF Heuristic
<1> HIDE DEF dx, dy
<1> QED
  BY <1>2, <1>3 DEF Lesser

\* The heuristic is consistent: it drops by no more than what a step costs.
LEMMA Consistent ==
    ASSUME SearchType, NEW p \in Place, NEW q \in Moves(p)
    PROVE  /\ q \in Place /\ StepCost(p, q) \in Nat
           /\ Heuristic(p) \in Nat /\ Heuristic(q) \in Nat
           /\ Heuristic(p) <= StepCost(p, q) + Heuristic(q)
<1>1. /\ q \in Place /\ q[1] - p[1] \in -1..1 /\ q[2] - p[2] \in -1..1
  BY DEF Moves
<1>2. /\ p[1] \in Int /\ p[2] \in Int /\ q[1] \in Int /\ q[2] \in Int
      /\ goal[1] \in Int /\ goal[2] \in Int /\ costs[q] \in Nat
  BY <1>1, AstarConstants DEF Place, SearchType
<1>3. StepCost(p, q) \in Nat /\ Heuristic(p) \in Nat /\ Heuristic(q) \in Nat
  BY <1>1, StepCostPositive, HeuristicIsNat
<1>4. /\ Diagonal(p, q) => StepCost(p, q) >= 140
      /\ ~Diagonal(p, q) => StepCost(p, q) >= 100
  BY <1>2 DEF StepCost
<1> DEFINE dx == AbsValue(p[1] - goal[1])
           dy == AbsValue(p[2] - goal[2])
           ex == AbsValue(q[1] - goal[1])
           ey == AbsValue(q[2] - goal[2])
<1>5. dx \in Nat /\ dy \in Nat /\ ex \in Nat /\ ey \in Nat /\ dx <= ex + 1 /\ dy <= ey + 1
  BY <1>1, <1>2 DEF AbsValue
<1>6. ~Diagonal(p, q) => dx = ex \/ dy = ey
  BY DEF Diagonal
<1>7. /\ Heuristic(p) = 100 * (dx + dy) - 60 * Lesser(dx, dy)
      /\ Heuristic(q) = 100 * (ex + ey) - 60 * Lesser(ex, ey)
  BY DEF Heuristic
<1> HIDE DEF dx, dy, ex, ey
<1>8. Heuristic(p) <= 140 + Heuristic(q)
  BY <1>5, <1>7 DEF Lesser
<1>9. dx = ex \/ dy = ey => Heuristic(p) <= 100 + Heuristic(q)
  BY <1>5, <1>7 DEF Lesser
<1> QED
  BY <1>1, <1>3, <1>4, <1>6, <1>8, <1>9

LEMMA KeyOfReached ==
    ASSUME SearchType, NEW p \in Place, g[p] \in Nat
    PROVE  Key(p) = g[p] + Heuristic(p) /\ Heuristic(p) \in Nat
<1>1. g[p] # Infinite
  BY AstarConstants
<1> QED
  BY <1>1, HeuristicIsNat DEF Key

LEMMA OrderInitially == SearchInit => OrderInv
<1> SUFFICES ASSUME SearchInit PROVE OrderInv
  OBVIOUS
<1>1. ReachInv
  BY ReachInitially
<1> QED
  BY <1>1 DEF SearchInit, Off, OrderInv, InOrder

LEMMA BeginKeepsOrder ==
    ASSUME OrderInv, NEW s \in Place, NEW t \in Place, Begin(s, t)
    PROVE  OrderInv'
<1>1. ReachInv'
  BY BeginReaches DEF OrderInv
<1>2. closed' = {} /\ spc' # "found" /\ (open' = {s} \/ open' = {})
  BY DEF OrderInv, ReachInv, TreeInv, Frontier, Begin
<1> QED
  BY <1>1, <1>2 DEF OrderInv, InOrder

LEMMA TakeKeepsOrder ==
    ASSUME OrderInv, NEW c \in Place, Take(c)
    PROVE  OrderInv'
<1>1. ReachInv'
  BY TakeReaches DEF OrderInv
<1>2. /\ c \in open /\ c \notin closed /\ spc = "search" /\ closed' = closed \cup {c}
      /\ UNCHANGED <<goal, occupied, costs>>
      /\ TreeInv /\ SearchType /\ Explored /\ ReachInv
      /\ closed \in SUBSET Place /\ open \in SUBSET Place
      /\ goal \notin closed
  BY DEF Take, OrderInv, ReachInv, TreeInv, SearchType, Explored
<1>3. /\ \A p : Moves(p)' = Moves(p)
      /\ \A p : Heuristic(p)' = Heuristic(p)
      /\ \A p, q : StepCost(p, q)' = StepCost(p, q)
  BY <1>2 DEF Moves, Heuristic, StepCost
<1>4. \A p \in open \cup closed : g[p] \in Nat /\ Key(p) = g[p] + Heuristic(p) /\ Heuristic(p) \in Nat
  BY <1>2, KeyOfReached DEF TreeInv, Frontier
<1>5. in_order' => in_order /\ \A q \in open : g[c] + Heuristic(c) <= g[q] + Heuristic(q)
  <2>1. in_order' => in_order /\ \A q \in open : Key(c) <= Key(q)
    BY DEF Take
  <2>2. \A q \in open : Key(c) = g[c] + Heuristic(c) /\ Key(q) = g[q] + Heuristic(q)
    BY <1>2, <1>4
  <2> QED
    BY <2>1, <2>2
<1>6. CASE c = goal
  <2>1. /\ g' = g /\ open' = open \ {c} /\ spc' = "found"
        /\ goal' \in closed' /\ start' \in open' \cup closed'
    BY <1>2, <1>6 DEF Take, TreeInv, Frontier
  <2>2. open' \cap closed' = {}
    BY <1>2, <2>1 DEF OrderInv
  <2>3. ASSUME in_order' PROVE InOrder'
    <3>1. \A p \in closed', q \in open' : g'[p] + Heuristic(p) <= g'[q] + Heuristic(q)
      BY <1>2, <1>5, <2>1, <2>3 DEF OrderInv, InOrder
    <3>2. \A p \in closed' : p # goal' => \A q \in Moves(p) : g'[q] <= g'[p] + StepCost(p, q)
      BY <1>2, <1>5, <1>6, <2>1, <2>3 DEF OrderInv, InOrder
    <3> QED
      BY <1>3, <3>1, <3>2 DEF InOrder
  <2> QED
    BY <1>1, <2>1, <2>2, <2>3 DEF OrderInv, InOrder
<1>7. CASE c # goal
  <2> DEFINE B == Better(c)
  <2>1. /\ B \in SUBSET Place /\ B \cap closed = {} /\ c \notin B
        /\ \A q \in B : q \in Moves(c)
    BY <1>2, BetterProperties
  <2>2. /\ \A q \in B : g'[q] = g[c] + StepCost(c, q)
        /\ \A q \in Place \ B : g'[q] = g[q]
        /\ open' = (open \ {c}) \cup B
        /\ spc' = "search"
    BY <1>2, <1>7, <2>1 DEF Take
  <2>3. \A q \in B : g[q] = Infinite \/ g'[q] <= g[q]
    <3> SUFFICES ASSUME NEW q \in B, g[q] # Infinite PROVE g'[q] <= g[q]
      OBVIOUS
    <3>1. g[q] \in Nat /\ g[c] \in Nat /\ StepCost(c, q) \in Nat /\ g[c] + StepCost(c, q) < g[q]
      BY <1>2, <1>4, <2>1, StepCostPositive DEF Better, SearchType
    <3> QED
      BY <2>2, <3>1
  <2>4. \A q \in Moves(c) \ B : q \in closed \/ (g[q] # Infinite /\ ~(g[c] + StepCost(c, q) < g[q]))
    BY DEF Better
  <2> HIDE DEF B
  <2>5. open' \cap closed' = {}
    BY <1>2, <2>1, <2>2 DEF OrderInv
  <2>6. ASSUME in_order' PROVE InOrder'
    <3>1. /\ \A p \in closed, q \in open : g[p] + Heuristic(p) <= g[q] + Heuristic(q)
          /\ \A p \in closed : p # goal => \A q \in Moves(p) : g[q] <= g[p] + StepCost(p, q)
          /\ \A q \in open : g[c] + Heuristic(c) <= g[q] + Heuristic(q)
      BY <1>5, <2>6 DEF OrderInv, InOrder
    <3>2. ASSUME NEW p \in closed'
          PROVE  /\ g'[p] = g[p] /\ g[p] \in Nat /\ Heuristic(p) \in Nat /\ p \in Place
                 /\ g[p] + Heuristic(p) <= g[c] + Heuristic(c)
      BY <1>2, <1>4, <2>1, <2>2, <3>1
    <3>3. ASSUME NEW p \in closed', NEW q \in open'
          PROVE  g'[p] + Heuristic(p) <= g'[q] + Heuristic(q)
      <4>1. CASE q \in B
        <5>1. /\ StepCost(c, q) \in Nat /\ Heuristic(q) \in Nat /\ Heuristic(c) \in Nat
              /\ Heuristic(c) <= StepCost(c, q) + Heuristic(q) /\ g[c] \in Nat
          BY <1>2, <1>4, <2>1, <4>1, Consistent
        <5>2. g'[q] = g[c] + StepCost(c, q)
          BY <2>2, <4>1
        <5> QED
          BY <3>2, <5>1, <5>2
      <4>2. CASE q \notin B
        <5>1. q \in open /\ g'[q] = g[q]
          BY <1>2, <2>2, <4>2
        <5>2. CASE p = c
          BY <3>1, <3>2, <5>1, <5>2
        <5>3. CASE p \in closed
          BY <3>1, <3>2, <5>1, <5>3
        <5> QED
          BY <1>2, <5>2, <5>3
      <4> QED
        BY <4>1, <4>2
    <3>4. ASSUME NEW p \in closed', p # goal', NEW q \in Moves(p)
          PROVE  g'[q] <= g'[p] + StepCost(p, q)
      <4>1. /\ q \in Place /\ StepCost(p, q) \in Nat
            /\ Heuristic(p) <= StepCost(p, q) + Heuristic(q) /\ Heuristic(q) \in Nat
        BY <1>2, <3>2, Consistent
      <4>2. CASE p = c
        <5>1. CASE q \in B
          BY <2>2, <3>2, <4>1, <4>2, <5>1
        <5>2. CASE q \in closed
          <6>1. g'[q] = g[q] /\ g[q] \in Nat /\ g[q] + Heuristic(q) <= g[c] + Heuristic(c)
            BY <1>2, <3>2, <5>2
          <6> QED
            BY <3>2, <4>1, <4>2, <6>1
        <5>3. CASE q \notin B /\ q \notin closed
          <6>1. g'[q] = g[q] /\ g[q] \in Nat /\ ~(g[c] + StepCost(c, q) < g[q])
            BY <1>2, <2>2, <2>4, <4>1, <4>2, <5>3 DEF SearchType
          <6> QED
            BY <3>2, <4>1, <4>2, <6>1
        <5> QED
          BY <5>1, <5>2, <5>3
      <4>3. CASE p \in closed
        <5>1. g[q] <= g[p] + StepCost(p, q) /\ q \in open \cup closed /\ g[q] \in Nat
          BY <1>2, <1>4, <3>1, <3>4, <4>3 DEF Explored
        <5>2. g'[q] <= g[q]
          BY <2>2, <2>3, <4>1, <5>1, AstarConstants
        <5>3. g'[q] \in Nat
          <6>1. q \in B => StepCost(c, q) \in Nat /\ g[c] \in Nat
            BY <1>2, <1>4, <4>1, StepCostPositive
          <6> QED
            BY <2>2, <4>1, <5>1, <6>1
        <5> QED
          BY <3>2, <4>1, <5>1, <5>2, <5>3
      <4> QED
        BY <1>2, <4>2, <4>3
    <3> QED
      BY <1>2, <1>3, <3>3, <3>4 DEF InOrder
  <2> QED
    BY <1>1, <2>2, <2>5, <2>6 DEF OrderInv, InOrder
<1> QED
  BY <1>6, <1>7

LEMMA OrderStep ==
    OrderInv /\ [(\E s, t \in Place : Begin(s, t)) \/ Search]_astarVars => OrderInv'
<1> SUFFICES ASSUME OrderInv, [(\E s, t \in Place : Begin(s, t)) \/ Search]_astarVars
             PROVE  OrderInv'
  OBVIOUS
<1>1. CASE \E s, t \in Place : Begin(s, t)
  BY <1>1, BeginKeepsOrder
<1>2. CASE \E c \in Place : Take(c)
  BY <1>2, TakeKeepsOrder
<1>3. CASE Exhausted
  <2>1. ReachInv'
    BY <1>3, ExhaustedReaches DEF OrderInv
  <2> QED
    BY <1>3, <2>1 DEF Exhausted, OrderInv, InOrder, Moves, StepCost, Heuristic
<1>4. CASE UNCHANGED astarVars
  <2>1. ReachInv'
    BY <1>4, ReachStep DEF OrderInv
  <2> QED
    BY <1>4, <2>1 DEF astarVars, OrderInv, InOrder, Moves, StepCost, Heuristic
<1> QED
  BY <1>1, <1>2, <1>3, <1>4 DEF Search

\* What the search knows of a route that has come to p at cost c: p was taken
\* at no more, or the goal was, by the estimate.
Covered(p, c) ==
    \/ p \in closed /\ p # goal /\ g[p] <= c
    \/ g[goal] <= c + Heuristic(p)

LEMMA ReachedIsCovered ==
    ASSUME OrderInv, spc = "found", in_order, NEW p \in open \cup closed, NEW c \in Nat, g[p] <= c
    PROVE  Covered(p, c)
<1>1. /\ SearchType /\ goal \in closed /\ goal \in Place /\ p \in Place
      /\ g[p] \in Nat /\ g[goal] \in Nat
  BY DEF OrderInv, ReachInv, TreeInv, SearchType, Frontier
<1>2. \A q \in open : g[goal] + Heuristic(goal) <= g[q] + Heuristic(q)
  BY <1>1 DEF OrderInv, InOrder
<1>3. Heuristic(p) \in Nat /\ Heuristic(goal) \in Nat
  BY <1>1, HeuristicIsNat
<1>4. CASE p \in open
  BY <1>1, <1>2, <1>3, <1>4 DEF Covered
<1>5. CASE p = goal
  BY <1>1, <1>3, <1>5 DEF Covered
<1> QED
  BY <1>4, <1>5 DEF Covered

LEMMA StartIsCovered ==
    ASSUME OrderInv, spc = "found", in_order
    PROVE  Covered(start, 0)
<1>1. start \in open \cup closed /\ g[start] = 0
  BY DEF OrderInv, ReachInv, TreeInv, SearchTree
<1> QED
  BY <1>1, ReachedIsCovered

LEMMA StepsAreCovered ==
    ASSUME OrderInv, spc = "found", in_order,
           NEW p \in Place, NEW q \in Place, LegalStep(p, q), NEW c \in Nat, Covered(p, c)
    PROVE  Covered(q, c + StepCost(p, q))
<1>1. /\ SearchType /\ goal \in closed /\ g[goal] \in Nat
      /\ \A r \in open \cup closed : g[r] \in Nat
      /\ \A r \in closed : r # goal => Moves(r) \subseteq open \cup closed
      /\ \A r \in closed : r # goal => \A s \in Moves(r) : g[s] <= g[r] + StepCost(r, s)
  BY DEF OrderInv, ReachInv, TreeInv, SearchType, Frontier, Explored, InOrder
<1>2. q \in Moves(p)
  BY LegalMoves
<1>3. /\ StepCost(p, q) \in Nat /\ Heuristic(q) \in Nat /\ Heuristic(p) \in Nat
      /\ Heuristic(p) <= StepCost(p, q) + Heuristic(q)
  BY <1>1, <1>2, Consistent
<1>4. CASE p \in closed /\ p # goal /\ g[p] <= c
  <2>1. q \in open \cup closed /\ g[q] <= g[p] + StepCost(p, q) /\ g[q] \in Nat /\ g[p] \in Nat
    BY <1>1, <1>2, <1>4
  <2>2. c + StepCost(p, q) \in Nat /\ g[q] <= c + StepCost(p, q)
    BY <1>3, <1>4, <2>1
  <2> QED
    BY <2>1, <2>2, ReachedIsCovered
<1>5. CASE g[goal] <= c + Heuristic(p)
  <2>1. g[goal] <= (c + StepCost(p, q)) + Heuristic(q)
    BY <1>1, <1>3, <1>5
  <2> QED
    BY <2>1 DEF Covered
<1> QED
  BY <1>4, <1>5 DEF Covered

LEMMA GoalIsCovered ==
    ASSUME OrderInv, NEW c \in Nat, Covered(goal, c)
    PROVE  g[goal] <= c
<1>1. goal[1] \in Int /\ goal[2] \in Int
  BY AstarConstants DEF Place, OrderInv, ReachInv, TreeInv, SearchType
<1>2. Heuristic(goal) = 0
  BY <1>1 DEF Heuristic, AbsValue, Lesser
<1> QED
  BY <1>2 DEF Covered

\* A search whose queue hands nodes out in the order of f finds a cheapest
\* route (navigation.hpp:385-388, 433-441, 463-470).
CheapestInOrder ==
    (spc = "found" /\ in_order) =>
        \A n \in Nat : \A r \in [0..n -> Place], cost \in [0..n -> Nat] :
            IsRoute(r, cost, n, goal) => g[goal] <= cost[n]

\* Each place on a route is covered at its cost there.
LEMMA NoCheaperRoute == OrderInv => CheapestInOrder
<1> SUFFICES ASSUME OrderInv, spc = "found", in_order,
                    NEW n \in Nat, NEW r \in [0..n -> Place], NEW cost \in [0..n -> Nat],
                    IsRoute(r, cost, n, goal)
             PROVE  g[goal] <= cost[n]
  BY DEF CheapestInOrder
<1> DEFINE T == {i \in 0..n : ~Covered(r[i], cost[i])}
<1>1. 0 \notin T
  BY StartIsCovered DEF IsRoute
<1>2. ASSUME NEW i \in 1..n, i - 1 \notin T PROVE i \notin T
  <2>1. /\ i - 1 \in 0..n /\ i \in 0..n /\ LegalStep(r[i - 1], r[i])
        /\ cost[i] = cost[i - 1] + StepCost(r[i - 1], r[i])
    BY DEF IsRoute
  <2>2. r[i - 1] \in Place /\ r[i] \in Place /\ cost[i - 1] \in Nat
    BY <2>1
  <2>3. Covered(r[i - 1], cost[i - 1])
    BY <1>2, <2>1
  <2> QED
    BY <2>1, <2>2, <2>3, StepsAreCovered
<1>3. T = {}
  <2> SUFFICES ASSUME T # {} PROVE FALSE
    OBVIOUS
  <2>0. T \subseteq Nat
    OBVIOUS
  <2>1. PICK m \in T : \A i \in T : m <= i
    BY <2>0, LeastOf
  <2>2. m \in 1..n /\ ~(m <= m - 1)
    BY <1>1
  <2> HIDE DEF T
  <2> QED
    BY <1>2, <2>1, <2>2
<1>4. Covered(goal, cost[n]) /\ cost[n] \in Nat
  BY <1>3 DEF IsRoute
<1> QED
  BY <1>4, GoalIsCovered

\* In the order of f the route found costs no more than any other, for every
\* map.
THEOREM OrderedIsCheapest == SearchSpec => []CheapestInOrder
<1> QED
  BY NoCheaperRoute, OrderInitially, OrderStep, PTL DEF SearchSpec

\* A goal that was found is at the end of a route, for every map and every
\* order of the queue.
THEOREM RouteFound == SearchSpec => []FoundIsARoute
<1>1. OrderInv => FoundIsARoute
  <2>1. ASSUME OrderInv, spc = "found" PROVE ReachInv /\ goal \in closed
    BY <2>1 DEF OrderInv
  <2>2. SUFFICES ASSUME OrderInv, spc = "found"
        PROVE  \E n \in Nat : \E r \in [0..n -> Place], cost \in [0..n -> Nat] :
                  IsRoute(r, cost, n, goal) /\ cost[n] = g[goal]
    BY DEF FoundIsARoute
  <2>3. PICK n \in Nat : \E r \in [0..n -> Place], cost \in [0..n -> Nat] :
                            IsRoute(r, cost, n, goal) /\ \A i \in 0..n : cost[i] = g[r[i]]
    BY <2>1, <2>2, RoutesToClosed
  <2>4. PICK r \in [0..n -> Place], cost \in [0..n -> Nat] :
                            IsRoute(r, cost, n, goal) /\ \A i \in 0..n : cost[i] = g[r[i]]
    BY <2>3
  <2>5. cost[n] = g[goal]
    BY <2>4 DEF IsRoute
  <2> QED
    BY <2>4, <2>5
<1> QED
  BY <1>1, OrderInitially, OrderStep, PTL DEF SearchSpec

-----------------------------------------------------------------------------
(* The costs of the cheapest routes.                                       *)

\* Turns of the definition of CheapestWithin.
NextCosts(s) ==
    IF s.settled THEN s ELSE [cost |-> Relaxed(s.cost), settled |-> Relaxed(s.cost) = s.cost]
FirstCosts == [cost |-> [p \in Place |-> IF p = start THEN 0 ELSE Infinite], settled |-> FALSE]

LEMMA PlacesAreFinite == IsFiniteSet(Place) /\ Cardinality(Place) \in Nat
<1>1. IsFiniteSet(0..Size - 1)
  BY FS_Interval, AstarConstants
<1>2. IsFiniteSet((0..Size - 1) \X (0..Size - 1))
  BY <1>1, FS_Product
<1> QED
  BY <1>2, FS_CardinalityType DEF Place

\* There is a function the definition describes.
LEMMA CostsWithin ==
    /\ CheapestWithin[0] = FirstCosts
    /\ \A n \in 1..Cardinality(Place) : CheapestWithin[n] = NextCosts(CheapestWithin[n - 1])
<1> DEFINE K == Cardinality(Place)
           Turn(h, n) == IF n = 0 THEN FirstCosts ELSE NextCosts(h[n - 1])
           Costs(h, m) == h = [n \in 0..m |-> Turn(h, n)]
           Missing == {m \in Nat : ~\E h : Costs(h, m)}
<1>1. 0 \notin Missing
  <2> DEFINE h0 == [n \in 0..0 |-> FirstCosts]
  <2>1. Costs(h0, 0)
    OBVIOUS
  <2> QED
    BY <2>1
<1>2. ASSUME NEW m \in Nat, m \notin Missing PROVE m + 1 \notin Missing
  <2>1. PICK h : Costs(h, m)
    BY <1>2
  <2> DEFINE k == [n \in 0..m + 1 |-> Turn(h, n)]
  <2>2. \A n \in 0..m : h[n] = Turn(h, n) /\ n \in 0..m + 1
    BY <2>1
  <2>3. \A n \in 0..m : k[n] = h[n]
    BY <2>2
  <2>4. \A n \in 0..m + 1 : n # 0 => n - 1 \in 0..m
    OBVIOUS
  <2>5. \A n \in 0..m + 1 : Turn(h, n) = Turn(k, n)
    BY <2>3, <2>4
  <2>6. Costs(k, m + 1)
    BY <2>5
  <2> HIDE DEF k
  <2> QED
    BY <2>6
<1>3. Missing = {}
  <2> HIDE DEF Costs
  <2> SUFFICES ASSUME Missing # {} PROVE FALSE
    OBVIOUS
  <2>0. Missing \subseteq Nat
    OBVIOUS
  <2>1. PICK m \in Missing : \A n \in Missing : m <= n
    BY <2>0, LeastOf
  <2>2. m \in Nat /\ m # 0
    BY <1>1
  <2>3. m - 1 \in Nat /\ m - 1 \notin Missing /\ (m - 1) + 1 = m
    BY <2>1, <2>2
  <2> HIDE DEF Missing
  <2> QED
    BY <1>2, <2>3
<1>4. \E h : Costs(h, K)
  <2>1. K \in Nat
    BY PlacesAreFinite
  <2> HIDE DEF Costs, K
  <2> QED
    BY <1>3, <2>1
<1> DEFINE f == CHOOSE h : Costs(h, K)
<1>5. Costs(f, K)
  <2> HIDE DEF Costs, K
  <2> QED
    BY <1>4
<1>6. CheapestWithin = f
  BY DEF CheapestWithin, NextCosts, FirstCosts
<1> HIDE DEF f
<1>7. CheapestWithin = [n \in 0..K |-> Turn(CheapestWithin, n)]
  BY <1>5, <1>6
<1>8. \A n \in 0..K : CheapestWithin[n] = Turn(CheapestWithin, n)
  <2> HIDE DEF Turn
  <2> QED
    BY <1>7
<1>9. 0 \in 0..K /\ \A n \in 1..K : n \in 0..K /\ n # 0
  BY PlacesAreFinite
<1> HIDE DEF K
<1>10. \A n \in 1..K : CheapestWithin[n] = NextCosts(CheapestWithin[n - 1])
  <2> TAKE n \in 1..K
  <2>1. n \in 0..K /\ n # 0
    BY <1>9
  <2> QED
    BY <1>8, <2>1
<1>11. CheapestWithin[0] = FirstCosts
  BY <1>8, <1>9
<1> QED
  BY <1>10, <1>11 DEF K

\* Settled costs stay what they are, so that relaxing them is the step.
CostsOf(n) == CheapestWithin[n].cost

LEMMA CostsRelax ==
    /\ CostsOf(0) = [p \in Place |-> IF p = start THEN 0 ELSE Infinite]
    /\ \A n \in 1..Cardinality(Place) : CostsOf(n) = Relaxed(CostsOf(n - 1))
<1> DEFINE K == Cardinality(Place)
           Good(s) == s.settled => Relaxed(s.cost) = s.cost
           T == {n \in 0..K : ~Good(CheapestWithin[n])}
<1>1. K \in Nat
  BY PlacesAreFinite
<1>2. CheapestWithin[0] = FirstCosts /\ \A n \in 1..K : CheapestWithin[n] = NextCosts(CheapestWithin[n - 1])
  BY CostsWithin
<1> HIDE DEF K
<1>3. \A s : Good(s) => NextCosts(s).cost = Relaxed(s.cost) /\ Good(NextCosts(s))
  <2> TAKE s
  <2> SUFFICES ASSUME Good(s) PROVE NextCosts(s).cost = Relaxed(s.cost) /\ Good(NextCosts(s))
    OBVIOUS
  <2>1. CASE s.settled
    BY <2>1 DEF NextCosts
  <2>2. CASE ~s.settled
    <3> DEFINE t == [cost |-> Relaxed(s.cost), settled |-> Relaxed(s.cost) = s.cost]
    <3>1. NextCosts(s) = t /\ t.cost = Relaxed(s.cost) /\ t.settled = (Relaxed(s.cost) = s.cost)
      BY <2>2 DEF NextCosts
    <3>2. t.settled => Relaxed(t.cost) = t.cost
      BY <3>1
    <3> QED
      BY <3>1, <3>2
  <2> QED
    BY <2>1, <2>2
<1>4. 0 \notin T
  BY <1>2 DEF FirstCosts
<1> HIDE DEF Good
<1>5. T = {}
  <2> SUFFICES ASSUME T # {} PROVE FALSE
    OBVIOUS
  <2>0. T \subseteq Nat
    BY <1>1
  <2>1. PICK m \in T : \A n \in T : m <= n
    BY <2>0, LeastOf
  <2>2. m \in 1..K /\ m - 1 \in 0..K /\ ~(m <= m - 1)
    BY <1>1, <1>4, <2>1
  <2>3. Good(CheapestWithin[m - 1])
    BY <2>1, <2>2
  <2> QED
    BY <1>2, <1>3, <2>1, <2>2, <2>3
<1>6. \A n \in 1..K : CheapestWithin[n].cost = Relaxed(CheapestWithin[n - 1].cost)
  <2> TAKE n \in 1..K
  <2>1. n - 1 \in 0..K
    BY <1>1
  <2>2. Good(CheapestWithin[n - 1])
    BY <1>5, <2>1
  <2> QED
    BY <1>2, <1>3, <2>2
<1> QED
  BY <1>2, <1>6 DEF CostsOf, FirstCosts, K

\* What relaxing gives: the cost before or that of a step from a reached
\* place, whichever is less.
LEMMA RelaxedCost ==
    ASSUME SearchType, NEW cost \in [Place -> Nat \cup {Infinite}], NEW q \in Place
    PROVE  LET new == Relaxed(cost)[q]
           IN  /\ new \in Nat \cup {Infinite}
               /\ new \in Nat =>
                     \/ new = cost[q]
                     \/ \E p \in Place : cost[p] \in Nat /\ LegalStep(p, q) /\ new = cost[p] + StepCost(p, q)
               /\ cost[q] \in Nat => new \in Nat /\ new <= cost[q]
               /\ \A p \in Place : cost[p] \in Nat /\ LegalStep(p, q) =>
                     new \in Nat /\ new <= cost[p] + StepCost(p, q)
<1> DEFINE reached == {p \in Place : cost[p] # Infinite /\ LegalStep(p, q)}
           ways == ({cost[q]} \cup {cost[p] + StepCost(p, q) : p \in reached}) \ {Infinite}
           new == Relaxed(cost)[q]
<1>1. new = IF ways = {} THEN Infinite ELSE Min(ways)
  BY DEF Relaxed
<1>2. \A p \in Place : cost[p] # Infinite <=> cost[p] \in Nat
  BY AstarConstants
<1>3. \A p \in Place : StepCost(p, q) \in Nat
  BY StepCostPositive
<1>4. \A w \in ways :
         /\ w \in Nat
         /\ w = cost[q] \/ \E p \in Place : cost[p] \in Nat /\ LegalStep(p, q) /\ w = cost[p] + StepCost(p, q)
  BY <1>2, <1>3
<1>5. cost[q] \in Nat => cost[q] \in ways
  BY <1>2
<1>6. \A p \in Place : cost[p] \in Nat /\ LegalStep(p, q) => cost[p] + StepCost(p, q) \in ways
  <2> TAKE p \in Place
  <2> HAVE cost[p] \in Nat /\ LegalStep(p, q)
  <2>1. cost[p] + StepCost(p, q) \in Nat /\ p \in reached
    BY <1>2, <1>3
  <2>2. cost[p] + StepCost(p, q) # Infinite
    BY <2>1, AstarConstants
  <2> QED
    BY <2>1, <2>2
<1> HIDE DEF ways, new
<1>7. ways # {} => new \in ways /\ \A w \in ways : new <= w
  <2> SUFFICES ASSUME ways # {} PROVE Min(ways) \in ways /\ \A w \in ways : Min(ways) <= w
    BY <1>1
  <2>1. ways \subseteq Nat
    BY <1>4
  <2>2. PICK m \in ways : \A w \in ways : m <= w
    BY <2>1, LeastOf
  <2> QED
    BY <2>2 DEF Min
<1>8. new \in Nat => ways # {}
  BY <1>1, AstarConstants
<1>9. new \in Nat \cup {Infinite}
  BY <1>1, <1>4, <1>7
<1> QED
  BY <1>4, <1>5, <1>6, <1>7, <1>8, <1>9 DEF new

\* No cost within a number of steps is less than the search's.
LEMMA CostsAreCovered ==
    ASSUME OrderInv, spc = "found", in_order
    PROVE  \A n \in 0..Cardinality(Place) :
              /\ CostsOf(n) \in [Place -> Nat \cup {Infinite}]
              /\ \A p \in Place : CostsOf(n)[p] \in Nat => Covered(p, CostsOf(n)[p])
<1> DEFINE K == Cardinality(Place)
           Good(n) == /\ CostsOf(n) \in [Place -> Nat \cup {Infinite}]
                      /\ \A p \in Place : CostsOf(n)[p] \in Nat => Covered(p, CostsOf(n)[p])
           T == {n \in 0..K : ~Good(n)}
<1>1. K \in Nat /\ SearchType
  BY PlacesAreFinite DEF OrderInv, ReachInv, TreeInv
<1>2. /\ CostsOf(0) = [p \in Place |-> IF p = start THEN 0 ELSE Infinite]
      /\ \A n \in 1..K : CostsOf(n) = Relaxed(CostsOf(n - 1))
  BY CostsRelax
<1>3. Good(0)
  BY <1>2, StartIsCovered, AstarConstants
<1> HIDE DEF K
<1>4. ASSUME NEW n \in 1..K, Good(n - 1) PROVE Good(n)
  <2> DEFINE old == CostsOf(n - 1)
  <2>1. old \in [Place -> Nat \cup {Infinite}] /\ CostsOf(n) = Relaxed(old)
    BY <1>2, <1>4
  <2>2. \A p \in Place : old[p] \in Nat => Covered(p, old[p])
    BY <1>4
  <2> HIDE DEF old
  <2>3. CostsOf(n) = [p \in Place |-> CostsOf(n)[p]]
    BY <2>1 DEF Relaxed
  <2>4. ASSUME NEW q \in Place
        PROVE  /\ CostsOf(n)[q] \in Nat \cup {Infinite}
               /\ CostsOf(n)[q] \in Nat => Covered(q, CostsOf(n)[q])
    <3>1. /\ CostsOf(n)[q] \in Nat \cup {Infinite}
          /\ CostsOf(n)[q] \in Nat =>
                \/ CostsOf(n)[q] = old[q]
                \/ \E p \in Place : old[p] \in Nat /\ LegalStep(p, q) /\ CostsOf(n)[q] = old[p] + StepCost(p, q)
      BY <1>1, <2>1, RelaxedCost
    <3>2. ASSUME NEW p \in Place, old[p] \in Nat, LegalStep(p, q)
          PROVE  Covered(q, old[p] + StepCost(p, q))
      BY <2>2, <3>2, StepsAreCovered
    <3>3. ASSUME CostsOf(n)[q] \in Nat PROVE Covered(q, CostsOf(n)[q])
      <4>1. CASE CostsOf(n)[q] = old[q]
        BY <2>2, <3>3, <4>1
      <4>2. ASSUME NEW p \in Place, old[p] \in Nat, LegalStep(p, q), CostsOf(n)[q] = old[p] + StepCost(p, q)
            PROVE  Covered(q, CostsOf(n)[q])
        BY <3>2, <4>2
      <4> QED
        BY <3>1, <3>3, <4>1, <4>2
    <3> QED
      BY <3>1, <3>3
  <2> QED
    BY <2>3, <2>4
<1> HIDE DEF Good
<1>5. T = {}
  <2> SUFFICES ASSUME T # {} PROVE FALSE
    OBVIOUS
  <2>0. T \subseteq Nat
    BY <1>1
  <2>1. PICK m \in T : \A n \in T : m <= n
    BY <2>0, LeastOf
  <2>2. m \in 1..K /\ m - 1 \in 0..K /\ ~(m <= m - 1)
    BY <1>1, <1>3, <2>1
  <2> QED
    BY <1>4, <2>1, <2>2
<1>6. \A n \in 0..K : Good(n)
  BY <1>5
<1> QED
  BY <1>6 DEF Good, K

\* A route's costs grow, so it visits no place twice that the costs tell
\* apart.
LEMMA CostsGrow ==
    ASSUME SearchType, NEW n \in Nat, NEW r, NEW cost, NEW p, IsRoute(r, cost, n, p)
    PROVE  \A i, j \in 0..n : i < j => cost[i] < cost[j]
<1> DEFINE T == {j \in 0..n : \E i \in 0..n : i < j /\ ~(cost[i] < cost[j])}
<1>1. r \in [0..n -> Place] /\ cost \in [0..n -> Nat]
  BY DEF IsRoute
<1>2. \A i \in 1..n : /\ i \in 0..n /\ i - 1 \in 0..n /\ cost[i - 1] \in Nat /\ cost[i] \in Nat
                      /\ cost[i - 1] < cost[i]
  <2> TAKE i \in 1..n
  <2>1. i \in 0..n /\ i - 1 \in 0..n
    OBVIOUS
  <2>2. cost[i - 1] \in Nat /\ cost[i] \in Nat /\ r[i - 1] \in Place /\ r[i] \in Place
    BY <1>1, <2>1
  <2>3. StepCost(r[i - 1], r[i]) \in Nat /\ StepCost(r[i - 1], r[i]) > 0
    BY <2>2, StepCostPositive
  <2>4. cost[i] = cost[i - 1] + StepCost(r[i - 1], r[i])
    BY DEF IsRoute
  <2> QED
    BY <2>1, <2>2, <2>3, <2>4
<1>3. T = {}
  <2> SUFFICES ASSUME T # {} PROVE FALSE
    OBVIOUS
  <2>0. T \subseteq Nat
    OBVIOUS
  <2>1. PICK m \in T : \A j \in T : m <= j
    BY <2>0, LeastOf
  <2>2. PICK i \in 0..n : i < m /\ ~(cost[i] < cost[m])
    OBVIOUS
  <2>3. m \in 1..n /\ m - 1 \in 0..n /\ ~(m <= m - 1)
    BY <2>2
  <2>4. m - 1 \notin T
    BY <2>1, <2>3
  <2>5. i = m - 1 \/ i < m - 1
    BY <2>2, <2>3
  <2>6. i = m - 1 \/ cost[i] < cost[m - 1]
    BY <2>3, <2>4, <2>5
  <2>7. cost[i] \in Nat /\ cost[m] \in Nat /\ cost[m - 1] \in Nat /\ cost[m - 1] < cost[m]
    BY <1>1, <1>2, <2>3
  <2> QED
    BY <2>2, <2>6, <2>7
<1> QED
  BY <1>3

\* The search's own route: its costs are g's and it visits no place twice.
LEMMA RouteIsShort ==
    ASSUME SearchType, NEW n \in Nat, NEW r, NEW cost, NEW p, IsRoute(r, cost, n, p),
           \A i, j \in 0..n : r[i] = r[j] => i = j
    PROVE  n \in 0..Cardinality(Place)
<1>1. IsFiniteSet(Place) /\ Cardinality(Place) \in Nat
  BY PlacesAreFinite
<1>2. r \in Injection(0..n, Place)
  BY DEF IsRoute, Injection, IsInjective
<1>3. IsFiniteSet(0..n) /\ Cardinality(0..n) <= Cardinality(Place)
  BY <1>1, <1>2, FS_Injection
<1>4. Cardinality(0..n) = n + 1
  BY FS_Interval
<1> QED
  BY <1>1, <1>3, <1>4

\* The cost within as many steps as a route has is no more than the route's.
LEMMA CostsReach ==
    ASSUME SearchType, \A n \in 0..Cardinality(Place) : CostsOf(n) \in [Place -> Nat \cup {Infinite}],
           NEW n \in 0..Cardinality(Place), NEW r, NEW cost, NEW p, IsRoute(r, cost, n, p)
    PROVE  CostsOf(Cardinality(Place))[p] \in Nat /\ CostsOf(Cardinality(Place))[p] <= cost[n]
<1> DEFINE K == Cardinality(Place)
           At(i) == IF i <= n THEN i ELSE n
           Good(i) == CostsOf(i)[r[At(i)]] \in Nat /\ CostsOf(i)[r[At(i)]] <= cost[At(i)]
           T == {i \in 0..K : ~Good(i)}
<1>1. K \in Nat /\ n \in Nat
  BY PlacesAreFinite
<1>2. /\ CostsOf(0) = [q \in Place |-> IF q = start THEN 0 ELSE Infinite]
      /\ \A i \in 1..K : CostsOf(i) = Relaxed(CostsOf(i - 1))
      /\ \A i \in 0..K : CostsOf(i) \in [Place -> Nat \cup {Infinite}]
  BY CostsRelax
<1>3. /\ r \in [0..n -> Place] /\ cost \in [0..n -> Nat]
      /\ r[0] = start /\ r[n] = p /\ cost[0] = 0
      /\ \A i \in 1..n : LegalStep(r[i - 1], r[i]) /\ cost[i] = cost[i - 1] + StepCost(r[i - 1], r[i])
  BY DEF IsRoute
<1> HIDE DEF K
<1>4. \A i \in 0..K : At(i) \in 0..n /\ r[At(i)] \in Place /\ cost[At(i)] \in Nat
  <2> TAKE i \in 0..K
  <2>1. At(i) \in 0..n
    BY <1>1
  <2> QED
    BY <1>3, <2>1
<1>5. Good(0)
  <2>1. At(0) = 0 /\ start \in Place
    BY <1>1 DEF SearchType
  <2> QED
    BY <1>2, <1>3, <2>1
<1>6. ASSUME NEW i \in 1..K, Good(i - 1) PROVE Good(i)
  <2> DEFINE old == CostsOf(i - 1)
             p0 == r[At(i - 1)]
             q0 == r[At(i)]
  <2>1. i \in 0..K /\ i - 1 \in 0..K
    BY <1>1
  <2>2. /\ old \in [Place -> Nat \cup {Infinite}] /\ CostsOf(i) = Relaxed(old)
        /\ p0 \in Place /\ q0 \in Place
        /\ old[p0] \in Nat /\ old[p0] <= cost[At(i - 1)]
        /\ cost[At(i)] \in Nat /\ cost[At(i - 1)] \in Nat
    BY <1>2, <1>4, <1>6, <2>1
  <2>3. CASE i <= n
    <3>1. At(i) = i /\ At(i - 1) = i - 1 /\ i \in 1..n
      BY <1>1, <2>1, <2>3
    <3>2. LegalStep(p0, q0) /\ cost[At(i)] = cost[At(i - 1)] + StepCost(p0, q0)
      BY <1>3, <3>1
    <3> HIDE DEF old, p0, q0, At
    <3>3. StepCost(p0, q0) \in Nat
      BY <2>2, StepCostPositive
    <3>4. Relaxed(old)[q0] \in Nat /\ Relaxed(old)[q0] <= old[p0] + StepCost(p0, q0)
      BY <2>2, <3>2, RelaxedCost
    <3>5. Relaxed(old)[q0] <= cost[At(i)]
      BY <2>2, <3>2, <3>3, <3>4
    <3> QED
      BY <2>2, <3>4, <3>5 DEF q0
  <2>4. CASE ~(i <= n)
    <3>1. At(i) = n /\ At(i - 1) = n
      BY <1>1, <2>1, <2>4
    <3>2. p0 = q0 /\ cost[At(i)] = cost[At(i - 1)]
      BY <3>1
    <3> HIDE DEF old, p0, q0, At
    <3>3. Relaxed(old)[q0] \in Nat /\ Relaxed(old)[q0] <= old[q0]
      BY <2>2, <3>2, RelaxedCost
    <3>4. Relaxed(old)[q0] <= cost[At(i)]
      BY <2>2, <3>2, <3>3
    <3> QED
      BY <2>2, <3>3, <3>4 DEF q0
  <2> QED
    BY <2>3, <2>4
<1> HIDE DEF Good
<1>7. T = {}
  <2> SUFFICES ASSUME T # {} PROVE FALSE
    OBVIOUS
  <2>0. T \subseteq Nat
    BY <1>1
  <2>1. PICK m \in T : \A i \in T : m <= i
    BY <2>0, LeastOf
  <2>2. m \in 1..K /\ m - 1 \in 0..K /\ ~(m <= m - 1)
    BY <1>1, <1>5, <2>1
  <2> QED
    BY <1>6, <2>1, <2>2
<1>8. Good(K) /\ At(K) = n
  <2>1. n <= K /\ K \in 0..K
    BY <1>1 DEF K
  <2> QED
    BY <1>1, <1>7, <2>1
<1>9. r[n] = p
  BY <1>3
<1> QED
  BY <1>8, <1>9 DEF Good, K

LEMMA SearchIsCheapest == OrderInv => RouteCheapest
<1> SUFFICES ASSUME OrderInv, spc = "found", in_order PROVE g[goal] = Cheapest
  BY DEF RouteCheapest
<1> DEFINE K == Cardinality(Place)
<1>1. ReachInv /\ SearchType /\ goal \in closed /\ goal \in Place /\ g[goal] \in Nat
  BY DEF OrderInv, ReachInv, TreeInv, SearchType, Frontier
<1>2. \A n \in 0..K : /\ CostsOf(n) \in [Place -> Nat \cup {Infinite}]
                      /\ \A p \in Place : CostsOf(n)[p] \in Nat => Covered(p, CostsOf(n)[p])
  BY CostsAreCovered
<1>3. PICK n \in Nat : \E r \in [0..n -> Place], cost \in [0..n -> Nat] :
                          IsRoute(r, cost, n, goal) /\ \A i \in 0..n : cost[i] = g[r[i]]
  BY <1>1, RoutesToClosed
<1>4. PICK r \in [0..n -> Place], cost \in [0..n -> Nat] :
                          IsRoute(r, cost, n, goal) /\ \A i \in 0..n : cost[i] = g[r[i]]
  BY <1>3
<1>5. K \in Nat /\ K \in 0..K
  BY PlacesAreFinite
<1>6. \A i, j \in 0..n : r[i] = r[j] => i = j
  <2> SUFFICES ASSUME NEW i \in 0..n, NEW j \in 0..n, r[i] = r[j] PROVE i = j
    OBVIOUS
  <2>1. cost[i] = cost[j] /\ cost[i] \in Nat
    BY <1>4
  <2>2. ~(i < j) /\ ~(j < i)
    BY <1>1, <1>4, <2>1, CostsGrow
  <2> QED
    BY <2>2
<1>7. n \in 0..K
  BY <1>1, <1>4, <1>6, RouteIsShort
<1>8. cost[n] = g[goal]
  BY <1>4 DEF IsRoute
<1>9. CostsOf(K)[goal] \in Nat /\ CostsOf(K)[goal] <= g[goal]
  BY <1>1, <1>2, <1>4, <1>7, <1>8, CostsReach
<1>10. g[goal] <= CostsOf(K)[goal]
  BY <1>1, <1>2, <1>5, <1>9, GoalIsCovered
<1>11. Cheapest = CostsOf(K)[goal]
  BY DEF Cheapest, CostsOf
<1> HIDE DEF K
<1> QED
  BY <1>1, <1>9, <1>10, <1>11

-----------------------------------------------------------------------------
(* Clusters.                                                               *)

\* A cluster is the seed and what is reached from it over dense voxels, none
\* of it seen before.
LEMMA ExpandReaches ==
    ASSUME NEW A, NEW seen, NEW c \in A, c \notin seen,
           NEW K, K = ExpandCluster(A, c, seen)
    PROVE  /\ c \in K /\ K \subseteq A /\ K \cap seen = {}
           /\ \A e \in K : Dense(A, e) => Neighbors(A, e) \ seen \subseteq K
           /\ \A W \in SUBSET A :
                 c \in W /\ (\A e \in W : Dense(A, e) => Neighbors(A, e) \ seen \subseteq W) => K \subseteq W
<1> DEFINE Whole(W) == c \in W /\ \A e \in W : Dense(A, e) => Neighbors(A, e) \ seen \subseteq W
<1>1. K = {e \in A : \A W \in SUBSET A : Whole(W) => e \in W}
  BY DEF ExpandCluster, Smallest
<1>2. \A e : Neighbors(A, e) \subseteq A
  BY DEF Neighbors
<1>3. Whole(A \ seen)
  BY <1>2
<1> QED
  BY <1>1, <1>2, <1>3

\* A component holds its voxel and the dense neighbours of what it holds.
LEMMA ComponentReaches ==
    ASSUME NEW c \in DenseVoxels
    PROVE  /\ c \in Component(c) /\ Component(c) \subseteq DenseVoxels
           /\ \A e \in Component(c) : Neighbors(DenseVoxels, e) \subseteq Component(c)
           /\ \A W \in SUBSET DenseVoxels :
                 c \in W /\ (\A e \in W : Neighbors(DenseVoxels, e) \subseteq W) => Component(c) \subseteq W
<1> DEFINE Whole(W) == c \in W /\ \A e \in W : Neighbors(DenseVoxels, e) \subseteq W
<1>1. Component(c) = {e \in DenseVoxels : \A W \in SUBSET DenseVoxels : Whole(W) => e \in W}
  BY DEF Component, Smallest
<1>2. \A e : Neighbors(DenseVoxels, e) \subseteq DenseVoxels
  BY DEF Neighbors
<1> QED
  BY <1>1, <1>2

LEMMA NeighborsOfDense ==
    /\ DenseVoxels \subseteq Active /\ Active \subseteq Cell
    /\ \A c \in Active : c \in DenseVoxels <=> Dense(Active, c)
    /\ \A c : Neighbors(DenseVoxels, c) = Neighbors(Active, c) \cap DenseVoxels
    /\ \A c, e \in Active : e \in Neighbors(Active, c) => c \in Neighbors(Active, e)
<1>1. DenseVoxels \subseteq Active /\ Active \subseteq Cell
  BY DEF DenseVoxels, Active
<1>2. \A c \in Active : c \in DenseVoxels <=> Dense(Active, c)
  BY DEF DenseVoxels
<1>3. \A c : Neighbors(DenseVoxels, c) = Neighbors(Active, c) \cap DenseVoxels
  BY <1>1 DEF Neighbors
<1>4. \A c, e \in Active : e \in Neighbors(Active, c) => c \in Neighbors(Active, e)
  <2> SUFFICES ASSUME NEW c \in Active, NEW e \in Active, e \in Neighbors(Active, c)
               PROVE  c \in Neighbors(Active, e)
    OBVIOUS
  <2>1. c \in Active \ {e} /\ \A a \in Axis : c[a] \in Int /\ e[a] \in Int /\ e[a] - c[a] \in -1..1
    BY <1>1, GridConstants DEF Neighbors, Cell
  <2>2. ASSUME NEW a \in Axis PROVE c[a] - e[a] \in -1..1
    <3>1. c[a] \in Int /\ e[a] \in Int /\ e[a] - c[a] \in -1..1
      BY <2>1
    <3> QED
      BY <3>1
  <2> QED
    BY <2>1, <2>2 DEF Neighbors
<1> QED
  BY <1>1, <1>2, <1>3, <1>4

\* The dense voxels already visited are whole components.
Closed == \A c \in DenseVoxels \cap visited : Neighbors(DenseVoxels, c) \subseteq visited

Found(c) == \E i \in DOMAIN clusters : c \in clusters[i]

Grouped ==
    /\ clusters \in Seq(SUBSET Active) /\ visited \subseteq Active
    /\ \A i \in DOMAIN clusters : clusters[i] \subseteq visited
    /\ \A i, j \in DOMAIN clusters : i # j => clusters[i] \cap clusters[j] = {}
    /\ \A i \in DOMAIN clusters : \E c \in DenseVoxels :
          Component(c) \subseteq clusters[i] /\ clusters[i] \subseteq Component(c) \cup BorderOf(Component(c))
    /\ Closed
    /\ \A c \in DenseVoxels \cap visited : Found(c) \/ Cardinality(Component(c)) < min_points

\* The component of a dense voxel not visited yet has no visited voxel.
LEMMA ComponentUnvisited ==
    ASSUME Closed, visited \subseteq Active, NEW c \in DenseVoxels, c \notin visited
    PROVE  Component(c) \cap visited = {}
<1> DEFINE W == Component(c) \ visited
<1>1. /\ c \in Component(c) /\ Component(c) \subseteq DenseVoxels
      /\ \A e \in Component(c) : Neighbors(DenseVoxels, e) \subseteq Component(c)
  BY ComponentReaches
<1>2. ASSUME NEW e \in W, NEW f \in Neighbors(DenseVoxels, e) PROVE f \in W
  <2>1. f \in Component(c) /\ f \in DenseVoxels /\ e \in DenseVoxels /\ f \in Neighbors(Active, e)
    BY <1>1, <1>2, NeighborsOfDense
  <2>2. e \in Neighbors(DenseVoxels, f)
    BY <2>1, NeighborsOfDense
  <2>3. f \notin visited
    BY <2>1, <2>2 DEF Closed
  <2> QED
    BY <2>1, <2>3
<1>3. W \in SUBSET DenseVoxels /\ c \in W
  BY <1>1
<1> HIDE DEF W
<1>4. Component(c) \subseteq W
  BY <1>2, <1>3, ComponentReaches
<1> QED
  BY <1>4 DEF W

\* What is reached from a dense voxel is its component and part of its border,
\* and no other component than its own.
LEMMA ClusterIsComponent ==
    ASSUME Closed, visited \subseteq Active, NEW c \in DenseVoxels, c \notin visited,
           NEW K, K = ExpandCluster(Active, c, visited)
    PROVE  /\ K \subseteq Component(c) \cup BorderOf(Component(c))
           /\ \A d \in K \cap DenseVoxels : Component(d) \subseteq K
<1>1. /\ c \in K /\ K \subseteq Active /\ K \cap visited = {}
      /\ \A e \in K : Dense(Active, e) => Neighbors(Active, e) \ visited \subseteq K
      /\ \A W \in SUBSET Active :
            c \in W /\ (\A e \in W : Dense(Active, e) => Neighbors(Active, e) \ visited \subseteq W) => K \subseteq W
  BY NeighborsOfDense, ExpandReaches
<1>2. K \subseteq Component(c) \cup BorderOf(Component(c))
  <2> DEFINE W == Component(c) \cup BorderOf(Component(c))
  <2>1. /\ c \in Component(c) /\ Component(c) \subseteq DenseVoxels
        /\ \A e \in Component(c) : Neighbors(DenseVoxels, e) \subseteq Component(c)
    BY ComponentReaches
  <2>2. ASSUME NEW e \in W, Dense(Active, e) PROVE Neighbors(Active, e) \subseteq W
    <3>1. e \in Component(c)
      <4>1. CASE e \in Component(c)
        BY <4>1
      <4>2. CASE e \in BorderOf(Component(c))
        <5>1. PICK d \in Component(c) : e \in Neighbors(Active, d)
          BY <4>2 DEF BorderOf
        <5>2. e \in DenseVoxels
          BY <2>2, <5>1 DEF DenseVoxels, Neighbors
        <5> QED
          BY <2>1, <5>1, <5>2, NeighborsOfDense
      <4> QED
        BY <4>1, <4>2
    <3> QED
      BY <3>1 DEF BorderOf
  <2>3. W \in SUBSET Active
    BY <2>1, NeighborsOfDense DEF BorderOf, Neighbors
  <2> HIDE DEF W
  <2>4. K \subseteq W
    BY <1>1, <2>1, <2>2, <2>3 DEF W
  <2> QED
    BY <2>4 DEF W
<1>3. ASSUME NEW d \in K \cap DenseVoxels PROVE Component(d) \subseteq K
  <2> DEFINE W == Component(d) \cap K
  <2>1. /\ d \in Component(d) /\ Component(d) \subseteq DenseVoxels
        /\ \A e \in Component(d) : Neighbors(DenseVoxels, e) \subseteq Component(d)
    BY ComponentReaches
  <2>2. Component(d) \cap visited = {}
    BY <1>1, ComponentUnvisited
  <2>3. ASSUME NEW e \in W PROVE Neighbors(DenseVoxels, e) \subseteq W
    <3>1. Dense(Active, e) /\ e \in K
      BY <2>1 DEF DenseVoxels
    <3>2. Neighbors(DenseVoxels, e) \subseteq Component(d)
      BY <2>1
    <3> QED
      BY <1>1, <2>2, <3>1, <3>2, NeighborsOfDense
  <2>4. W \in SUBSET DenseVoxels /\ d \in W
    BY <2>1
  <2> HIDE DEF W
  <2>5. Component(d) \subseteq W
    BY <2>3, <2>4, ComponentReaches
  <2> QED
    BY <2>5 DEF W
<1> QED
  BY <1>2, <1>3

LEMMA CellIsFinite == IsFiniteSet(Cell)
<1> DEFINE I == 0..N - 1
           T == (I \X I) \X I
           At(c, a) == IF a \in Axis THEN c[a] ELSE 0
           f == [c \in Cell |-> <<<<At(c, 1), At(c, 2)>>, At(c, 3)>>]
<1>1. IsFiniteSet(I) /\ 0 \in I
  BY GridConstants, FS_Interval
<1> HIDE DEF I
<1>2. IsFiniteSet(T)
  <2>1. IsFiniteSet(I \X I)
    BY <1>1, FS_Product
  <2> QED
    BY <1>1, <2>1, FS_Product
<1>3. f \in [Cell -> T]
  BY <1>1 DEF Cell, I
<1>4. ASSUME NEW c \in Cell, NEW e \in Cell, f[c] = f[e] PROVE c = e
  <2>1. \A a \in Axis : c[a] = e[a]
    <3> TAKE a \in Axis
    <3>1. a = 1 \/ a = 2 \/ a = 3
      BY GridConstants
    <3>2. At(c, 1) = At(e, 1) /\ At(c, 2) = At(e, 2) /\ At(c, 3) = At(e, 3)
      BY <1>4
    <3> QED
      BY <3>1, <3>2
  <2> QED
    BY <2>1 DEF Cell
<1>5. f \in Injection(Cell, T)
  BY <1>3, <1>4 DEF Injection, IsInjective
<1> HIDE DEF f, T
<1> QED
  BY <1>2, <1>5, FS_Injection

LEMMA VoxelsAreFinite ==
    ASSUME NEW S \in SUBSET Active
    PROVE  IsFiniteSet(S) /\ Cardinality(S) \in Nat /\ \A T \in SUBSET S : Cardinality(T) <= Cardinality(S)
<1>1. IsFiniteSet(S)
  <2>1. S \in SUBSET Cell
    BY DEF Active
  <2> QED
    BY <2>1, CellIsFinite, FS_Subset
<1>2. Cardinality(S) \in Nat
  BY <1>1, FS_CardinalityType
<1>3. ASSUME NEW T \in SUBSET S PROVE Cardinality(T) <= Cardinality(S)
  BY <1>1, FS_Subset
<1> QED
  BY <1>1, <1>2, <1>3

LEMMA SceneFixesComponents ==
    ASSUME UNCHANGED scene
    PROVE  /\ Active' = Active /\ DenseVoxels' = DenseVoxels
           /\ \A c : Component(c)' = Component(c)
           /\ \A S : BorderOf(S)' = BorderOf(S)
<1>1. Active' = Active
  BY DEF Active
<1>2. DenseVoxels' = DenseVoxels
  BY <1>1 DEF DenseVoxels
<1>3. \A c : Component(c)' = Component(c)
  BY <1>2 DEF Component, Smallest
<1>4. \A S : BorderOf(S)' = BorderOf(S)
  BY <1>1 DEF BorderOf
<1> QED
  BY <1>1, <1>2, <1>3, <1>4

LEMMA VisitKeepsGroups ==
    ASSUME Grouped, NEW c \in Active, Visit(Active, c), UNCHANGED scene
    PROVE  Grouped'
<1>1. /\ clusters \in Seq(SUBSET Active) /\ visited \subseteq Active /\ c \notin visited
      /\ \A i \in DOMAIN clusters : clusters[i] \subseteq visited
      /\ Closed
  BY DEF Grouped, Visit, First
<1>2. CASE ~Dense(Active, c)
  <2>1. visited' = visited \cup {c} /\ clusters' = clusters /\ c \notin DenseVoxels
    BY <1>2 DEF Visit, DenseVoxels
  <2>2. Closed'
    BY <1>1, <2>1, SceneFixesComponents DEF Closed
  <2> QED
    BY <1>1, <2>1, <2>2, SceneFixesComponents DEF Grouped, Found
<1>3. CASE Dense(Active, c)
  <2> DEFINE K == ExpandCluster(Active, c, visited)
  <2>1. c \in DenseVoxels
    BY <1>3 DEF DenseVoxels
  <2>2. /\ c \in K /\ K \subseteq Active /\ K \cap visited = {}
        /\ \A e \in K : Dense(Active, e) => Neighbors(Active, e) \ visited \subseteq K
    BY <1>1, ExpandReaches
  <2>3. /\ K \subseteq Component(c) \cup BorderOf(Component(c))
        /\ \A d \in K \cap DenseVoxels : Component(d) \subseteq K
    BY <1>1, <2>1, ClusterIsComponent
  <2>4. /\ visited' = visited \cup K
        /\ clusters' = IF Cardinality(K) >= min_points THEN Append(clusters, K) ELSE clusters
    BY <1>3 DEF Visit
  <2> HIDE DEF K
  <2>5. Closed'
    <3> SUFFICES ASSUME NEW d \in DenseVoxels, d \in visited \cup K
                 PROVE  Neighbors(DenseVoxels, d) \subseteq visited \cup K
      BY <2>4, SceneFixesComponents DEF Closed
    <3>1. CASE d \in visited
      BY <1>1, <3>1 DEF Closed
    <3>2. CASE d \in K
      BY <2>2, <3>2, NeighborsOfDense
    <3> QED
      BY <3>1, <3>2
  <2>6. ASSUME NEW d \in DenseVoxels \cap K
        PROVE  d \in K /\ (Cardinality(K) >= min_points \/ Cardinality(Component(d)) < min_points)
    <3>1. Component(d) \in SUBSET K /\ K \in SUBSET Active
      BY <2>2, <2>3
    <3>2. Cardinality(K) \in Nat /\ Cardinality(Component(d)) <= Cardinality(K)
      BY <3>1, VoxelsAreFinite
    <3>3. Component(d) \in SUBSET Active
      BY <3>1
    <3>4. Cardinality(Component(d)) \in Nat
      BY <3>3, VoxelsAreFinite
    <3> QED
      BY <3>2, <3>4, ClusteringConstants
  <2>7. CASE ~(Cardinality(K) >= min_points)
    <3>1. clusters' = clusters
      BY <2>4, <2>7
    <3>2. \A d \in DenseVoxels \cap visited' : Found(d) \/ Cardinality(Component(d)) < min_points
      BY <2>4, <2>6, <2>7 DEF Grouped
    <3> QED
      BY <1>1, <2>2, <2>4, <2>5, <3>1, <3>2, SceneFixesComponents DEF Grouped, Found
  <2>8. CASE Cardinality(K) >= min_points
    <3> DEFINE n == Len(clusters) + 1
    <3>1. clusters' = Append(clusters, K)
      BY <2>4, <2>8
    <3>2. /\ clusters' \in Seq(SUBSET Active) /\ Len(clusters) \in Nat
          /\ DOMAIN clusters = 1..Len(clusters) /\ DOMAIN clusters' = 1..n
          /\ clusters'[n] = K /\ \A i \in DOMAIN clusters : clusters'[i] = clusters[i]
      BY <1>1, <2>2, <3>1
    <3>3. \A i \in DOMAIN clusters' : i = n \/ (i \in DOMAIN clusters /\ clusters'[i] = clusters[i])
      BY <3>2
    <3> HIDE DEF n
    <3>4. \A i \in DOMAIN clusters' : clusters'[i] \subseteq visited'
      BY <1>1, <2>4, <3>2, <3>3
    <3>5. \A i, j \in DOMAIN clusters' : i # j => clusters'[i] \cap clusters'[j] = {}
      BY <1>1, <2>2, <3>2, <3>3 DEF Grouped
    <3>6. \A i \in DOMAIN clusters' : \E d \in DenseVoxels :
             Component(d) \subseteq clusters'[i] /\ clusters'[i] \subseteq Component(d) \cup BorderOf(Component(d))
      BY <2>1, <2>2, <2>3, <3>2, <3>3 DEF Grouped
    <3>7. \A d \in DenseVoxels \cap visited' : Found(d)' \/ Cardinality(Component(d)) < min_points
      <4> TAKE d \in DenseVoxels \cap visited'
      <4>1. CASE d \in visited
        <5>1. Found(d) => Found(d)'
          BY <3>2, <3>3 DEF Found, n
        <5> QED
          BY <4>1, <5>1 DEF Grouped
      <4>2. CASE d \in K
        <5>1. n \in DOMAIN clusters'
          BY <3>2 DEF n
        <5> QED
          BY <3>2, <4>2, <5>1 DEF Found
      <4> QED
        BY <2>4, <4>1, <4>2
    <3>8. visited' \subseteq Active
      BY <1>1, <2>2, <2>4
    <3> QED
      BY <2>5, <3>2, <3>4, <3>5, <3>6, <3>7, <3>8, SceneFixesComponents DEF Grouped
  <2> QED
    BY <2>7, <2>8
<1> QED
  BY <1>2, <1>3

-----------------------------------------------------------------------------
(* The frame: what the clusters and the map are made from.                 *)

\* Within a frame the clusters are groups of its active voxels, and from the
\* end of find_clusters on all active voxels have been visited.
FrameInv ==
    /\ scene.dyn \in [Cell -> Nat] /\ scene.stat \in [Cell -> Nat] /\ drone \in Vector
    /\ now \in Nat
    /\ ppc \in {"frame", "cluster", "age", "track", "map", "plan", "search", "trace", "done"}
    /\ Grouped
    /\ ppc = "frame" => clusters = <<>> /\ visited = {}
    /\ ppc \notin {"frame", "cluster"} => Active \subseteq visited

\* Steps that leave the frame alone.
LEMMA GroupsKept == ASSUME Grouped, UNCHANGED <<scene, clusters, visited>> PROVE Grouped'
  BY SceneFixesComponents DEF Grouped, Closed, Found

LEMMA NoGroups == ASSUME clusters' = <<>>, visited' = {} PROVE Grouped'
  BY DEF Grouped, Closed, Found

LEMMA FrameInit == PInit => FrameInv
<1> SUFFICES ASSUME PInit PROVE FrameInv
  OBVIOUS
<1>1. Grouped
  BY DEF PInit, ClusteringInit, Grouped, Closed, Found
<1> QED
  BY <1>1 DEF PInit, ClusteringInit, FrameInv, Empty, Origin, Vector

LEMMA FrameStep == FrameInv /\ [PNext]_plannerVars => FrameInv'
<1> SUFFICES ASSUME FrameInv, [PNext]_plannerVars PROVE FrameInv'
  OBVIOUS
<1>1. CASE Frame
  <2>1. clusters' = <<>> /\ visited' = {}
    BY <1>1 DEF Frame, FrameInv, clusteringVars
  <2>2. Grouped'
    BY <2>1, NoGroups
  <2>3. scene' \in Scenes /\ drone' \in Drones /\ now' \in Nat /\ ppc' = "cluster"
    BY <1>1 DEF Frame, FrameInv
  <2> QED
    BY <2>2, <2>3, PlannerConstants DEF FrameInv
<1>2. CASE Cluster
  <2>1. ppc = "cluster" /\ UNCHANGED <<now, scene, drone>>
    BY <1>2 DEF Cluster
  <2>2. CASE (\E c \in Active : Visit(Active, c)) /\ UNCHANGED ppc
    <3>1. Grouped'
      BY <2>1, <2>2, VisitKeepsGroups DEF FrameInv
    <3> QED
      BY <2>1, <2>2, <3>1 DEF FrameInv
  <2>3. CASE Active \subseteq visited /\ ppc' = "age" /\ UNCHANGED <<clusters, visited>>
    <3>1. Grouped' /\ Active' = Active
      BY <2>1, <2>3, GroupsKept, SceneFixesComponents DEF FrameInv
    <3> QED
      BY <2>1, <2>3, <3>1 DEF FrameInv
  <2> QED
    BY <1>2, <2>2, <2>3 DEF Cluster
<1>3. CASE Again
  <2>1. clusters' = <<>> /\ visited' = {} /\ ppc' = "frame" /\ scene' = Empty /\ drone' = Origin /\ now' = now
    BY <1>3 DEF Again
  <2>2. Grouped'
    BY <2>1, NoGroups
  <2> QED
    BY <2>1, <2>2 DEF FrameInv, Empty, Origin, Vector
<1>4. ASSUME ~Frame, ~Cluster, ~Again
      PROVE  FrameInv'
  <2>1. /\ UNCHANGED <<clusters, visited, scene, drone, now>>
        /\ ppc' = ppc \/ (ppc' \in {"track", "map", "plan", "search", "trace", "done"} /\ ppc \notin {"frame", "cluster"})
    BY <1>4 DEF PNext, plannerVars, clusteringVars, Idle, Age, Track, Map, Plan, SearchStep, GiveUp, Trace
  <2>2. Grouped' /\ Active' = Active
    BY <2>1, GroupsKept, SceneFixesComponents DEF FrameInv
  <2> QED
    BY <2>1, <2>2 DEF FrameInv
<1> QED
  BY <1>1, <1>2, <1>3, <1>4

LEMMA FrameAlways == PSpec => []FrameInv
  BY FrameInit, FrameStep, PTL DEF PSpec

\* Whatever order the voxels are visited in, clusters are the components of
\* the dense voxels with part of their border (clustering.hpp:202-231).
THEOREM ClustersAreComponents == PSpec => []ComponentsAreClusters
<1>1. FrameInv => ComponentsAreClusters
  <2> SUFFICES ASSUME FrameInv, ppc = "age" PROVE ComponentsAreClusters
    BY DEF ComponentsAreClusters
  <2>1. Grouped /\ DenseVoxels \subseteq visited
    BY NeighborsOfDense DEF FrameInv
  <2> QED
    BY <2>1 DEF ComponentsAreClusters, Grouped, Found
<1> QED
  BY <1>1, FrameAlways, PTL

\* Clusters are sets of voxels with something in them.
LEMMA ClustersHoldVoxels ==
    ASSUME FrameInv
    PROVE  /\ clusters \in Seq(SUBSET Cell)
           /\ \A i \in DOMAIN clusters : clusters[i] \in SUBSET Active /\ clusters[i] \in SUBSET Cell /\ clusters[i] # {}
<1>1. clusters \in Seq(SUBSET Active) /\ Active \subseteq Cell
  BY DEF FrameInv, Grouped, Active
<1>2. ASSUME NEW i \in DOMAIN clusters PROVE clusters[i] # {}
  <2>1. PICK c \in DenseVoxels : Component(c) \subseteq clusters[i]
    BY DEF FrameInv, Grouped
  <2> QED
    BY <2>1, ComponentReaches
<1> QED
  BY <1>1, <1>2

-----------------------------------------------------------------------------
(* Numbers of the map.                                                     *)

\* A sum of numbers is a number, and of natural numbers a natural number: the
\* sums over the subsets exist, by the number of their elements.
LEMMA SumIsNumber ==
    ASSUME NEW T, T = Nat \/ T = Int, NEW S, IsFiniteSet(S), NEW f \in [S -> T]
    PROVE  SumOver(f, S) \in T
<1> DEFINE One(s) == CHOOSE x \in s : TRUE
           Turn(h, s) == IF s = {} THEN 0 ELSE f[One(s)] + h[s \ {One(s)}]
           Upto(n) == {s \in SUBSET S : Cardinality(s) <= n}
           Sums(h, n) == h = [s \in Upto(n) |-> Turn(h, s)]
           Missing == {n \in Nat : ~\E h : Sums(h, n)}
<1>1. ASSUME NEW s \in SUBSET S
      PROVE  /\ IsFiniteSet(s) /\ Cardinality(s) \in Nat /\ (Cardinality(s) = 0 <=> s = {})
             /\ s # {} => /\ One(s) \in s /\ s \ {One(s)} \in SUBSET S
                          /\ Cardinality(s \ {One(s)}) = Cardinality(s) - 1
  <2>1. IsFiniteSet(s)
    BY FS_Subset
  <2>2. Cardinality(s) \in Nat /\ (Cardinality(s) = 0 <=> s = {})
    BY <2>1, FS_CardinalityType, FS_EmptySet
  <2>3. ASSUME s # {} PROVE One(s) \in s
    BY <2>3
  <2>4. ASSUME s # {} PROVE Cardinality(s \ {One(s)}) = Cardinality(s) - 1
    BY <2>1, <2>3, <2>4, FS_RemoveElement
  <2> QED
    BY <2>1, <2>2, <2>3, <2>4
<1> HIDE DEF One
<1>2. 0 \notin Missing
  <2> DEFINE h0 == [s \in Upto(0) |-> 0]
  <2>1. ASSUME NEW s \in Upto(0) PROVE s = {}
    <3>1. s \in SUBSET S /\ Cardinality(s) <= 0
      OBVIOUS
    <3>2. Cardinality(s) \in Nat /\ (Cardinality(s) = 0 <=> s = {})
      BY <1>1, <3>1
    <3> QED
      BY <3>1, <3>2
  <2>2. Sums(h0, 0)
    BY <2>1
  <2> QED
    BY <2>2
<1>3. ASSUME NEW n \in Nat, n \notin Missing PROVE n + 1 \notin Missing
  <2>1. PICK h : Sums(h, n)
    BY <1>3
  <2> DEFINE k == [s \in Upto(n + 1) |-> Turn(h, s)]
  <2>2. \A s \in Upto(n) : h[s] = Turn(h, s)
    BY <2>1
  <2>3. ASSUME NEW s \in Upto(n) PROVE s \in Upto(n + 1) /\ k[s] = h[s]
    <3>1. s \in SUBSET S /\ Cardinality(s) \in Nat /\ Cardinality(s) <= n
      BY <1>1
    <3>2. s \in Upto(n + 1)
      BY <3>1
    <3> QED
      BY <2>2, <3>2
  <2>4. \A s \in Upto(n + 1) : s # {} => s \ {One(s)} \in Upto(n)
    BY <1>1
  <2>5. \A s \in Upto(n + 1) : Turn(h, s) = Turn(k, s)
    BY <2>3, <2>4
  <2>6. Sums(k, n + 1)
    BY <2>5
  <2> HIDE DEF k
  <2> QED
    BY <2>6
<1>4. Missing = {}
  <2> HIDE DEF Sums
  <2> SUFFICES ASSUME Missing # {} PROVE FALSE
    OBVIOUS
  <2>0. Missing \subseteq Nat
    OBVIOUS
  <2>1. PICK m \in Missing : \A n \in Missing : m <= n
    BY <2>0, LeastOf
  <2>2. m \in Nat /\ m # 0
    BY <1>2
  <2>3. m - 1 \in Nat /\ m - 1 \notin Missing /\ (m - 1) + 1 = m
    BY <2>1, <2>2
  <2> HIDE DEF Missing
  <2> QED
    BY <1>3, <2>3
<1>5. \E h : h = [s \in SUBSET S |-> Turn(h, s)]
  <2>1. Upto(Cardinality(S)) = SUBSET S /\ Cardinality(S) \in Nat
    BY FS_Subset, FS_CardinalityType
  <2>2. \E h : Sums(h, Cardinality(S))
    <3> HIDE DEF Sums
    <3> QED
      BY <1>4, <2>1
  <2> QED
    BY <2>1, <2>2
<1> DEFINE iter == CHOOSE h : h = [s \in SUBSET S |-> Turn(h, s)]
<1>6. iter = [s \in SUBSET S |-> Turn(iter, s)]
  BY <1>5
<1>7. SumOver(f, S) = iter[S]
  BY DEF SumOver, MapThenSumSet, MapThenFoldSet, One
<1> HIDE DEF iter
<1>8. \A s \in SUBSET S : iter[s] = Turn(iter, s)
  BY <1>6
<1> DEFINE Wrong == {n \in Nat : \E s \in SUBSET S : Cardinality(s) = n /\ iter[s] \notin T}
<1>9. Wrong = {}
  <2> SUFFICES ASSUME Wrong # {} PROVE FALSE
    OBVIOUS
  <2>0. Wrong \subseteq Nat
    OBVIOUS
  <2>1. PICK m \in Wrong : \A n \in Wrong : m <= n
    BY <2>0, LeastOf
  <2>2. PICK s \in SUBSET S : Cardinality(s) = m /\ iter[s] \notin T
    OBVIOUS
  <2>3. s # {}
    BY <1>8, <2>2
  <2>4. /\ One(s) \in S /\ s \ {One(s)} \in SUBSET S
        /\ Cardinality(s \ {One(s)}) = m - 1 /\ m - 1 \in Nat
    <3>1. m \in Nat /\ (m = 0 <=> s = {}) /\ One(s) \in s /\ Cardinality(s \ {One(s)}) = m - 1
      BY <1>1, <2>2, <2>3
    <3> QED
      BY <2>2, <2>3, <3>1
  <2>5. iter[s \ {One(s)}] \in T
    BY <2>1, <2>4
  <2>6. iter[s] = f[One(s)] + iter[s \ {One(s)}] /\ f[One(s)] \in T
    BY <1>8, <2>3, <2>4
  <2> QED
    BY <2>2, <2>5, <2>6
<1>10. iter[S] \in T
  <2>1. Cardinality(S) \in Nat /\ S \in SUBSET S
    BY FS_CardinalityType
  <2> QED
    BY <1>9, <2>1
<1> QED
  BY <1>7, <1>10

\* A bounded set of natural numbers has a largest element.
LEMMA MaxInside ==
    ASSUME NEW k \in Nat, NEW S \in SUBSET (0..k), S # {}
    PROVE  Max(S) \in S
<1> DEFINE T == {k - x : x \in S}
<1>1. T \subseteq Nat /\ T # {}
  OBVIOUS
<1>2. PICK m \in T : \A n \in T : m <= n
  BY <1>1, LeastOf
<1>3. PICK x \in S : m = k - x
  OBVIOUS
<1>4. ASSUME NEW y \in S PROVE x >= y
  <2>1. k - y \in T /\ x \in 0..k /\ y \in 0..k
    OBVIOUS
  <2>2. k - x <= k - y
    BY <1>2, <1>3, <2>1
  <2> QED
    BY <2>1, <2>2
<1>5. \E z \in S : \A y \in S : z >= y
  BY <1>4
<1> QED
  BY <1>5 DEF Max

LEMMA CornerIsVector ==
    ASSUME NEW o \in Vector, NEW c \in Cell
    PROVE  Corner(o, c) \in Vector
<1>1. Half \in Int /\ V \in Nat
  BY GridConstants DEF Half
<1>2. \A a \in Axis : o[a] \in Int /\ c[a] \in Int
  BY GridConstants DEF Vector, Cell
<1>3. \A a \in Axis : GridMin(o)[a] \in Int
  <2> TAKE a \in Axis
  <2>1. GridMin(o)[a] = o[a] - Half /\ o[a] \in Int
    BY <1>2 DEF GridMin
  <2> QED
    BY <1>1, <2>1
<1>4. \A a \in Axis : GridMin(o)[a] + V * c[a] \in Int
  <2> TAKE a \in Axis
  <2>1. GridMin(o)[a] \in Int /\ c[a] \in Int
    BY <1>2, <1>3
  <2>2. V * c[a] \in Int
    BY <1>1, <2>1
  <2> QED
    BY <2>1, <2>2
<1> QED
  BY <1>4 DEF Corner, Vector

LEMMA CentroidIsVector ==
    ASSUME NEW o \in Vector, NEW K \in SUBSET Cell, K # {}
    PROVE  Centroid(o, K) \in Vector /\ Cardinality(K) \in Nat \ {0}
<1>1. IsFiniteSet(K)
  BY CellIsFinite, FS_Subset
<1>2. Cardinality(K) \in Nat \ {0}
  BY <1>1, FS_CardinalityType, FS_EmptySet
<1>3. ASSUME NEW a \in Axis
      PROVE  (Fine * SumOver([c \in K |-> Corner(o, c)[a]], K)) \div Cardinality(K) \in Int
  <2> DEFINE f == [c \in K |-> Corner(o, c)[a]]
             sum == SumOver(f, K)
  <2>1. f \in [K -> Int]
    BY CornerIsVector DEF Vector
  <2> HIDE DEF f
  <2>2. sum \in Int
    BY <1>1, <2>1, SumIsNumber
  <2> HIDE DEF sum
  <2>3. Fine * sum \in Int
    BY <2>2, ClusteringConstants
  <2>4. (Fine * sum) \div Cardinality(K) \in Int
    BY <1>2, <2>3
  <2> QED
    BY <2>4 DEF f, sum
<1> QED
  BY <1>2, <1>3 DEF Centroid, Vector

LEMMA LargestIsCost ==
    ASSUME NEW S \in SUBSET Nat
    PROVE  Largest(S) \in 0..10
<1> DEFINE W == {0} \cup {IF v > 10 THEN 10 ELSE v : v \in S}
<1>1. W \in SUBSET (0..10) /\ W # {}
  OBVIOUS
<1>2. Largest(S) = Max(W)
  BY DEF Largest
<1> HIDE DEF W
<1> QED
  BY <1>1, <1>2, MaxInside

LEMMA MarginCostIsCost == \A p, q : MarginCost(p, q) \in Nat
<1> TAKE p, q
<1> DEFINE S == {t \in 0..5 : t = 0 \/ Squared(5 * Margin - t * Margin) >=
                                  25 * (Squared(q[1] - p[1]) + Squared(q[2] - p[2]))}
<1>1. S \in SUBSET (0..5) /\ 0 \in S
  OBVIOUS
<1>2. MarginCost(p, q) = Max(S)
  BY DEF MarginCost
<1> HIDE DEF S
<1>3. Max(S) \in S
  BY <1>1, MaxInside
<1>4. Max(S) \in 0..5
  BY <1>1, <1>3
<1>5. Max(S) \in Nat
  BY <1>4
<1> QED
  BY <1>2, <1>5

\* The generated map is a map: what it blocks are places and costs are in
\* tenths.
LEMMA CostmapIsMap ==
    ASSUME NEW dyn \in [Cell -> Nat], NEW stat \in [Cell -> Nat], NEW o, NEW at, NEW found,
           \A i \in DOMAIN found : found[i] \in SUBSET Cell /\ found[i] # {}
    PROVE  LET map == GenerateCostmap(dyn, stat, o, at, found)
           IN  map.occupied \subseteq Place /\ map.costs \in [Place -> 0..10]
<1> DEFINE hits(p) == {VoxelCost(dyn, stat, c) : c \in {c \in Projected(o, at) : PlaceOf(o, at, c) = p}}
           center(i) == WorldToGrid(Centroid(o, found[i]), at)
           inside == {i \in DOMAIN found : center(i) \in Place}
           average(i) == (10 * SumOver([c \in found[i] |-> dyn[c]], found[i])) \div Cardinality(found[i])
           marked == {p \in Place : \E v \in hits(p) : v > 5}
                     \cup UNION {Disc(center(i), ClusterRadius(found[i])) : i \in inside}
           values(p) == hits(p) \cup {average(i) : i \in {i \in inside : center(i) = p}}
                        \cup {MarginCost(q, p) : q \in {q \in marked : p \in Disc(q, Margin)}}
<1>1. ASSUME NEW i \in inside PROVE average(i) \in Nat
  <2> DEFINE K == found[i]
             f == [c \in K |-> dyn[c]]
             sum == SumOver(f, K)
  <2>1. K \in SUBSET Cell /\ K # {} /\ f \in [K -> Nat]
    OBVIOUS
  <2>2. IsFiniteSet(K)
    BY <2>1, CellIsFinite, FS_Subset
  <2>3. Cardinality(K) \in Nat \ {0}
    BY <2>1, <2>2, FS_CardinalityType, FS_EmptySet
  <2> HIDE DEF f
  <2>4. sum \in Nat
    BY <2>1, <2>2, SumIsNumber
  <2> HIDE DEF sum
  <2>5. (10 * sum) \div Cardinality(K) \in Nat
    BY <2>3, <2>4
  <2> QED
    BY <2>5 DEF f, sum
<1>2. \A p : hits(p) \subseteq Nat
  BY DEF VoxelCost, Projected
<1> HIDE DEF average, hits, center, marked, inside
<1>3. \A p : values(p) \subseteq Nat
  BY <1>1, <1>2, MarginCostIsCost
<1> HIDE DEF values
<1>4. \A p \in Place : Largest(values(p)) \in 0..10
  BY <1>3, LargestIsCost
<1>5. GenerateCostmap(dyn, stat, o, at, found) =
         [occupied |-> UNION {Disc(p, Margin) : p \in marked},
          costs    |-> [p \in Place |-> Largest(values(p))]]
  BY DEF GenerateCostmap, average, hits, center, marked, inside, values
<1>6. \A p : Disc(p, Margin) \subseteq Place
  BY DEF Disc
<1> QED
  BY <1>4, <1>5, <1>6

LEMMA Quotient ==
    ASSUME NEW x \in Int, NEW n \in Nat \ {0}
    PROVE  x \div n \in Int /\ n * (x \div n) \in Int
           /\ n * (x \div n) <= x /\ x < n * (x \div n) + n
<1>1. x = n * (x \div n) + (x % n) /\ x % n \in 0..n - 1 /\ x \div n \in Int
  OBVIOUS
<1> QED
  BY <1>1

LEMMA CancelFactor ==
    ASSUME NEW n \in Nat \ {0}, NEW x \in Int, NEW y \in Int, n * x < n * y
    PROVE  x < y
<1> SUFFICES ASSUME x >= y PROVE FALSE
  OBVIOUS
<1>1. x - y \in Nat /\ n * (x - y) \in Nat
  OBVIOUS
<1>2. n * (x - y) = n * x - n * y /\ n * x \in Int /\ n * y \in Int
  OBVIOUS
<1> QED
  BY <1>1, <1>2

LEMMA IsQuotient ==
    ASSUME NEW x \in Int, NEW n \in Nat \ {0}, NEW q \in Int, n * q <= x, x < n * q + n
    PROVE  x \div n = q
<1> DEFINE r == x \div n
<1>1. r \in Int /\ n * r \in Int /\ n * r <= x /\ x < n * r + n /\ n * q \in Int
  BY Quotient
<1> HIDE DEF r
<1>2. n * r < n * (q + 1) /\ n * q < n * (r + 1)
  <2>1. n * (q + 1) = n * q + n /\ n * (r + 1) = n * r + n
    BY <1>1
  <2> QED
    BY <1>1, <2>1
<1>3. r < q + 1 /\ q < r + 1
  <2>1. q + 1 \in Int /\ r + 1 \in Int
    BY <1>1
  <2> QED
    BY <1>1, <1>2, <2>1, CancelFactor
<1> QED
  BY <1>1, <1>3 DEF r

\* Lengths in 1/Fine of the unit have the places of lengths in the unit.
LEMMA FineQuotient ==
    ASSUME NEW x \in Int
    PROVE  (Fine * x) \div (Fine * Resolution) = x \div Resolution
<1> DEFINE q == x \div Resolution
<1>1. Fine \in Nat \ {0} /\ Resolution \in Nat \ {0}
  BY ClusteringConstants, CostmapConstants
<1>2. q \in Int /\ Resolution * q \in Int /\ Resolution * q <= x /\ x < Resolution * q + Resolution
  BY <1>1, Quotient
<1> HIDE DEF q
<1> DEFINE n == Fine * Resolution
<1>3. n \in Nat \ {0} /\ Fine * x \in Int
  BY <1>1
<1>4. n * q = Fine * (Resolution * q) /\ n * q + n = Fine * (Resolution * q + Resolution)
  BY <1>1, <1>2
<1>5. Fine * (Resolution * q) <= Fine * x
  <2>1. x - Resolution * q \in Nat
    BY <1>2
  <2>2. Fine * (x - Resolution * q) \in Nat
    BY <1>1, <2>1
  <2>3. Fine * (x - Resolution * q) = Fine * x - Fine * (Resolution * q) /\ Fine * (Resolution * q) \in Int
    BY <1>1, <1>2
  <2> QED
    BY <1>3, <2>2, <2>3
<1>6. Fine * x < Fine * (Resolution * q + Resolution)
  <2> DEFINE e == Resolution * q + Resolution - x
  <2>1. e \in Nat \ {0}
    BY <1>1, <1>2
  <2>2. Fine * e \in Nat \ {0}
    BY <1>1, <2>1
  <2>3. Resolution * q + Resolution = x + e
    BY <1>1, <1>2
  <2> HIDE DEF e
  <2>4. Fine * (x + e) = Fine * x + Fine * e
    BY <1>1, <2>1
  <2> QED
    BY <1>3, <2>2, <2>3, <2>4
<1> HIDE DEF n
<1>7. n * q <= Fine * x /\ Fine * x < n * q + n
  BY <1>4, <1>5, <1>6
<1>8. (Fine * x) \div n = q
  BY <1>2, <1>3, <1>7, IsQuotient
<1> QED
  BY <1>8 DEF n, q

\* Places a distance apart that is shorter than a voxel.
LEMMA QuotientReach ==
    ASSUME NEW x \in Int, NEW d \in 0..V - 1
    PROVE  (x + d) \div Resolution - x \div Resolution \in 0..Reach /\ x \div Resolution \in Int
           /\ (x + d) \div Resolution \in Int /\ Reach \in Int
<1> DEFINE R == Resolution
           q == x \div R
           p == (x + d) \div R
           k == (V + R - 2) \div R
<1>1. R \in Nat \ {0} /\ V \in Nat \ {0} /\ d \in Int /\ 0 <= d /\ d <= V - 1
  BY CostmapConstants, GridConstants
<1>2. q \in Int /\ R * q \in Int /\ R * q <= x /\ x < R * q + R
  BY <1>1, Quotient
<1>3. p \in Int /\ R * p \in Int /\ R * p <= x + d /\ x + d < R * p + R
  BY <1>1, Quotient
<1>4. k \in Int /\ R * k \in Int /\ R * k <= V + R - 2 /\ V + R - 2 < R * k + R
  <2>1. V + R - 2 \in Int
    BY <1>1
  <2> QED
    BY <1>1, <2>1, Quotient
<1> HIDE DEF q, p, k, R
<1>5. R * p < R * (q + k + 1)
  <2>1. R * (q + k + 1) = R * q + R * k + R
    BY <1>1, <1>2, <1>4
  <2> QED
    BY <1>1, <1>2, <1>3, <1>4, <2>1
<1>6. R * q < R * (p + 1)
  <2>1. R * (p + 1) = R * p + R
    BY <1>1, <1>3
  <2> QED
    BY <1>1, <1>2, <1>3, <2>1
<1>7. p < q + k + 1 /\ q < p + 1
  <2>1. q + k + 1 \in Int /\ p + 1 \in Int
    BY <1>2, <1>3, <1>4
  <2> QED
    BY <1>1, <1>2, <1>3, <1>5, <1>6, <2>1, CancelFactor
<1>8. p - q \in 0..k
  BY <1>2, <1>3, <1>4, <1>7
<1> QED
  BY <1>2, <1>3, <1>4, <1>8 DEF q, p, k, R, Reach

\* Two quotients are no more than that of the sum.
LEMMA QuotientSum ==
    ASSUME NEW x \in Nat, NEW y \in Nat
    PROVE  x \div Resolution + y \div Resolution <= (x + y) \div Resolution
           /\ x \div Resolution \in Nat /\ y \div Resolution \in Nat
<1> DEFINE R == Resolution
           q == x \div R
           p == y \div R
           s == (x + y) \div R
<1>1. R \in Nat \ {0} /\ q \in Nat /\ p \in Nat
  BY CostmapConstants
<1>2. R * q \in Int /\ R * q <= x /\ R * p \in Int /\ R * p <= y
  BY <1>1, Quotient
<1>3. s \in Int /\ R * s \in Int /\ x + y < R * s + R
  BY <1>1, Quotient
<1> HIDE DEF q, p, s, R
<1>4. R * (q + p) < R * (s + 1)
  <2>1. R * (q + p) = R * q + R * p /\ R * (s + 1) = R * s + R
    BY <1>1, <1>3
  <2> QED
    BY <1>1, <1>2, <1>3, <2>1
<1>5. q + p < s + 1
  <2>1. q + p \in Int /\ s + 1 \in Int
    BY <1>1, <1>3
  <2> QED
    BY <1>1, <1>4, <2>1, CancelFactor
<1>6. q + p <= s
  BY <1>1, <1>3, <1>5
<1> QED
  BY <1>1, <1>6 DEF q, p, s, R

\* Rounding toward zero keeps two points less than a voxel apart within reach.
LEMMA TruncateReach ==
    ASSUME NEW x \in Int, NEW d \in 0..V - 1
    PROVE  /\ Truncate(Fine * x, Fine * Resolution) \in Int
           /\ Truncate(Fine * (x + d), Fine * Resolution) \in Int
           /\ Truncate(Fine * (x + d), Fine * Resolution) - Truncate(Fine * x, Fine * Resolution) \in 0..Reach
<1> DEFINE R == Resolution
           T(y) == IF y < 0 THEN -((-y) \div R) ELSE y \div R
<1>1. ASSUME NEW y \in Int PROVE Truncate(Fine * y, Fine * Resolution) = T(y)
  <2>1. Fine * y < 0 <=> y < 0
    <3>1. Fine \in Nat \ {0}
      BY ClusteringConstants
    <3>2. CASE y < 0
      BY <3>1, <3>2
    <3>3. CASE y >= 0
      <4>1. Fine * y \in Nat
        BY <3>1, <3>3
      <4> QED
        BY <3>3, <4>1
    <3> QED
      BY <3>2, <3>3
  <2>2. -(Fine * y) = Fine * (-y) /\ -y \in Int
    BY ClusteringConstants
  <2> QED
    BY <2>1, <2>2, FineQuotient DEF Truncate
<1>2. d \in Nat /\ x + d \in Int /\ Resolution \in Nat \ {0}
  BY GridConstants, CostmapConstants
<1>3. T(x) \in Int /\ T(x + d) \in Int /\ T(x + d) - T(x) \in 0..Reach
  <2>1. CASE x >= 0
    <3>1. T(x) = x \div R /\ T(x + d) = (x + d) \div R
      BY <1>2, <2>1
    <3> QED
      BY <3>1, QuotientReach
  <2>2. CASE x + d < 0
    <3> DEFINE u == -(x + d)
    <3>1. u \in Int /\ -x = u + d /\ x < 0
      BY <1>2, <2>2
    <3> HIDE DEF u
    <3>2. /\ (u + d) \div R - u \div R \in 0..Reach /\ u \div R \in Int
          /\ (u + d) \div R \in Int /\ Reach \in Int
      BY <3>1, QuotientReach
    <3>3. T(x) = -((u + d) \div R) /\ T(x + d) = -(u \div R)
      BY <2>2, <3>1 DEF u
    <3> QED
      BY <3>2, <3>3
  <2>3. CASE x < 0 /\ x + d >= 0
    <3> DEFINE u == -x
               w == x + d
    <3>1. u \in Nat /\ w \in Nat /\ u + w = d
      BY <1>2, <2>3
    <3>2. T(x) = -(u \div R) /\ T(x + d) = w \div R
      BY <2>3
    <3> HIDE DEF u, w
    <3>3. u \div R + w \div R <= d \div R /\ u \div R \in Nat /\ w \div R \in Nat
      BY <3>1, QuotientSum
    <3>4. /\ d \div R - 0 \div R \in 0..Reach /\ d \div R \in Int /\ Reach \in Int /\ 0 \div R = 0
      <4>1. 0 + d = d /\ 0 \in Int
        BY <1>2
      <4>2. 0 \div R = 0
        BY <1>2
      <4> QED
        BY <4>1, <4>2, QuotientReach
    <3> QED
      BY <3>2, <3>3, <3>4
  <2> QED
    BY <1>2, <2>1, <2>2, <2>3
<1> HIDE DEF T
<1> QED
  BY <1>1, <1>2, <1>3

LEMMA SquareGrows == ASSUME NEW k \in Nat, NEW e \in 0..k PROVE e * e <= k * k /\ e * e \in Nat
<1>1. k - e \in Nat /\ k + e \in Nat /\ e \in Nat
  OBVIOUS
<1>2. (k - e) * (k + e) \in Nat /\ (k - e) * (k + e) = k * k - e * e /\ k * k \in Nat /\ e * e \in Nat
  BY <1>1
<1> QED
  BY <1>2

\* The place of a point over a voxel is within the margin of its corner's.
LEMMA FootprintInMargin ==
    ASSUME drone \in Vector, NEW c \in Cell, NEW dx \in 0..V - 1, NEW dy \in 0..V - 1,
           NEW p, p = PlaceAt([Corner(Origin, c) EXCEPT ![1] = @ + dx, ![2] = @ + dy]), p \in Place
    PROVE  p \in Disc(PlaceOf(Origin, drone, c), Margin)
<1> DEFINE z == Corner(Origin, c)
           m == MapOrigin(drone)
           q == PlaceOf(Origin, drone, c)
           x == z[1] - m[1]
           y == z[2] - m[2]
           R == Fine * Resolution
<1>1. Origin \in Vector /\ {1, 2} \subseteq Axis
  BY CostmapConstants DEF Origin, Vector
<1>2. z \in Vector /\ z[1] \in Int /\ z[2] \in Int
  BY <1>1, CornerIsVector DEF Vector
<1>3. m[1] \in Int /\ m[2] \in Int
  BY <1>1, CostmapConstants DEF MapOrigin, Vector
<1> HIDE DEF z, m
<1>4. x \in Int /\ y \in Int /\ Fine \in Nat \ {0}
  BY <1>2, <1>3, ClusteringConstants
<1>5. q = <<Truncate(Fine * x, R), Truncate(Fine * y, R)>>
  <2>1. Fine * z[1] - Fine * m[1] = Fine * x /\ Fine * z[2] - Fine * m[2] = Fine * y
    BY <1>2, <1>3, <1>4
  <2> QED
    BY <1>1, <2>1 DEF PlaceOf, WorldToGrid, z, m
<1>6. p = <<Truncate(Fine * (x + dx), R), Truncate(Fine * (y + dy), R)>>
  <2> DEFINE w == [z EXCEPT ![1] = @ + dx, ![2] = @ + dy]
  <2>1. w[1] = z[1] + dx /\ w[2] = z[2] + dy
    BY <1>1, <1>2 DEF Vector
  <2>2. dx \in Int /\ dy \in Int
    BY GridConstants
  <2>3. p = PlaceAt(w)
    BY DEF z
  <2> HIDE DEF w
  <2>4. Fine * w[1] - Fine * m[1] = Fine * (x + dx) /\ Fine * w[2] - Fine * m[2] = Fine * (y + dy)
    BY <1>2, <1>3, <1>4, <2>1, <2>2
  <2> QED
    BY <1>1, <2>3, <2>4 DEF PlaceAt, WorldToGrid, m
<1> HIDE DEF x, y, q
<1>7. /\ q[1] \in Int /\ q[2] \in Int /\ p[1] \in Int /\ p[2] \in Int
      /\ p[1] - q[1] \in 0..Reach /\ p[2] - q[2] \in 0..Reach
  <2>1. /\ q[1] = Truncate(Fine * x, R) /\ q[2] = Truncate(Fine * y, R)
        /\ p[1] = Truncate(Fine * (x + dx), R) /\ p[2] = Truncate(Fine * (y + dy), R)
    BY <1>5, <1>6
  <2>2. /\ Truncate(Fine * x, R) \in Int /\ Truncate(Fine * (x + dx), R) \in Int
        /\ Truncate(Fine * (x + dx), R) - Truncate(Fine * x, R) \in 0..Reach
    BY <1>4, TruncateReach
  <2>3. /\ Truncate(Fine * y, R) \in Int /\ Truncate(Fine * (y + dy), R) \in Int
        /\ Truncate(Fine * (y + dy), R) - Truncate(Fine * y, R) \in 0..Reach
    BY <1>4, TruncateReach
  <2> HIDE DEF R
  <2> QED
    BY <2>1, <2>2, <2>3
<1>8. Squared(p[1] - q[1]) + Squared(p[2] - q[2]) <= Squared(Margin)
  <2> DEFINE d == p[1] - q[1]
             e == p[2] - q[2]
  <2>1. Reach \in Nat /\ d \in 0..Reach /\ e \in 0..Reach /\ Margin * Margin \in Int
    <3>1. Reach \in Nat /\ Margin \in Nat
      BY GridConstants, CostmapConstants DEF Reach, Margin
    <3> QED
      BY <1>7, <3>1
  <2> HIDE DEF d, e
  <2>2. d * d <= Reach * Reach /\ e * e <= Reach * Reach /\ d * d \in Nat /\ e * e \in Nat
        /\ Reach * Reach \in Nat
    BY <2>1, SquareGrows
  <2>3. 2 * (Reach * Reach) <= Margin * Margin
    BY MarginCoversVoxel DEF Squared
  <2>4. d * d + e * e <= Margin * Margin
    BY <2>1, <2>2, <2>3
  <2> QED
    BY <2>4 DEF Squared, d, e
<1> QED
  BY <1>8 DEF Disc, q

\* What the generated map blocks.
LEMMA MapBlocksFootprints ==
    ASSUME drone \in Vector,
           occupied = GenerateCostmap(scene.dyn, scene.stat, Origin, drone, clusters).occupied
    PROVE  \A c \in Projected(Origin, drone) : VoxelCost(scene.dyn, scene.stat, c) > 5 =>
               \A dx, dy \in 0..V - 1 :
                   LET corner == Corner(Origin, c)
                       p == PlaceAt([corner EXCEPT ![1] = @ + dx, ![2] = @ + dy])
                   IN  PlaceOf(Origin, drone, c) \in Place /\ p \in Place => p \in occupied
<1> SUFFICES ASSUME NEW c \in Projected(Origin, drone), VoxelCost(scene.dyn, scene.stat, c) > 5,
                    NEW dx \in 0..V - 1, NEW dy \in 0..V - 1,
                    NEW p, p = PlaceAt([Corner(Origin, c) EXCEPT ![1] = @ + dx, ![2] = @ + dy]),
                    PlaceOf(Origin, drone, c) \in Place, p \in Place
             PROVE  p \in occupied
  OBVIOUS
<1> DEFINE q == PlaceOf(Origin, drone, c)
<1>1. c \in Cell
  BY DEF Projected
<1>2. p \in Disc(q, Margin)
  BY <1>1, FootprintInMargin
<1> HIDE DEF q
<1>3. Disc(q, Margin) \subseteq occupied
  BY DEF GenerateCostmap, q
<1> QED
  BY <1>2, <1>3

-----------------------------------------------------------------------------
(* The map.                                                                *)

\* The map stays that of the frame until the caller drops it.
MapInv ==
    /\ occupied \in SUBSET Place /\ costs \in [Place -> 0..10]
    /\ ppc \in {"plan", "search", "trace", "done"} =>
          occupied = GenerateCostmap(scene.dyn, scene.stat, Origin, drone, clusters).occupied

LEMMA MapInit == PInit => MapInv
  BY DEF PInit, MapInv

LEMMA MapStep == FrameInv /\ MapInv /\ [PNext]_plannerVars => MapInv'
<1> SUFFICES ASSUME FrameInv, MapInv, [PNext]_plannerVars PROVE MapInv'
  OBVIOUS
<1>1. CASE Map
  <2> DEFINE map == GenerateCostmap(scene.dyn, scene.stat, Origin, drone, clusters)
  <2>1. occupied' = map.occupied /\ costs' = map.costs /\ UNCHANGED <<scene, drone, clusters>>
    BY <1>1 DEF Map, clusteringVars
  <2>2. map.occupied \subseteq Place /\ map.costs \in [Place -> 0..10]
    <3>1. scene.dyn \in [Cell -> Nat] /\ scene.stat \in [Cell -> Nat]
      BY DEF FrameInv
    <3>2. \A i \in DOMAIN clusters : clusters[i] \in SUBSET Cell /\ clusters[i] # {}
      BY ClustersHoldVoxels
    <3> QED
      BY <3>1, <3>2, CostmapIsMap
  <2> HIDE DEF map
  <2>3. occupied' = map'.occupied
    BY <2>1 DEF map
  <2> QED
    BY <2>1, <2>2, <2>3 DEF MapInv, map
<1>2. CASE Again
  BY <1>2 DEF Again, MapInv
<1>3. CASE Frame \/ Cluster \/ Age \/ Track
  BY <1>3 DEF MapInv, Frame, Cluster, Age, Track, mapVars
<1>4. CASE Plan \/ SearchStep \/ GiveUp \/ Trace \/ Idle \/ UNCHANGED plannerVars
  <2>1. /\ UNCHANGED <<occupied, costs, scene, drone, clusters>>
        /\ ppc' \in {"plan", "search", "trace", "done"} => ppc \in {"plan", "search", "trace", "done"}
    BY <1>4 DEF Plan, Begin, SearchStep, TakeTop, Take, Exhausted, GiveUp, Trace, Idle, plannerVars, mapVars, clusteringVars
  <2> QED
    BY <2>1 DEF MapInv
<1> QED
  BY <1>1, <1>2, <1>3, <1>4 DEF PNext

LEMMA MapAlways == PSpec => []MapInv
  BY FrameAlways, MapInit, MapStep, PTL DEF PSpec

\* Every place over a voxel that counts as an obstacle is blocked, for every
\* grid, map and drone (navigation.hpp:180-196, 256-292).
THEOREM ObstaclesAreBlocked == PSpec => []FootprintsBlocked
<1>1. FrameInv /\ MapInv => FootprintsBlocked
  BY MapBlocksFootprints DEF FrameInv, MapInv, FootprintsBlocked
<1> QED
  BY <1>1, FrameAlways, MapAlways, PTL

-----------------------------------------------------------------------------
(* The search on the generated map.                                        *)

LEMMA ClampedIsPlace == ASSUME drone \in Vector, NEW p \in Vector PROVE Clamped(PlaceAt(p)) \in Place
<1> DEFINE index(a) == Truncate(Fine * p[a] - Fine * MapOrigin(drone)[a], Fine * Resolution)
<1>1. ASSUME NEW a \in {1, 2} PROVE index(a) \in Int
  <2>1. a \in Axis /\ p[a] \in Int /\ MapOrigin(drone)[a] \in Int
    BY CostmapConstants DEF Vector, MapOrigin
  <2> DEFINE x == Fine * p[a] - Fine * MapOrigin(drone)[a]
             n == Fine * Resolution
  <2>2. x \in Int /\ n \in Nat \ {0}
    BY <2>1, ClusteringConstants, CostmapConstants
  <2> HIDE DEF x, n
  <2>3. Truncate(x, n) \in Int
    BY <2>2 DEF Truncate
  <2> QED
    BY <2>3 DEF x, n
<1>2. PlaceAt(p) = <<index(1), index(2)>>
  BY CostmapConstants DEF PlaceAt, WorldToGrid
<1> HIDE DEF index
<1>3. \A i \in Int : Within(i) \in 0..Size - 1
  BY AstarConstants DEF Within
<1> QED
  BY <1>1, <1>2, <1>3 DEF Clamped, Place

\* The search is off until plan_path is called, and then that of Astar.
SearchInv ==
    /\ OrderInv
    /\ ppc \in {"frame", "cluster", "age", "track", "map", "plan"} => Off

LEMMA OffIsOrdered == SearchInit' => OrderInv'
  BY OrderInitially, PTL

LEMMA SearchInvInit == PInit => SearchInv
<1>1. PInit => SearchInit
  BY DEF PInit, SearchInit
<1> QED
  BY <1>1, OrderInitially DEF PInit, SearchInv

LEMMA SearchInvStep == FrameInv /\ MapInv' /\ SearchInv /\ [PNext]_plannerVars => SearchInv'
<1> SUFFICES ASSUME FrameInv, MapInv', SearchInv, [PNext]_plannerVars PROVE SearchInv'
  OBVIOUS
<1>1. CASE Map
  <2>1. Off'
    BY <1>1 DEF Map, searchVars, SearchInv, Off
  <2>2. occupied' \in SUBSET Place /\ costs' \in [Place -> Nat]
    BY DEF MapInv
  <2>3. OrderInv'
    BY <2>1, <2>2, OffIsOrdered DEF SearchInit
  <2> QED
    BY <2>1, <2>3 DEF SearchInv
<1>2. CASE Again
  <2>1. Off'
    BY <1>2 DEF Again, Off
  <2>2. occupied' \in SUBSET Place /\ costs' \in [Place -> Nat]
    BY <1>2 DEF Again
  <2>3. OrderInv'
    BY <2>1, <2>2, OffIsOrdered DEF SearchInit
  <2> QED
    BY <2>1, <2>3 DEF SearchInv
<1>3. CASE Plan
  <2>1. PICK t \in Trips : Begin(Clamped(PlaceAt(t[1])), Clamped(PlaceAt(t[2])))
    BY <1>3 DEF Plan
  <2>2. Clamped(PlaceAt(t[1])) \in Place /\ Clamped(PlaceAt(t[2])) \in Place
    <3>1. t[1] \in Vector /\ t[2] \in Vector /\ drone \in Vector
      BY PlannerConstants DEF FrameInv
    <3> QED
      BY <3>1, ClampedIsPlace
  <2>3. OrderInv'
    BY <2>1, <2>2, BeginKeepsOrder DEF SearchInv
  <2> QED
    BY <1>3, <2>3 DEF Plan, SearchInv
<1>4. CASE SearchStep
  <2>1. CASE \E c \in Place : Take(c)
    BY <1>4, <2>1, OrderStep DEF SearchStep, SearchInv, Search
  <2>2. CASE Exhausted
    BY <1>4, <2>2, OrderStep DEF SearchStep, SearchInv, Search
  <2>3. CASE UNCHANGED astarVars
    BY <1>4, <2>3, OrderStep DEF SearchStep, SearchInv
  <2>4. (\E c \in Place : Take(c)) \/ Exhausted \/ UNCHANGED astarVars
    <3>1. ASSUME NEW c, Take(c) PROVE c \in Place
      BY <3>1 DEF Take, SearchInv, OrderInv, ReachInv, TreeInv, SearchType
    <3> QED
      BY <1>4, <3>1 DEF SearchStep, TakeTop, astarVars, mapVars
  <2> QED
    BY <2>1, <2>2, <2>3, <2>4
<1>5. CASE Frame \/ Cluster \/ Age \/ Track
  <2>1. /\ UNCHANGED astarVars
        /\ ppc \in {"frame", "cluster", "age", "track", "map", "plan"}
    BY <1>5 DEF Frame, Cluster, Age, Track, mapVars, searchVars, astarVars
  <2>2. OrderInv'
    BY <2>1, OrderStep DEF SearchInv
  <2> QED
    BY <2>1, <2>2 DEF SearchInv, Off, astarVars
<1>6. CASE GiveUp \/ Trace \/ Idle \/ UNCHANGED plannerVars
  <2>1. /\ UNCHANGED astarVars
        /\ ppc' \in {"frame", "cluster", "age", "track", "map", "plan"} =>
              ppc \in {"frame", "cluster", "age", "track", "map", "plan"}
    BY <1>6 DEF GiveUp, Trace, Idle, mapVars, searchVars, plannerVars, astarVars
  <2>2. OrderInv'
    BY <2>1, OrderStep DEF SearchInv
  <2> QED
    BY <2>1, <2>2 DEF SearchInv, Off, astarVars
<1> QED
  BY <1>1, <1>2, <1>3, <1>4, <1>5, <1>6 DEF PNext

LEMMA SearchInvAlways == PSpec => []SearchInv
  BY FrameAlways, MapAlways, SearchInvInit, SearchInvStep, PTL DEF PSpec

\* On every map the pipeline generates, and with the heap, the search keeps
\* its tree (navigation.hpp:405-457).
THEOREM PlansKeepTheTree == PSpec => []SearchTree
<1>1. SearchInv => SearchTree
  BY DEF SearchInv, OrderInv, ReachInv, TreeInv
<1> QED
  BY <1>1, SearchInvAlways, PTL

-----------------------------------------------------------------------------
(* The route.                                                              *)

\* The path is the end of a route: it ends at the goal and each place is the
\* parent of the next, at less cost.
EndOfRoute ==
    /\ path \in Seq(Place) /\ Len(path) > 0
    /\ path[Len(path)] = goal
    /\ \A i \in 1..Len(path) : path[i] \in closed
    /\ \A i \in 1..Len(path) - 1 : came_from[path[i + 1]] = path[i]
    /\ \A i, j \in 1..Len(path) : i < j => g[path[i]] < g[path[j]]

RouteInv ==
    /\ ppc = "trace" => spc = "found" /\ EndOfRoute
    /\ ppc = "done" /\ spc = "found" => EndOfRoute /\ came_from[path[1]] = None

LEMMA Parents ==
    ASSUME SearchInv, NEW p \in closed
    PROVE  /\ p \in Place /\ g[p] \in Nat /\ p \notin occupied
           /\ came_from[p] = None => p = start
           /\ came_from[p] # None => /\ came_from[p] \in closed /\ p \in Moves(came_from[p])
                                     /\ g[came_from[p]] < g[p]
<1>1. TreeInv /\ Explored
  BY DEF SearchInv, OrderInv, ReachInv
<1>2. /\ p \in Place /\ g[p] \in Nat /\ p \notin occupied
      /\ came_from[p] = None => p = start
      /\ came_from[p] # None => /\ came_from[p] \in closed /\ p \in Moves(came_from[p])
                                /\ g[p] = g[came_from[p]] + StepCost(came_from[p], p)
  BY <1>1 DEF TreeInv, SearchType, Frontier, SearchTree, Explored
<1>3. came_from[p] # None => g[came_from[p]] < g[p]
  <2> SUFFICES ASSUME came_from[p] # None PROVE g[came_from[p]] < g[p]
    OBVIOUS
  <2> DEFINE c == came_from[p]
  <2>1. c \in closed /\ c \in Place /\ g[c] \in Nat
    BY <1>1, <1>2 DEF TreeInv, SearchType, Frontier
  <2>2. StepCost(c, p) \in Nat /\ StepCost(c, p) > 0
    BY <1>1, <1>2, <2>1, StepCostPositive DEF TreeInv
  <2> QED
    BY <1>2, <2>1, <2>2
<1> QED
  BY <1>2, <1>3

LEMMA ParentExtends ==
    ASSUME SearchInv, EndOfRoute, NEW c, c = came_from[path[1]], c # None,
           path' = <<c>> \o path, UNCHANGED astarVars
    PROVE  EndOfRoute'
<1> DEFINE n == Len(path)
<1>1. /\ n \in Nat \ {0} /\ path \in Seq(Place) /\ \A i \in 1..n : path[i] \in closed /\ g[path[i]] \in Nat
  BY Parents DEF EndOfRoute
<1>2. c \in Place /\ c \in closed /\ g[c] < g[path[1]] /\ g[c] \in Nat
  <2>1. path[1] \in closed
    BY <1>1
  <2>2. c \in closed /\ g[c] < g[path[1]]
    BY <2>1, Parents
  <2> QED
    BY <2>2, Parents
<1>3. /\ path' \in Seq(Place) /\ Len(path') = n + 1 /\ path'[1] = c
      /\ \A i \in 2..n + 1 : path'[i] = path[i - 1] /\ i - 1 \in 1..n
  BY <1>1, <1>2
<1> HIDE DEF n
<1>4. UNCHANGED <<goal, closed, came_from, g>>
  BY DEF astarVars
<1>5. path'[n + 1] = goal
  BY <1>1, <1>3 DEF EndOfRoute, n
<1>6. \A i \in 1..n + 1 : path'[i] \in closed
  <2> TAKE i \in 1..n + 1
  <2>1. i = 1 \/ i \in 2..n + 1
    BY <1>1
  <2> QED
    BY <1>1, <1>2, <1>3, <2>1
<1>7. \A i \in 1..n : came_from[path'[i + 1]] = path'[i]
  <2> TAKE i \in 1..n
  <2>1. i + 1 \in 2..n + 1 /\ (i + 1) - 1 = i
    BY <1>1
  <2>2. path'[i + 1] = path[i]
    BY <1>3, <2>1
  <2>3. CASE i = 1
    BY <1>3, <2>2, <2>3
  <2>4. CASE i \in 2..n
    <3>1. i \in 2..n + 1 /\ i - 1 \in 1..n - 1 /\ (i - 1) + 1 = i
      BY <1>1, <2>4
    <3>2. path'[i] = path[i - 1] /\ came_from[path[i]] = path[i - 1]
      BY <1>3, <3>1 DEF EndOfRoute, n
    <3> QED
      BY <2>2, <3>2
  <2>5. i = 1 \/ i \in 2..n
    BY <1>1
  <2> QED
    BY <2>3, <2>4, <2>5
<1>8. \A i, j \in 1..n + 1 : i < j => g[path'[i]] < g[path'[j]]
  <2> SUFFICES ASSUME NEW i \in 1..n + 1, NEW j \in 1..n + 1, i < j PROVE g[path'[i]] < g[path'[j]]
    OBVIOUS
  <2>1. j \in 2..n + 1 /\ path'[j] = path[j - 1] /\ j - 1 \in 1..n
    BY <1>1, <1>3
  <2>2. CASE i = 1
    <3>1. g[path[1]] \in Nat /\ g[path[j - 1]] \in Nat /\ 1 \in 1..n
      BY <1>1, <2>1
    <3>2. j - 1 = 1 \/ g[path[1]] < g[path[j - 1]]
      BY <2>1, <3>1 DEF EndOfRoute, n
    <3> QED
      BY <1>2, <1>3, <2>1, <2>2, <3>1, <3>2
  <2>3. CASE i \in 2..n + 1
    <3>1. path'[i] = path[i - 1] /\ i - 1 \in 1..n /\ i - 1 < j - 1
      BY <1>1, <1>3, <2>1, <2>3
    <3> QED
      BY <2>1, <3>1 DEF EndOfRoute, n
  <2>4. i = 1 \/ i \in 2..n + 1
    BY <1>1
  <2> QED
    BY <2>2, <2>3, <2>4
<1>9. Len(path') - 1 = n /\ Len(path') > 0
  BY <1>1, <1>3
<1> QED
  BY <1>3, <1>4, <1>5, <1>6, <1>7, <1>8, <1>9 DEF EndOfRoute

LEMMA RouteInit == PInit => RouteInv
  BY DEF PInit, RouteInv

LEMMA RouteStep == SearchInv /\ RouteInv /\ [PNext]_plannerVars => RouteInv'
<1> SUFFICES ASSUME SearchInv, RouteInv, [PNext]_plannerVars PROVE RouteInv'
  OBVIOUS
<1>1. CASE Trace
  <2>1. UNCHANGED astarVars /\ UNCHANGED spc
    BY <1>1 DEF Trace, mapVars, searchVars, astarVars
  <2>2. CASE ppc = "search" /\ spc = "found" /\ path' = <<goal>> /\ ppc' = "trace"
    <3>1. goal \in closed /\ goal \in Place
      BY <2>2, Parents DEF SearchInv, OrderInv
    <3>2. EndOfRoute'
      BY <2>1, <2>2, <3>1 DEF EndOfRoute, astarVars
    <3> QED
      BY <2>1, <2>2, <3>2 DEF RouteInv
  <2>3. CASE /\ ppc = "trace" /\ came_from[Head(path)] = None /\ ppc' = "done" /\ UNCHANGED path
    <3>1. spc = "found" /\ EndOfRoute /\ Head(path) = path[1]
      BY <2>3 DEF RouteInv, EndOfRoute
    <3>2. EndOfRoute'
      BY <2>1, <2>3, <3>1 DEF EndOfRoute, astarVars
    <3> QED
      BY <2>1, <2>3, <3>1, <3>2 DEF RouteInv, astarVars
  <2>4. CASE /\ ppc = "trace" /\ came_from[Head(path)] # None
             /\ path' = <<came_from[Head(path)]>> \o path /\ UNCHANGED ppc
    <3>1. spc = "found" /\ EndOfRoute /\ Head(path) = path[1]
      BY <2>4 DEF RouteInv, EndOfRoute
    <3>2. EndOfRoute'
      BY <2>1, <2>4, <3>1, ParentExtends
    <3> QED
      BY <2>1, <2>4, <3>1, <3>2 DEF RouteInv
  <2> QED
    BY <1>1, <2>2, <2>3, <2>4 DEF Trace
<1>2. CASE GiveUp
  BY <1>2 DEF GiveUp, searchVars, RouteInv
<1>3. CASE Frame \/ Cluster \/ Age \/ Track \/ Map \/ Plan \/ SearchStep \/ Again
  <2>1. ppc' \notin {"trace", "done"}
    BY <1>3 DEF Frame, Cluster, Age, Track, Map, Plan, SearchStep, Again
  <2> QED
    BY <2>1 DEF RouteInv
<1>4. CASE Idle \/ UNCHANGED plannerVars
  BY <1>4 DEF Idle, plannerVars, searchVars, RouteInv, EndOfRoute
<1> QED
  BY <1>1, <1>2, <1>3, <1>4 DEF PNext

\* Following the parents from the goal gives a route from the start, without
\* a corner cut or a place visited twice; and none is missed
\* (navigation.hpp:385-458).
THEOREM RoutesAreSound == PSpec => []RouteSound
<1>1. SearchInv /\ RouteInv => RouteSound
  <2> SUFFICES ASSUME SearchInv, RouteInv PROVE RouteSound
    OBVIOUS
  <2>1. NoneOnlyIfCutOff
    BY DEF SearchInv, OrderInv, ReachInv
  <2>2. ASSUME ppc = "done", spc = "found"
        PROVE  /\ path[1] = start /\ path[Len(path)] = goal
               /\ \A i \in 1..Len(path) - 1 : LegalStep(path[i], path[i + 1])
               /\ \A i, j \in DOMAIN path : path[i] = path[j] => i = j
    <3> DEFINE n == Len(path)
    <3>1. /\ EndOfRoute /\ n \in Nat \ {0} /\ DOMAIN path = 1..n
          /\ \A i \in 1..n : path[i] \in closed /\ g[path[i]] \in Nat
      BY <2>2, Parents DEF RouteInv, EndOfRoute
    <3>2. path[1] = start
      BY <2>2, <3>1, Parents DEF RouteInv
    <3>3. ASSUME NEW i \in 1..n - 1 PROVE LegalStep(path[i], path[i + 1])
      <4>1. i \in 1..n /\ i + 1 \in 1..n
        BY <3>1
      <4>2. came_from[path[i + 1]] = path[i] /\ path[i] \in closed /\ path[i + 1] \in closed
        BY <3>1, <4>1 DEF EndOfRoute
      <4>3. path[i] \in Place /\ path[i + 1] \in Place /\ path[i] \notin occupied /\ path[i] # None
        BY <4>2, Parents, AstarConstants
      <4>4. path[i + 1] \in Moves(path[i])
        BY <4>2, <4>3, Parents
      <4> QED
        BY <4>3, <4>4, LegalMoves
    <3>4. ASSUME NEW i \in 1..n, NEW j \in 1..n, path[i] = path[j] PROVE i = j
      <4>1. i < j \/ j < i \/ i = j
        BY <3>1
      <4>2. g[path[i]] \in Nat /\ g[path[i]] = g[path[j]]
        BY <3>1, <3>4
      <4>3. ~(i < j) /\ ~(j < i)
        BY <3>1, <4>2 DEF EndOfRoute
      <4> QED
        BY <4>1, <4>3
    <3> QED
      BY <3>1, <3>2, <3>3, <3>4 DEF EndOfRoute
  <2> QED
    BY <2>1, <2>2 DEF RouteSound
<1> QED
  BY <1>1, SearchInvAlways, RouteInit, RouteStep, PTL DEF PSpec

\* A route found in the order of f costs what the cheapest one does: the costs
\* that relaxing every step comes to, for every map (navigation.hpp:405-457).
THEOREM RoutesAreCheapest == PSpec => []RouteCheapest
<1>1. SearchInv => RouteCheapest
  BY SearchIsCheapest DEF SearchInv
<1> QED
  BY <1>1, SearchInvAlways, PTL

-----------------------------------------------------------------------------
(* Tracks.                                                                 *)

\* Ascending lists the elements of a finite set of numbers, smaller ones first.
LEMMA AscendingLists ==
    ASSUME NEW m \in Nat, NEW S \in SUBSET (1..m), NEW a, a = Ascending(S)
    PROVE  /\ Cardinality(S) \in Nat /\ a \in [1..Cardinality(S) -> S]
           /\ \A i, j \in 1..Cardinality(S) : i < j => a[i] < a[j]
           /\ \A s \in S : \E i \in 1..Cardinality(S) : a[i] = s
<1> DEFINE Lower(s) == {r \in S : r < s}
           n == Cardinality(S)
           rank == [s \in S |-> Cardinality(Lower(s))]
<1>0. /\ \A s \in S : s \in Int /\ s < m + 1
      /\ m + 1 \in Int
  OBVIOUS
<1>1. IsFiniteSet(S) /\ n \in Nat
  <2>1. IsFiniteSet(1..m)
    BY FS_Interval
  <2> QED
    BY <2>1, FS_Subset, FS_CardinalityType
<1>2. ASSUME NEW s \in S, NEW r, r \in S \cup {m + 1}, s < r
      PROVE  Cardinality(Lower(s)) \in Nat /\ Cardinality(Lower(r)) \in Nat
             /\ Cardinality(Lower(s)) < Cardinality(Lower(r))
  <2>0. s \in Int /\ r \in Int
    BY <1>0, <1>2
  <2>1. /\ s \in Lower(r) /\ s \notin Lower(s) /\ Lower(r) \in SUBSET S
        /\ Lower(s) \in SUBSET Lower(r)
    <3>1. \A q \in S : q < s => q < r
      BY <1>0, <1>2, <2>0
    <3>2. s \in Lower(r)
      BY <1>2
    <3>3. s \notin Lower(s)
      BY <2>0
    <3> QED
      BY <3>1, <3>2, <3>3
  <2>2. IsFiniteSet(Lower(r))
    BY <1>1, <2>1, FS_Subset
  <2>3. IsFiniteSet(Lower(s)) /\ Cardinality(Lower(s)) <= Cardinality(Lower(r))
        /\ (Cardinality(Lower(s)) = Cardinality(Lower(r)) => Lower(s) = Lower(r))
    BY <2>1, <2>2, FS_Subset
  <2>4. Cardinality(Lower(s)) \in Nat /\ Cardinality(Lower(r)) \in Nat
    BY <2>2, <2>3, FS_CardinalityType
  <2>5. Cardinality(Lower(s)) # Cardinality(Lower(r))
    BY <2>1, <2>3
  <2> HIDE DEF Lower
  <2> QED
    BY <2>3, <2>4, <2>5
<1>3. Lower(m + 1) = S
  BY <1>0
<1>4. \A s \in S : Cardinality(Lower(s)) \in 0..n - 1
  <2> TAKE s \in S
  <2>1. s < m + 1 /\ m + 1 \in S \cup {m + 1}
    BY <1>0
  <2> HIDE DEF Lower
  <2>2. Cardinality(Lower(s)) \in Nat /\ Cardinality(Lower(s)) < Cardinality(Lower(m + 1))
    BY <1>2, <2>1
  <2> QED
    BY <1>1, <1>3, <2>2
<1>5. \A s, r \in S : s < r => Cardinality(Lower(s)) < Cardinality(Lower(r))
  BY <1>2
<1> HIDE DEF Lower
<1>6. rank \in [S -> 0..n - 1]
  BY <1>4
<1>7. \A s, r \in S : rank[s] = rank[r] => s = r
  <2> SUFFICES ASSUME NEW s \in S, NEW r \in S, rank[s] = rank[r], s # r PROVE FALSE
    OBVIOUS
  <2>1. s < r \/ r < s
    BY <1>0
  <2>2. rank[s] < rank[r] \/ rank[r] < rank[s]
    BY <1>5, <2>1
  <2>3. rank[s] \in Int /\ rank[r] \in Int
    BY <1>6
  <2> QED
    BY <2>2, <2>3
<1>8. rank \in Surjection(S, 0..n - 1)
  <2>1. rank \in Injection(S, 0..n - 1)
    <3>1. DOMAIN rank = S
      OBVIOUS
    <3> HIDE DEF rank
    <3> QED
      BY <1>6, <1>7, <3>1 DEF Injection, IsInjective
  <2>2. IsFiniteSet(0..n - 1) /\ Cardinality(0..n - 1) = n
    BY <1>1, FS_Interval
  <2> HIDE DEF rank
  <2> QED
    BY <2>1, <2>2, FS_Injection
<1>9. a = [i \in 1..n |-> CHOOSE s \in S : Cardinality(Lower(s)) = i - 1]
  BY DEF Ascending, Lower
<1>10. ASSUME NEW i \in 1..n PROVE a[i] \in S /\ rank[a[i]] = i - 1
  <2>1. i - 1 \in 0..n - 1
    BY <1>1
  <2>2. \E s \in S : rank[s] = i - 1
    <3> HIDE DEF rank
    <3> QED
      BY <1>8, <2>1 DEF Surjection
  <2>3. \E s \in S : Cardinality(Lower(s)) = i - 1
    BY <2>2
  <2> QED
    BY <1>9, <2>3
<1>11. \A i, j \in 1..n : i < j => a[i] < a[j]
  <2> SUFFICES ASSUME NEW i \in 1..n, NEW j \in 1..n, i < j, ~(a[i] < a[j]) PROVE FALSE
    OBVIOUS
  <2>1. a[i] \in S /\ a[j] \in S /\ rank[a[i]] = i - 1 /\ rank[a[j]] = j - 1
    BY <1>10
  <2>2. a[j] < a[i] \/ a[j] = a[i]
    <3>1. a[i] \in Int /\ a[j] \in Int
      BY <1>0, <2>1
    <3> QED
      BY <3>1
  <2>3. rank[a[j]] < rank[a[i]] \/ a[j] = a[i]
    BY <1>5, <2>1, <2>2
  <2>4. i - 1 < j - 1 /\ i - 1 \in Int /\ j - 1 \in Int
    BY <1>1
  <2> HIDE DEF rank
  <2> QED
    BY <2>1, <2>3, <2>4
<1>12. \A s \in S : \E i \in 1..n : a[i] = s
  <2> TAKE s \in S
  <2>1. rank[s] + 1 \in 1..n /\ (rank[s] + 1) - 1 = rank[s]
    BY <1>1, <1>6
  <2>2. a[rank[s] + 1] \in S /\ rank[a[rank[s] + 1]] = rank[s]
    BY <1>10, <2>1
  <2> QED
    BY <1>7, <2>1, <2>2
<1> QED
  BY <1>1, <1>9, <1>10, <1>11, <1>12

TrackRecord == [id : Nat, at : Vector, last_seen : Nat, consecutive : Nat, total : Nat]

SeenNow == {i \in DOMAIN tracks : tracks[i].last_seen = now}

\* Tracks of this frame, one for each of some clusters, and none too old.
OneEach(found) ==
    /\ Cardinality(SeenNow) = Cardinality(found)
    /\ \A k \in found : \E i \in SeenNow : tracks[i].at = Centroid(Origin, clusters[k])
    /\ \A i \in DOMAIN tracks : now - tracks[i].last_seen < max_track_age

\* Matched clusters have a track each while the loop goes over the tracks, and
\* tracks it has not come to are of earlier frames.
TrackInv ==
    /\ tracks \in Seq(TrackRecord) /\ next_track_id \in Nat
    /\ \A i \in DOMAIN tracks :
          /\ tracks[i].consecutive <= tracks[i].total
          /\ tracks[i].id < next_track_id /\ tracks[i].last_seen <= now
    /\ \A i, j \in DOMAIN tracks : i < j => tracks[i].id < tracks[j].id
    /\ matched \in SUBSET DOMAIN clusters
    /\ ppc \in {"frame", "cluster", "age"} => matched = {} /\ turn = 1
    /\ ppc \in {"cluster", "age"} => \A i \in DOMAIN tracks : tracks[i].last_seen < now
    /\ ppc = "track" =>
          /\ turn \in Nat \ {0}
          /\ \A i \in DOMAIN tracks : i >= turn => tracks[i].last_seen < now
          /\ OneEach(matched)
    /\ ppc \in {"map", "plan", "search", "trace", "done"} => OneEach(DOMAIN clusters)

LEMMA TrackInit == PInit => TrackInv
<1> SUFFICES ASSUME PInit PROVE TrackInv
  OBVIOUS
<1>1. tracks = <<>> /\ next_track_id = 0 /\ matched = {} /\ turn = 1 /\ ppc = "frame"
  BY DEF PInit, ClusteringInit
<1> QED
  BY <1>1 DEF TrackInv

LEMMA SeenIsFinite == ASSUME tracks \in Seq(TrackRecord) PROVE IsFiniteSet(SeenNow) /\ Cardinality(SeenNow) \in Nat
<1>1. IsFiniteSet(DOMAIN tracks)
  BY FS_Interval
<1> QED
  BY <1>1, FS_Subset, FS_CardinalityType DEF SeenNow

LEMMA MatchedIsFinite ==
    ASSUME FrameInv, matched \in SUBSET DOMAIN clusters
    PROVE  /\ IsFiniteSet(matched) /\ Cardinality(matched) \in Nat
           /\ Len(clusters) \in Nat /\ DOMAIN clusters = 1..Len(clusters)
           /\ IsFiniteSet(DOMAIN clusters) /\ Cardinality(DOMAIN clusters) = Len(clusters)
<1>1. Len(clusters) \in Nat /\ DOMAIN clusters = 1..Len(clusters)
  BY ClustersHoldVoxels
<1>2. IsFiniteSet(DOMAIN clusters) /\ Cardinality(DOMAIN clusters) = Len(clusters)
  BY <1>1, FS_Interval
<1>3. IsFiniteSet(matched) /\ Cardinality(matched) \in Nat
  BY <1>2, FS_Subset, FS_CardinalityType
<1> QED
  BY <1>1, <1>2, <1>3

LEMMA CentersAreVectors ==
    ASSUME FrameInv
    PROVE  /\ DOMAIN Centers(Origin) = DOMAIN clusters
           /\ \A k \in DOMAIN clusters :
                 Centers(Origin)[k] = Centroid(Origin, clusters[k]) /\ Centers(Origin)[k] \in Vector
<1>1. Origin \in Vector
  BY DEF Origin, Vector
<1>2. \A k \in DOMAIN clusters : Centroid(Origin, clusters[k]) \in Vector
  BY <1>1, ClustersHoldVoxels, CentroidIsVector
<1> QED
  BY <1>2 DEF Centers

\* What a track becomes when it is not matched and when it is.
LEMMA MissedIsRecord ==
    ASSUME NEW r \in TrackRecord
    PROVE  /\ Missed(r) \in TrackRecord /\ Missed(r).id = r.id /\ Missed(r).last_seen = r.last_seen
           /\ Missed(r).at = r.at /\ Missed(r).consecutive <= Missed(r).total
<1> DEFINE m == [r EXCEPT !.consecutive = 0]
<1>1. m \in TrackRecord
  BY DEF TrackRecord
<1>2. m.id = r.id /\ m.last_seen = r.last_seen /\ m.at = r.at /\ m.consecutive = 0 /\ m.total \in Nat
  BY DEF TrackRecord
<1> HIDE DEF m
<1>3. Missed(r) = m
  BY DEF Missed, m
<1> QED
  BY <1>1, <1>2, <1>3

LEMMA SeenIsRecord ==
    ASSUME NEW r \in TrackRecord, NEW at \in Vector, NEW time \in Nat, r.consecutive <= r.total
    PROVE  /\ Seen(r, at, time) \in TrackRecord /\ Seen(r, at, time).id = r.id
           /\ Seen(r, at, time).last_seen = time /\ Seen(r, at, time).at = at
           /\ Seen(r, at, time).consecutive <= Seen(r, at, time).total
<1> DEFINE m == [r EXCEPT !.at = at, !.last_seen = time, !.consecutive = @ + 1, !.total = @ + 1]
<1>0. r.consecutive \in Nat /\ r.total \in Nat
  BY DEF TrackRecord
<1>1. m \in TrackRecord
  <2>1. [r EXCEPT !.at = at, !.last_seen = time] \in TrackRecord
    BY DEF TrackRecord
  <2>2. r.consecutive + 1 \in Nat /\ r.total + 1 \in Nat
    BY <1>0
  <2>3. \A q \in TrackRecord, x, y \in Nat : [q EXCEPT !.consecutive = x, !.total = y] \in TrackRecord
    BY DEF TrackRecord
  <2>4. m = [[r EXCEPT !.at = at, !.last_seen = time] EXCEPT !.consecutive = r.consecutive + 1, !.total = r.total + 1]
    BY DEF TrackRecord
  <2> HIDE DEF m
  <2> QED
    BY <2>1, <2>2, <2>3, <2>4
<1>2. m.id = r.id /\ m.last_seen = time /\ m.at = at /\ m.consecutive = r.consecutive + 1 /\ m.total = r.total + 1
  BY DEF TrackRecord
<1> HIDE DEF m
<1>3. Seen(r, at, time) = m
  BY DEF Seen, m
<1>4. m.consecutive <= m.total
  BY <1>0, <1>2
<1> QED
  BY <1>1, <1>2, <1>3, <1>4

-----------------------------------------------------------------------------
\* Erasing the old tracks keeps the others in order.
LEMMA AgeKeepsTracks == ASSUME FrameInv, TrackInv, Age PROVE TrackInv'
<1> DEFINE S == {i \in DOMAIN tracks : IsActive(tracks[i], now)}
           n == Cardinality(S)
<1> DEFINE kept == Ascending(S)
<1>1. tracks \in Seq(TrackRecord) /\ Len(tracks) \in Nat /\ S \in SUBSET (1..Len(tracks))
  BY DEF TrackInv
<1>2. tracks' = [i \in DOMAIN kept |-> tracks[kept[i]]]
  BY DEF Age, DropOld
<1>3. \A i \in S : i \in DOMAIN tracks /\ now - tracks[i].last_seen < max_track_age
  BY DEF IsActive
<1> HIDE DEF S, kept
<1>4. /\ n \in Nat /\ kept \in [1..n -> S]
      /\ \A i, j \in 1..n : i < j => kept[i] < kept[j]
  BY <1>1, AscendingLists DEF kept
<1> HIDE DEF n
<1>5. /\ tracks' \in Seq(TrackRecord) /\ DOMAIN tracks' = 1..n
      /\ \A i \in 1..n : tracks'[i] = tracks[kept[i]] /\ kept[i] \in DOMAIN tracks
                         /\ now - tracks'[i].last_seen < max_track_age
  <2>1. \A i \in 1..n : kept[i] \in S /\ tracks[kept[i]] \in TrackRecord
    BY <1>1, <1>3, <1>4
  <2> QED
    BY <1>2, <1>3, <1>4, <2>1
<1>6. /\ ppc = "age" /\ ppc' = "track" /\ UNCHANGED <<now, clusters, next_track_id, matched, turn>>
      /\ matched = {} /\ turn = 1 /\ \A i \in DOMAIN tracks : tracks[i].last_seen < now
  BY DEF Age, TrackInv
<1>7. \A i \in 1..n : tracks'[i].last_seen < now
  BY <1>5, <1>6
<1>8. SeenNow' = {}
  <2>1. ASSUME NEW i \in 1..n PROVE tracks'[i].last_seen # now
    <3>0. tracks'[i] \in TrackRecord
      <4>1. tracks' \in Seq(TrackRecord) /\ i \in DOMAIN tracks'
        BY <1>5
      <4> QED
        BY <4>1
    <3>1. tracks'[i].last_seen < now /\ tracks'[i].last_seen \in Nat /\ now \in Nat
      BY <1>7, <3>0 DEF TrackRecord, FrameInv
    <3> QED
      BY <3>1
  <2> QED
    BY <1>5, <1>6, <2>1 DEF SeenNow
<1>9. OneEach(matched)'
  BY <1>5, <1>6, <1>8 DEF OneEach
<1>10. \A i, j \in 1..n : i < j => tracks'[i].id < tracks'[j].id
  BY <1>4, <1>5 DEF TrackInv
<1>11. \A i \in 1..n : /\ tracks'[i].consecutive <= tracks'[i].total
                       /\ tracks'[i].id < next_track_id /\ tracks'[i].last_seen <= now
  BY <1>5 DEF TrackInv
<1> QED
  BY <1>5, <1>6, <1>7, <1>9, <1>10, <1>11 DEF TrackInv

\* A track takes an unmatched cluster or none.
LEMMA AssociateKeepsTracks ==
    ASSUME FrameInv, TrackInv, ppc = "track", ppc' = ppc, Associate(Origin, now),
           UNCHANGED <<now, clusters, next_track_id>>
    PROVE  TrackInv'
<1> DEFINE match == Match(tracks[turn], Centers(Origin), matched)
           n == Len(tracks)
<1>1. /\ tracks \in Seq(TrackRecord) /\ n \in Nat /\ DOMAIN tracks = 1..n /\ turn \in 1..n
      /\ turn' = turn + 1 /\ tracks[turn] \in TrackRecord /\ now \in Nat
  BY DEF TrackInv, FrameInv, Associate
<1>2. /\ tracks[turn].last_seen < now /\ tracks[turn].consecutive <= tracks[turn].total
      /\ OneEach(matched) /\ matched \in SUBSET DOMAIN clusters
  BY <1>1 DEF TrackInv
<1>3. match \subseteq DOMAIN clusters \ matched
  BY CentersAreVectors DEF Match
<1> HIDE DEF match
<1>4. \A i \in 1..n : tracks[i] \in TrackRecord
  BY <1>1
<1> HIDE DEF n
<1>5. ASSUME NEW t \in TrackRecord, tracks' = [tracks EXCEPT ![turn] = t], t.id = tracks[turn].id,
             t.consecutive <= t.total, t.last_seen <= now,
             matched' \in SUBSET DOMAIN clusters, OneEach(matched)'
      PROVE  TrackInv'
  <2>1. /\ tracks' \in Seq(TrackRecord) /\ DOMAIN tracks' = 1..n /\ tracks'[turn] = t
        /\ \A i \in 1..n \ {turn} : tracks'[i] = tracks[i]
    BY <1>1, <1>5
  <2>2. \A i \in 1..n : tracks'[i].id = tracks[i].id
    BY <1>5, <2>1
  <2>3. \A i \in 1..n : /\ tracks'[i].consecutive <= tracks'[i].total
                        /\ tracks'[i].id < next_track_id /\ tracks'[i].last_seen <= now
    BY <1>1, <1>5, <2>1 DEF TrackInv
  <2>4. \A i \in 1..n : i >= turn + 1 => tracks'[i].last_seen < now
    <3> TAKE i \in 1..n
    <3>1. i >= turn + 1 => i # turn /\ i >= turn
      BY <1>1
    <3> QED
      BY <1>1, <2>1, <3>1 DEF TrackInv
  <2>5. turn' \in Nat \ {0}
    BY <1>1
  <2>6. \A i, j \in 1..n : i < j => tracks'[i].id < tracks'[j].id
    BY <1>1, <2>2 DEF TrackInv
  <2> QED
    BY <1>1, <1>5, <2>1, <2>3, <2>4, <2>5, <2>6 DEF TrackInv
<1>6. CASE match = {} /\ UNCHANGED matched /\ tracks' = [tracks EXCEPT ![turn] = Missed(@)]
  <2> DEFINE t == Missed(tracks[turn])
  <2>1. t \in TrackRecord /\ t.id = tracks[turn].id /\ t.last_seen = tracks[turn].last_seen
        /\ t.at = tracks[turn].at /\ t.consecutive <= t.total
    BY <1>1, MissedIsRecord
  <2>2. tracks' = [tracks EXCEPT ![turn] = t]
    BY <1>6
  <2> HIDE DEF t
  <2>3. /\ DOMAIN tracks' = 1..n
        /\ \A i \in 1..n : tracks'[i].last_seen = tracks[i].last_seen /\ tracks'[i].at = tracks[i].at
    BY <1>1, <2>1, <2>2
  <2>4. SeenNow' = SeenNow
    BY <1>1, <2>3 DEF SeenNow
  <2>5. OneEach(matched)'
    BY <1>1, <1>2, <1>6, <2>3, <2>4 DEF OneEach, SeenNow
  <2>6. t.last_seen <= now
    BY <1>1, <1>2, <2>1 DEF TrackRecord
  <2>7. matched' \in SUBSET DOMAIN clusters
    BY <1>2, <1>6
  <2> QED
    BY <1>5, <2>1, <2>2, <2>5, <2>6, <2>7
<1>7. ASSUME NEW k \in match, matched' = matched \cup {k},
             tracks' = [tracks EXCEPT ![turn] = Seen(@, Centers(Origin)[k], now)]
      PROVE  TrackInv'
  <2> DEFINE at == Centers(Origin)[k]
             t == Seen(tracks[turn], at, now)
  <2>1. k \in DOMAIN clusters /\ k \notin matched /\ at \in Vector /\ at = Centroid(Origin, clusters[k])
    BY <1>3, <1>7, CentersAreVectors
  <2>2. tracks' = [tracks EXCEPT ![turn] = t]
    BY <1>7
  <2> HIDE DEF at
  <2>3. t \in TrackRecord /\ t.id = tracks[turn].id /\ t.last_seen = now /\ t.at = at
        /\ t.consecutive <= t.total
    BY <1>1, <1>2, <2>1, SeenIsRecord
  <2> HIDE DEF t
  <2>4. t.consecutive <= t.total /\ t.last_seen <= now
    BY <1>1, <2>3
  <2>5. /\ DOMAIN tracks' = 1..n /\ tracks'[turn] = t
        /\ \A i \in 1..n \ {turn} : tracks'[i] = tracks[i]
    BY <1>1, <2>2
  <2>6. SeenNow' = SeenNow \cup {turn} /\ turn \notin SeenNow
    <3>1. tracks[turn].last_seen # now
      BY <1>1, <1>2 DEF TrackRecord
    <3> QED
      BY <1>1, <2>3, <2>5, <3>1 DEF SeenNow
  <2>7. Cardinality(SeenNow') = Cardinality(matched')
    <3>1. IsFiniteSet(SeenNow) /\ IsFiniteSet(matched)
      BY <1>1, <1>2, SeenIsFinite, MatchedIsFinite
    <3>2. Cardinality(SeenNow \cup {turn}) = Cardinality(SeenNow) + 1
      BY <2>6, <3>1, FS_AddElement
    <3>3. Cardinality(matched \cup {k}) = Cardinality(matched) + 1
      BY <2>1, <3>1, FS_AddElement
    <3> QED
      BY <1>2, <1>7, <2>6, <3>2, <3>3 DEF OneEach
  <2>8. \A m \in matched' : \E i \in SeenNow' : tracks'[i].at = Centroid(Origin, clusters[m])
    <3> TAKE m \in matched'
    <3>1. CASE m = k
      BY <2>1, <2>3, <2>5, <2>6, <3>1
    <3>2. CASE m \in matched
      <4>1. PICK i \in SeenNow : tracks[i].at = Centroid(Origin, clusters[m])
        BY <1>2, <3>2 DEF OneEach
      <4>2. i \in SeenNow' /\ tracks'[i] = tracks[i]
        BY <1>1, <2>5, <2>6 DEF SeenNow
      <4> QED
        BY <4>1, <4>2
    <3> QED
      BY <1>7, <3>1, <3>2
  <2>9. \A i \in 1..n : now - tracks'[i].last_seen < max_track_age
    <3>1. now - t.last_seen < max_track_age
      BY <1>1, <2>3, ClusteringConstants
    <3> QED
      BY <1>1, <1>2, <2>5, <3>1 DEF OneEach
  <2>10. OneEach(matched)'
    BY <2>5, <2>7, <2>8, <2>9 DEF OneEach
  <2>11. matched' \in SUBSET DOMAIN clusters
    BY <1>2, <1>7, <2>1
  <2> QED
    BY <1>5, <2>2, <2>3, <2>4, <2>10, <2>11
<1> QED
  BY <1>6, <1>7 DEF Associate, match

\* The clusters left get tracks of their own, with the next ids.
LEMMA CreateKeepsTracks ==
    ASSUME FrameInv, TrackInv, ppc = "track", ppc' = "map", turn > Len(tracks), CreateTracks(Origin, now),
           UNCHANGED <<now, clusters, matched, turn>>
    PROVE  TrackInv'
<1> DEFINE U == DOMAIN clusters \ matched
           u == Ascending(U)
           n == Len(tracks)
           k == Cardinality(U)
           new == [i \in DOMAIN u |-> NewTrack(next_track_id + i - 1, Centers(Origin)[u[i]], now)]
<1>1. /\ tracks \in Seq(TrackRecord) /\ n \in Nat /\ DOMAIN tracks = 1..n /\ now \in Nat
      /\ next_track_id \in Nat /\ matched \in SUBSET DOMAIN clusters /\ OneEach(matched)
  BY DEF TrackInv, FrameInv
<1>2. U \in SUBSET (1..Len(clusters)) /\ Len(clusters) \in Nat
  BY <1>1, MatchedIsFinite
<1>3. /\ k \in Nat /\ u \in [1..k -> U]
      /\ \A c \in U : \E i \in 1..k : u[i] = c
  <2> HIDE DEF U
  <2> QED
    BY <1>2, AscendingLists
<1>4. k = Len(clusters) - Cardinality(matched)
  <2>1. matched \cap DOMAIN clusters = matched /\ DOMAIN clusters \cap matched = matched
    BY <1>1
  <2>2. IsFiniteSet(DOMAIN clusters) /\ Cardinality(DOMAIN clusters) = Len(clusters)
    BY <1>1, MatchedIsFinite
  <2>3. Cardinality(DOMAIN clusters \ matched) =
           Cardinality(DOMAIN clusters) - Cardinality(DOMAIN clusters \cap matched)
    BY <2>2, FS_Difference
  <2> QED
    BY <2>1, <2>2, <2>3
<1> HIDE DEF u, k
<1>5. \A i \in 1..k : u[i] \in DOMAIN clusters /\ u[i] \in U
  BY <1>3
<1> HIDE DEF U
<1>6. ASSUME NEW i \in 1..k
      PROVE  /\ new[i] \in TrackRecord /\ new[i].id = next_track_id + i - 1 /\ new[i].last_seen = now
             /\ new[i].at = Centroid(Origin, clusters[u[i]])
             /\ new[i].consecutive <= new[i].total
  <2>1. DOMAIN u = 1..k
    BY <1>3
  <2>2. Centers(Origin)[u[i]] \in Vector /\ Centers(Origin)[u[i]] = Centroid(Origin, clusters[u[i]])
    BY <1>5, CentersAreVectors
  <2> DEFINE at == Centers(Origin)[u[i]]
             id == next_track_id + i - 1
  <2>3. id \in Nat
    BY <1>1, <1>3
  <2>4. new[i] = NewTrack(id, at, now)
    BY <2>1
  <2> HIDE DEF at, id, new
  <2>5. new[i] = [id |-> id, at |-> at, last_seen |-> now, consecutive |-> 1, total |-> 1]
    BY <2>4 DEF NewTrack
  <2>6. new[i] \in TrackRecord
    BY <1>1, <2>2, <2>3, <2>5 DEF TrackRecord, at
  <2>7. new[i].id = id /\ new[i].last_seen = now /\ new[i].at = at /\ new[i].consecutive = 1 /\ new[i].total = 1
    BY <2>5
  <2> QED
    BY <2>2, <2>6, <2>7 DEF at, id
<1>7. new \in Seq(TrackRecord) /\ Len(new) = k
  <2>1. new = [i \in 1..k |-> new[i]]
    BY <1>3
  <2> HIDE DEF new
  <2> QED
    BY <1>3, <1>6, <2>1
<1>8. tracks' = tracks \o new
  BY DEF CreateTracks, u, U
<1>9. next_track_id' = next_track_id + k
  <2>1. Len(u) = k
    BY <1>3
  <2> QED
    BY <2>1 DEF CreateTracks, u, U
<1> HIDE DEF new
<1>10. /\ tracks' \in Seq(TrackRecord) /\ Len(tracks') = n + k /\ DOMAIN tracks' = 1..n + k
       /\ \A i \in 1..n : tracks'[i] = tracks[i]
       /\ \A i \in 1..k : tracks'[n + i] = new[i]
  <2> HIDE DEF n
  <2>1. Len(tracks) = n /\ tracks \o new \in Seq(TrackRecord) /\ Len(tracks \o new) = n + k
    BY <1>1, <1>3, <1>7 DEF n
  <2>2. \A i \in 1..n : (tracks \o new)[i] = tracks[i]
    BY <1>1, <1>3, <1>7, <2>1
  <2>3. \A i \in 1..k : (tracks \o new)[n + i] = new[i]
    BY <1>1, <1>3, <1>7, <2>1
  <2>4. DOMAIN (tracks \o new) = 1..n + k
    BY <2>1
  <2> DEFINE all == tracks \o new
  <2>5. tracks' = all
    BY <1>8
  <2>6. /\ all \in Seq(TrackRecord) /\ Len(all) = n + k /\ DOMAIN all = 1..n + k
        /\ \A i \in 1..n : all[i] = tracks[i]
        /\ \A i \in 1..k : all[n + i] = new[i]
    BY <2>1, <2>2, <2>3, <2>4
  <2> HIDE DEF all
  <2> QED
    BY <2>5, <2>6
<1> HIDE DEF n
<1>11. ASSUME NEW i \in 1..n + k
       PROVE  i \in 1..n \/ (i - n \in 1..k /\ tracks'[i] = new[i - n])
  <2>1. i \in 1..n \/ (i - n \in 1..k /\ n + (i - n) = i)
    BY <1>1, <1>3
  <2> QED
    BY <1>10, <2>1
<1>12. \A i \in 1..n + k : /\ tracks'[i].consecutive <= tracks'[i].total
                           /\ tracks'[i].id < next_track_id' /\ tracks'[i].last_seen <= now
  <2> TAKE i \in 1..n + k
  <2>1. CASE i \in 1..n
    <3>1. tracks'[i] = tracks[i] /\ tracks[i] \in TrackRecord
      BY <1>1, <1>10, <2>1
    <3>2. tracks[i].id < next_track_id /\ tracks[i].id \in Nat
      BY <1>1, <2>1, <3>1 DEF TrackInv, TrackRecord
    <3>3. tracks[i].consecutive <= tracks[i].total /\ tracks[i].last_seen <= now
      BY <1>1, <2>1 DEF TrackInv
    <3>4. tracks[i].id < next_track_id + k
      BY <1>1, <1>3, <3>2
    <3> QED
      BY <1>9, <3>1, <3>3, <3>4
  <2>2. CASE i - n \in 1..k /\ tracks'[i] = new[i - n]
    <3> DEFINE m == i - n
    <3>1. m \in 1..k /\ tracks'[i] = new[m]
      BY <2>2
    <3> HIDE DEF m
    <3>2. /\ new[m].id = next_track_id + m - 1 /\ new[m].last_seen = now
          /\ new[m].consecutive <= new[m].total
      BY <1>6, <3>1
    <3>3. next_track_id + m - 1 < next_track_id + k
      BY <1>1, <1>3, <3>1
    <3> QED
      BY <1>1, <1>9, <3>1, <3>2, <3>3
  <2> QED
    BY <1>11, <2>1, <2>2
<1>13. \A i, j \in 1..n + k : i < j => tracks'[i].id < tracks'[j].id
  <2> SUFFICES ASSUME NEW i \in 1..n + k, NEW j \in 1..n + k, i < j
               PROVE  tracks'[i].id < tracks'[j].id
    OBVIOUS
  <2>1. CASE j \in 1..n
    <3>1. i \in 1..n
      BY <1>1, <2>1
    <3> QED
      BY <1>1, <1>10, <2>1, <3>1 DEF TrackInv
  <2>2. CASE j - n \in 1..k /\ tracks'[j] = new[j - n]
    <3> DEFINE m == j - n
    <3>1. m \in 1..k /\ tracks'[j] = new[m]
      BY <2>2
    <3>2. tracks'[j].id = next_track_id + m - 1
      BY <1>6, <3>1
    <3>3. CASE i \in 1..n
      <4>1. tracks'[i] = tracks[i] /\ tracks[i] \in TrackRecord
        BY <1>1, <1>10, <3>3
      <4>2. tracks[i].id < next_track_id /\ tracks[i].id \in Nat
        BY <1>1, <3>3, <4>1 DEF TrackInv, TrackRecord
      <4> HIDE DEF m
      <4>3. tracks[i].id < next_track_id + m - 1
        BY <1>1, <1>3, <3>1, <4>2
      <4> QED
        BY <3>2, <4>1, <4>3
    <3>4. CASE i - n \in 1..k /\ tracks'[i] = new[i - n]
      <4> DEFINE l == i - n
      <4>1. l \in 1..k /\ tracks'[i] = new[l] /\ l < m
        BY <1>1, <3>4
      <4>2. tracks'[i].id = next_track_id + l - 1
        BY <1>6, <4>1
      <4> HIDE DEF l, m
      <4>3. next_track_id + l - 1 < next_track_id + m - 1
        BY <1>1, <1>3, <3>1, <4>1
      <4> QED
        BY <3>2, <4>2, <4>3
    <3> QED
      BY <1>11, <3>3, <3>4
  <2> QED
    BY <1>11, <2>1, <2>2
<1>14. SeenNow' = SeenNow \cup (n + 1..n + k) /\ SeenNow \cap (n + 1..n + k) = {}
  <2>1. SeenNow' \subseteq SeenNow \cup (n + 1..n + k)
    <3> SUFFICES ASSUME NEW i \in 1..n + k, tracks'[i].last_seen = now, i \in 1..n PROVE i \in SeenNow
      <4>1. \A i \in 1..n + k : i \in 1..n \/ i \in n + 1..n + k
        BY <1>1, <1>3
      <4> QED
        BY <1>10, <4>1 DEF SeenNow
    <3> QED
      BY <1>1, <1>10 DEF SeenNow
  <2>2. SeenNow \subseteq SeenNow' /\ SeenNow \subseteq 1..n
    <3>1. \A i \in 1..n : i \in 1..n + k
      BY <1>1, <1>3
    <3> QED
      BY <1>1, <1>10, <3>1 DEF SeenNow
  <2>3. (n + 1..n + k) \subseteq SeenNow'
    <3> SUFFICES ASSUME NEW i \in n + 1..n + k PROVE i \in SeenNow'
      OBVIOUS
    <3>1. i \in 1..n + k /\ i \notin 1..n
      BY <1>1, <1>3
    <3>2. i - n \in 1..k /\ tracks'[i] = new[i - n]
      BY <1>11, <3>1
    <3>3. tracks'[i].last_seen = now
      BY <1>6, <3>2
    <3> QED
      BY <1>10, <3>1, <3>3 DEF SeenNow
  <2>4. (1..n) \cap (n + 1..n + k) = {}
    BY <1>1
  <2> QED
    BY <2>1, <2>2, <2>3, <2>4
<1>15. Cardinality(SeenNow') = Cardinality(DOMAIN clusters)
  <2>1. IsFiniteSet(n + 1..n + k) /\ Cardinality(n + 1..n + k) = k
    <3>1. n + 1 \in Int /\ n + k \in Int /\ (n + 1 > n + k => k = 0) /\ (n + k) - (n + 1) + 1 = k
      BY <1>1, <1>3
    <3>2. IsFiniteSet(n + 1..n + k) /\ Cardinality(n + 1..n + k) =
             IF n + 1 > n + k THEN 0 ELSE (n + k) - (n + 1) + 1
      BY <3>1, FS_Interval
    <3> QED
      BY <3>1, <3>2
  <2>2. IsFiniteSet(SeenNow) /\ Cardinality(SeenNow) \in Nat
    BY <1>1, SeenIsFinite
  <2>3. Cardinality(SeenNow') = Cardinality(SeenNow) + k
    <3> DEFINE T == n + 1..n + k
    <3>1. IsFiniteSet(T) /\ Cardinality(T) = k /\ SeenNow' = SeenNow \cup T /\ SeenNow \cap T = {}
      BY <1>14, <2>1
    <3> HIDE DEF T
    <3>2. Cardinality(SeenNow \cup T) = Cardinality(SeenNow) + Cardinality(T) - Cardinality(SeenNow \cap T)
      BY <2>2, <3>1, FS_Union
    <3>3. Cardinality(SeenNow \cap T) = 0
      BY <3>1, FS_EmptySet
    <3> QED
      BY <1>3, <2>2, <3>1, <3>2, <3>3
  <2>4. Cardinality(SeenNow) = Cardinality(matched)
    BY <1>1 DEF OneEach
  <2> QED
    BY <1>1, <1>4, <2>2, <2>3, <2>4, MatchedIsFinite
<1>16. \A c \in DOMAIN clusters : \E i \in SeenNow' : tracks'[i].at = Centroid(Origin, clusters[c])
  <2> TAKE c \in DOMAIN clusters
  <2>1. CASE c \in matched
    <3>1. PICK i \in SeenNow : tracks[i].at = Centroid(Origin, clusters[c])
      BY <1>1, <2>1 DEF OneEach
    <3>2. i \in SeenNow' /\ tracks'[i] = tracks[i]
      BY <1>1, <1>10, <1>14 DEF SeenNow
    <3> QED
      BY <3>1, <3>2
  <2>2. CASE c \notin matched
    <3>1. PICK i \in 1..k : u[i] = c
      BY <1>3, <2>2 DEF U
    <3>2. tracks'[n + i] = new[i] /\ new[i].at = Centroid(Origin, clusters[c])
      BY <1>6, <1>10, <3>1
    <3>3. n + i \in SeenNow'
      BY <1>1, <1>3, <1>14
    <3> QED
      BY <3>2, <3>3
  <2> QED
    BY <2>1, <2>2
<1>17. \A i \in 1..n + k : now - tracks'[i].last_seen < max_track_age
  <2> TAKE i \in 1..n + k
  <2>1. CASE i \in 1..n
    BY <1>1, <1>10, <2>1 DEF OneEach
  <2>2. CASE i - n \in 1..k /\ tracks'[i] = new[i - n]
    <3>1. tracks'[i].last_seen = now
      BY <1>6, <2>2
    <3> QED
      BY <1>1, <3>1, ClusteringConstants
  <2> QED
    BY <1>11, <2>1, <2>2
<1>18. OneEach(DOMAIN clusters)'
  BY <1>10, <1>15, <1>16, <1>17 DEF OneEach
<1>19. next_track_id' \in Nat
  BY <1>1, <1>3, <1>9
<1> QED
  BY <1>1, <1>10, <1>12, <1>13, <1>18, <1>19 DEF TrackInv

-----------------------------------------------------------------------------
LEMMA TrackStep == FrameInv /\ TrackInv /\ [PNext]_plannerVars => TrackInv'
<1> SUFFICES ASSUME FrameInv, TrackInv, [PNext]_plannerVars PROVE TrackInv'
  OBVIOUS
<1>1. CASE Frame
  <2>1. /\ UNCHANGED <<clusters, tracks, next_track_id, matched, turn>>
        /\ ppc = "frame" /\ ppc' = "cluster" /\ now \in Nat /\ now' \in now + 1..now + 2
        /\ matched = {} /\ turn = 1 /\ tracks \in Seq(TrackRecord)
    BY <1>1 DEF Frame, clusteringVars, TrackInv, FrameInv
  <2>2. \A i \in DOMAIN tracks : tracks[i].last_seen < now' /\ tracks[i].last_seen <= now'
    <3> TAKE i \in DOMAIN tracks
    <3>1. tracks[i] \in TrackRecord
      BY <2>1
    <3>2. tracks[i].last_seen \in Nat /\ tracks[i].last_seen <= now
      BY <3>1 DEF TrackInv, TrackRecord
    <3> QED
      BY <2>1, <3>2
  <2> QED
    BY <2>1, <2>2 DEF TrackInv
<1>2. CASE Cluster
  <2>1. /\ UNCHANGED <<tracks, next_track_id, matched, turn, now>> /\ ppc = "cluster"
        /\ ppc' \in {"cluster", "age"} /\ matched = {}
    BY <1>2 DEF Cluster, TrackInv
  <2> QED
    BY <2>1 DEF TrackInv
<1>3. CASE Age
  BY <1>3, AgeKeepsTracks
<1>4. CASE Track
  <2>1. ppc = "track" /\ UNCHANGED <<now, clusters>>
    BY <1>4 DEF Track
  <2>2. CASE Associate(Origin, now) /\ UNCHANGED <<next_track_id, ppc>>
    BY <2>1, <2>2, AssociateKeepsTracks
  <2>3. CASE turn > Len(tracks) /\ CreateTracks(Origin, now) /\ ppc' = "map" /\ UNCHANGED <<matched, turn>>
    BY <2>1, <2>3, CreateKeepsTracks
  <2> QED
    BY <1>4, <2>2, <2>3 DEF Track
<1>5. CASE Again
  BY <1>5 DEF Again, TrackInv
<1>6. CASE Map \/ Plan \/ SearchStep \/ GiveUp \/ Trace
  <2>1. /\ UNCHANGED <<clusters, tracks, next_track_id, matched, turn, now>>
        /\ ppc \in {"map", "plan", "search", "trace", "done"}
        /\ ppc' \in {"map", "plan", "search", "trace", "done"}
    BY <1>6 DEF Map, Plan, SearchStep, GiveUp, Trace, clusteringVars
  <2> QED
    BY <2>1 DEF TrackInv, OneEach, SeenNow
<1>7. CASE Idle \/ UNCHANGED plannerVars
  BY <1>7 DEF Idle, plannerVars, clusteringVars, TrackInv, OneEach, SeenNow
<1> QED
  BY <1>1, <1>2, <1>3, <1>4, <1>5, <1>6, <1>7 DEF PNext

LEMMA TrackAlways == PSpec => []TrackInv
  BY FrameAlways, TrackInit, TrackStep, PTL DEF PSpec

\* Every cluster ends the frame with one track, ids are never given twice and
\* old tracks are gone (clustering.hpp:317-367).
THEOREM ClustersAreTracked == PSpec => []OneTrackPerCluster
<1>1. FrameInv /\ TrackInv => OneTrackPerCluster
  <2> SUFFICES ASSUME FrameInv, TrackInv PROVE OneTrackPerCluster
    OBVIOUS
  <2>1. ASSUME ppc \notin {"frame", "cluster", "age", "track"}
        PROVE  OneEach(DOMAIN clusters) /\ Cardinality(DOMAIN clusters) = Len(clusters)
    BY <2>1, MatchedIsFinite DEF FrameInv, TrackInv
  <2> QED
    BY <2>1 DEF OneTrackPerCluster, TrackInv, OneEach, SeenNow
<1> QED
  BY <1>1, FrameAlways, TrackAlways, PTL

\* Indices stay inside their arrays through the whole pipeline.
THEOREM PlannerTypes == PSpec => []PlannerTypeOK
<1>1. FrameInv /\ MapInv /\ TrackInv /\ SearchInv => PlannerTypeOK
  <2> SUFFICES ASSUME FrameInv, MapInv, TrackInv, SearchInv PROVE PlannerTypeOK
    OBVIOUS
  <2>1. \A i \in DOMAIN clusters : clusters[i] \subseteq Active
    BY ClustersHoldVoxels
  <2>2. \A i \in DOMAIN tracks : tracks[i].consecutive <= tracks[i].total /\ tracks[i].at \in Vector
    <3> TAKE i \in DOMAIN tracks
    <3>1. tracks[i] \in TrackRecord
      BY DEF TrackInv
    <3> QED
      BY <3>1 DEF TrackInv, TrackRecord
  <2>3. occupied \subseteq Place /\ costs \in [Place -> 0..10]
    BY DEF MapInv
  <2>4. SearchType /\ Frontier /\ Explored
    BY DEF SearchInv, OrderInv, ReachInv, TreeInv
  <2>5. open \cap occupied = {} /\ closed \cap occupied = {}
    BY <2>4 DEF Explored
  <2>6. \A p \in open \cup closed : g[p] # Infinite
    BY <2>4, AstarConstants DEF Frontier
  <2> QED
    BY <2>1, <2>2, <2>3, <2>4, <2>5, <2>6 DEF PlannerTypeOK, SearchType
<1> QED
  BY <1>1, FrameAlways, MapAlways, TrackAlways, SearchInvAlways, PTL
=============================================================================
