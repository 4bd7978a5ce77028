------------------------------- MODULE Planner -------------------------------
(***************************************************************************)
(* The planning pipeline of core/clustering.hpp and core/navigation.hpp,   *)
(* called in the order of tests/smoke_test.cpp: for each frame of voxels   *)
(* find_clusters, update_tracks, generate_costmap and plan_path.           *)
(***************************************************************************)
EXTENDS Costmap, HeapQueue

CONSTANTS
    Scenes,    \* contents of the grid: [dyn, stat]
    Drones,    \* positions of the drone
    Trips,     \* pairs of positions, start and goal
    MaxTime    \* bound on the clock

ASSUME PlannerConstants ==
    /\ \A s \in Scenes : {s.dyn, s.stat} \subseteq [Cell -> Nat]
    /\ Drones \subseteq Vector /\ Trips \subseteq Vector \X Vector
    /\ MaxTime \in Nat

VARIABLES
    heap,     \* the vector of the priority queue
    now,      \* steady_clock
    ppc,      \* "frame", "cluster", "age", "track", "map", "plan", "search", "trace", "done"
    scene, drone,
    trip,     \* what plan_path was called for
    path      \* places of the path it returned, <<>> for none

mapVars    == <<occupied, costs>>
searchVars == <<start, goal, spc, g, came_from, open, closed, in_order, heap>>
plannerVars == <<clusteringVars, mapVars, searchVars, now, ppc, scene, drone, trip, path>>

Empty == [dyn |-> [c \in Cell |-> 0], stat |-> [c \in Cell |-> 0]]
Origin == [a \in Axis |-> 0]
Stay == <<Origin, Origin>>

PInit ==
    /\ ClusteringInit /\ Off
    /\ occupied = {} /\ costs = [p \in Place |-> 0]
    /\ now = 0 /\ ppc = "frame" /\ scene = Empty /\ drone = Origin
    /\ heap = <<>> /\ trip = Stay /\ path = <<>>

Active == {c \in Cell : scene.dyn[c] > 0}

\* A new frame, some time after the last.
Frame ==
    /\ ppc = "frame"
    /\ now' \in now + 1..now + 2 /\ now' <= MaxTime
    /\ scene' \in Scenes /\ drone' \in Drones
    /\ ppc' = "cluster"
    /\ UNCHANGED <<clusteringVars, mapVars, searchVars, trip, path>>

\* There is no frame within the bound any more.
Idle == ppc = "frame" /\ now = MaxTime /\ UNCHANGED plannerVars

Cluster ==
    /\ ppc = "cluster"
    /\ \/ (\E c \in Active : Visit(Active, c)) /\ UNCHANGED ppc
       \/ Active \subseteq visited /\ ppc' = "age" /\ UNCHANGED <<clusters, visited>>
    /\ UNCHANGED <<tracks, next_track_id, matched, turn, mapVars, searchVars, now, scene, drone, trip, path>>

Age ==
    /\ ppc = "age"
    /\ DropOld(now)
    /\ ppc' = "track"
    /\ UNCHANGED <<clusters, visited, next_track_id, matched, turn>>
    /\ UNCHANGED <<mapVars, searchVars, now, scene, drone, trip, path>>

Track ==
    /\ ppc = "track"
    /\ \/ Associate(Origin, now) /\ UNCHANGED <<next_track_id, ppc>>
       \/ turn > Len(tracks) /\ CreateTracks(Origin, now) /\ ppc' = "map" /\ UNCHANGED <<matched, turn>>
    /\ UNCHANGED <<clusters, visited, mapVars, searchVars, now, scene, drone, trip, path>>

Map ==
    /\ ppc = "map"
    /\ LET map == GenerateCostmap(scene.dyn, scene.stat, Origin, drone, clusters)
       IN  occupied' = map.occupied /\ costs' = map.costs
    /\ ppc' = "plan"
    /\ UNCHANGED <<clusteringVars, searchVars, now, scene, drone, trip, path>>

-----------------------------------------------------------------------------
(* plan_path.                                                              *)

Within(i) == IF i < 0 THEN 0 ELSE IF i >= Size THEN Size - 1 ELSE i

\* Mutant: a place off the map stays there.
Unclamped(p) == p

Clamped(p) == <<Within(p[1]), Within(p[2])>>
PlaceAt(p) == WorldToGrid([a \in Axis |-> Fine * p[a]], drone)

Plan ==
    /\ ppc = "plan"
    /\ trip' \in Trips
    /\ Begin(Clamped(PlaceAt(trip'[1])), Clamped(PlaceAt(trip'[2])))
    /\ heap' = IF spc' = "search" THEN <<start'>> ELSE <<>>
    /\ ppc' = "search"
    /\ UNCHANGED <<clusteringVars, now, scene, drone, path>>

\* dx8 and dy8.
Directions == << <<1, 0>>, <<-1, 0>>, <<0, 1>>, <<0, -1>>, <<1, 1>>, <<1, -1>>, <<-1, 1>>, <<-1, -1>> >>

\* Each better neighbour gets its key and is pushed before the next is seen.
PushBetter(c, rest) ==
    FoldLeft(LAMBDA s, d :
                LET q == <<c[1] + d[1], c[2] + d[2]>>
                    key == [s.key EXCEPT ![q] = g[c] + StepCost(c, q) + Heuristic(q)]
                IN  IF q \in Better(c) THEN [key |-> key, heap |-> Push(s.heap, q, key)] ELSE s,
             [key |-> [p \in Place |-> Key(p)], heap |-> rest], Directions).heap

\* The top of the queue is skipped if it was taken before.
TakeTop ==
    /\ heap # <<>>
    /\ LET c == heap[1]
           rest == Pop(heap, [p \in Place |-> Key(p)])
       IN  IF c \in closed
           THEN heap' = rest /\ UNCHANGED <<mapVars, start, goal, spc, g, came_from, open, closed, in_order>>
           ELSE /\ Take(c)
                /\ heap' = IF c = goal THEN rest ELSE PushBetter(c, rest)

SearchStep ==
    /\ ppc = "search"
    /\ TakeTop \/ (heap = <<>> /\ Exhausted /\ UNCHANGED heap)
    /\ UNCHANGED <<clusteringVars, now, ppc, scene, drone, trip, path>>

\* x * m / root of d, rounded toward zero to 1/Fine.
Share(x, m, d) ==
    LET size == AbsValue(Fine * x * m)
        i == CHOOSE i \in 0..size : i * i * d <= size * size /\ size * size < (i + 1) * (i + 1) * d
    IN  IF x < 0 THEN -i ELSE i

\* greedy_straight_line_planner: samples a resolution apart, the first that
\* is occupied or off the map ends the march; the goal is always added.
Greedy(s, t) ==
    LET distance == Apart(s, t)
        at(n) == WorldToGrid([a \in Axis |-> Fine * s[a] + Share(t[a] - s[a], n * Resolution, distance)], drone)
        samples == {n \in 1..2 * Size : Squared(n * Resolution) < distance}
        free == {n \in samples : \A i \in 1..n : at(i) \in Place \ occupied}
    IN  <<PlaceAt(s)>> \o [n \in 1..Cardinality(free) |-> at(n)] \o <<PlaceAt(t)>>

\* Without a route the waypoints are those of the greedy planner.
GiveUp ==
    /\ ppc = "search" /\ spc = "none"
    /\ path' = Greedy(trip[1], trip[2])
    /\ ppc' = "done"
    /\ UNCHANGED <<clusteringVars, mapVars, searchVars, now, scene, drone, trip>>

\* came_from is followed from the goal until it is None.
Trace ==
    /\ \/ ppc = "search" /\ spc = "found" /\ path' = <<goal>> /\ ppc' = "trace"
       \/ /\ ppc = "trace"
          /\ LET parent == came_from[Head(path)]
             IN  IF parent = None THEN ppc' = "done" /\ UNCHANGED path
                 ELSE path' = <<parent>> \o path /\ UNCHANGED ppc
    /\ UNCHANGED <<clusteringVars, mapVars, searchVars, now, scene, drone, trip>>

\* The caller drops the plan and the map.
Again ==
    /\ ppc = "done"
    /\ ppc' = "frame"
    /\ clusters' = <<>> /\ visited' = {} /\ matched' = {} /\ turn' = 1
    /\ scene' = Empty /\ drone' = Origin
    /\ occupied' = {} /\ costs' = [p \in Place |-> 0]
    /\ trip' = Stay /\ path' = <<>>
    /\ start' = <<0, 0>> /\ goal' = <<0, 0>> /\ spc' = "off"
    /\ g' = [p \in Place |-> Infinite] /\ came_from' = [p \in Place |-> None]
    /\ open' = {} /\ closed' = {} /\ in_order' = TRUE /\ heap' = <<>>
    /\ UNCHANGED <<tracks, next_track_id, now>>

PNext ==
    \/ Frame \/ Idle \/ Cluster \/ Age \/ Track \/ Map
    \/ Plan \/ SearchStep \/ GiveUp \/ Trace \/ Again

PSpec == PInit /\ [][PNext]_plannerVars

-----------------------------------------------------------------------------
(* Correctness.                                                            *)

\* Every index the code computes from a position is inside its array, the
\* bookkeeping of the search is consistent (navigation.hpp:373-460) and
\* matches are counted (clustering.hpp:331-352).
PlannerTypeOK ==
    /\ \A i \in DOMAIN clusters : clusters[i] \subseteq Active
    /\ \A i \in DOMAIN tracks : tracks[i].consecutive <= tracks[i].total /\ tracks[i].at \in Vector
    /\ occupied \subseteq Place /\ costs \in [Place -> 0..10]
    /\ start \in Place /\ goal \in Place
    /\ g \in [Place -> Nat \cup {Infinite}] /\ came_from \in [Place -> Place \cup {None}]
    /\ open \cap occupied = {} /\ closed \cap occupied = {}
    /\ \A p \in open \cup closed : g[p] # Infinite

DenseVoxels == {c \in Active : Dense(Active, c)}

\* Dense voxels that hang together, and the voxels at their border.
Component(c) ==
    Smallest(DenseVoxels, LAMBDA voxels :
        c \in voxels /\ \A e \in voxels : Neighbors(DenseVoxels, e) \subseteq voxels)
BorderOf(voxels) == UNION {Neighbors(Active, e) : e \in voxels}

\* Clusters share no voxel, each holds one component of dense voxels whole and
\* nothing but its border besides, and a component is missing only if it and
\* what earlier clusters and noise left of its border are too small: whatever
\* order the voxels are visited in (clustering.hpp:204-231, 271-299).
ComponentsAreClusters ==
    ppc = "age" =>
        /\ \A i, j \in DOMAIN clusters : i # j => clusters[i] \cap clusters[j] = {}
        /\ \A i \in DOMAIN clusters : \E c \in DenseVoxels :
              Component(c) \subseteq clusters[i] /\ clusters[i] \subseteq Component(c) \cup BorderOf(Component(c))
        /\ \A c \in DenseVoxels :
              \/ \E i \in DOMAIN clusters : c \in clusters[i]
              \/ Cardinality(Component(c)) < min_points

\* After a frame every cluster has one track of its own, ids never come again,
\* and no track outlives its age (clustering.hpp:317-367).
OneTrackPerCluster ==
    /\ \A i, j \in DOMAIN tracks : i < j => tracks[i].id < tracks[j].id
    /\ \A i \in DOMAIN tracks : tracks[i].id < next_track_id
    /\ ppc \notin {"frame", "cluster", "age", "track"} =>
          LET seen == {i \in DOMAIN tracks : tracks[i].last_seen = now}
          IN  /\ Cardinality(seen) = Len(clusters)
              /\ \A k \in DOMAIN clusters : \E i \in seen : tracks[i].at = Centroid(Origin, clusters[k])
              /\ \A i \in DOMAIN tracks : now - tracks[i].last_seen < max_track_age

\* The places under an occupied voxel of the band are blocked, all of them,
\* although only the corner's is marked: the margin covers the rest
\* (navigation.hpp:180-196, 256-292).
FootprintsBlocked ==
    ppc \in {"plan", "search", "trace", "done"} =>
        \A c \in Projected(Origin, drone) : VoxelCost(scene.dyn, scene.stat, c) > 5 =>
            \A dx, dy \in 0..V - 1 :
                LET corner == Corner(Origin, c)
                    p == PlaceAt([corner EXCEPT ![1] = @ + dx, ![2] = @ + dy])
                IN  PlaceOf(Origin, drone, c) \in Place /\ p \in Place => p \in occupied

\* The route found leads from start to goal through free places, cuts no
\* corner and visits none twice, and there is none only when there can be
\* none (navigation.hpp:385-458).
RouteSound ==
    /\ (ppc = "done" /\ spc = "found") =>
          /\ path[1] = start /\ path[Len(path)] = goal
          /\ \A i \in 1..Len(path) - 1 : LegalStep(path[i], path[i + 1])
          /\ \A i, j \in DOMAIN path : path[i] = path[j] => i = j
    /\ NoneOnlyIfCutOff

\* Costs of the cheapest routes of one step more, given those of some number.
Relaxed(cost) ==
    [q \in Place |->
        LET reached == {p \in Place : cost[p] # Infinite /\ LegalStep(p, q)}
            ways == ({cost[q]} \cup {cost[p] + StepCost(p, q) : p \in reached}) \ {Infinite}
        IN  IF ways = {} THEN Infinite ELSE Min(ways)]

\* Costs of the cheapest routes of at most n steps, until they do not change.
CheapestWithin[n \in 0..Cardinality(Place)] ==
    IF n = 0 THEN [cost |-> [p \in Place |-> IF p = start THEN 0 ELSE Infinite], settled |-> FALSE]
    ELSE LET s == CheapestWithin[n - 1]
             cost == Relaxed(s.cost)
         IN  IF s.settled THEN s ELSE [cost |-> cost, settled |-> cost = s.cost]

Cheapest == CheapestWithin[Cardinality(Place)].cost[goal]

\* The route is the cheapest as long as the queue hands nodes out in the order
\* of f.  It need not: the search lowers keys of queued nodes behind the heap's
\* back (navigation.hpp:402-404, 446-449).
RouteCheapest == (spc = "found" /\ in_order) => g[goal] = Cheapest
=============================================================================
