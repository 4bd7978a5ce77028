------------------------------- MODULE Costmap -------------------------------
(***************************************************************************)
(* NavigationCostmap and VoxelCostmapGenerator of core/navigation.hpp: a   *)
(* square map around the drone, onto which the voxels of an altitude band  *)
(* are projected.  A place is a pair of map indices; costs count tenths.   *)
(* The map's Size is declared with the search over it, in Astar.           *)
(***************************************************************************)
EXTENDS Clustering, Astar

CONSTANTS
    Resolution,        \* edge of a place (0.5 m)
    Horizon,           \* horizon_distance
    SafetyMargin,      \* safety_margin, here and below in units of length
    Meter,             \* one metre
    AltitudeBand       \* altitude_band_width

ASSUME CostmapConstants ==
    /\ {1, 2} \subseteq Axis
    /\ {Resolution, Horizon, Meter} \subseteq Nat \ {0}
    /\ {SafetyMargin, AltitudeBand} \subseteq Nat
    /\ Size = (2 * Horizon) \div Resolution

MapOrigin(drone) == [a \in Axis |-> IF a \in {1, 2} THEN drone[a] - Horizon ELSE drone[a]]

\* static_cast<int> rounds toward zero.
Truncate(x, y) == IF x < 0 THEN -((-x) \div y) ELSE x \div y

\* world_to_grid of a position in 1/Fine of the unit.
WorldToGrid(p, drone) ==
    LET index(a) == Truncate(p[a] - Fine * MapOrigin(drone)[a], Fine * Resolution)
    IN  <<index(1), index(2)>>

InBand(z, drone_z) == 2 * z >= 2 * drone_z - AltitudeBand /\ 2 * z <= 2 * drone_z + AltitudeBand

\* A voxel is in the band if its lower corner is.
Projected(o, drone) == {c \in Cell : \A a \in Axis \ {1, 2} : InBand(Corner(o, c)[a], drone[a])}

PlaceOf(o, drone, c) == WorldToGrid([a \in Axis |-> Fine * Corner(o, c)[a]], drone)

VoxelCost(dyn, stat, c) == 3 * stat[c] + 7 * dyn[c]

Largest(values) == Max({0} \cup {IF v > 10 THEN 10 ELSE v : v \in values})

Disc(p, radius) ==
    {q \in Place : Squared(q[1] - p[1]) + Squared(q[2] - p[2]) <= Squared(radius)}

\* mark_cluster_area_occupied adds a margin in metres to a number of places.
ClusterRadius(cluster) == (Meter * Extent(cluster) + Resolution * SafetyMargin) \div (Resolution * Meter)

Margin == SafetyMargin \div Resolution

\* Places by which the voxel reaches past that of its corner.
Reach == (V + Resolution - 2) \div Resolution

\* The margin covers a voxel (2 m against 0.5 m in the code's defaults).
ASSUME MarginCoversVoxel == 2 * Squared(Reach) <= Squared(Margin)

\* 0.5 * (1 - distance / margin), rounded down to a tenth.
MarginCost(p, q) ==
    Max({t \in 0..5 :
            t = 0 \/ Squared(5 * Margin - t * Margin) >= 25 * (Squared(q[1] - p[1]) + Squared(q[2] - p[2]))})

\* Mutant: the generator does not add the margins.
GenerateBare(dyn, stat, o, drone, found) ==
    LET hits(p) == {VoxelCost(dyn, stat, c) : c \in {c \in Projected(o, drone) : PlaceOf(o, drone, c) = p}}
    IN  [occupied |-> {p \in Place : \E v \in hits(p) : v > 5},
         costs    |-> [p \in Place |-> Largest(hits(p))]]

\* project_voxels_to_costmap, add_cluster_costs, add_safety_margins.
GenerateCostmap(dyn, stat, o, drone, found) ==
    LET hits(p) == {VoxelCost(dyn, stat, c) : c \in {c \in Projected(o, drone) : PlaceOf(o, drone, c) = p}}
        center(i) == WorldToGrid(Centroid(o, found[i]), drone)
        inside == {i \in DOMAIN found : center(i) \in Place}
        average(i) == (10 * SumOver([c \in found[i] |-> dyn[c]], found[i])) \div Cardinality(found[i])
        marked == {p \in Place : \E v \in hits(p) : v > 5}
                     \cup UNION {Disc(center(i), ClusterRadius(found[i])) : i \in inside}
    IN  [occupied |-> UNION {Disc(p, Margin) : p \in marked},
         costs    |-> [p \in Place |->
                        Largest(hits(p) \cup {average(i) : i \in {i \in inside : center(i) = p}}
                                \cup {MarginCost(q, p) : q \in {q \in marked : p \in Disc(q, Margin)}})]]
=============================================================================
