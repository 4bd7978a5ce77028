----------------------------- MODULE GridGeometry -----------------------------
(***************************************************************************)
(* The geometry of DualVoxelGrid in core/grid.hpp: a cube of N voxels an   *)
(* edge around an origin that moves.  Coordinates are integers in a unit   *)
(* fine enough for every length the models use; a vector is a function on  *)
(* the axes, a voxel the function of its indices, and a linear index       *)
(* (voxel_to_index) is left out because it only names the voxel.           *)
(***************************************************************************)
EXTENDS Integers

CONSTANTS
    Axis,   \* the axes: 1, 2, 3 for x, y, z
    N,      \* config.N
    V       \* config.voxel_size

ASSUME GridConstants ==
    /\ Axis \subseteq 1..3 /\ Axis # {}
    /\ N \in Nat \ {0} /\ V \in Nat \ {0}
    /\ (N * V) % 2 = 0

Vector == [Axis -> Int]
Cell   == [Axis -> 0..N - 1]

Half       == (N * V) \div 2
GridMin(o) == [a \in Axis |-> o[a] - Half]
GridMax(o) == [a \in Axis |-> o[a] + Half]

\* A point on either face counts as inside.
InBox(p, min, max) == \A a \in Axis : min[a] <= p[a] /\ p[a] <= max[a]

Clamp(i) == IF i < 0 THEN 0 ELSE IF i > N - 1 THEN N - 1 ELSE i

\* Mutant: a point on the upper face gets the index N.
VoxelAtUnclamped(p, min) == [a \in Axis |-> (p[a] - min[a]) \div V]

\* world_to_voxel for a point inside a box that starts at min.
VoxelAt(p, min) == [a \in Axis |-> Clamp((p[a] - min[a]) \div V)]

\* Within a fifth of the half size of a face.
NeedsRecentering(p, o) ==
    \E a \in Axis :
        \/ 5 * (p[a] - GridMin(o)[a]) < Half
        \/ 5 * (GridMax(o)[a] - p[a]) < Half

Adjacent(c, e) ==
    \E a \in Axis :
        /\ e[a] - c[a] \in {-1, 1}
        /\ \A b \in Axis \ {a} : e[b] = c[b]
=============================================================================
