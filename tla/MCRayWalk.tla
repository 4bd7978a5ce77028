------------------------------ MODULE MCRayWalk ------------------------------
(* A grid of 3 voxels an edge, camera positions on corners, faces, edges and
   centres of voxels inside and around it, and rays along the axes and along
   every signed permutation of (1, 2, 2). *)
EXTENDS RayWalk

MCAxis == 1..3
MCStarts == [1..3 -> {-8, -6, -4, -2, 0, 2, 4, 6, 8}]
MCDirections ==
    {[a \in 1..3 |-> IF a = b THEN s ELSE 0] : b \in 1..3, s \in {-1, 1}}
        \cup {[a \in 1..3 |-> IF a = b THEN s[a] ELSE 2 * s[a]] : b \in 1..3, s \in [1..3 -> {-1, 1}]}
=============================================================================
