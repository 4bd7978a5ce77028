------------------------------- MODULE RayWalk -------------------------------
(***************************************************************************)
(* The three voxel walks of the repository: cast_ray_into_grid and         *)
(* cast_ray_into_grid_optimized of core/ray_marching.hpp, which the live   *)
(* mapper and the tests use, and cast_ray_into_grid of the offline tool    *)
(* core/ray_voxel.cpp.  They share the stepping rule and differ in where   *)
(* they start and when they give up.                                       *)
(*                                                                         *)
(* A direction is an integer vector and time is counted in its lengths:    *)
(* the ray is at p + d * t.  The unit of length is chosen so that every    *)
(* face is met at an integer time; float rounding is not modelled.         *)
(***************************************************************************)
EXTENDS GridGeometry, Sequences, FiniteSetsExt

CONSTANTS
    Starts,      \* camera positions
    Directions,  \* ray directions
    Horizon,     \* config.horizon_distance
    Infinity     \* float infinity: later than any face is met

ASSUME RayConstants ==
    /\ Starts \subseteq Vector
    /\ Directions \subseteq Vector
    /\ \A d \in Directions : \E a \in Axis : d[a] # 0
    /\ Horizon \in Nat /\ Infinity \in Nat

VARIABLES
    rpc,      \* "idle", "walk" or "done"
    kind,     \* which of the three functions runs
    pos, dir, \* camera_pos, dir_normalized
    cell,     \* ix, iy, iz
    t_next,   \* t_max_x, t_max_y, t_max_z
    t,        \* t_current
    t_end,    \* t_max
    steps     \* the RaySteps pushed so far: voxel and distance

rayVars == <<rpc, kind, pos, dir, cell, t_next, t, t_end, steps>>

Kind   == {"live", "optimized", "offline"}
Origin == [a \in Axis |-> 0]
Lo     == GridMin(Origin)
Hi     == GridMax(Origin)

Abs(x)   == IF x < 0 THEN -x ELSE x
StepOf(x) == IF x >= 0 THEN 1 ELSE -1

\* When the ray reaches coordinate x on axis a; the axis must not be still.
TimeTo(p, d, a, x) == (StepOf(d[a]) * (x - p[a])) \div Abs(d[a])

Moving(d) == {a \in Axis : d[a] # 0}
Enters(p, d, a) == Min({TimeTo(p, d, a, Lo[a]), TimeTo(p, d, a, Hi[a])})
Leaves(p, d, a) == Max({TimeTo(p, d, a, Lo[a]), TimeTo(p, d, a, Hi[a])})

\* ray_aabb_intersection: an axis along which the ray is still must lie inside.
TEntry(p, d) == Max({Enters(p, d, a) : a \in Moving(d)})
TExit(p, d)  == Min({Leaves(p, d, a) : a \in Moving(d)})
Meets(p, d) ==
    /\ \A a \in Axis \ Moving(d) : Lo[a] <= p[a] /\ p[a] <= Hi[a]
    /\ TEntry(p, d) <= TExit(p, d)

\* The horizon in lengths of d.
SquaredLength(d) == MapThenSumSet(LAMBDA a : d[a] * d[a], Axis)
Length(d) == CHOOSE n \in 1..Infinity : n * n = SquaredLength(d)
HorizonTime(d) == Horizon \div Length(d)

\* The unit is fine enough for the instance, and infinity beyond it: lengths of
\* directions and times of faces are whole, and every face is met before Infinity.
ASSUME RayUnits ==
    /\ \A d \in Directions : \E n \in 1..Infinity : n * n = SquaredLength(d)
    /\ \A p \in Starts, d \in Directions : \A a \in Moving(d) :
          /\ V % Abs(d[a]) = 0 /\ (p[a] - Lo[a]) % Abs(d[a]) = 0
          /\ \A j \in 0..N : TimeTo(p, d, a, Lo[a] + V * j) < Infinity

PointAt(p, d, time) == [a \in Axis |-> p[a] + d[a] * time]

\* Mutant: the face behind the ray is taken for the next one.
FirstFacesBehind(p, d, c) ==
    [a \in Axis |-> IF d[a] = 0 THEN Infinity
                    ELSE TimeTo(p, d, a, Lo[a] + V * c[a])]

\* The next face on each axis: the upper one of the voxel if the ray rises.
FirstFaces(p, d, c) ==
    [a \in Axis |-> IF d[a] = 0 THEN Infinity
                    ELSE TimeTo(p, d, a, Lo[a] + V * (c[a] + (IF d[a] > 0 THEN 1 ELSE 0)))]

\* From one face on an axis to the next: t_delta_x, t_delta_y, t_delta_z.
Delta(d, a) == IF d[a] = 0 THEN Infinity ELSE V \div Abs(d[a])

Limit(k) == CASE k = "live" -> 2 * N [] k = "optimized" -> N [] k = "offline" -> Infinity

RayInit ==
    /\ rpc = "idle" /\ kind \in Kind
    /\ pos \in Starts /\ dir \in Directions
    /\ cell = Origin /\ t_next = Origin /\ t = 0 /\ t_end = 0 /\ steps = <<>>

\* Start the walk in voxel c at time from, to end at time upto.
Begin(c, from, upto) ==
    /\ rpc' = "walk"
    /\ cell' = c /\ t' = from /\ t_end' = upto
    /\ t_next' = FirstFaces(pos, dir, c)
    /\ UNCHANGED <<kind, pos, dir, steps>>

ReturnNothing ==
    /\ rpc' = "done"
    /\ UNCHANGED <<kind, pos, dir, cell, t_next, t, t_end, steps>>

\* Both walks of the live mapper: clip to the horizon, refuse an empty range.
ClippedCast ==
    LET from == Max({TEntry(pos, dir), 0})
        upto == Min({TExit(pos, dir), HorizonTime(dir)})
    IN  IF Meets(pos, dir) /\ from < upto
        THEN Begin(VoxelAt(PointAt(pos, dir, from), Lo), from, upto)
        ELSE ReturnNothing

CastLive      == rpc = "idle" /\ kind = "live" /\ ClippedCast
CastOptimized == rpc = "idle" /\ kind = "optimized" /\ ClippedCast

\* The offline walk has no horizon and does not clamp the first index: a ray
\* that enters through an upper face starts at index N and is dropped.
CastOffline ==
    /\ rpc = "idle" /\ kind = "offline"
    /\ LET from == Max({TEntry(pos, dir), 0})
           c    == [a \in Axis |-> (PointAt(pos, dir, from)[a] - Lo[a]) \div V]
       IN  IF Meets(pos, dir) /\ from <= TExit(pos, dir) /\ c \in Cell
           THEN Begin(c, from, TExit(pos, dir))
           ELSE ReturnNothing

\* The face met first; ties go to the last axis (`<` for x and y, else z).
NextAxis == CHOOSE a \in Axis : \A b \in Axis : t_next[a] < t_next[b] \/ (t_next[a] = t_next[b] /\ b <= a)

Ends == t > t_end \/ Len(steps) >= Limit(kind)

\* Mutant: the lowest voxel is taken to lie outside.
AdvanceStopsEarly ==
    /\ rpc = "walk" /\ ~Ends
    /\ steps' = Append(steps, [cell |-> cell, t |-> t])
    /\ LET a == NextAxis
       IN  /\ cell' = [cell EXCEPT ![a] = @ + StepOf(dir[a])]
           /\ t' = t_next[a]
           /\ t_next' = [t_next EXCEPT ![a] = @ + Delta(dir, a)]
    /\ rpc' = IF \E a \in Axis : cell'[a] <= 0 \/ cell'[a] >= N THEN "done" ELSE "walk"
    /\ UNCHANGED <<kind, pos, dir, t_end>>

\* One round of the loop: push the voxel, cross the next face, stop outside.
Advance ==
    /\ rpc = "walk" /\ ~Ends
    /\ steps' = Append(steps, [cell |-> cell, t |-> t])
    /\ LET a == NextAxis
       IN  /\ cell' = [cell EXCEPT ![a] = @ + StepOf(dir[a])]
           /\ t' = t_next[a]
           /\ t_next' = [t_next EXCEPT ![a] = @ + Delta(dir, a)]
    /\ rpc' = IF cell' \in Cell THEN "walk" ELSE "done"
    /\ UNCHANGED <<kind, pos, dir, t_end>>

Finish == rpc = "walk" /\ Ends /\ ReturnNothing

RayNext == CastLive \/ CastOptimized \/ CastOffline \/ Advance \/ Finish
RaySpec == RayInit /\ [][RayNext]_rayVars

-----------------------------------------------------------------------------
(* Correctness.                                                            *)

\* What is pushed indexes the voxel arrays, so it must lie inside the grid
\* (ray_marching.hpp:177, live_voxel_mapper.cpp:272).
RayTypeOK ==
    /\ rpc \in {"idle", "walk", "done"} /\ kind \in Kind
    /\ rpc = "walk" => cell \in Cell
    /\ \A i \in 1..Len(steps) : steps[i].cell \in Cell

\* Consecutive voxels share a face.
FaceToFace == \A i \in 2..Len(steps) : Adjacent(steps[i - 1].cell, steps[i].cell)

\* The walk is the ray: it leaves no gap, and the ray is in the closed voxel at
\* the time recorded for it (ray_marching.hpp:157-174).
FollowsRay ==
    /\ FaceToFace
    /\ \A i \in 1..Len(steps) : \A a \in Axis :
          LET x == PointAt(pos, dir, steps[i].t)[a] - Lo[a] - V * steps[i].cell[a]
          IN  0 <= x /\ x <= V

\* The ray spends time inside voxel c between the times from and upto.
Crosses(c, from, upto) ==
    /\ \A a \in Axis \ Moving(dir) :
        Lo[a] + V * c[a] < pos[a] /\ pos[a] < Lo[a] + V * (c[a] + 1)
    /\ LET lower(a) == TimeTo(pos, dir, a, Lo[a] + V * c[a])
           upper(a) == TimeTo(pos, dir, a, Lo[a] + V * (c[a] + 1))
       IN  Max({from} \cup {Min({lower(a), upper(a)}) : a \in Moving(dir)})
             < Min({upto} \cup {Max({lower(a), upper(a)}) : a \in Moving(dir)})

\* A walk that began and did not run into its step limit has visited every
\* voxel the ray crosses up to the end of its range, whatever face and corner
\* ties it met on the way (ray_marching.hpp:157-180, ray_voxel.cpp:364-392).
CrossesAll ==
    (rpc = "done" /\ steps # <<>> /\ Len(steps) < Limit(kind)) =>
        \A c \in Cell : Crosses(c, steps[1].t, t_end) => \E i \in 1..Len(steps) : steps[i].cell = c
=============================================================================
