------------------------------- MODULE RayProofs -------------------------------
(***************************************************************************)
(* The walks push voxels of the grid only, each next to the one before it  *)
(* and each holding the ray at its time, and they miss no voxel the ray    *)
(* crosses, for grids and voxels of any size, any camera position and any  *)
(* direction.                                                              *)
(***************************************************************************)
EXTENDS RayWalk, SequenceTheorems, TLAPS

\* A voxel the grid has, at some time.
StepIn(times) == [cell : Cell, t : times]

\* The voxel the walk stands in is one step from the last it has pushed.
InTouch ==
    (rpc = "walk" /\ steps # <<>>) => Adjacent(steps[Len(steps)].cell, cell)

RayInv ==
    /\ rpc \in {"idle", "walk", "done"} /\ kind \in Kind
    /\ pos \in Vector /\ dir \in Vector /\ \E a \in Axis : dir[a] # 0
    /\ rpc = "idle" => steps = <<>>
    /\ rpc = "walk" => cell \in Cell /\ t_next \in [Axis -> Int]
    /\ \E times : steps \in Seq(StepIn(times))
    /\ FaceToFace /\ InTouch

-----------------------------------------------------------------------------
Bounds(S) == Max(S) \in S /\ Min(S) \in S /\ \A n \in S : Min(S) <= n /\ n <= Max(S)

\* Of at most four numbers there is a largest and a smallest.
LEMMA OfFour ==
    ASSUME NEW S, S # {}, NEW w \in Int, NEW x \in Int, NEW y \in Int, NEW z \in Int,
           S \subseteq {w, x, y, z}
    PROVE  Bounds(S)
<1>1. \E m \in S : \A n \in S : m >= n
  <2> DEFINE m0 == IF w \in S THEN w ELSE IF x \in S THEN x ELSE IF y \in S THEN y ELSE z
             m1 == IF x \in S /\ x >= m0 THEN x ELSE m0
             m2 == IF y \in S /\ y >= m1 THEN y ELSE m1
             m3 == IF z \in S /\ z >= m2 THEN z ELSE m2
  <2>1. m0 \in S /\ m0 \in Int /\ (w \in S => m0 = w)
    OBVIOUS
  <2>2. m1 \in S /\ m1 \in Int /\ m1 >= m0 /\ (x \in S => m1 >= x)
    BY <2>1
  <2>3. m2 \in S /\ m2 \in Int /\ m2 >= m1 /\ (y \in S => m2 >= y)
    BY <2>2
  <2>4. m3 \in S /\ m3 \in Int /\ m3 >= m2 /\ (z \in S => m3 >= z)
    BY <2>3
  <2>5. \A n \in S : m3 >= n
    <3> HIDE DEF m0, m1, m2, m3
    <3> QED
      BY <2>1, <2>2, <2>3, <2>4
  <2> QED
    BY <2>4, <2>5
<1>2. \E m \in S : \A n \in S : m <= n
  <2> DEFINE m0 == IF w \in S THEN w ELSE IF x \in S THEN x ELSE IF y \in S THEN y ELSE z
             m1 == IF x \in S /\ x <= m0 THEN x ELSE m0
             m2 == IF y \in S /\ y <= m1 THEN y ELSE m1
             m3 == IF z \in S /\ z <= m2 THEN z ELSE m2
  <2>1. m0 \in S /\ m0 \in Int /\ (w \in S => m0 = w)
    OBVIOUS
  <2>2. m1 \in S /\ m1 \in Int /\ m1 <= m0 /\ (x \in S => m1 <= x)
    BY <2>1
  <2>3. m2 \in S /\ m2 \in Int /\ m2 <= m1 /\ (y \in S => m2 <= y)
    BY <2>2
  <2>4. m3 \in S /\ m3 \in Int /\ m3 <= m2 /\ (z \in S => m3 <= z)
    BY <2>3
  <2>5. \A n \in S : m3 <= n
    <3> HIDE DEF m0, m1, m2, m3
    <3> QED
      BY <2>1, <2>2, <2>3, <2>4
  <2> QED
    BY <2>4, <2>5
<1>3. Max(S) \in S /\ \A n \in S : Max(S) >= n
  BY <1>1 DEF Max
<1>4. Min(S) \in S /\ \A n \in S : Min(S) <= n
  BY <1>2 DEF Min
<1>5. S \subseteq Int
  OBVIOUS
<1>6. ASSUME NEW n \in S PROVE n <= Max(S)
  BY <1>3, <1>5
<1> QED
  BY <1>3, <1>4, <1>6 DEF Bounds

\* The same for one number and those of the axes that are picked out.
LEMMA OverAxes ==
    ASSUME NEW w \in Int, NEW f \in [Axis -> Int], NEW A \in SUBSET Axis,
           NEW S, S # {}, S \subseteq {w} \cup {f[a] : a \in A}
    PROVE  Bounds(S) /\ S \subseteq Int
<1> DEFINE v(i) == IF i \in Axis THEN f[i] ELSE 0
<1>1. v(1) \in Int /\ v(2) \in Int /\ v(3) \in Int
  OBVIOUS
<1>2. S \subseteq {w, v(1), v(2), v(3)}
  <2> SUFFICES ASSUME NEW a \in A PROVE f[a] \in {v(1), v(2), v(3)}
    OBVIOUS
  <2> a = 1 \/ a = 2 \/ a = 3
    BY GridConstants
  <2> QED
    OBVIOUS
<1> HIDE DEF v
<1>3. Bounds(S)
  BY <1>1, <1>2, OfFour
<1>4. S \subseteq Int
  BY <1>1, <1>2
<1> QED
  BY <1>3, <1>4

LEMMA OfTwo == ASSUME NEW x \in Int, NEW y \in Int PROVE Bounds({x, y})
  BY OfFour

LEMMA BoxInVector == Lo \in Vector /\ Hi \in Vector
<1>1. Half \in Int
  BY GridConstants DEF Half
<1> QED
  BY <1>1 DEF Lo, Hi, GridMin, GridMax, Origin, Vector

LEMMA TimeInt ==
    ASSUME NEW p \in Vector, NEW d \in Vector, NEW a \in Axis, d[a] # 0, NEW x \in Int
    PROVE  TimeTo(p, d, a, x) \in Int
<1>1. d[a] \in Int /\ p[a] \in Int
  BY DEF Vector
<1>2. Abs(d[a]) \in Nat \ {0}
  BY <1>1 DEF Abs
<1>3. StepOf(d[a]) * (x - p[a]) \in Int
  BY <1>1 DEF StepOf
<1> QED
  BY <1>2, <1>3 DEF TimeTo

\* The ray meets the box's faces at times that are numbers, and is in the box
\* when it has entered it on every axis and left it on none.
LEMMA EntryInt ==
    ASSUME NEW p \in Vector, NEW d \in Vector, \E a \in Axis : d[a] # 0
    PROVE  /\ TEntry(p, d) \in Int /\ TExit(p, d) \in Int
           /\ \A a \in Moving(d) : /\ Enters(p, d, a) \in Int /\ Leaves(p, d, a) \in Int
                                   /\ Enters(p, d, a) <= TEntry(p, d)
                                   /\ TExit(p, d) <= Leaves(p, d, a)
<1> DEFINE A == Moving(d)
           f == [a \in Axis |-> IF d[a] # 0 THEN Enters(p, d, a) ELSE 0]
           g == [a \in Axis |-> IF d[a] # 0 THEN Leaves(p, d, a) ELSE 0]
           E == {Enters(p, d, a) : a \in A}
           L == {Leaves(p, d, a) : a \in A}
<1>1. ASSUME NEW a \in A PROVE Enters(p, d, a) \in Int /\ Leaves(p, d, a) \in Int
  <2>1. a \in Axis /\ d[a] # 0 /\ Lo[a] \in Int /\ Hi[a] \in Int
    BY BoxInVector DEF Moving, Vector
  <2>2. TimeTo(p, d, a, Lo[a]) \in Int /\ TimeTo(p, d, a, Hi[a]) \in Int
    BY <2>1, TimeInt
  <2> QED
    BY <2>2, OfTwo DEF Enters, Leaves, Bounds
<1>2. f \in [Axis -> Int] /\ g \in [Axis -> Int]
  BY <1>1 DEF Moving
<1>3. A \in SUBSET Axis /\ A # {}
  BY DEF Moving
<1>4. E \subseteq {0} \cup {f[a] : a \in A} /\ L \subseteq {0} \cup {g[a] : a \in A}
  BY DEF Moving
<1>5. E # {} /\ L # {}
  BY <1>3
<1>6. Bounds(E) /\ Bounds(L) /\ E \subseteq Int /\ L \subseteq Int
  <2> HIDE DEF A, f, g, E, L
  <2> QED
    BY <1>2, <1>3, <1>4, <1>5, OverAxes
<1>7. TEntry(p, d) = Max(E) /\ TExit(p, d) = Min(L)
  BY DEF TEntry, TExit
<1>8. \A a \in A : Enters(p, d, a) \in E /\ Leaves(p, d, a) \in L
  OBVIOUS
<1> HIDE DEF E, L
<1> QED
  BY <1>1, <1>6, <1>7, <1>8 DEF Bounds

\* Clamping makes an index of any quotient.
LEMMA VoxelAtInGrid ==
    ASSUME NEW p \in Vector, NEW min \in Vector
    PROVE  VoxelAt(p, min) \in Cell
<1>1. \A a \in Axis : Clamp((p[a] - min[a]) \div V) \in 0..N - 1
  <2> SUFFICES ASSUME NEW a \in Axis PROVE Clamp((p[a] - min[a]) \div V) \in 0..N - 1
    OBVIOUS
  <2>1. p[a] - min[a] \in Int /\ V \in Nat \ {0} /\ N \in Nat \ {0}
    BY GridConstants DEF Vector
  <2>2. (p[a] - min[a]) \div V \in Int
    BY <2>1
  <2> QED
    BY <2>1, <2>2 DEF Clamp
<1> QED
  BY <1>1 DEF VoxelAt, Cell

LEMMA FirstFacesInt ==
    ASSUME NEW p \in Vector, NEW d \in Vector, NEW c \in Cell
    PROVE  FirstFaces(p, d, c) \in [Axis -> Int]
<1> SUFFICES ASSUME NEW a \in Axis, d[a] # 0
             PROVE  TimeTo(p, d, a, Lo[a] + V * (c[a] + (IF d[a] > 0 THEN 1 ELSE 0))) \in Int
  BY RayConstants DEF FirstFaces
<1>1. c[a] \in Int /\ V \in Int /\ Lo[a] \in Int
  BY GridConstants, BoxInVector DEF Cell, Vector
<1>2. Lo[a] + V * (c[a] + (IF d[a] > 0 THEN 1 ELSE 0)) \in Int
  BY <1>1
<1> QED
  BY <1>2, TimeInt

LEMMA DeltaInt ==
    ASSUME RayInv, NEW a \in Axis
    PROVE  Delta(dir, a) \in Int
<1>1. dir[a] \in Int /\ V \in Int /\ Infinity \in Int
  BY GridConstants, RayConstants DEF RayInv, Vector
<1>2. dir[a] # 0 => Abs(dir[a]) \in Nat \ {0}
  BY <1>1 DEF Abs
<1> QED
  BY <1>1, <1>2 DEF Delta

\* One of the axes comes next.
LEMMA NextAxisIsAxis == ASSUME t_next \in [Axis -> Int] PROVE NextAxis \in Axis
<1> DEFINE First(a) == \A b \in Axis : t_next[a] < t_next[b] \/ (t_next[a] = t_next[b] /\ b <= a)
           v(i) == IF i \in Axis THEN t_next[i] ELSE 0
<1>1. \A a \in Axis : a \in {1, 2, 3} /\ t_next[a] \in Int
  BY GridConstants
<1>2. \E a \in Axis : First(a)
  <2>1. \A i \in {1, 2, 3} : v(i) \in Int
    BY <1>1
  <2>2. Axis # {}
    BY GridConstants
  <2> QED
    BY <1>1, <2>1, <2>2, SMTT(30)
<1> QED
  BY <1>2 DEF NextAxis

-----------------------------------------------------------------------------
LEMMA RayInitially == RayInit => RayInv
<1> SUFFICES ASSUME RayInit PROVE RayInv
  OBVIOUS
<1>1. steps \in Seq(StepIn({}))
  BY DEF RayInit
<1>2. FaceToFace /\ InTouch
  BY DEF RayInit, FaceToFace, InTouch
<1> QED
  BY <1>1, <1>2, RayConstants DEF RayInit, RayInv

\* A walk begins in a voxel of the grid.
LEMMA BeginKeeps ==
    ASSUME RayInv, rpc = "idle", NEW c \in Cell, NEW from, NEW upto, Begin(c, from, upto)
    PROVE  RayInv'
<1>1. t_next' \in [Axis -> Int]
  BY FirstFacesInt DEF Begin, RayInv
<1>2. FaceToFace' /\ InTouch'
  BY DEF Begin, RayInv, FaceToFace, InTouch
<1> QED
  BY <1>1, <1>2 DEF Begin, RayInv

LEMMA NothingKeeps == ASSUME RayInv, ReturnNothing PROVE RayInv'
<1>1. FaceToFace' /\ InTouch'
  BY DEF ReturnNothing, RayInv, FaceToFace, InTouch
<1> QED
  BY <1>1 DEF ReturnNothing, RayInv

LEMMA ClippedKeeps == ASSUME RayInv, rpc = "idle", ClippedCast PROVE RayInv'
<1> DEFINE from == Max({TEntry(pos, dir), 0})
<1>1. from \in Int
  <2>1. TEntry(pos, dir) \in Int /\ 0 \in Int
    BY EntryInt DEF RayInv
  <2>2. Bounds({TEntry(pos, dir), 0})
    BY <2>1, OfTwo
  <2> QED
    BY <2>1, <2>2 DEF Bounds
<1>2. PointAt(pos, dir, from) \in Vector
  <2> HIDE DEF from
  <2> QED
    BY <1>1 DEF RayInv, PointAt, Vector
<1>3. VoxelAt(PointAt(pos, dir, from), Lo) \in Cell
  BY <1>2, VoxelAtInGrid, BoxInVector
<1> QED
  BY <1>3, BeginKeeps, NothingKeeps DEF ClippedCast

LEMMA OfflineKeeps == ASSUME RayInv, CastOffline PROVE RayInv'
  BY BeginKeeps, NothingKeeps DEF CastOffline

\* The voxel is pushed where the walk stands, and the next one differs by one
\* on the axis whose face is met first.
LEMMA AdvanceKeeps == ASSUME RayInv, Advance PROVE RayInv'
<1> DEFINE a == NextAxis
           s == [cell |-> cell, t |-> t]
           n == Len(steps)
<1> PICK times : steps \in Seq(StepIn(times))
  BY DEF RayInv
<1>1. /\ rpc = "walk" /\ cell \in Cell /\ t_next \in [Axis -> Int]
      /\ steps' = Append(steps, s)
      /\ cell' = [cell EXCEPT ![a] = @ + StepOf(dir[a])]
      /\ t_next' = [t_next EXCEPT ![a] = @ + Delta(dir, a)]
      /\ rpc' = IF cell' \in Cell THEN "walk" ELSE "done"
  BY DEF RayInv, Advance
<1>2. a \in Axis
  BY <1>1, NextAxisIsAxis
<1>3. steps' \in Seq(StepIn(times \cup {t}))
  <2>1. StepIn(times) \subseteq StepIn(times \cup {t}) /\ s \in StepIn(times \cup {t})
    BY <1>1 DEF StepIn
  <2>2. steps \in Seq(StepIn(times \cup {t}))
    BY <2>1, SeqMonotonic
  <2> QED
    BY <1>1, <2>1, <2>2
<1>4. /\ n \in Nat /\ Len(steps') = n + 1 /\ steps'[n + 1] = s
      /\ \A i \in 1..n : steps'[i] = steps[i]
  BY <1>1, <1>3
<1>5. \A b \in Axis \ {a} : cell'[b] = cell[b]
  BY <1>1 DEF Cell
<1>6. cell[a] \in Int /\ cell'[a] - cell[a] \in {-1, 1}
  BY <1>1, <1>2 DEF Cell, StepOf
<1>7. Adjacent(cell, cell')
  BY <1>2, <1>5, <1>6 DEF Adjacent
<1>8. t_next' \in [Axis -> Int]
  BY <1>1, <1>2, DeltaInt
<1>9. FaceToFace'
  <2> SUFFICES ASSUME NEW i \in 2..n + 1 PROVE Adjacent(steps'[i - 1].cell, steps'[i].cell)
    BY <1>4 DEF FaceToFace
  <2>1. CASE i \in 2..n
    BY <2>1, <1>4 DEF RayInv, FaceToFace
  <2>2. CASE i = n + 1
    <3>1. n \in 1..n /\ steps # <<>> /\ steps'[i - 1] = steps[n] /\ steps'[i] = s
      BY <2>2, <1>4
    <3> QED
      BY <3>1, <1>1 DEF RayInv, InTouch
  <2> QED
    BY <2>1, <2>2, <1>4
<1>10. InTouch'
  BY <1>4, <1>7 DEF InTouch
<1>11. UNCHANGED <<kind, pos, dir>> /\ rpc' \in {"walk", "done"}
  BY <1>1 DEF Advance
<1> QED
  BY <1>1, <1>3, <1>8, <1>9, <1>10, <1>11 DEF RayInv

LEMMA RayStep == RayInv /\ [RayNext]_rayVars => RayInv'
<1> SUFFICES ASSUME RayInv, [RayNext]_rayVars PROVE RayInv'
  OBVIOUS
<1>1. CASE CastLive \/ CastOptimized
  BY <1>1, ClippedKeeps DEF CastLive, CastOptimized
<1>2. CASE CastOffline
  BY <1>2, OfflineKeeps
<1>3. CASE Advance
  BY <1>3, AdvanceKeeps
<1>4. CASE Finish
  BY <1>4, NothingKeeps DEF Finish
<1>5. CASE UNCHANGED rayVars
  BY <1>5 DEF rayVars, RayInv, FaceToFace, InTouch
<1> QED
  BY <1>1, <1>2, <1>3, <1>4, <1>5 DEF RayNext

\* What the three walks push indexes the voxel arrays, and lies inside them
\* (ray_marching.hpp:177, live_voxel_mapper.cpp:272).
THEOREM WalkStaysInside == RaySpec => []RayTypeOK
<1>1. RayInv => RayTypeOK
  <2> SUFFICES ASSUME RayInv, NEW i \in 1..Len(steps) PROVE steps[i].cell \in Cell
    BY DEF RayInv, RayTypeOK
  <2> PICK times : steps \in Seq(StepIn(times))
    BY DEF RayInv
  <2>1. steps[i] \in StepIn(times)
    BY ElementOfSeq
  <2> QED
    BY <2>1 DEF StepIn
<1> QED
  BY <1>1, RayInitially, RayStep, PTL DEF RaySpec

\* No voxel is skipped between two that are pushed, however faces and corners
\* tie (ray_marching.hpp:161-174).
THEOREM WalkLeavesNoGap == RaySpec => []FaceToFace
<1>1. RayInv => FaceToFace
  BY DEF RayInv
<1> QED
  BY <1>1, RayInitially, RayStep, PTL DEF RaySpec

-----------------------------------------------------------------------------
(* The times of faces.                                                     *)

Face(p, d, a, j) == TimeTo(p, d, a, Lo[a] + V * j)
Ahead(d, a) == IF d[a] > 0 THEN 1 ELSE 0

\* Coordinate x, measured from the grid's lower face, is in the closed slab c.
Between(c, x) == 0 <= x - V * c /\ x - V * c <= V

LEMMA WholeQuotient ==
    ASSUME NEW n \in Nat \ {0}, NEW x \in Int, x % n = 0
    PROVE  x = n * (x \div n) /\ x \div n \in Int
  OBVIOUS

LEMMA Divides ==
    ASSUME NEW n \in Nat \ {0}, NEW x \in Int, NEW q \in Int, x = n * q
    PROVE  x \div n = q
  OBVIOUS

\* A direction, a start and an axis along which the ray moves, in whole units.
LEMMA Units ==
    ASSUME NEW p \in Starts, NEW d \in Directions, NEW a \in Moving(d)
    PROVE  /\ a \in Axis /\ d[a] \in Int /\ d[a] # 0 /\ p[a] \in Int /\ Lo[a] \in Int
           /\ Abs(d[a]) \in Nat \ {0} /\ StepOf(d[a]) \in {-1, 1}
           /\ StepOf(d[a]) = 1 <=> d[a] > 0
           /\ d[a] = StepOf(d[a]) * Abs(d[a])
<1>1. a \in Axis /\ d[a] # 0 /\ d \in Vector /\ p \in Vector
  BY RayConstants DEF Moving
<1> QED
  BY <1>1, BoxInVector DEF Vector, Abs, StepOf

\* On each axis the faces are met at regular times.
LEMMA FaceTimes ==
    ASSUME NEW p \in Starts, NEW d \in Directions, NEW a \in Moving(d)
    PROVE  /\ Delta(d, a) \in Nat \ {0} /\ V = Abs(d[a]) * Delta(d, a)
           /\ \E m \in Int :
                 /\ p[a] - Lo[a] = Abs(d[a]) * m
                 /\ \A j \in Int : Face(p, d, a, j) = StepOf(d[a]) * (Delta(d, a) * j - m)
<1> DEFINE n == Abs(d[a])
           s == StepOf(d[a])
           k == V \div n
           m == (p[a] - Lo[a]) \div n
<1>1. n \in Nat \ {0} /\ s \in {-1, 1} /\ p[a] - Lo[a] \in Int /\ V \in Nat \ {0} /\ Lo[a] \in Int /\ p[a] \in Int
  BY Units, GridConstants
<1>2. V % n = 0 /\ (p[a] - Lo[a]) % n = 0
  BY RayUnits
<1>3. V = n * k /\ k \in Int /\ p[a] - Lo[a] = n * m /\ m \in Int
  <2> HIDE DEF n
  <2>1. V = n * k /\ k \in Int
    BY <1>1, <1>2, WholeQuotient
  <2>2. p[a] - Lo[a] = n * m /\ m \in Int
    BY <1>1, <1>2, WholeQuotient
  <2> QED
    BY <2>1, <2>2
<1>4. k \in Nat \ {0}
  <2> HIDE DEF k, n
  <2>1. CASE k <= 0
    BY <1>1, <1>3, <2>1
  <2> QED
    BY <1>3, <2>1
<1>5. Delta(d, a) = k
  BY Units DEF Delta
<1>6. ASSUME NEW j \in Int PROVE Face(p, d, a, j) = s * (k * j - m)
  <2>1. Face(p, d, a, j) = (s * ((Lo[a] + V * j) - p[a])) \div n
    BY DEF Face, TimeTo
  <2>2. s * ((Lo[a] + V * j) - p[a]) = n * (s * (k * j - m))
    <3> HIDE DEF s, n, k, m
    <3>1. Lo[a] - p[a] = -(n * m)
      BY <1>1, <1>3
    <3>2. (Lo[a] + V * j) - p[a] = n * (k * j) - n * m
      <4>1. V * j = n * (k * j)
        BY <1>1, <1>3
      <4>2. V * j \in Int /\ n * m \in Int
        BY <1>1, <1>3
      <4> QED
        BY <1>1, <3>1, <4>1, <4>2
    <3>3. n * (k * j) - n * m = n * (k * j - m)
      BY <1>1, <1>3
    <3> QED
      BY <1>1, <1>3, <3>2, <3>3
  <2>3. s * (k * j - m) \in Int
    <3> HIDE DEF s, n, k, m
    <3> QED
      BY <1>1, <1>3
  <2>4. s * ((Lo[a] + V * j) - p[a]) \in Int
    BY <1>1
  <2> HIDE DEF s, n, k, m
  <2> QED
    BY <1>1, <2>1, <2>2, <2>3, <2>4, Divides
<1> QED
  BY <1>3, <1>4, <1>5, <1>6

\* The numbers that order the faces of one axis, without the products.
LEMMA FaceOrder ==
    ASSUME NEW p \in Starts, NEW d \in Directions, NEW a \in Moving(d), NEW c \in Int
    PROVE  /\ Face(p, d, a, c) \in Int
           /\ d[a] > 0 => Face(p, d, a, c + 1) = Face(p, d, a, c) + Delta(d, a)
           /\ d[a] < 0 => Face(p, d, a, c + 1) = Face(p, d, a, c) - Delta(d, a)
           /\ \A e \in Int :
                 /\ e < c /\ d[a] > 0 => Face(p, d, a, e) + Delta(d, a) <= Face(p, d, a, c)
                 /\ e < c /\ d[a] < 0 => Face(p, d, a, c) + Delta(d, a) <= Face(p, d, a, e)
<1> DEFINE k == Delta(d, a)
           s == StepOf(d[a])
           F(j) == Face(p, d, a, j)
<1>1. k \in Nat \ {0} /\ s \in {-1, 1} /\ d[a] \in Int /\ (s = 1 <=> d[a] > 0)
  BY FaceTimes, Units
<1>2. PICK m \in Int : \A j \in Int : F(j) = s * (k * j - m)
  BY FaceTimes
<1> HIDE DEF k, s, F
<1>3. F(c) \in Int
  BY <1>1, <1>2
<1>4. F(c + 1) = F(c) + s * k
  <2>1. F(c + 1) = s * (k * (c + 1) - m) /\ F(c) = s * (k * c - m)
    BY <1>2
  <2> QED
    BY <1>1, <2>1
<1>5. ASSUME NEW e \in Int, e < c
      PROVE  /\ s = 1 => F(e) + k <= F(c)
             /\ s = -1 => F(c) + k <= F(e)
  <2>1. F(e) = s * (k * e - m) /\ F(c) = s * (k * c - m)
    BY <1>2
  <2>2. k * e + k <= k * c
    <3>1. k * (c - e) >= k
      BY <1>1, <1>5
    <3> QED
      BY <1>1, <3>1
  <2>3. k * e \in Int /\ k * c \in Int
    BY <1>1
  <2> QED
    BY <1>1, <2>1, <2>2, <2>3
<1> QED
  BY <1>1, <1>3, <1>4, <1>5 DEF k, s, F

\* The ray is in a closed slab from one of its faces to the other.
LEMMA SlabTimes ==
    ASSUME NEW p \in Starts, NEW d \in Directions, NEW a \in Moving(d), NEW c \in Int,
           NEW time \in Int
    PROVE  /\ d[a] > 0 => (V * c <= PointAt(p, d, time)[a] - Lo[a] <=> Face(p, d, a, c) <= time)
           /\ d[a] > 0 => (PointAt(p, d, time)[a] - Lo[a] <= V * c <=> time <= Face(p, d, a, c))
           /\ d[a] < 0 => (V * c <= PointAt(p, d, time)[a] - Lo[a] <=> time <= Face(p, d, a, c))
           /\ d[a] < 0 => (PointAt(p, d, time)[a] - Lo[a] <= V * c <=> Face(p, d, a, c) <= time)
<1> DEFINE k == Delta(d, a)
           s == StepOf(d[a])
           n == Abs(d[a])
           x == PointAt(p, d, time)[a] - Lo[a]
           f == Face(p, d, a, c)
<1>1. /\ k \in Nat \ {0} /\ s \in {-1, 1} /\ d[a] \in Int /\ (s = 1 <=> d[a] > 0)
      /\ n \in Nat \ {0} /\ V = n * k /\ d[a] = s * n
  BY FaceTimes, Units
<1>2. PICK m \in Int : p[a] - Lo[a] = n * m /\ f = s * (k * c - m)
  BY FaceTimes
<1>3. x = (p[a] - Lo[a]) + d[a] * time
  BY Units DEF PointAt
<1> HIDE DEF k, s, n, x, f
<1>4. x - V * c = n * (s * (time - f))
  <2>1. s * f = k * c - m
    BY <1>1, <1>2
  <2>2. d[a] * time = n * (s * time)
    BY <1>1
  <2>3. V * c = n * (k * c)
    BY <1>1
  <2>4. x - V * c = (n * m + n * (s * time)) - n * (k * c)
    <3>1. p[a] \in Int /\ Lo[a] \in Int /\ d[a] * time \in Int /\ V * c \in Int /\ n * m \in Int
      BY <1>1, Units, GridConstants
    <3> QED
      BY <1>2, <1>3, <2>2, <2>3, <3>1
  <2>5. (n * m + n * (s * time)) - n * (k * c) = n * ((m + s * time) - k * c)
    BY <1>1
  <2>6. (m + s * time) - k * c = s * (time - f)
    BY <1>1, <1>2, <2>1
  <2> QED
    BY <2>4, <2>5, <2>6
<1>5. f \in Int /\ x \in Int /\ V * c \in Int
  <2>1. p[a] - Lo[a] \in Int /\ V \in Int
    BY Units, GridConstants
  <2> QED
    BY <1>1, <1>2, <1>3, <2>1
<1>6. \A q \in Int : (n * q >= 0 <=> q >= 0) /\ (n * q <= 0 <=> q <= 0)
  <2> SUFFICES ASSUME NEW q \in Int PROVE (n * q >= 0 <=> q >= 0) /\ (n * q <= 0 <=> q <= 0)
    OBVIOUS
  <2>1. CASE q >= 1
    BY <1>1, <2>1
  <2>2. CASE q <= -1
    BY <1>1, <2>2
  <2>3. CASE q = 0
    BY <1>1, <2>3
  <2> QED
    BY <2>1, <2>2, <2>3
<1>7. s * (time - f) \in Int
  BY <1>1, <1>5
<1>8. (V * c <= x <=> s * (time - f) >= 0) /\ (x <= V * c <=> s * (time - f) <= 0)
  BY <1>4, <1>5, <1>6, <1>7
<1> QED
  BY <1>1, <1>5, <1>8 DEF x, f
-----------------------------------------------------------------------------
(* Where the walk stands: on the ray, with the times of the next faces.    *)

OnRay ==
    rpc = "walk" =>
        /\ t \in Int /\ t_end \in Int /\ cell \in Cell /\ t_next \in [Axis -> Int]
        /\ \A a \in Axis \ Moving(dir) : t_next[a] = Infinity /\ Between(cell[a], pos[a] - Lo[a])
        /\ \A a \in Moving(dir) :
              /\ t_next[a] = Face(pos, dir, a, cell[a] + Ahead(dir, a))
              /\ t_next[a] - Delta(dir, a) <= t /\ t <= t_next[a]

\* Every voxel pushed so far holds the ray at the time recorded for it.
Truthful ==
    /\ steps \in Seq(StepIn(Int))
    /\ \A i \in 1..Len(steps) : \A a \in Axis :
          Between(steps[i].cell[a], PointAt(pos, dir, steps[i].t)[a] - Lo[a])

PathInv == RayInv /\ pos \in Starts /\ dir \in Directions /\ OnRay /\ Truthful

LEMMA CellInt == ASSUME NEW c \in Cell, NEW a \in Axis PROVE c[a] \in Int /\ 0 <= c[a] /\ c[a] <= N - 1
  BY GridConstants DEF Cell

\* The ray is in a slab between the face behind it and the face ahead.
LEMMA BetweenFaces ==
    ASSUME NEW p \in Starts, NEW d \in Directions, NEW a \in Moving(d), NEW c \in Int, NEW time \in Int
    PROVE  /\ Face(p, d, a, c + Ahead(d, a)) \in Int
           /\ Between(c, PointAt(p, d, time)[a] - Lo[a])
                <=> /\ Face(p, d, a, c + Ahead(d, a)) - Delta(d, a) <= time
                    /\ time <= Face(p, d, a, c + Ahead(d, a))
<1> DEFINE x == PointAt(p, d, time)[a] - Lo[a]
           f == Face(p, d, a, c)
           g == Face(p, d, a, c + 1)
<1>1. d[a] \in Int /\ d[a] # 0 /\ Delta(d, a) \in Int /\ c + 1 \in Int
  BY Units, FaceTimes
<1>2. f \in Int /\ g \in Int
  BY <1>1, FaceOrder
<1>3. x \in Int /\ V * c \in Int /\ V * (c + 1) \in Int /\ V * (c + 1) = V * c + V
  <2>1. p[a] \in Int /\ Lo[a] \in Int /\ V \in Int /\ a \in Axis
    BY Units, GridConstants
  <2> QED
    BY <1>1, <2>1 DEF PointAt
<1>4. /\ d[a] > 0 => g = f + Delta(d, a)
      /\ d[a] < 0 => g = f - Delta(d, a)
  BY FaceOrder
<1>5. /\ d[a] > 0 => (V * c <= x <=> f <= time)
      /\ d[a] < 0 => (V * c <= x <=> time <= f)
  BY SlabTimes
<1>6. /\ d[a] > 0 => (x <= V * (c + 1) <=> time <= g)
      /\ d[a] < 0 => (x <= V * (c + 1) <=> g <= time)
  BY <1>1, SlabTimes
<1>7. Between(c, x) <=> (V * c <= x /\ x <= V * (c + 1))
  <2> HIDE DEF x
  <2> QED
    BY <1>3, GridConstants DEF Between
<1>8. Face(p, d, a, c + Ahead(d, a)) = IF d[a] > 0 THEN g ELSE f
  BY DEF Ahead
<1> HIDE DEF x, f, g
<1> QED
  BY <1>1, <1>2, <1>4, <1>5, <1>6, <1>7, <1>8 DEF x

\* Between entering and leaving, the ray is in the box.
LEMMA InsideBox ==
    ASSUME NEW p \in Starts, NEW d \in Directions, Meets(p, d),
           NEW time \in Int, TEntry(p, d) <= time, time <= TExit(p, d), NEW a \in Axis
    PROVE  LET x == PointAt(p, d, time)[a] - Lo[a] IN x \in Int /\ 0 <= x /\ x <= V * N
<1> DEFINE x == PointAt(p, d, time)[a] - Lo[a]
<1>1. p \in Vector /\ d \in Vector /\ \E b \in Axis : d[b] # 0
  BY RayConstants
<1>2. p[a] \in Int /\ d[a] \in Int /\ Lo[a] \in Int /\ Hi[a] = Lo[a] + V * N
  <2>1. 2 * Half = N * V /\ Half \in Int /\ V * N = N * V /\ V * N \in Int
    BY GridConstants DEF Half
  <2>2. Lo[a] = 0 - Half /\ Hi[a] = 0 + Half
    BY DEF Lo, Hi, GridMin, GridMax, Origin
  <2> QED
    BY <1>1, <2>1, <2>2 DEF Vector
<1>3. x = (p[a] + d[a] * time) - Lo[a] /\ x \in Int
  BY <1>2 DEF PointAt
<1>4. CASE a \notin Moving(d)
  <2>1. d[a] = 0 /\ Lo[a] <= p[a] /\ p[a] <= Hi[a]
    BY <1>4 DEF Moving, Meets
  <2> QED
    BY <1>2, <1>3, <2>1, GridConstants
<1>5. CASE a \in Moving(d)
  <2> DEFINE f == Face(p, d, a, 0)
             g == Face(p, d, a, N)
  <2>1. TimeTo(p, d, a, Lo[a]) = f /\ TimeTo(p, d, a, Hi[a]) = g
    <3>1. Lo[a] = Lo[a] + V * 0
      BY <1>2, GridConstants
    <3> QED
      BY <1>2, <3>1 DEF Face
  <2>2. N \in Int /\ 0 \in Int /\ f \in Int /\ g \in Int
    BY <1>5, GridConstants, FaceOrder
  <2>3. /\ d[a] > 0 => f < g
        /\ d[a] < 0 => g < f
        /\ d[a] # 0
    <3>1. Delta(d, a) \in Nat \ {0}
      BY <1>5, FaceTimes
    <3>2. 0 < N
      BY GridConstants
    <3> HIDE DEF f, g
    <3>3. /\ d[a] > 0 => f + Delta(d, a) <= g
          /\ d[a] < 0 => g + Delta(d, a) <= f
      BY <1>5, <2>2, <3>2, FaceOrder DEF f, g
    <3> QED
      BY <1>5, <2>2, <3>1, <3>3 DEF Moving
  <2> HIDE DEF f, g
  <2>4. Bounds({f, g})
    BY <2>2, OfTwo
  <2>5. Enters(p, d, a) = Min({f, g}) /\ Leaves(p, d, a) = Max({f, g})
    BY <2>1 DEF Enters, Leaves
  <2>6. /\ Enters(p, d, a) \in Int /\ Leaves(p, d, a) \in Int
        /\ Enters(p, d, a) <= time /\ time <= Leaves(p, d, a)
    <3>1. /\ TEntry(p, d) \in Int /\ TExit(p, d) \in Int
          /\ Enters(p, d, a) \in Int /\ Leaves(p, d, a) \in Int
          /\ Enters(p, d, a) <= TEntry(p, d) /\ TExit(p, d) <= Leaves(p, d, a)
      BY <1>1, <1>5, EntryInt
    <3> QED
      BY <3>1
  <2>7. IF d[a] > 0 THEN f <= time /\ time <= g ELSE g <= time /\ time <= f
    BY <1>2, <2>2, <2>3, <2>4, <2>5, <2>6 DEF Bounds
  <2>8. /\ d[a] > 0 => (V * 0 <= x <=> f <= time)
        /\ d[a] < 0 => (V * 0 <= x <=> time <= f)
    BY <1>5, <2>2, SlabTimes DEF f
  <2>9. /\ d[a] > 0 => (x <= V * N <=> time <= g)
        /\ d[a] < 0 => (x <= V * N <=> g <= time)
    BY <1>5, <2>2, SlabTimes DEF g
  <2>10. V * 0 = 0
    BY GridConstants
  <2> HIDE DEF x
  <2> QED
    BY <1>2, <1>3, <2>3, <2>7, <2>8, <2>9, <2>10 DEF x
<1> QED
  BY <1>4, <1>5

\* The index of a coordinate inside the box is that of a slab which holds it,
\* when it is cut off at the last one and when it is not.
LEMMA IndexHolds ==
    ASSUME NEW x \in Int, 0 <= x, x <= V * N
    PROVE  /\ Between(Clamp(x \div V), x)
           /\ Between(x \div V, x)
<1> DEFINE q == x \div V
<1>1. V \in Nat \ {0} /\ N \in Nat \ {0}
  BY GridConstants
<1>2. q \in Int /\ 0 <= x - V * q /\ x - V * q < V /\ V * q \in Int
  <2>1. x = V * (x \div V) + (x % V) /\ x % V \in 0..V - 1 /\ x \div V \in Int
    BY <1>1
  <2> QED
    BY <1>1, <2>1
<1> HIDE DEF q
<1>3. q >= 0
  <2>1. CASE q <= -1
    <3>1. V * q <= -V
      BY <1>1, <1>2, <2>1
    <3> QED
      BY <1>1, <1>2, <3>1
  <2> QED
    BY <1>2, <2>1
<1>4. CASE q <= N - 1
  BY <1>1, <1>2, <1>3, <1>4 DEF Clamp, Between, q
<1>5. CASE q >= N
  <2>1. V * q >= V * N
    BY <1>1, <1>2, <1>5
  <2>2. V * N \in Int /\ V * (N - 1) = V * N - V
    BY <1>1
  <2>3. x = V * N
    BY <1>1, <1>2, <2>1, <2>2
  <2>4. Clamp(q) = N - 1
    BY <1>1, <1>2, <1>3, <1>5 DEF Clamp
  <2> QED
    BY <1>1, <1>2, <2>2, <2>3, <2>4 DEF Between, q
<1> QED
  BY <1>1, <1>2, <1>4, <1>5
LEMMA HorizonInt == ASSUME NEW d \in Directions PROVE HorizonTime(d) \in Int
<1>1. Length(d) \in 1..Infinity
  BY RayUnits DEF Length
<1> HIDE DEF Length
<1>2. Length(d) \in Nat \ {0} /\ Horizon \in Int
  BY <1>1, RayConstants
<1> QED
  BY <1>2 DEF HorizonTime

\* A walk that begins in a voxel which holds the ray begins on the ray.
LEMMA BeginOnRay ==
    ASSUME PathInv, rpc = "idle", NEW c \in Cell, NEW from \in Int, NEW upto \in Int,
           Begin(c, from, upto),
           \A a \in Axis : Between(c[a], PointAt(pos, dir, from)[a] - Lo[a])
    PROVE  PathInv'
<1>1. RayInv'
  BY BeginKeeps DEF PathInv
<1>2. /\ rpc' = "walk" /\ cell' = c /\ t' = from /\ t_end' = upto
      /\ t_next' = FirstFaces(pos, dir, c) /\ UNCHANGED <<pos, dir, steps>>
  BY DEF Begin
<1>3. pos \in Vector /\ dir \in Vector /\ pos \in Starts /\ dir \in Directions
  BY DEF PathInv, RayInv
<1>4. ASSUME NEW a \in Axis \ Moving(dir)
      PROVE  t_next'[a] = Infinity /\ Between(c[a], pos[a] - Lo[a])
  <2>1. dir[a] = 0
    BY DEF Moving
  <2>2. PointAt(pos, dir, from)[a] = pos[a]
    BY <1>3, <2>1 DEF PointAt, Vector
  <2> QED
    BY <1>2, <2>1, <2>2 DEF FirstFaces
<1>5. ASSUME NEW a \in Moving(dir)
      PROVE  /\ t_next'[a] = Face(pos, dir, a, c[a] + Ahead(dir, a))
             /\ t_next'[a] - Delta(dir, a) <= from /\ from <= t_next'[a]
  <2>1. a \in Axis /\ dir[a] # 0
    BY DEF Moving
  <2>2. t_next'[a] = Face(pos, dir, a, c[a] + Ahead(dir, a))
    BY <1>2, <2>1 DEF FirstFaces, Face, Ahead
  <2>3. c[a] \in Int
    BY <2>1, CellInt
  <2> QED
    BY <1>3, <2>1, <2>2, <2>3, BetweenFaces
<1>6. t_next' \in [Axis -> Int]
  BY <1>2, <1>3, FirstFacesInt
<1>7. OnRay'
  BY <1>2, <1>4, <1>5, <1>6 DEF OnRay
<1>8. Truthful'
  BY <1>2 DEF PathInv, Truthful
<1> QED
  BY <1>1, <1>2, <1>3, <1>7, <1>8 DEF PathInv

LEMMA NothingOnRay == ASSUME PathInv, ReturnNothing PROVE PathInv'
<1>1. RayInv'
  BY NothingKeeps DEF PathInv
<1>2. rpc' = "done" /\ UNCHANGED <<pos, dir, steps>>
  BY DEF ReturnNothing
<1>3. OnRay' /\ Truthful'
  BY <1>2 DEF PathInv, OnRay, Truthful
<1> QED
  BY <1>1, <1>2, <1>3 DEF PathInv

LEMMA EntryTimes ==
    ASSUME PathInv
    PROVE  /\ TEntry(pos, dir) \in Int /\ TExit(pos, dir) \in Int
           /\ Bounds({TEntry(pos, dir), 0})
<1>1. TEntry(pos, dir) \in Int /\ TExit(pos, dir) \in Int /\ 0 \in Int
  BY EntryInt DEF PathInv, RayInv
<1> QED
  BY <1>1, OfTwo

LEMMA ClippedOnRay == ASSUME PathInv, rpc = "idle", ClippedCast PROVE PathInv'
<1> DEFINE from == Max({TEntry(pos, dir), 0})
           upto == Min({TExit(pos, dir), HorizonTime(dir)})
           c    == VoxelAt(PointAt(pos, dir, from), Lo)
<1>1. CASE ReturnNothing
  BY <1>1, NothingOnRay
<1>2. CASE Meets(pos, dir) /\ from < upto /\ Begin(c, from, upto)
  <2>1. pos \in Starts /\ dir \in Directions /\ pos \in Vector /\ dir \in Vector
    BY DEF PathInv, RayInv
  <2>2. TEntry(pos, dir) \in Int /\ from \in Int /\ TEntry(pos, dir) <= from
    BY EntryTimes DEF Bounds
  <2>3. TExit(pos, dir) \in Int /\ upto \in Int /\ upto <= TExit(pos, dir)
    <3>1. TExit(pos, dir) \in Int /\ HorizonTime(dir) \in Int
      BY <2>1, EntryTimes, HorizonInt
    <3>2. Bounds({TExit(pos, dir), HorizonTime(dir)})
      BY <3>1, OfTwo
    <3> QED
      BY <3>1, <3>2 DEF Bounds
  <2> HIDE DEF from, upto
  <2>4. from <= TExit(pos, dir)
    BY <1>2, <2>2, <2>3
  <2>5. PointAt(pos, dir, from) \in Vector
    BY <2>1, <2>2 DEF PointAt, Vector
  <2>6. c \in Cell
    BY <2>5, VoxelAtInGrid, BoxInVector
  <2>7. ASSUME NEW a \in Axis PROVE Between(c[a], PointAt(pos, dir, from)[a] - Lo[a])
    <3> DEFINE x == PointAt(pos, dir, from)[a] - Lo[a]
    <3>1. x \in Int /\ 0 <= x /\ x <= V * N
      BY <1>2, <2>1, <2>2, <2>4, InsideBox
    <3>2. c[a] = Clamp(x \div V)
      BY DEF VoxelAt
    <3> HIDE DEF x, c
    <3>3. Between(c[a], x)
      BY <3>1, <3>2, IndexHolds
    <3> QED
      BY <3>3 DEF x
  <2> HIDE DEF c
  <2> QED
    BY <1>2, <2>2, <2>3, <2>6, <2>7, BeginOnRay
<1> QED
  BY <1>1, <1>2 DEF ClippedCast

LEMMA OfflineOnRay == ASSUME PathInv, CastOffline PROVE PathInv'
<1> DEFINE from == Max({TEntry(pos, dir), 0})
           upto == TExit(pos, dir)
           c    == [a \in Axis |-> (PointAt(pos, dir, from)[a] - Lo[a]) \div V]
<1>1. CASE ReturnNothing
  BY <1>1, NothingOnRay
<1>2. CASE Meets(pos, dir) /\ from <= upto /\ c \in Cell /\ Begin(c, from, upto)
  <2>1. pos \in Starts /\ dir \in Directions
    BY DEF PathInv
  <2>2. TEntry(pos, dir) \in Int /\ from \in Int /\ TEntry(pos, dir) <= from /\ upto \in Int
    BY EntryTimes DEF Bounds
  <2> HIDE DEF from
  <2>3. ASSUME NEW a \in Axis PROVE Between(c[a], PointAt(pos, dir, from)[a] - Lo[a])
    <3> DEFINE x == PointAt(pos, dir, from)[a] - Lo[a]
    <3>1. x \in Int /\ 0 <= x /\ x <= V * N
      BY <1>2, <2>1, <2>2, InsideBox
    <3>2. c[a] = x \div V
      OBVIOUS
    <3> HIDE DEF x, c
    <3>3. Between(c[a], x)
      BY <3>1, <3>2, IndexHolds
    <3> QED
      BY <3>3 DEF x
  <2>4. rpc = "idle"
    BY DEF CastOffline
  <2> HIDE DEF c, upto
  <2> QED
    BY <1>2, <2>2, <2>3, <2>4, BeginOnRay
<1> QED
  BY <1>1, <1>2 DEF CastOffline

\* The face met first is one the ray moves towards.
LEMMA NextMoves ==
    ASSUME PathInv, rpc = "walk"
    PROVE  /\ NextAxis \in Moving(dir)
           /\ \A b \in Axis : t_next[NextAxis] <= t_next[b]
<1> DEFINE First(a) == \A b \in Axis : t_next[a] < t_next[b] \/ (t_next[a] = t_next[b] /\ b <= a)
<1>1. t_next \in [Axis -> Int] /\ cell \in Cell /\ pos \in Starts /\ dir \in Directions
  BY DEF PathInv, OnRay
<1>2. NextAxis \in Axis /\ First(NextAxis)
  <2> DEFINE v(i) == IF i \in Axis THEN t_next[i] ELSE 0
  <2>1. \A a \in Axis : a \in {1, 2, 3} /\ t_next[a] \in Int
    BY <1>1, GridConstants
  <2>2. \E a \in Axis : First(a)
    <3>1. \A i \in {1, 2, 3} : v(i) \in Int
      BY <2>1
    <3>2. Axis # {}
      BY GridConstants
    <3> QED
      BY <2>1, <3>1, <3>2, SMTT(30)
  <2> QED
    BY <2>2 DEF NextAxis
<1>3. \A b \in Axis : t_next[NextAxis] <= t_next[b]
  <2> SUFFICES ASSUME NEW b \in Axis PROVE t_next[NextAxis] <= t_next[b]
    OBVIOUS
  <2>1. t_next[b] \in Int /\ t_next[NextAxis] \in Int
    BY <1>1, <1>2
  <2>2. t_next[NextAxis] < t_next[b] \/ t_next[NextAxis] = t_next[b]
    BY <1>2
  <2> QED
    BY <2>1, <2>2
<1>4. PICK a \in Moving(dir) : TRUE
  BY DEF PathInv, RayInv, Moving
<1>5. t_next[a] < Infinity
  <2>1. a \in Axis
    BY DEF Moving
  <2>2. cell[a] + Ahead(dir, a) \in 0..N
    <3>1. cell[a] \in Int /\ 0 <= cell[a] /\ cell[a] <= N - 1 /\ N \in Int
      BY <1>1, <2>1, CellInt, GridConstants
    <3> QED
      BY <3>1 DEF Ahead
  <2>3. t_next[a] = Face(pos, dir, a, cell[a] + Ahead(dir, a))
    BY DEF PathInv, OnRay
  <2> QED
    BY <1>1, <2>2, <2>3, RayUnits DEF Face
<1>6. \A b \in Axis \ Moving(dir) : t_next[b] = Infinity
  BY DEF PathInv, OnRay
<1>7. a \in Axis /\ Infinity \in Int
  BY RayConstants DEF Moving
<1> HIDE DEF NextAxis, First
<1> QED
  BY <1>1, <1>2, <1>3, <1>5, <1>6, <1>7

\* Where the walk stands, every coordinate of the ray is in the voxel.
LEMMA HoldsNow ==
    ASSUME PathInv, rpc = "walk", NEW a \in Axis
    PROVE  Between(cell[a], PointAt(pos, dir, t)[a] - Lo[a])
<1>1. /\ pos \in Starts /\ dir \in Directions /\ t \in Int /\ cell[a] \in Int
      /\ pos[a] \in Int
  BY CellInt DEF PathInv, OnRay, RayInv, Vector
<1>2. CASE a \in Moving(dir)
  <2>1. /\ t_next[a] = Face(pos, dir, a, cell[a] + Ahead(dir, a))
        /\ t_next[a] - Delta(dir, a) <= t /\ t <= t_next[a]
    BY <1>2 DEF PathInv, OnRay
  <2> QED
    BY <1>1, <1>2, <2>1, BetweenFaces
<1>3. CASE a \notin Moving(dir)
  <2>1. PointAt(pos, dir, t)[a] = pos[a]
    BY <1>1, <1>3 DEF PointAt, Moving
  <2> QED
    BY <1>3, <2>1 DEF PathInv, OnRay
<1> QED
  BY <1>2, <1>3

\* One face on: the next time on that axis is one span later.
LEMMA OneFaceOn ==
    ASSUME PathInv, NEW a \in Moving(dir), NEW c \in Int
    PROVE  Face(pos, dir, a, (c + StepOf(dir[a])) + Ahead(dir, a))
             = Face(pos, dir, a, c + Ahead(dir, a)) + Delta(dir, a)
<1>1. pos \in Starts /\ dir \in Directions
  BY DEF PathInv
<1>2. Delta(dir, a) \in Int /\ dir[a] \in Int /\ dir[a] # 0 /\ StepOf(dir[a]) = (IF dir[a] > 0 THEN 1 ELSE -1)
  BY <1>1, FaceTimes, Units DEF StepOf
<1>3. CASE dir[a] > 0
  <2>1. c + 1 \in Int
    OBVIOUS
  <2>2. Face(pos, dir, a, (c + 1) + 1) = Face(pos, dir, a, c + 1) + Delta(dir, a)
    BY <1>1, <1>3, <2>1, FaceOrder
  <2> QED
    BY <1>2, <1>3, <2>2 DEF Ahead
<1>4. CASE dir[a] < 0
  <2>1. c + (-1) \in Int /\ (c + (-1)) + 1 = c /\ (c + (-1)) + 0 = c + (-1) /\ c + 0 = c
    OBVIOUS
  <2>2. Face(pos, dir, a, c) = Face(pos, dir, a, c + (-1)) - Delta(dir, a)
    BY <1>1, <1>4, <2>1, FaceOrder
  <2>3. Face(pos, dir, a, c + (-1)) \in Int /\ Face(pos, dir, a, c) \in Int
    BY <1>1, <2>1, FaceOrder
  <2>4. Ahead(dir, a) = 0 /\ StepOf(dir[a]) = -1
    BY <1>2, <1>4 DEF Ahead
  <2> QED
    BY <1>2, <2>1, <2>2, <2>3, <2>4
<1> QED
  BY <1>2, <1>3, <1>4

LEMMA AdvanceOnRay == ASSUME PathInv, Advance PROVE PathInv'
<1> DEFINE a == NextAxis
           s == [cell |-> cell, t |-> t]
           n == Len(steps)
<1>1. /\ rpc = "walk" /\ steps' = Append(steps, s) /\ t' = t_next[a]
      /\ cell' = [cell EXCEPT ![a] = @ + StepOf(dir[a])]
      /\ t_next' = [t_next EXCEPT ![a] = @ + Delta(dir, a)]
      /\ rpc' = (IF cell' \in Cell THEN "walk" ELSE "done")
      /\ UNCHANGED <<pos, dir, t_end>>
  BY DEF Advance
<1>2. /\ cell \in Cell /\ t \in Int /\ t_end \in Int /\ t_next \in [Axis -> Int]
      /\ pos \in Starts /\ dir \in Directions
  BY <1>1 DEF PathInv, OnRay
<1>3. a \in Moving(dir) /\ a \in Axis /\ \A b \in Axis : t_next[a] <= t_next[b]
  BY <1>1, NextMoves DEF Moving
<1>4. RayInv'
  BY AdvanceKeeps DEF PathInv
<1> HIDE DEF a
<1>5. /\ cell'[a] = cell[a] + StepOf(dir[a]) /\ t_next'[a] = t_next[a] + Delta(dir, a)
      /\ \A b \in Axis \ {a} : cell'[b] = cell[b] /\ t_next'[b] = t_next[b]
  BY <1>1, <1>2, <1>3 DEF Cell
<1>6. Delta(dir, a) \in Nat \ {0}
  BY <1>2, <1>3, FaceTimes
<1>7. t_next' \in [Axis -> Int] /\ t' \in Int
  BY <1>1, <1>2, <1>3, <1>6
<1>8. ASSUME NEW b \in Axis \ Moving(dir)
      PROVE  t_next'[b] = Infinity /\ Between(cell'[b], pos[b] - Lo[b])
  BY <1>1, <1>3, <1>5 DEF PathInv, OnRay
<1>9. ASSUME NEW b \in Moving(dir)
      PROVE  /\ t_next'[b] = Face(pos, dir, b, cell'[b] + Ahead(dir, b))
             /\ t_next'[b] - Delta(dir, b) <= t' /\ t' <= t_next'[b]
  <2>1. /\ t_next[b] = Face(pos, dir, b, cell[b] + Ahead(dir, b))
        /\ t_next[b] - Delta(dir, b) <= t /\ t <= t_next[b] /\ b \in Axis
    BY <1>1 DEF PathInv, OnRay, Moving
  <2>2. cell[b] \in Int /\ Delta(dir, b) \in Nat
    BY <1>2, <2>1, CellInt, FaceTimes
  <2>3. CASE b = a
    <3>1. t_next'[a] = Face(pos, dir, a, (cell[a] + StepOf(dir[a])) + Ahead(dir, a))
      BY <1>3, <1>5, <2>1, <2>2, <2>3, OneFaceOn
    <3> QED
      BY <1>1, <1>2, <1>3, <1>5, <1>6, <2>3, <3>1
  <2>4. CASE b # a
    <3>1. t <= t_next[a]
      BY <1>1, <1>3 DEF PathInv, OnRay
    <3> QED
      BY <1>1, <1>2, <1>3, <1>5, <2>1, <2>2, <2>4, <3>1
  <2> QED
    BY <2>3, <2>4
<1>10. OnRay'
  BY <1>1, <1>2, <1>7, <1>8, <1>9 DEF OnRay
<1>11. steps' \in Seq(StepIn(Int)) /\ n \in Nat /\ Len(steps') = n + 1 /\ steps'[n + 1] = s
       /\ \A i \in 1..n : steps'[i] = steps[i]
  <2>1. s \in StepIn(Int) /\ steps \in Seq(StepIn(Int))
    BY <1>2 DEF StepIn, PathInv, Truthful
  <2> QED
    BY <1>1, <2>1
<1>12. ASSUME NEW i \in 1..n + 1, NEW b \in Axis
       PROVE  Between(steps'[i].cell[b], PointAt(pos, dir, steps'[i].t)[b] - Lo[b])
  <2>1. CASE i \in 1..n
    BY <1>11, <2>1 DEF PathInv, Truthful
  <2>2. CASE i = n + 1
    BY <1>1, <1>11, <2>2, HoldsNow
  <2> QED
    BY <1>11, <2>1, <2>2
<1>13. Truthful'
  BY <1>1, <1>11, <1>12 DEF Truthful
<1> QED
  BY <1>1, <1>2, <1>4, <1>10, <1>13 DEF PathInv

LEMMA PathInitially == RayInit => PathInv
<1> SUFFICES ASSUME RayInit PROVE PathInv
  OBVIOUS
<1>1. OnRay /\ Truthful
  BY DEF RayInit, OnRay, Truthful
<1> QED
  BY <1>1, RayInitially DEF RayInit, PathInv

LEMMA PathStep == PathInv /\ [RayNext]_rayVars => PathInv'
<1> SUFFICES ASSUME PathInv, [RayNext]_rayVars PROVE PathInv'
  OBVIOUS
<1>1. CASE CastLive \/ CastOptimized
  BY <1>1, ClippedOnRay DEF CastLive, CastOptimized
<1>2. CASE CastOffline
  BY <1>2, OfflineOnRay
<1>3. CASE Advance
  BY <1>3, AdvanceOnRay
<1>4. CASE Finish
  BY <1>4, NothingOnRay DEF Finish
<1>5. CASE UNCHANGED rayVars
  <2>1. RayInv'
    BY RayStep DEF PathInv
  <2> QED
    BY <1>5, <2>1 DEF rayVars, PathInv, OnRay, Truthful
<1> QED
  BY <1>1, <1>2, <1>3, <1>4, <1>5 DEF RayNext

\* The walk is the ray: it leaves no gap, and every voxel it pushes holds the
\* ray at the time recorded for it (ray_marching.hpp:157-174).
THEOREM WalkFollowsRay == RaySpec => []FollowsRay
<1>1. PathInv => FollowsRay
  BY DEF PathInv, RayInv, Truthful, FollowsRay, Between
<1> QED
  BY <1>1, PathInitially, PathStep, PTL DEF RaySpec
-----------------------------------------------------------------------------
(* What has been crossed has been visited.                                 *)

InTime(p, d, c, from) ==
    Max({from} \cup {Min({Face(p, d, a, c[a]), Face(p, d, a, c[a] + 1)}) : a \in Moving(d)})
OutTime(p, d, c, upto) ==
    Min({upto} \cup {Max({Face(p, d, a, c[a]), Face(p, d, a, c[a] + 1)}) : a \in Moving(d)})

\* Crosses with the ray as a parameter.
Within(p, d, c, from, upto) ==
    /\ \A a \in Axis \ Moving(d) : Lo[a] + V * c[a] < p[a] /\ p[a] < Lo[a] + V * (c[a] + 1)
    /\ InTime(p, d, c, from) < OutTime(p, d, c, upto)

Visited(c) == \E i \in 1..Len(steps) : steps[i].cell = c

\* When the walk began, once it has.
Began == IF steps = <<>> THEN t ELSE steps[1].t

\* A voxel the ray has entered before now is among those pushed; at the end of
\* a walk that was not cut short, every voxel it enters at all.
Covered ==
    rpc = "walk" =>
        \A c \in Cell :
            (Within(pos, dir, c, Began, t_end) /\ InTime(pos, dir, c, Began) < t) => Visited(c)
Complete ==
    (rpc = "done" /\ steps # <<>> /\ Len(steps) < Limit(kind)) =>
        \A c \in Cell : Within(pos, dir, c, Began, t_end) => Visited(c)

CoverInv == PathInv /\ Covered /\ Complete

LEMMA BeganInt == ASSUME PathInv, rpc = "walk" PROVE Began \in Int
<1>1. t \in Int /\ steps \in Seq(StepIn(Int))
  BY DEF PathInv, OnRay, Truthful
<1>2. CASE steps = <<>>
  BY <1>1, <1>2 DEF Began
<1>3. CASE steps # <<>>
  <2>1. steps[1] \in StepIn(Int)
    BY <1>1, <1>3, ElementOfSeq
  <2> QED
    BY <1>3, <2>1 DEF Began, StepIn
<1> QED
  BY <1>2, <1>3

\* The ray enters a voxel after it has entered each of its slabs, and before
\* it leaves any.
LEMMA CrossTimes ==
    ASSUME NEW p \in Starts, NEW d \in Directions, NEW c \in Cell, NEW from \in Int, NEW upto \in Int,
           Within(p, d, c, from, upto)
    PROVE  /\ InTime(p, d, c, from) \in Int
           /\ from <= InTime(p, d, c, from) /\ InTime(p, d, c, from) < upto
           /\ \A a \in Moving(d) :
                 /\ Face(p, d, a, c[a] + Ahead(d, a)) \in Int
                 /\ Face(p, d, a, c[a] + Ahead(d, a)) - Delta(d, a) <= InTime(p, d, c, from)
                 /\ InTime(p, d, c, from) < Face(p, d, a, c[a] + Ahead(d, a))
<1> DEFINE A == Moving(d)
           e(a) == Min({Face(p, d, a, c[a]), Face(p, d, a, c[a] + 1)})
           x(a) == Max({Face(p, d, a, c[a]), Face(p, d, a, c[a] + 1)})
           f == [a \in Axis |-> IF a \in A THEN e(a) ELSE 0]
           g == [a \in Axis |-> IF a \in A THEN x(a) ELSE 0]
           E == {from} \cup {e(a) : a \in A}
           X == {upto} \cup {x(a) : a \in A}
<1>1. ASSUME NEW a \in A
      PROVE  /\ e(a) \in Int /\ x(a) \in Int
             /\ Face(p, d, a, c[a] + Ahead(d, a)) = x(a)
             /\ Face(p, d, a, c[a] + Ahead(d, a)) - Delta(d, a) = e(a)
  <2> DEFINE u == Face(p, d, a, c[a])
             v == Face(p, d, a, c[a] + 1)
  <2>1. a \in Axis /\ d[a] \in Int /\ d[a] # 0 /\ Delta(d, a) \in Nat \ {0}
    BY FaceTimes, Units
  <2>2. c[a] \in Int /\ c[a] + 1 \in Int /\ c[a] + 0 = c[a]
    BY <2>1, CellInt
  <2>3. u \in Int /\ v \in Int
    BY <2>2, FaceOrder
  <2>4. /\ d[a] > 0 => v = u + Delta(d, a)
        /\ d[a] < 0 => v = u - Delta(d, a)
    BY <2>2, FaceOrder
  <2>5. Face(p, d, a, c[a] + Ahead(d, a)) = IF d[a] > 0 THEN v ELSE u
    BY <2>2 DEF Ahead
  <2> HIDE DEF u, v
  <2>6. Bounds({u, v})
    BY <2>3, OfTwo
  <2>7. Max({u, v}) = (IF d[a] > 0 THEN v ELSE u) /\ Min({u, v}) = (IF d[a] > 0 THEN u ELSE v)
    BY <2>1, <2>3, <2>4, <2>6 DEF Bounds
  <2>8. e(a) = Min({u, v}) /\ x(a) = Max({u, v})
    BY DEF u, v
  <2> HIDE DEF e, x
  <2> QED
    BY <2>1, <2>3, <2>4, <2>5, <2>7, <2>8
<1> HIDE DEF e, x
<1>2. f \in [Axis -> Int] /\ g \in [Axis -> Int] /\ A \in SUBSET Axis
  BY <1>1 DEF Moving
<1>3. E \subseteq {from} \cup {f[a] : a \in A} /\ X \subseteq {upto} \cup {g[a] : a \in A}
  BY <1>2
<1>4. E # {} /\ X # {}
  OBVIOUS
<1>5. Bounds(E) /\ Bounds(X) /\ E \subseteq Int /\ X \subseteq Int
  <2> HIDE DEF A, f, g, E, X
  <2>1. Bounds(E) /\ E \subseteq Int
    BY <1>2, <1>3, <1>4, OverAxes
  <2>2. Bounds(X) /\ X \subseteq Int
    BY <1>2, <1>3, <1>4, OverAxes
  <2> QED
    BY <2>1, <2>2
<1>6. InTime(p, d, c, from) = Max(E) /\ OutTime(p, d, c, upto) = Min(X)
  BY DEF InTime, OutTime, e, x
<1>7. from \in E /\ upto \in X /\ \A a \in A : e(a) \in E /\ x(a) \in X
  OBVIOUS
<1>8. Max(E) < Min(X)
  <2> HIDE DEF E, X
  <2> QED
    BY <1>6 DEF Within
<1> HIDE DEF E, X
<1>9. Max(E) \in Int /\ Min(X) \in Int
  BY <1>5 DEF Bounds
<1>10. from <= Max(E) /\ Min(X) <= upto
  BY <1>5, <1>7 DEF Bounds
<1>11. \A a \in A : e(a) <= Max(E) /\ Min(X) <= x(a)
  BY <1>5, <1>7 DEF Bounds
<1>12. ASSUME NEW a \in A PROVE e(a) <= Max(E) /\ Max(E) < x(a)
  BY <1>1, <1>8, <1>9, <1>11
<1> QED
  BY <1>1, <1>6, <1>8, <1>9, <1>10, <1>12

\* Two slabs of one axis whose times overlap are the same.
LEMMA SameSlab ==
    ASSUME NEW p \in Starts, NEW d \in Directions, NEW a \in Moving(d), NEW c \in Int, NEW e \in Int,
           Face(p, d, a, c + Ahead(d, a)) < Face(p, d, a, e + Ahead(d, a)) + Delta(d, a),
           Face(p, d, a, e + Ahead(d, a)) < Face(p, d, a, c + Ahead(d, a)) + Delta(d, a)
    PROVE  c = e
<1> DEFINE i == c + Ahead(d, a)
           j == e + Ahead(d, a)
<1>1. i \in Int /\ j \in Int /\ (c < e <=> i < j) /\ (e < c <=> j < i)
  BY DEF Ahead
<1>2. d[a] \in Int /\ d[a] # 0 /\ Delta(d, a) \in Int
  BY Units, FaceTimes
<1> HIDE DEF i, j
<1>3. Face(p, d, a, i) \in Int /\ Face(p, d, a, j) \in Int
  BY <1>1, FaceOrder
<1>4. /\ j < i /\ d[a] > 0 => Face(p, d, a, j) + Delta(d, a) <= Face(p, d, a, i)
      /\ j < i /\ d[a] < 0 => Face(p, d, a, i) + Delta(d, a) <= Face(p, d, a, j)
  BY <1>1, FaceOrder
<1>5. /\ i < j /\ d[a] > 0 => Face(p, d, a, i) + Delta(d, a) <= Face(p, d, a, j)
      /\ i < j /\ d[a] < 0 => Face(p, d, a, j) + Delta(d, a) <= Face(p, d, a, i)
  BY <1>1, FaceOrder
<1>6. Face(p, d, a, i) < Face(p, d, a, j) + Delta(d, a) /\ Face(p, d, a, j) < Face(p, d, a, i) + Delta(d, a)
  BY DEF i, j
<1>7. ~(j < i) /\ ~(i < j)
  BY <1>2, <1>3, <1>4, <1>5, <1>6
<1> QED
  BY <1>1, <1>7

\* What the ray enters between now and the next face is where the walk stands.
LEMMA EntersHere ==
    ASSUME PathInv, rpc = "walk", NEW c \in Cell, Within(pos, dir, c, Began, t_end),
           t <= InTime(pos, dir, c, Began), InTime(pos, dir, c, Began) < t_next[NextAxis]
    PROVE  c = cell
<1> DEFINE now == InTime(pos, dir, c, Began)
<1>1. /\ pos \in Starts /\ dir \in Directions /\ cell \in Cell /\ t \in Int /\ t_end \in Int
      /\ t_next \in [Axis -> Int] /\ Began \in Int
  BY BeganInt DEF PathInv, OnRay
<1>2. now \in Int
  BY <1>1, CrossTimes
<1>3. NextAxis \in Axis /\ \A b \in Axis : t_next[NextAxis] <= t_next[b]
  BY NextMoves DEF Moving
<1>4. ASSUME NEW a \in Moving(dir) PROVE c[a] = cell[a]
  <2> DEFINE f == Face(pos, dir, a, c[a] + Ahead(dir, a))
             g == Face(pos, dir, a, cell[a] + Ahead(dir, a))
  <2>1. a \in Axis /\ Delta(dir, a) \in Int /\ c[a] \in Int /\ cell[a] \in Int
    BY <1>1, FaceTimes, Units, CellInt
  <2>2. f \in Int /\ f - Delta(dir, a) <= now /\ now < f
    BY <1>1, CrossTimes
  <2>3. t_next[a] = g /\ g \in Int /\ g - Delta(dir, a) <= t
    BY <1>1, <2>1 DEF PathInv, OnRay
  <2>4. now < g /\ t <= now
    <3>1. t_next[NextAxis] <= g
      BY <1>3, <2>1, <2>3
    <3>2. t_next[NextAxis] \in Int /\ now < t_next[NextAxis] /\ t <= now
      BY <1>1, <1>3
    <3> HIDE DEF now, g
    <3> QED
      BY <1>2, <2>3, <3>1, <3>2
  <2>5. f < g + Delta(dir, a) /\ g < f + Delta(dir, a)
    <3> HIDE DEF now, f, g
    <3> QED
      BY <1>1, <1>2, <2>1, <2>2, <2>3, <2>4
  <2> QED
    BY <1>1, <2>1, <2>5, SameSlab
<1>5. ASSUME NEW a \in Axis \ Moving(dir) PROVE c[a] = cell[a]
  <2> DEFINE x == pos[a] - Lo[a]
  <2>1. /\ pos[a] \in Int /\ Lo[a] \in Int /\ V \in Nat \ {0} /\ c[a] \in Int /\ cell[a] \in Int
        /\ x \in Int
    BY <1>1, RayConstants, BoxInVector, GridConstants, CellInt DEF Vector
  <2>2. Lo[a] + V * c[a] < pos[a] /\ pos[a] < Lo[a] + V * (c[a] + 1)
    BY DEF Within
  <2>3. V * (c[a] + 1) = V * c[a] + V /\ V * c[a] \in Int /\ V * cell[a] \in Int
    BY <2>1
  <2>4. V * c[a] < x /\ x < V * c[a] + V
    BY <2>1, <2>2, <2>3
  <2>5. 0 <= x - V * cell[a] /\ x - V * cell[a] <= V
    BY DEF PathInv, OnRay, Between
  <2> HIDE DEF x
  <2>6. V * (c[a] - cell[a]) < V /\ -V < V * (c[a] - cell[a])
    <3>1. V * (c[a] - cell[a]) = V * c[a] - V * cell[a]
      BY <2>1
    <3> QED
      BY <2>1, <2>3, <2>4, <2>5, <3>1
  <2>7. CASE c[a] - cell[a] >= 1
    <3>1. V * (c[a] - cell[a]) >= V
      BY <2>1, <2>7
    <3> QED
      BY <2>1, <2>6, <3>1
  <2>8. CASE c[a] - cell[a] <= -1
    <3>1. V * (c[a] - cell[a]) <= -V
      BY <2>1, <2>8
    <3> QED
      BY <2>1, <2>6, <3>1
  <2> QED
    BY <2>1, <2>7, <2>8
<1> QED
  BY <1>1, <1>4, <1>5 DEF Cell

\* A face of the grid is the last one of its axis for every voxel.
LEMMA EntersBeforeExit ==
    ASSUME PathInv, rpc = "walk", NEW a \in Moving(dir), NEW c \in Cell,
           Within(pos, dir, c, Began, t_end), cell[a] + StepOf(dir[a]) \notin 0..N - 1
    PROVE  InTime(pos, dir, c, Began) < t_next[a]
<1> DEFINE i == c[a] + Ahead(dir, a)
           j == cell[a] + Ahead(dir, a)
           f == Face(pos, dir, a, i)
           g == Face(pos, dir, a, j)
<1>1. /\ pos \in Starts /\ dir \in Directions /\ cell \in Cell /\ t_end \in Int /\ Began \in Int
  BY BeganInt DEF PathInv, OnRay
<1>2. /\ a \in Axis /\ dir[a] \in Int /\ dir[a] # 0 /\ Delta(dir, a) \in Nat \ {0}
  BY <1>1, FaceTimes, Units
<1>3. /\ c[a] \in Int /\ 0 <= c[a] /\ c[a] <= N - 1 /\ cell[a] \in Int
      /\ 0 <= cell[a] /\ cell[a] <= N - 1 /\ N \in Int
  BY <1>1, <1>2, CellInt, GridConstants
<1>4. i \in Int /\ j \in Int /\ IF dir[a] > 0 THEN i <= j ELSE j <= i
  BY <1>2, <1>3 DEF Ahead, StepOf
<1> HIDE DEF i, j
<1>5. f \in Int /\ g \in Int
  BY <1>1, <1>4, FaceOrder
<1>6. f <= g
  <2>1. i < j /\ dir[a] > 0 => f + Delta(dir, a) <= g
    BY <1>1, <1>4, FaceOrder
  <2>2. j < i /\ dir[a] < 0 => f + Delta(dir, a) <= g
    BY <1>1, <1>4, FaceOrder
  <2>3. i = j => f = g
    OBVIOUS
  <2> HIDE DEF f, g
  <2> QED
    BY <1>2, <1>4, <1>5, <2>1, <2>2, <2>3
<1>7. InTime(pos, dir, c, Began) \in Int /\ InTime(pos, dir, c, Began) < f
  BY <1>1, CrossTimes DEF i
<1>8. t_next[a] = g
  BY DEF PathInv, OnRay, j
<1> HIDE DEF f, g
<1> QED
  BY <1>5, <1>6, <1>7, <1>8

LEMMA BeginCovers ==
    ASSUME CoverInv, rpc = "idle", PathInv', NEW c \in Cell, NEW from \in Int, NEW upto \in Int,
           Begin(c, from, upto)
    PROVE  CoverInv'
<1>1. rpc' = "walk" /\ t' = from /\ t_end' = upto /\ steps' = <<>>
  BY DEF Begin, CoverInv, PathInv, RayInv
<1>2. Began' = from /\ pos' \in Starts /\ dir' \in Directions
  BY <1>1 DEF Began, PathInv
<1>3. ASSUME NEW e \in Cell, Within(pos', dir', e, from, upto)
      PROVE  ~(InTime(pos', dir', e, from) < from)
  <2>1. InTime(pos', dir', e, from) \in Int /\ from <= InTime(pos', dir', e, from)
    BY <1>2, <1>3, CrossTimes
  <2> QED
    BY <2>1
<1> QED
  BY <1>1, <1>2, <1>3 DEF CoverInv, Covered, Complete

\* A cast that pushes nothing has nothing to cover; a walk that has passed the
\* end of its range has nothing left to enter.
LEMMA NothingCovers ==
    ASSUME CoverInv, PathInv', ReturnNothing, rpc = "idle" \/ (rpc = "walk" /\ Ends)
    PROVE  CoverInv'
<1>1. rpc' = "done" /\ UNCHANGED <<kind, pos, dir, t, t_end, steps>>
  BY DEF ReturnNothing
<1>2. CASE rpc = "idle"
  BY <1>1, <1>2 DEF CoverInv, PathInv, RayInv, Covered, Complete
<1>3. CASE rpc = "walk" /\ Ends
  <2>1. /\ PathInv /\ pos \in Starts /\ dir \in Directions /\ t \in Int /\ t_end \in Int
        /\ Began \in Int
    BY <1>3, BeganInt DEF CoverInv, PathInv, OnRay
  <2>2. ASSUME Len(steps) < Limit(kind), NEW c \in Cell, Within(pos, dir, c, Began, t_end)
        PROVE  Visited(c)
    <3>1. t > t_end
      <4>1. Len(steps) \in Int /\ Limit(kind) \in Int
        <5>1. kind \in Kind /\ steps \in Seq(StepIn(Int))
          BY <2>1 DEF PathInv, RayInv, Truthful
        <5> QED
          BY <5>1, GridConstants, RayConstants DEF Limit, Kind
      <4> QED
        BY <1>3, <2>2, <4>1 DEF Ends
    <3>2. InTime(pos, dir, c, Began) \in Int /\ InTime(pos, dir, c, Began) < t_end
      BY <2>1, <2>2, CrossTimes
    <3> QED
      BY <1>3, <2>1, <2>2, <3>1, <3>2 DEF CoverInv, Covered
  <2>3. Began' = Began /\ \A c \in Cell : Visited(c)' <=> Visited(c)
    BY <1>1 DEF Began, Visited
  <2> QED
    BY <1>1, <2>2, <2>3 DEF CoverInv, Covered, Complete
<1> QED
  BY <1>2, <1>3

LEMMA AdvanceCovers == ASSUME CoverInv, Advance, PathInv' PROVE CoverInv'
<1> DEFINE a == NextAxis
           s == [cell |-> cell, t |-> t]
           n == Len(steps)
<1>1. /\ rpc = "walk" /\ steps' = Append(steps, s) /\ t' = t_next[a]
      /\ cell' = [cell EXCEPT ![a] = @ + StepOf(dir[a])]
      /\ rpc' = (IF cell' \in Cell THEN "walk" ELSE "done")
      /\ UNCHANGED <<pos, dir, t_end, kind>>
  BY DEF Advance
<1>2. /\ PathInv /\ cell \in Cell /\ t \in Int /\ t_end \in Int /\ t_next \in [Axis -> Int]
      /\ pos \in Starts /\ dir \in Directions /\ Began \in Int /\ steps \in Seq(StepIn(Int))
  BY <1>1, BeganInt DEF CoverInv, PathInv, OnRay, Truthful
<1>3. a \in Moving(dir) /\ a \in Axis
  BY <1>1, <1>2, NextMoves DEF Moving
<1>4. /\ n \in Nat /\ Len(steps') = n + 1 /\ steps'[n + 1] = s
      /\ \A i \in 1..n : steps'[i] = steps[i]
  <2>1. s \in StepIn(Int)
    BY <1>2 DEF StepIn
  <2> QED
    BY <1>1, <1>2, <2>1
<1>5. Began' = Began
  <2>1. steps' # <<>> /\ steps'[1].t = Began
    <3>1. CASE steps = <<>>
      <4>1. n = 0
        BY <3>1
      <4> QED
        BY <1>4, <3>1, <4>1 DEF Began
    <3>2. CASE steps # <<>>
      <4>1. 1 \in 1..n
        BY <1>2, <1>4, <3>2
      <4>2. steps'[1] = steps[1]
        BY <1>4, <4>1
      <4> QED
        BY <1>4, <3>2, <4>2 DEF Began
    <3> QED
      BY <3>1, <3>2
  <2> QED
    BY <2>1 DEF Began
<1>6. \A c : Visited(c) => Visited(c)'
  BY <1>4 DEF Visited
<1>7. \E i \in 1..Len(steps') : steps'[i].cell = cell
  BY <1>4
<1> HIDE DEF a, s, n
<1>8. ASSUME NEW c \in Cell, Within(pos, dir, c, Began, t_end), InTime(pos, dir, c, Began) < t_next[a]
      PROVE  Visited(c)'
  <2>1. InTime(pos, dir, c, Began) \in Int
    BY <1>2, <1>8, CrossTimes
  <2>2. CASE InTime(pos, dir, c, Began) < t
    BY <1>1, <1>6, <1>8, <2>2 DEF CoverInv, Covered
  <2>3. CASE t <= InTime(pos, dir, c, Began)
    <3>1. c = cell
      BY <1>1, <1>2, <1>8, <2>3, EntersHere DEF a
    <3> QED
      BY <1>7, <3>1 DEF Visited
  <2> QED
    BY <1>2, <2>1, <2>2, <2>3
<1>9. ASSUME cell' \notin Cell, NEW c \in Cell, Within(pos, dir, c, Began, t_end)
      PROVE  InTime(pos, dir, c, Began) < t_next[a]
  <2>1. cell[a] + StepOf(dir[a]) \notin 0..N - 1
    BY <1>1, <1>2, <1>3, <1>9 DEF Cell
  <2> QED
    BY <1>1, <1>2, <1>3, <1>9, <2>1, EntersBeforeExit
<1>10. Covered'
  BY <1>1, <1>5, <1>8 DEF Covered
<1>11. Complete'
  BY <1>1, <1>5, <1>8, <1>9 DEF Complete
<1> QED
  BY <1>10, <1>11 DEF CoverInv

LEMMA CoverStep == CoverInv /\ [RayNext]_rayVars => CoverInv'
<1> SUFFICES ASSUME CoverInv, [RayNext]_rayVars PROVE CoverInv'
  OBVIOUS
<1>1. PathInv'
  BY PathStep DEF CoverInv
<1>2. CASE CastLive \/ CastOptimized
  <2>1. rpc = "idle" /\ ClippedCast
    BY <1>2 DEF CastLive, CastOptimized
  <2>2. CASE ReturnNothing
    BY <1>1, <2>1, <2>2, NothingCovers
  <2>3. CASE ~ReturnNothing
    <3> DEFINE from == Max({TEntry(pos, dir), 0})
               upto == Min({TExit(pos, dir), HorizonTime(dir)})
               c    == VoxelAt(PointAt(pos, dir, from), Lo)
    <3>1. Begin(c, from, upto)
      BY <2>1, <2>3 DEF ClippedCast
    <3>2. from = t' /\ upto = t_end' /\ c = cell' /\ rpc' = "walk"
      BY <3>1 DEF Begin
    <3>3. from \in Int /\ upto \in Int /\ c \in Cell
      <4> HIDE DEF from, upto, c
      <4> QED
        BY <1>1, <3>2 DEF PathInv, OnRay
    <3> HIDE DEF from, upto, c
    <3> QED
      BY <1>1, <2>1, <3>1, <3>3, BeginCovers
  <2> QED
    BY <2>2, <2>3
<1>3. CASE CastOffline
  <2>1. rpc = "idle"
    BY <1>3 DEF CastOffline
  <2>2. CASE ReturnNothing
    BY <1>1, <2>1, <2>2, NothingCovers
  <2>3. CASE ~ReturnNothing
    <3> DEFINE from == Max({TEntry(pos, dir), 0})
               upto == TExit(pos, dir)
               c    == [a \in Axis |-> (PointAt(pos, dir, from)[a] - Lo[a]) \div V]
    <3>1. Begin(c, from, upto)
      BY <1>3, <2>3 DEF CastOffline
    <3>2. from = t' /\ upto = t_end' /\ c = cell' /\ rpc' = "walk"
      BY <3>1 DEF Begin
    <3>3. from \in Int /\ upto \in Int /\ c \in Cell
      <4> HIDE DEF from, upto, c
      <4> QED
        BY <1>1, <3>2 DEF PathInv, OnRay
    <3> HIDE DEF from, upto, c
    <3> QED
      BY <1>1, <2>1, <3>1, <3>3, BeginCovers
  <2> QED
    BY <2>2, <2>3
<1>4. CASE Advance
  BY <1>1, <1>4, AdvanceCovers
<1>5. CASE Finish
  BY <1>1, <1>5, NothingCovers DEF Finish
<1>6. CASE UNCHANGED rayVars
  <2>1. Began' = Began /\ \A c \in Cell : Visited(c)' <=> Visited(c)
    BY <1>6 DEF rayVars, Began, Visited
  <2> QED
    BY <1>1, <1>6, <2>1 DEF rayVars, CoverInv, Covered, Complete
<1> QED
  BY <1>2, <1>3, <1>4, <1>5, <1>6 DEF RayNext

\* A walk that began and did not run into its step limit has visited every
\* voxel the ray crosses up to the end of its range, whatever face and corner
\* ties it met (ray_marching.hpp:157-180, ray_voxel.cpp:364-392).
THEOREM WalkCrossesAll == RaySpec => []CrossesAll
<1>1. RayInit => CoverInv
  BY PathInitially DEF RayInit, CoverInv, Covered, Complete
<1>2. CoverInv => CrossesAll
  <2> SUFFICES ASSUME CoverInv, rpc = "done", steps # <<>>, Len(steps) < Limit(kind),
                      NEW c \in Cell, Crosses(c, steps[1].t, t_end)
               PROVE  Visited(c)
    BY DEF CrossesAll, Visited
  <2>1. Within(pos, dir, c, Began, t_end)
    BY DEF Crosses, Within, InTime, OutTime, Face, Began
  <2> QED
    BY <2>1 DEF CoverInv, Complete
<1> QED
  BY <1>1, <1>2, CoverStep, PTL DEF RaySpec
=============================================================================
