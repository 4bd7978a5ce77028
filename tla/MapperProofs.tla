------------------------------ MODULE MapperProofs ------------------------------
(***************************************************************************)
(* Proofs about the live map and the safety filter, for grids of any size  *)
(* and any mixture of origins the filter may read: no array is indexed     *)
(* outside its bounds, and what stands on the braking path vetoes.         *)
(***************************************************************************)
EXTENDS LiveMapper, FiniteSetTheorems, TLAPS

CommandOK == cmd.heading \in Vector

IndexInv == MTypeOK /\ CommandOK

-----------------------------------------------------------------------------
\* Lengths are numbers.
LEMMA HalfInt == Half \in Int
  BY GridConstants DEF Half

\* Clamping makes an index of any quotient.
LEMMA VoxelAtInGrid ==
    ASSUME NEW p \in Vector, NEW min \in Vector
    PROVE  VoxelAt(p, min) \in Cell
<1>1. \A a \in Axis : Clamp((p[a] - min[a]) \div V) \in 0..N - 1
  <2> SUFFICES ASSUME NEW a \in Axis PROVE Clamp((p[a] - min[a]) \div V) \in 0..N - 1
    OBVIOUS
  <2>1. p[a] - min[a] \in Int /\ V \in Nat \ {0} /\ N \in Nat \ {0}
    BY GridConstants DEF Vector
  <2>2. (p[a] - min[a]) \div V \in Int
    BY <2>1
  <2> QED
    BY <2>1, <2>2 DEF Clamp
<1> QED
  BY <1>1 DEF VoxelAt, Cell

LEMMA SampleInVector ==
    ASSUME at \in Vector, cmd.heading \in Vector, NEW n \in Nat
    PROVE  Sample(n) \in Vector
<1>1. \A a \in Axis : at[a] \in Int /\ cmd.heading[a] \in Int
  BY DEF Vector
<1> QED
  BY <1>1 DEF Sample, Vector

LEMMA GridMinInVector == ASSUME NEW o \in Vector PROVE GridMin(o) \in Vector
  BY HalfInt DEF GridMin, Vector

\* Raising and fading keep the values between 0 and Cap.
LEMMA RaiseType ==
    ASSUME NEW grid \in [Cell -> 0..Cap], NEW pixels
    PROVE  Raise(grid, pixels) \in [Cell -> 0..Cap]
  BY MapperConstants DEF Raise

LEMMA FadeType ==
    ASSUME NEW grid \in [Cell -> 0..Cap]
    PROVE  Fade(grid) \in [Cell -> 0..Cap]
  BY MapperConstants DEF Fade

-----------------------------------------------------------------------------
LEMMA IndexInitially == MInit => IndexInv
<1> SUFFICES ASSUME MInit PROVE IndexInv
  OBVIOUS
<1>1. Zero \in Vector
  BY DEF Zero, Vector
<1>2. [c \in Cell |-> 0] \in [Cell -> 0..Cap] /\ 0 \in 0..Cap
  BY MapperConstants
<1> QED
  BY <1>1, <1>2 DEF MInit, IndexInv, MTypeOK, CommandOK

\* The processing thread leaves the filter's variables alone.
LEMMA ProcessingKeeps == ASSUME IndexInv, Processing PROVE IndexInv'
<1> USE DEF IndexInv, MTypeOK, CommandOK
<1>1. CASE Loop
  BY <1>1 DEF Loop, gridVars, filterVars
<1>2. CASE Simulate
  BY <1>2, MapperConstants DEF Simulate, gridVars, filterVars
<1>3. CASE Recenter
  <2> PICK a \in unset : /\ origin' = [origin EXCEPT ![a] = camera[a]]
                         /\ unset' = unset \ {a}
                         /\ mpc' = IF unset' = {} THEN "frame" ELSE "recenter"
    BY <1>3 DEF Recenter
  <2>1. origin' \in Vector
    BY DEF Vector
  <2> QED
    BY <1>3, <2>1 DEF Recenter, filterVars
<1>4. CASE ProcessFrame
  BY <1>4 DEF ProcessFrame, gridVars, filterVars
<1>5. CASE CommitMotion
  <2>1. dyn' \in [Cell -> 0..Cap]
    BY <1>5, RaiseType DEF CommitMotion
  <2> QED
    BY <1>5, <2>1 DEF CommitMotion, filterVars
<1>6. CASE CommitStatic
  <2>1. stat' \in [Cell -> 0..Cap]
    BY <1>6, RaiseType DEF CommitStatic
  <2> QED
    BY <1>6, <2>1 DEF CommitStatic, filterVars
<1>7. CASE Decay
  <2>1. {dyn', stat'} \subseteq [Cell -> 0..Cap]
    BY <1>7, FadeType DEF Decay
  <2> QED
    BY <1>7, <2>1 DEF Decay, filterVars
<1> QED
  BY <1>1, <1>2, <1>3, <1>4, <1>5, <1>6, <1>7 DEF Processing

\* The filter computes its index from one read of the origin and tests the
\* sample against another.
LEMMA FilterKeeps == ASSUME IndexInv, Filter PROVE IndexInv'
<1> USE DEF IndexInv, MTypeOK, CommandOK
<1>1. CASE Command
  <2> PICK h \in Headings, s \in Speeds : cmd' = [heading |-> h, speed |-> s]
    BY <1>1 DEF Command
  <2>1. cmd'.heading \in Vector /\ at' \in Vector
    BY <1>1, MapperConstants DEF Command
  <2> QED
    BY <1>1, <2>1 DEF Command, gridVars, mapperVars
<1>2. CASE CopyMin
  BY <1>2, GridMinInVector DEF CopyMin, gridVars, mapperVars
<1>3. CASE Index
  <2>1. VoxelAt(Sample(k), lo) \in Cell
    BY SampleInVector, VoxelAtInGrid
  <2> QED
    BY <1>3, <2>1 DEF Index, gridVars, mapperVars
<1>4. CASE ReadStatic
  <2>1. stat[vox] \in 0..Cap
    BY <1>4 DEF ReadStatic
  <2> QED
    BY <1>4, <2>1 DEF ReadStatic, gridVars, mapperVars
<1>5. CASE ReadDynamic
  BY <1>5 DEF ReadDynamic, gridVars, mapperVars
<1>6. CASE Return
  <2>1. Zero \in Vector
    BY DEF Zero, Vector
  <2> QED
    BY <1>6, <2>1, MapperConstants DEF Return, gridVars, mapperVars
<1> QED
  BY <1>1, <1>2, <1>3, <1>4, <1>5, <1>6 DEF Filter

LEMMA IndexStep == IndexInv /\ [MNext]_vars => IndexInv'
<1> SUFFICES ASSUME IndexInv, [MNext]_vars PROVE IndexInv'
  OBVIOUS
<1>1. CASE Start
  BY <1>1 DEF Start, gridVars, filterVars, IndexInv, MTypeOK, CommandOK
<1>2. CASE Stop
  BY <1>2 DEF Stop, gridVars, filterVars, IndexInv, MTypeOK, CommandOK
<1>3. CASE UNCHANGED vars
  BY <1>3 DEF vars, gridVars, mapperVars, filterVars, IndexInv, MTypeOK, CommandOK
<1> QED
  BY <1>1, <1>2, <1>3, ProcessingKeeps, FilterKeeps DEF MNext

\* Whatever two origins the filter's bounds come from, the voxel it looks up
\* exists and the map's values stay in their range (grid.hpp:130-167).
THEOREM MapIndexedInside == MSpec => []MTypeOK
<1>1. IndexInv => MTypeOK
  BY DEF IndexInv
<1> QED
  BY <1>1, IndexInitially, IndexStep, PTL DEF MSpec
-----------------------------------------------------------------------------
(* The march of the filter.  As long as something stands since it began,    *)
(* the origin has not moved: all bounds it reads are the same, and no       *)
(* sample so far was taken in a voxel that stands.                          *)

Marks(c)  == {<<"static", c>>, <<"dynamic", c>>}
Missed(j) == standing \cap Marks(VoxelAt(Sample(j), GridMin(origin))) = {}

March ==
    /\ fpc # "idle"
    /\ \A j \in 1..(k - 1) : Missed(j)
    /\ fpc \in {"bounds", "static", "dynamic"} => lo = GridMin(origin)
    /\ fpc \in {"static", "dynamic"} => vox = VoxelAt(Sample(k), GridMin(origin))
    /\ (fpc = "dynamic" /\ <<"static", vox>> \in standing) => seen > Full
    /\ (fpc = "passed" /\ cmd.speed # 0)
       => (~Goes(k) \/ ~InBox(Sample(k), GridMin(origin), GridMax(origin)))

MarchInv ==
    /\ fpc # "idle" => cmd \in [heading : Headings, speed : Speeds]
    /\ standing \subseteq Solid
    /\ standing # {} => March

LEMMA SolidValues ==
    /\ \A c : <<"static", c>> \in Solid => stat[c] > Full
    /\ \A c : <<"dynamic", c>> \in Solid => dyn[c] > Full
  BY DEF Solid

LEMMA MarchInitially == MInit => MarchInv
  BY DEF MInit, MarchInv

\* A step of the other thread takes marks away or moves the origin, and then
\* takes all of them away.
LEMMA ProcessingMarch ==
    ASSUME MarchInv, UNCHANGED filterVars, Observe
    PROVE  MarchInv'
<1>1. UNCHANGED <<fpc, cmd, at, k, lo, vox, seen>>
  BY DEF filterVars
<1>2. standing' = {} \/ (fpc # "idle" /\ origin' = origin /\ standing' = standing \cap Solid')
  BY <1>1 DEF Observe
<1>3. CASE standing' = {}
  BY <1>1, <1>3 DEF MarchInv
<1>4. CASE fpc # "idle" /\ origin' = origin /\ standing' = standing \cap Solid'
  <2>1. ASSUME standing' # {} PROVE March'
    <3>1. March
      BY <1>4, <2>1 DEF MarchInv
    <3>2. \A j : Missed(j) => Missed(j)'
      BY <1>1, <1>4 DEF Missed, Sample
    <3>3. Sample(k)' = Sample(k) /\ (Goes(k)' <=> Goes(k))
      BY <1>1 DEF Sample, Goes
    <3> QED
      BY <1>1, <1>4, <3>1, <3>2, <3>3 DEF March
  <2> QED
    BY <1>1, <1>4, <2>1 DEF MarchInv
<1> QED
  BY <1>2, <1>3, <1>4

\* A step of the filter leaves the grids alone.
LEMMA FilterMarch ==
    ASSUME IndexInv, MarchInv, Filter, Observe
    PROVE  MarchInv'
<1>1. UNCHANGED <<origin, dyn, stat>> /\ Solid' = Solid
  BY DEF Filter, Command, CopyMin, Index, ReadStatic, ReadDynamic, Return, gridVars, Solid
<1>2. CASE Command
  <2>1. fpc = "idle" /\ k' = 1 /\ fpc' = IF cmd'.speed = 0 THEN "passed" ELSE "next"
    BY <1>2 DEF Command
  <2>2. cmd' \in [heading : Headings, speed : Speeds]
    BY <1>2 DEF Command
  <2>3. standing' \subseteq Solid'
    BY <2>1 DEF Observe
  <2>4. March'
    BY <2>1 DEF March
  <2> QED
    BY <2>2, <2>3, <2>4 DEF MarchInv
<1>3. CASE Return
  <2>1. fpc' = "idle" /\ standing' = {}
    BY <1>3 DEF Return, Observe
  <2> QED
    BY <2>1 DEF MarchInv
<1>4. CASE CopyMin \/ Index \/ ReadStatic \/ ReadDynamic
  <2>1. fpc # "idle" /\ fpc' # "idle" /\ UNCHANGED <<cmd, at>>
    BY <1>4 DEF CopyMin, Index, ReadStatic, ReadDynamic
  <2>2. standing' = standing
    BY <1>1, <2>1 DEF Observe, MarchInv
  <2>3. \A j : Missed(j)' <=> Missed(j)
    BY <1>1, <2>1, <2>2 DEF Missed, Sample
  <2>4. \A j : Sample(j)' = Sample(j) /\ (Goes(j)' <=> Goes(j))
    BY <2>1 DEF Sample, Goes
  <2>5. ASSUME standing # {} PROVE March'
    <3>1. March
      BY <2>5 DEF MarchInv
    <3>2. CASE CopyMin
      BY <1>1, <2>1, <2>2, <2>3, <2>4, <3>1, <3>2 DEF CopyMin, March
    <3>3. CASE Index
      BY <1>1, <2>1, <2>2, <2>3, <2>4, <3>1, <3>3 DEF Index, March
    <3>4. CASE ReadStatic
      <4>1. <<"static", vox>> \in standing => stat[vox] > Full
        BY SolidValues DEF MarchInv
      <4> QED
        BY <1>1, <2>1, <2>2, <2>3, <2>4, <3>1, <3>4, <4>1 DEF ReadStatic, March
    <3>5. CASE ReadDynamic
      <4>1. CASE seen + dyn[vox] > Full
        BY <1>1, <2>1, <2>2, <2>3, <2>4, <3>1, <3>5, <4>1 DEF ReadDynamic, March
      <4>2. CASE ~(seen + dyn[vox] > Full)
        <5>1. fpc = "dynamic" /\ fpc' = "next" /\ k' = k + 1 /\ k \in Nat
          BY <3>5, <4>2 DEF ReadDynamic, IndexInv, MTypeOK
        <5>2. vox \in Cell /\ seen \in 0..Cap /\ dyn[vox] \in 0..Cap /\ Cap \in Nat /\ Full \in 0..Cap - 1
          BY <5>1, MapperConstants DEF IndexInv, MTypeOK
        <5>3. <<"static", vox>> \notin standing
          BY <3>1, <4>2, <5>1, <5>2 DEF March
        <5>4. <<"dynamic", vox>> \notin standing
          BY <4>2, <5>2, SolidValues DEF MarchInv
        <5>5. Missed(k)
          BY <3>1, <5>1, <5>3, <5>4 DEF March, Missed, Marks
        <5>6. \A j \in 1..(k' - 1) : Missed(j)'
          BY <2>3, <3>1, <5>1, <5>5 DEF March
        <5> QED
          BY <2>1, <5>1, <5>6 DEF March
      <4> QED
        BY <4>1, <4>2
    <3> QED
      BY <1>4, <3>2, <3>3, <3>4, <3>5
  <2> QED
    BY <1>1, <2>1, <2>2, <2>5 DEF MarchInv
<1> QED
  BY <1>2, <1>3, <1>4 DEF Filter

LEMMA MarchStep == IndexInv /\ MarchInv /\ [MNext]_vars => MarchInv'
<1> SUFFICES ASSUME IndexInv, MarchInv, [MNext]_vars PROVE MarchInv'
  OBVIOUS
<1>1. CASE (Start \/ Stop) /\ Observe
  BY <1>1, ProcessingMarch DEF Start, Stop
<1>2. CASE Processing /\ Observe
  <2>1. UNCHANGED filterVars
    BY <1>2 DEF Processing, Loop, Simulate, Recenter, ProcessFrame, CommitMotion, CommitStatic, Decay
  <2> QED
    BY <1>2, <2>1, ProcessingMarch
<1>3. CASE Filter /\ Observe
  BY <1>3, FilterMarch
<1>4. CASE UNCHANGED vars
  <2>1. UNCHANGED <<fpc, cmd, at, k, lo, vox, seen, origin, dyn, stat, standing>>
    BY <1>4 DEF vars, filterVars, gridVars
  <2>2. Solid' = Solid /\ (\A j : Missed(j)' <=> Missed(j)) /\ Sample(k)' = Sample(k) /\ (Goes(k)' <=> Goes(k))
    BY <2>1 DEF Solid, Missed, Sample, Goes
  <2>3. March' <=> March
    BY <2>1, <2>2 DEF March
  <2> QED
    BY <2>1, <2>2, <2>3 DEF MarchInv
<1> QED
  BY <1>1, <1>2, <1>3, <1>4 DEF MNext

-----------------------------------------------------------------------------
(* The samples of a march along an axis leave no voxel between them out.    *)

\* The first multiple of the voxel size from e on, and the first beyond it.
LEMMA FirstFrom ==
    ASSUME NEW e \in Int
    PROVE  \E j \in Nat : e <= j * V /\ (j = 0 \/ j * V < e + V)
<1>1. V \in Nat \ {0}
  BY GridConstants
<1>2. CASE e <= 0
  <2>1. 0 \in Nat /\ e <= 0 * V
    BY <1>1, <1>2
  <2> QED
    BY <2>1
<1>3. CASE e > 0
  <2> DEFINE j == (e + V - 1) \div V
  <2>1. j \in Nat /\ e <= j * V /\ j * V < e + V
    BY <1>1, <1>3
  <2> QED
    BY <2>1
<1> QED
  BY <1>2, <1>3

LEMMA FirstBeyond ==
    ASSUME NEW e \in Int
    PROVE  \E j \in Nat : e < j * V /\ (j = 0 \/ j * V <= e + V)
<1>1. PICK j \in Nat : e + 1 <= j * V /\ (j = 0 \/ j * V < e + 1 + V)
  BY FirstFrom
<1>2. j * V \in Int /\ V \in Int
  BY GridConstants
<1> QED
  BY <1>1, <1>2

\* The voxel of a coordinate between its two faces.
LEMMA BetweenFaces ==
    ASSUME NEW p \in Int, NEW m \in Int, NEW i \in 0..N - 1, m + V * i <= p, p < m + V * (i + 1)
    PROVE  Clamp((p - m) \div V) = i
<1>1. V \in Nat \ {0} /\ N \in Nat \ {0}
  BY GridConstants
<1>2. (p - m) \div V = i
  BY <1>1
<1> QED
  BY <1>1, <1>2 DEF Clamp

\* The faces of a voxel of the grid are not outside the box.
LEMMA FacesInBox ==
    ASSUME NEW i \in 0..N - 1
    PROVE  0 <= V * i /\ V * (i + 1) <= 2 * Half /\ V * (i + 1) = V * i + V /\ V * i \in Int
<1>1. V \in Nat \ {0} /\ N \in Nat \ {0} /\ (N * V) % 2 = 0
  BY GridConstants
<1>2. 2 * Half = N * V
  BY <1>1 DEF Half
<1>3. V * (i + 1) <= V * N
  BY <1>1
<1> QED
  BY <1>1, <1>2, <1>3

LEMMA Ordered == ASSUME NEW j \in Nat, NEW n \in Nat, j * V < n * V PROVE j < n
  BY GridConstants

LEMMA OrderedWeakly == ASSUME NEW j \in Nat, NEW n \in Nat, n <= j PROVE n * V <= j * V
  BY GridConstants

\* The extremes of two numbers.
LEMMA Extremes ==
    ASSUME NEW x \in Int, NEW y \in Int
    PROVE  /\ Max({x} \cup {y}) \in Int /\ Max({x} \cup {y}) >= x /\ Max({x} \cup {y}) >= y
           /\ Min({x} \cup {y}) \in Int /\ Min({x} \cup {y}) <= x /\ Min({x} \cup {y}) <= y
           /\ Max({x} \cup {y}) = IF x >= y THEN x ELSE y
           /\ Min({x} \cup {y}) = IF x <= y THEN x ELSE y
<1>1. Max({x} \cup {y}) = IF x >= y THEN x ELSE y
  BY DEF Max
<1>2. Min({x} \cup {y}) = IF x <= y THEN x ELSE y
  BY DEF Min
<1> QED
  BY <1>1, <1>2

LEMMA Sixty == (60 * V) \div V = 60
  BY GridConstants

\* A voxel on the braking path along axis m, in lengths: it is not behind, and
\* its nearer face is closer than the braking distance.
LEMMA PathAlongAxis ==
    ASSUME IndexInv, MarchInv, fpc = "passed", cmd.speed \notin {NaN, 0}, NEW m \in Axis,
           {a \in Axis : cmd.heading[a] # 0} = {m}, NEW c \in BrakingPath
    PROVE  /\ c \in Cell /\ c # VoxelAt(at, GridMin(origin))
           /\ \A a \in Axis \ {m} : /\ GridMin(origin)[a] + V * c[a] < at[a]
                                    /\ at[a] < GridMin(origin)[a] + V * (c[a] + 1)
           /\ Brake(cmd.speed) \in Int /\ cmd.heading[m] \in {-V, V}
           /\ LET f0 == GridMin(origin)[m] + V * c[m]
                  f1 == GridMin(origin)[m] + V * (c[m] + 1)
              IN  IF cmd.heading[m] = V THEN at[m] < f1 /\ f0 - at[m] < Brake(cmd.speed)
                                        ELSE f0 < at[m] /\ at[m] - f1 < Brake(cmd.speed)
<1> DEFINE h == cmd.heading[m]
           f0 == GridMin(origin)[m] + V * c[m]
           f1 == GridMin(origin)[m] + V * (c[m] + 1)
           t0 == FaceTime(m, f0)
           t1 == FaceTime(m, f1)
           face(e, a, i) == GridMin(origin)[a] + V * (e[a] + i)
           B == Brake(cmd.speed)
<1>1. h \in {-V, V}
  <2>1. h # 0 /\ \A b \in Axis \ {m} : cmd.heading[b] = 0
    OBVIOUS
  <2>2. cmd.heading \in Headings
    BY DEF MarchInv
  <2> QED
    BY <2>1, <2>2, HeadingConstants
<1>2. B \in Int
  <2>1. cmd.speed \in Nat /\ UnitsPerMeter \in Nat
    BY MapperConstants DEF MarchInv
  <2> QED
    BY <2>1 DEF Brake
<1>3. c \in Cell
  BY DEF BrakingPath
<1>4. f0 \in Int /\ f1 \in Int /\ at[m] \in Int /\ f0 < f1 /\ V \in Nat \ {0}
  <2>1. GridMin(origin) \in Vector /\ at \in Vector
    BY GridMinInVector DEF IndexInv, MTypeOK
  <2>2. GridMin(origin)[m] \in Int /\ at[m] \in Int /\ c[m] \in 0..N - 1
    BY <1>3, <2>1 DEF Vector, Cell
  <2>3. V \in Nat \ {0} /\ V * (c[m] + 1) = V * c[m] + V /\ V * c[m] \in Int
    BY <2>2, FacesInBox, GridConstants
  <2> QED
    BY <2>2, <2>3
<1> HIDE DEF f0, f1
<1>5. /\ t0 = IF h = V THEN (f0 - at[m]) * 60 ELSE (at[m] - f0) * 60
      /\ t1 = IF h = V THEN (f1 - at[m]) * 60 ELSE (at[m] - f1) * 60
  <2>1. Abs60(h) = V
    BY <1>1, <1>4 DEF Abs60
  <2>2. h > 0 <=> h = V
    BY <1>1, <1>4
  <2> QED
    BY <2>1, <2>2, Sixty DEF FaceTime
<1>6. t0 \in Int /\ t1 \in Int
  BY <1>4, <1>5
<1>7. /\ c # VoxelAt(at, GridMin(origin))
      /\ \A a \in Axis \ {m} : face(c, a, 0) < at[a] /\ at[a] < face(c, a, 1)
      /\ Max({0} \cup {Min({FaceTime(a, face(c, a, 0)), FaceTime(a, face(c, a, 1))}) : a \in {m}})
           < Min({60 * B} \cup {Max({FaceTime(a, face(c, a, 0)), FaceTime(a, face(c, a, 1))}) : a \in {m}})
  BY DEF BrakingPath
<1>8. \A a \in Axis : face(c, a, 0) = GridMin(origin)[a] + V * c[a]
  BY <1>3 DEF Cell
<1>9. Max({0} \cup {Min({t0} \cup {t1})}) < Min({60 * B} \cup {Max({t0} \cup {t1})})
  <2>1. face(c, m, 0) = f0 /\ face(c, m, 1) = f1
    BY <1>8 DEF f0, f1
  <2>2. {t0, t1} = {t0} \cup {t1}
    OBVIOUS
  <2>3. {Min({FaceTime(a, face(c, a, 0)), FaceTime(a, face(c, a, 1))}) : a \in {m}} = {Min({t0} \cup {t1})}
    BY <2>1, <2>2
  <2>4. {Max({FaceTime(a, face(c, a, 0)), FaceTime(a, face(c, a, 1))}) : a \in {m}} = {Max({t0} \cup {t1})}
    BY <2>1, <2>2
  <2> QED
    BY <1>7, <2>3, <2>4
<1> HIDE DEF t0, t1, B
<1>10. (t0 > 0 \/ t1 > 0) /\ (t0 < 60 * B \/ t1 < 60 * B)
  <2> DEFINE lower == Min({t0} \cup {t1})
             upper == Max({t0} \cup {t1})
  <2>1. /\ lower \in Int /\ upper \in Int
        /\ lower = (IF t0 <= t1 THEN t0 ELSE t1) /\ upper = IF t0 >= t1 THEN t0 ELSE t1
    BY <1>6, Extremes
  <2> HIDE DEF lower, upper
  <2>2. 60 * B \in Int
    BY <1>2
  <2>3. Max({0} \cup {lower}) >= 0 /\ Max({0} \cup {lower}) >= lower /\ Max({0} \cup {lower}) \in Int
    <3>1. 0 \in Int /\ lower \in Int
      BY <2>1
    <3> QED
      BY ONLY <3>1, Extremes
  <2>4. Min({60 * B} \cup {upper}) <= 60 * B /\ Min({60 * B} \cup {upper}) <= upper
        /\ Min({60 * B} \cup {upper}) \in Int
    <3>1. upper \in Int
      BY <2>1
    <3> QED
      BY ONLY <3>1, <2>2, Extremes
  <2>5. Max({0} \cup {lower}) < Min({60 * B} \cup {upper})
    BY <1>9 DEF lower, upper
  <2>6. upper > 0 /\ lower < 60 * B
    BY <2>1, <2>2, <2>3, <2>4, <2>5
  <2> QED
    BY <1>6, <2>1, <2>6
<1>11. IF h = V THEN at[m] < f1 /\ f0 - at[m] < B ELSE f0 < at[m] /\ at[m] - f1 < B
  BY <1>2, <1>4, <1>5, <1>10
<1> QED
  BY <1>1, <1>2, <1>3, <1>7, <1>8, <1>11 DEF f0, f1, B

\* Some sample of the march lies in a voxel on the path, short of the braking
\* distance and its margin.
LEMMA PathIsSampled ==
    ASSUME IndexInv, MarchInv, fpc = "passed", cmd.speed \notin {NaN, 0}, NEW m \in Axis,
           {a \in Axis : cmd.heading[a] # 0} = {m}, NEW c \in BrakingPath
    PROVE  \E j \in Nat \ {0} :
              /\ VoxelAt(Sample(j), GridMin(origin)) = c
              /\ j * V < Brake(cmd.speed) + V
              /\ \A a \in Axis \ {m} : Sample(j)[a] = at[a]
              /\ \A a \in Axis : GridMin(origin)[a] <= Sample(j)[a] /\ Sample(j)[a] <= GridMax(origin)[a]
<1> DEFINE h == cmd.heading[m]
           min == GridMin(origin)
           f0 == min[m] + V * c[m]
           f1 == min[m] + V * (c[m] + 1)
           B == Brake(cmd.speed)
<1>1. /\ c \in Cell /\ c # VoxelAt(at, min)
      /\ \A a \in Axis \ {m} : min[a] + V * c[a] < at[a] /\ at[a] < min[a] + V * (c[a] + 1)
      /\ B \in Int /\ h \in {-V, V}
      /\ IF h = V THEN at[m] < f1 /\ f0 - at[m] < B ELSE f0 < at[m] /\ at[m] - f1 < B
  BY PathAlongAxis
<1>2. min \in Vector /\ at \in Vector /\ V \in Nat \ {0}
  BY GridMinInVector, GridConstants DEF IndexInv, MTypeOK
<1>3. \A a \in Axis : /\ min[a] \in Int /\ at[a] \in Int /\ c[a] \in 0..N - 1
                      /\ 0 <= V * c[a] /\ V * (c[a] + 1) = V * c[a] + V /\ V * c[a] \in Int
                      /\ V * (c[a] + 1) <= 2 * Half
  BY <1>1, <1>2, FacesInBox DEF Vector, Cell
<1>4. f0 \in Int /\ f1 = f0 + V /\ at[m] \in Int
  BY <1>2, <1>3
<1> HIDE DEF f0, f1, B
\* The sample's place on the axis.
<1>5. \E j \in Nat : /\ f0 <= at[m] + h * j /\ at[m] + h * j < f1
                     /\ j = 0 \/ j * V < B + V
  <2>1. CASE h = V
    <3>1. PICK j \in Nat : f0 - at[m] <= j * V /\ (j = 0 \/ j * V < (f0 - at[m]) + V)
      BY <1>4, FirstFrom
    <3>2. j * V \in Int /\ h * j = j * V
      BY <1>2, <2>1
    <3>3. CASE j = 0
      <4>1. h * j = 0 /\ j * V = 0
        BY <1>2, <3>2, <3>3
      <4>2. at[m] < f1
        BY <1>1, <2>1
      <4>3. f0 <= at[m] + h * j /\ at[m] + h * j < f1
        BY <1>4, <3>1, <4>1, <4>2
      <4> QED
        BY <3>3, <4>3
    <3>4. CASE j # 0
      <4>1. f0 <= at[m] + h * j /\ at[m] + h * j < f1 /\ j * V < B + V
        BY <1>1, <1>2, <1>4, <2>1, <3>1, <3>2, <3>4
      <4> QED
        BY <4>1
    <3> QED
      BY <3>3, <3>4
  <2>2. CASE h = -V /\ h # V
    <3>1. PICK j \in Nat : at[m] - f1 < j * V /\ (j = 0 \/ j * V <= (at[m] - f1) + V)
      BY <1>2, <1>4, FirstBeyond
    <3>2. j * V \in Int /\ h * j = -(j * V)
      BY <1>2, <2>2
    <3>3. CASE j = 0
      <4>1. f0 <= at[m] + h * j /\ at[m] + h * j < f1
        BY <1>1, <1>2, <1>4, <2>2, <3>1, <3>2, <3>3
      <4> QED
        BY <3>3, <4>1
    <3>4. CASE j # 0
      <4>1. f0 <= at[m] + h * j /\ at[m] + h * j < f1 /\ j * V < B + V
        BY <1>1, <1>2, <1>4, <2>2, <3>1, <3>2, <3>4
      <4> QED
        BY <4>1
    <3> QED
      BY <3>3, <3>4
  <2> QED
    BY <1>1, <2>1, <2>2
<1>6. PICK j \in Nat : f0 <= at[m] + h * j /\ at[m] + h * j < f1 /\ (j = 0 \/ j * V < B + V)
  BY <1>5
<1> DEFINE p == Sample(j)
<1>7. /\ p \in Vector /\ p[m] = at[m] + h * j
      /\ \A a \in Axis \ {m} : p[a] = at[a]
  <2>1. p \in Vector
    BY SampleInVector DEF IndexInv, MTypeOK, CommandOK
  <2>2. p[m] = at[m] + h * j
    BY DEF Sample
  <2>3. ASSUME NEW a \in Axis \ {m} PROVE p[a] = at[a]
    <3>1. cmd.heading[a] = 0
      OBVIOUS
    <3>2. p[a] = at[a] + 0 * j
      BY <3>1 DEF Sample
    <3> QED
      BY <1>3, <3>2
  <2> QED
    BY <2>1, <2>2, <2>3
<1> HIDE DEF p, h, min
<1>8. \A a \in Axis : min[a] + V * c[a] <= p[a] /\ p[a] < min[a] + V * (c[a] + 1) /\ p[a] \in Int
  <2>1. p[m] \in Int /\ min[m] + V * c[m] <= p[m] /\ p[m] < min[m] + V * (c[m] + 1)
    BY <1>6, <1>7 DEF f0, f1, Vector
  <2>2. ASSUME NEW a \in Axis \ {m}
        PROVE  p[a] \in Int /\ min[a] + V * c[a] <= p[a] /\ p[a] < min[a] + V * (c[a] + 1)
    BY <1>1, <1>3, <1>7
  <2> QED
    BY <2>1, <2>2
<1>9. VoxelAt(p, min) = c
  <2>1. \A a \in Axis : Clamp((p[a] - min[a]) \div V) = c[a]
    BY <1>3, <1>8, BetweenFaces
  <2> QED
    BY <1>1, <2>1 DEF VoxelAt, Cell
<1>10. j # 0
  <2>1. ASSUME j = 0 PROVE FALSE
    <3>1. h * j = 0
      BY <1>1, <1>2, <2>1
    <3>2. \A a \in Axis : p[a] = at[a]
      <4>1. p[m] = at[m]
        BY <1>4, <1>7, <3>1
      <4> QED
        BY <1>7, <4>1
    <3>3. VoxelAt(p, min) = VoxelAt(at, min)
      BY <3>2 DEF VoxelAt
    <3> QED
      BY <1>1, <1>9, <3>3
  <2> QED
    BY <2>1
<1>11. \A a \in Axis : min[a] <= p[a] /\ p[a] <= GridMax(origin)[a]
  <2> SUFFICES ASSUME NEW a \in Axis PROVE min[a] <= p[a] /\ p[a] <= GridMax(origin)[a]
    OBVIOUS
  <2>1. origin[a] \in Int /\ min[a] = origin[a] - Half /\ GridMax(origin)[a] = origin[a] + Half
    BY DEF min, GridMin, GridMax, IndexInv, MTypeOK, Vector
  <2>2. /\ 0 <= V * c[a] /\ V * c[a] \in Int /\ V * (c[a] + 1) = V * c[a] + V
        /\ V * (c[a] + 1) <= 2 * Half
    BY <1>3
  <2>3. min[a] + V * c[a] <= p[a] /\ p[a] < min[a] + V * (c[a] + 1) /\ p[a] \in Int
    BY <1>8
  <2> QED
    BY <1>2, <2>1, <2>2, <2>3, HalfInt
<1> QED
  BY <1>6, <1>7, <1>9, <1>10, <1>11 DEF p, min, B

\* A march that passes has taken that sample: it ended at the braking distance
\* and its margin or outside the grid, and before the sample it can do neither.
LEMMA PassedMeansMissed ==
    ASSUME IndexInv, MarchInv, JudgedClear, InsideGrid, NEW m \in Axis,
           {a \in Axis : cmd.heading[a] # 0} = {m}, NEW c \in BrakingPath, standing # {}
    PROVE  standing \cap Marks(c) = {}
<1>1. fpc = "passed" /\ cmd.speed \notin {NaN, 0} /\ March
  BY DEF JudgedClear, MarchInv
<1>2. PICK j \in Nat \ {0} :
         /\ VoxelAt(Sample(j), GridMin(origin)) = c
         /\ j * V < Brake(cmd.speed) + V
         /\ \A a \in Axis \ {m} : Sample(j)[a] = at[a]
         /\ \A a \in Axis : GridMin(origin)[a] <= Sample(j)[a] /\ Sample(j)[a] <= GridMax(origin)[a]
  BY <1>1, PathIsSampled
<1>3. /\ Brake(cmd.speed) \in Int /\ cmd.heading[m] \in {-V, V} /\ V \in Nat \ {0} /\ k \in Nat
      /\ \A a \in Axis : at[a] \in Int
  BY <1>1, PathAlongAxis, GridConstants DEF IndexInv, MTypeOK, Vector
<1>4. CASE ~Goes(k)
  <2>1. k * V >= Brake(cmd.speed) + V
    BY <1>1, <1>3, <1>4 DEF Goes
  <2>2. j < k
    BY <1>2, <1>3, <2>1, Ordered
  <2> QED
    BY <1>1, <1>2, <1>3, <2>2 DEF March, Missed
<1>5. CASE ~InBox(Sample(k), GridMin(origin), GridMax(origin))
  <2>1. ASSUME k <= j PROVE FALSE
    <3>1. k * V <= j * V /\ k * V \in Nat /\ j * V \in Nat
      BY <1>3, <2>1, OrderedWeakly
    <3>2. ASSUME NEW a \in Axis
          PROVE  GridMin(origin)[a] <= Sample(k)[a] /\ Sample(k)[a] <= GridMax(origin)[a]
      <4>1. /\ GridMin(origin)[a] \in Int /\ GridMax(origin)[a] \in Int
            /\ GridMin(origin)[a] <= at[a] /\ at[a] <= GridMax(origin)[a]
        BY HalfInt DEF InsideGrid, InBox, GridMin, GridMax, IndexInv, MTypeOK, Vector
      <4>2. CASE a # m
        <5>1. Sample(k)[a] = at[a] + 0 * k
          BY <4>2 DEF Sample
        <5> QED
          BY <1>3, <4>1, <5>1
      <4>3. CASE a = m
        <5>1. Sample(k)[m] = at[m] + cmd.heading[m] * k /\ Sample(j)[m] = at[m] + cmd.heading[m] * j
          BY DEF Sample
        <5>2. CASE cmd.heading[m] = V
          <6>1. cmd.heading[m] * k = k * V /\ cmd.heading[m] * j = j * V
            BY <1>3, <5>2
          <6> QED
            BY <1>2, <1>3, <3>1, <4>1, <4>3, <5>1, <6>1
        <5>3. CASE cmd.heading[m] = -V
          <6>1. cmd.heading[m] * k = -(k * V) /\ cmd.heading[m] * j = -(j * V)
            BY <1>3, <5>3
          <6> QED
            BY <1>2, <1>3, <3>1, <4>1, <4>3, <5>1, <6>1
        <5> QED
          BY <1>3, <5>2, <5>3
      <4> QED
        BY <4>2, <4>3
    <3> QED
      BY <1>5, <3>2 DEF InBox
  <2>2. j \in 1..(k - 1)
    BY <1>3, <2>1
  <2> QED
    BY <1>1, <1>2, <2>2 DEF March, Missed
<1> QED
  BY <1>1, <1>4, <1>5 DEF March

LEMMA MarchVetoes == IndexInv /\ MarchInv => StandingObstacleVetoes
<1> SUFFICES ASSUME IndexInv, MarchInv, JudgedClear, AlongAxis, InsideGrid, NEW c \in BrakingPath
             PROVE  \A g \in {"static", "dynamic"} : <<g, c>> \notin standing
  BY DEF StandingObstacleVetoes
<1> DEFINE moving == {a \in Axis : cmd.heading[a] # 0}
<1>1. IsFiniteSet(moving)
  <2>1. IsFiniteSet(1..3)
    <3>1. 1 \in Int /\ 3 \in Int
      OBVIOUS
    <3> QED
      BY <3>1, FS_Interval, Zenon
  <2>2. moving \in SUBSET (1..3)
    BY GridConstants
  <2> QED
    BY <2>1, <2>2, FS_Subset
<1>2. PICK m : moving = {m}
  BY <1>1, FS_Singleton DEF AlongAxis
<1>3. m \in Axis
  BY <1>2
<1>4. standing # {} => standing \cap Marks(c) = {}
  BY <1>2, <1>3, PassedMeansMissed
<1> QED
  BY <1>4 DEF Marks

\* No command along an axis passes a voxel that stands on its braking path,
\* however the commits, the decay and the moves of the grid fall between the
\* reads of the filter (cfc_pilot.hpp:174-184).
THEOREM ObstaclesVeto == MSpec => []StandingObstacleVetoes
<1>1. MSpec => [](IndexInv /\ MarchInv)
  BY IndexInitially, MarchInitially, IndexStep, MarchStep, PTL DEF MSpec
<1> QED
  BY <1>1, MarchVetoes, PTL
=============================================================================
