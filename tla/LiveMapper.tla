------------------------------ MODULE LiveMapper ------------------------------
(***************************************************************************)
(* The voxel map on board and its two users: the processing thread of      *)
(* core/live_voxel_mapper.cpp, which moves the grid with the camera and    *)
(* fills and fades the voxels of core/grid.hpp, and the control loop, whose *)
(* safety filter (control/cfc_pilot/cfc_pilot.hpp) reads them.             *)
(*                                                                         *)
(* Voxel values are read and written under grid_mutex; the origin is only  *)
(* written under it.  Values are integers up to Cap, a voxel is occupied   *)
(* above Full.  The mapper always runs on MockPoseProvider, whose poses    *)
(* and images are members of Cameras and Scenes.                           *)
(***************************************************************************)
EXTENDS GridGeometry, MotionMask, FiniteSetsExt

CONSTANTS
    Cameras, Scenes,        \* positions and images of the mock provider
    Beam,                   \* [Pixel -> SUBSET Cell]: the walk from the grid's middle
    Options,                \* pairs use_adaptive_threshold, use_noise_filtering
    motion_threshold, min_region_size, percentile,
    SampleInterval,         \* every n-th pixel feeds the static grid
    Cap, Full,              \* largest value kept; occupied above Full
    Positions, Headings,    \* of the vehicle; headings have length V
    Speeds, UnitsPerMeter,  \* commanded speeds in m/s; the unit of length
    NaN, NoFrame

ASSUME MapperConstants ==
    /\ Cameras \subseteq Vector /\ Positions \subseteq Vector /\ Headings \subseteq Vector
    /\ Scenes \subseteq Image /\ NoFrame \notin Image
    /\ Beam \in [Pixel -> SUBSET Cell]
    /\ Options \subseteq BOOLEAN \X BOOLEAN
    /\ Cap \in Nat /\ Full \in 0..Cap - 1
    /\ Speeds \subseteq Nat \cup {NaN} /\ NaN \notin Nat
    /\ UnitsPerMeter \in Nat

\* What a heading of length V is if it points along an axis.
ASSUME HeadingConstants ==
    \A h \in Headings, a \in Axis :
        (h[a] # 0 /\ \A b \in Axis \ {a} : h[b] = 0) => h[a] \in {-V, V}

VARIABLES
    running,   \* the mapper's flag
    active,    \* the provider's flag
    options,   \* which detector runs
    mpc,       \* where the processing thread stands
    camera,    \* camera_pose.position of this tick
    unset,     \* components of the origin that recenter_origin has yet to store
    frame,     \* image of this tick
    prev,      \* prev_frame, NoFrame until prev_frame_valid
    origin, dyn, stat,   \* config.origin, dynamic_vox, static_vox
    fpc,       \* where the safety filter stands
    cmd,       \* heading and speed it judges
    at,        \* pose.position
    k,         \* samples so far, plus one: d is k * voxel_size
    lo,        \* grid_min as world_to_voxel computed it
    vox,       \* voxel index under test
    seen,      \* value get_static_voxel returned
    standing   \* history: grid values above Full since the filter began, if the
               \* origin has not moved since

gridVars   == <<origin, dyn, stat>>
mapperVars == <<running, active, options, mpc, camera, unset, frame, prev>>
filterVars == <<fpc, cmd, at, k, lo, vox, seen>>
vars       == <<gridVars, mapperVars, filterVars, standing>>

Zero == [a \in Axis |-> 0]

Locked == mpc = "recenter" /\ unset # Axis

Solid == {<<"static", c>> : c \in {c \in Cell : stat[c] > Full}}
           \cup {<<"dynamic", c>> : c \in {c \in Cell : dyn[c] > Full}}

Occupied == {c \in Cell : stat[c] + dyn[c] > Full}

MInit ==
    /\ running = FALSE /\ active = FALSE /\ mpc = "off"
    /\ options \in Options
    /\ camera = Zero /\ unset = {} /\ frame = NoFrame /\ prev = NoFrame
    /\ origin = Zero
    /\ dyn = [c \in Cell |-> 0] /\ stat = [c \in Cell |-> 0]
    /\ fpc = "idle" /\ cmd = [heading |-> Zero, speed |-> 0] /\ at = Zero
    /\ k = 1 /\ lo = Zero /\ vox = Zero /\ seen = 0
    /\ standing = {}

-----------------------------------------------------------------------------
(* The caller of start() and stop().                                       *)

Start ==
    /\ ~running /\ mpc = "off"
    /\ running' = TRUE /\ active' = TRUE /\ mpc' = "top"
    /\ UNCHANGED <<gridVars, options, camera, unset, frame, prev, filterVars>>

\* stop() clears both flags; its join is the wait for "off".
Stop ==
    /\ running
    /\ running' = FALSE /\ active' = FALSE
    /\ UNCHANGED <<gridVars, options, mpc, camera, unset, frame, prev, filterVars>>

-----------------------------------------------------------------------------
(* processing_loop.                                                        *)

Loop ==
    /\ mpc = "top"
    /\ mpc' = IF running THEN "tick" ELSE "off"
    /\ UNCHANGED <<gridVars, running, active, options, camera, unset, frame, prev, filterVars>>

\* simulate_movement: a new pose and image, handed to the pose callback first.
Simulate ==
    /\ mpc = "tick"
    /\ IF active
       THEN /\ camera' \in Cameras /\ frame' \in Scenes
            /\ unset' = Axis /\ mpc' = "recenter"
       ELSE mpc' = "decay" /\ UNCHANGED <<camera, frame, unset>>
    /\ UNCHANGED <<gridVars, running, active, options, prev, filterVars>>

\* recenter_origin stores the origin's components under the mutex, one by
\* one and in any order; the voxel values stay where they are.
Recenter ==
    /\ mpc = "recenter"
    /\ \E a \in unset :
        /\ origin' = [origin EXCEPT ![a] = camera[a]]
        /\ unset' = unset \ {a}
        /\ mpc' = IF unset' = {} THEN "frame" ELSE "recenter"
    /\ UNCHANGED <<dyn, stat, running, active, options, camera, frame, prev, filterVars>>

\* The detector the two flags select: noise filtering wins.
Changed ==
    CASE options[2] -> DetectMotionFiltered(prev, frame, motion_threshold, min_region_size)
      [] options = <<TRUE, FALSE>> -> DetectMotionAdaptive(prev, frame, motion_threshold, percentile)
      [] OTHER -> DetectMotion(prev, frame, motion_threshold)

\* Mutant: the frame is remembered before it is compared with the last one.
ProcessFrameLate ==
    /\ mpc = "frame"
    /\ IF NeedsRecentering(camera, origin)
       THEN unset' = Axis /\ mpc' = "recenter" /\ UNCHANGED prev
       ELSE mpc' = "decay" /\ prev' = frame /\ UNCHANGED unset
    /\ UNCHANGED <<gridVars, running, active, options, camera, frame, filterVars>>

\* The frame callback up to the decision whether anything moved.
ProcessFrame ==
    /\ mpc = "frame"
    /\ IF NeedsRecentering(camera, origin)
       THEN unset' = Axis /\ mpc' = "recenter" /\ UNCHANGED prev
       ELSE /\ UNCHANGED unset
            /\ IF prev # NoFrame /\ Changed # {}
               THEN mpc' = "motion" /\ UNCHANGED prev
               ELSE mpc' = "decay" /\ prev' = frame
    /\ UNCHANGED <<gridVars, running, active, options, camera, frame, filterVars>>

\* What a ray adds exceeds Full at any distance (compute_distance_weight).
Raise(grid, pixels) ==
    [c \in Cell |-> IF \E p \in pixels : c \in Beam[p] THEN Cap ELSE grid[c]]

CommitMotion ==
    /\ mpc = "motion"
    /\ dyn' = Raise(dyn, Changed)
    /\ mpc' = "static"
    /\ UNCHANGED <<origin, stat, running, active, options, camera, unset, frame, prev, filterVars>>

\* update_static_grid samples the current frame; dark pixels add nothing.
Sampled == {p \in Pixel : p[1] % SampleInterval = 0 /\ p[2] % SampleInterval = 0 /\ frame[p] > 0}

CommitStatic ==
    /\ mpc = "static"
    /\ stat' = Raise(stat, Sampled)
    /\ prev' = frame
    /\ mpc' = "decay"
    /\ UNCHANGED <<origin, dyn, running, active, options, camera, unset, frame, filterVars>>

\* Mutant: static voxels never fade.
FadeDynamic(grid) ==
    IF grid = stat THEN grid ELSE [c \in Cell |-> IF grid[c] > 0 THEN grid[c] - 1 ELSE grid[c]]

\* Every positive value shrinks by its rate; a level stands for the frames it
\* takes to fall through it.
Fade(grid) == [c \in Cell |-> IF grid[c] > 0 THEN grid[c] - 1 ELSE grid[c]]

Decay ==
    /\ mpc = "decay"
    /\ dyn' = Fade(dyn) /\ stat' = Fade(stat)
    /\ mpc' = "top"
    /\ UNCHANGED <<origin, running, active, options, camera, unset, frame, prev, filterVars>>

Processing ==
    Loop \/ Simulate \/ Recenter \/ ProcessFrame \/ CommitMotion \/ CommitStatic \/ Decay

-----------------------------------------------------------------------------
(* safety_filter on the control loop's thread.                             *)

\* Braking distance v^2 / 4 in units; the filter adds one voxel.
Brake(speed) == (speed * speed * UnitsPerMeter) \div 4

\* The loop test `d < brake`: false for a speed that is not a number.
Goes(n) == cmd.speed # NaN /\ n * V < Brake(cmd.speed) + V

\* A command that is near zero is returned before any sample.
Command ==
    /\ fpc = "idle"
    /\ \E h \in Headings, s \in Speeds : cmd' = [heading |-> h, speed |-> s]
    /\ at' \in Positions
    /\ fpc' = IF cmd'.speed = 0 THEN "passed" ELSE "next"
    /\ k' = 1
    /\ UNCHANGED <<gridVars, mapperVars, lo, vox, seen>>

\* get_bounds reads the origin once for each corner, without the mutex.
CopyMin ==
    /\ fpc = "next"
    /\ IF Goes(k) THEN lo' = GridMin(origin) /\ fpc' = "bounds"
                  ELSE fpc' = "passed" /\ UNCHANGED lo
    /\ UNCHANGED <<gridVars, mapperVars, cmd, at, k, vox, seen>>

Sample(n) == [a \in Axis |-> at[a] + cmd.heading[a] * n]

\* Outside the box the march ends and the command passes.
Index ==
    /\ fpc = "bounds"
    /\ IF InBox(Sample(k), lo, GridMax(origin))
       THEN vox' = VoxelAt(Sample(k), lo) /\ fpc' = "static"
       ELSE fpc' = "passed" /\ UNCHANGED vox
    /\ UNCHANGED <<gridVars, mapperVars, cmd, at, k, lo, seen>>

ReadStatic ==
    /\ fpc = "static" /\ ~Locked
    /\ seen' = stat[vox]
    /\ fpc' = "dynamic"
    /\ UNCHANGED <<gridVars, mapperVars, cmd, at, k, lo, vox>>

\* Mutant: only what moved lately counts.
ReadDynamicAlone ==
    /\ fpc = "dynamic" /\ ~Locked
    /\ IF dyn[vox] > Full THEN fpc' = "held" /\ UNCHANGED k
                          ELSE fpc' = "next" /\ k' = k + 1
    /\ UNCHANGED <<gridVars, mapperVars, cmd, at, lo, vox, seen>>

\* Occupied: the command collapses to HOLD.  The two values were read under
\* two acquisitions of the mutex.
ReadDynamic ==
    /\ fpc = "dynamic" /\ ~Locked
    /\ IF seen + dyn[vox] > Full THEN fpc' = "held" /\ UNCHANGED k
                                 ELSE fpc' = "next" /\ k' = k + 1
    /\ UNCHANGED <<gridVars, mapperVars, cmd, at, lo, vox, seen>>

\* The command goes to the bridge.
Return ==
    /\ fpc \in {"passed", "held"}
    /\ fpc' = "idle"
    /\ cmd' = [heading |-> Zero, speed |-> 0] /\ at' = Zero
    /\ k' = 1 /\ lo' = Zero /\ vox' = Zero /\ seen' = 0
    /\ UNCHANGED <<gridVars, mapperVars>>

Filter == Command \/ CopyMin \/ Index \/ ReadStatic \/ ReadDynamic \/ Return

-----------------------------------------------------------------------------
\* The history starts with the command, if no move of the grid is under way.
Observe ==
    standing' = IF fpc = "idle"
                THEN IF fpc' = "idle" \/ Locked THEN {} ELSE Solid'
                ELSE IF fpc' = "idle" \/ origin' # origin THEN {} ELSE standing \cap Solid'

MNext == (Start \/ Stop \/ Processing \/ Filter) /\ Observe

MSpec == MInit /\ [][MNext]_vars

\* Both threads are scheduled; nothing is assumed of start() and stop().
MFairSpec == MSpec /\ WF_vars(Processing /\ Observe)

-----------------------------------------------------------------------------
(* Correctness.                                                            *)

\* With vox in the grid whatever mixture of two origins the bounds came from:
\* get_static_voxel indexes the array unchecked (grid.hpp:150-167).
MTypeOK ==
    /\ {running, active} \subseteq BOOLEAN /\ options \in Options
    /\ mpc \in {"off", "top", "tick", "recenter", "frame", "motion", "static", "decay"}
    /\ camera \in Vector /\ origin \in Vector /\ unset \subseteq Axis
    /\ frame \in Image \cup {NoFrame} /\ prev \in Image \cup {NoFrame}
    /\ {dyn, stat} \subseteq [Cell -> 0..Cap]
    /\ fpc \in {"idle", "next", "bounds", "static", "dynamic", "passed", "held"}
    /\ at \in Vector /\ k \in Nat /\ lo \in Vector /\ seen \in 0..Cap
    /\ fpc \in {"static", "dynamic"} => vox \in Cell

\* Voxels a straight path of the braking distance leads into: entered after
\* the start and before its end.  Times count sixtieths of the unit of length.
Abs60(x) == IF x < 0 THEN -x ELSE x
FaceTime(a, x) ==
    (IF cmd.heading[a] > 0 THEN x - at[a] ELSE at[a] - x) * ((60 * V) \div Abs60(cmd.heading[a]))

BrakingPath ==
    LET moving == {a \in Axis : cmd.heading[a] # 0}
        face(c, a, i) == GridMin(origin)[a] + V * (c[a] + i)
        enters(c) == Max({0} \cup {Min({FaceTime(a, face(c, a, 0)), FaceTime(a, face(c, a, 1))}) : a \in moving})
        leaves(c) == Min({60 * Brake(cmd.speed)}
                           \cup {Max({FaceTime(a, face(c, a, 0)), FaceTime(a, face(c, a, 1))}) : a \in moving})
    IN  {c \in Cell : /\ c # VoxelAt(at, GridMin(origin))
                      /\ \A a \in Axis \ moving : face(c, a, 0) < at[a] /\ at[a] < face(c, a, 1)
                      /\ enters(c) < leaves(c)}

AlongAxis == Cardinality({a \in Axis : cmd.heading[a] # 0}) = 1

JudgedClear == fpc = "passed" /\ cmd.speed # NaN /\ cmd.speed # 0

InsideGrid == InBox(at, GridMin(origin), GridMax(origin))

\* A command along an axis of a vehicle inside the grid is never passed while
\* a voxel on the braking path has been occupied, in one of the two grids, ever
\* since the filter began: not by a sample between two voxels, nor by a commit
\* or a decay between the two reads of one.  From outside the first sample may
\* miss the grid, which ends the march (cfc_pilot.hpp:174-184).
StandingObstacleVetoes ==
    (JudgedClear /\ AlongAxis /\ InsideGrid)
    => \A c \in BrakingPath : \A g \in {"static", "dynamic"} : <<g, c>> \notin standing

\* Once frames stop changing for good and the mapper keeps running, the map
\* empties, static voxels included: an obstacle is remembered only as long as
\* something moves (live_voxel_mapper.cpp:221-223, grid.hpp:108-119).
Quiet == running /\ (mpc = "frame" => prev # NoFrame /\ Changed = {})
QuietMapFades == <>[]Quiet => <>[](Occupied = {})

\* If the detector in use finds a change in frame after frame, something gets into
\* the grids, however they are moved meanwhile: the frame it compares with is kept
\* only after the commits (live_voxel_mapper.cpp:199-228).  A movement that the
\* adaptive threshold or the noise filter takes for noise is none.
Moves == mpc = "frame" /\ prev # NoFrame /\ Changed # {}
ChangeReachesMap == (<>[]running /\ []<>Moves) => <>(Occupied # {})
=============================================================================
