# TLA+ models of drone-optical-ai

Formal models of the programs in this repository that decide where a vehicle flies:
the failsafe state machine, the bridge to the flight controller, the onboard control
loop, the fiber tether with both its ends, the voxel map with the safety filter that
reads it, the planning pipeline, and the mission server. TLC checks them on small
instances; TLAPS proves the safety properties that matter most for every value of the
constants.

## 1. The system

| Component | State it keeps | Operations | Talks to |
|---|---|---|---|
| `control/failsafe.hpp` | mode, NaN latch, kill latch, configuration | `request_*`, `on_*`, `reset_fault`, `allow_autonomy` | called by the loop, the bridge and whatever wires the tether hooks; no lock |
| `control/fc_bridge/` | last position and attitude, position clock, `connected_` | `connect`, two telemetry callbacks, `send` | MAVSDK threads, pose provider, failsafe |
| `control/pilot_main.cpp` | `g_running`, last pose, goal | 20 Hz loop, signal handler | provider, failsafe, CfC pilot, bridge |
| `perception/drone_pose_provider` | latest pose, latest frame | `push_pose`, `get_latest_pose`, camera thread | bridge, loop |
| `control/cfc_pilot/` | hidden state of the policy | `step`, `reset`, safety filter | voxel grid (unlocked origin, locked voxels), loop |
| `core/grid.hpp`, `core/live_voxel_mapper.cpp` | dual voxel grid, its origin, previous frame | mapper thread, commits, decay, recentering | mock provider, safety filter |
| `core/motion.hpp`, `core/ray_marching.hpp` | none | motion detectors, voxel walks | mapper |
| `core/clustering.hpp` | tracks, next id | `find_clusters`, `update_tracks` | voxel grid, costmap |
| `core/navigation.hpp` | costmap, search nodes | `generate_costmap`, `plan_path` | clusters, caller |
| `link/tether_agent/` | listening socket, session buffers and clocks, `in_link_loss` | `start`, `stop`, worker thread | TCP client on the ground; hooks into the drone |
| `ground/coordinator/` | command queue, tether descriptor, last state | `start`, `stop`, `send_*`, tether worker, fleet listener | tether agent over TCP; HTTP scrapers |
| `server/main.py`, `server/validator.py` | `.fleet.json` and its temporary file | `/mission`, `/fleet`, one thread a request | language model, validator, file system |
| `core/ray_voxel.cpp`, viewer, `image/`, `training/`, `sim/` | files | offline jobs, provisioning | - |

What is hard here:

* **Three threads and one command path.** Telemetry callbacks, the failsafe's
  callers and `send()` share state under several locks or none. `send()` checks
  early, may block in MAVSDK, and acts late.
* **MAVSDK keeps streaming.** The last setpoint flies the vehicle until somebody
  replaces it, so stopping is a liveness property of the loop.
* **An unlocked state machine.** `state_` is tested and then assigned.
* **A map that moves under its reader.** The grid's origin is written component by
  component while the safety filter converts coordinates with it, and the two
  values of a voxel are read under two acquisitions of the mutex.
* **A link that breaks.** Connections are cut in the middle of lines, each end is
  told separately, half-open connections stay in the backlog, and nothing on the
  wire is numbered or acknowledged.
* **stop() against a worker.** Both ends close sockets under their own thread and join
  loops that a peer can keep busy: the fleet listener waits for clients without a
  timeout, a full send retries for ever, a full socket is read for ever.
* **One file, many requests.** Every mission rewrites `.fleet.json` goal by goal
  through one temporary name; any file operation may fail and is swallowed, and the
  server can die in between.
* **Boundaries.** Faces and corners of voxels, places off the map, keys lowered in
  a queue that does not know.

What makes each component correct: a latched fault grounds the vehicle; a return is
final; nobody flies who was not armed; permission withdrawn lets
at most one more velocity through; a kill or a lost position brings the vehicle to
rest; link loss is reported once, unless lines keep coming, and before any command of a recovered
link; commands and telemetry arrive in order, at most once and in whole lines; the
two ends find each other again once they are told of a cut; no array is indexed outside; an obstacle that
stands vetoes a command into it; a ray visits the voxels it crosses; clusters are
the connected components and have one track each; a route is free, legal and
cheapest if the queue keeps its order, and missing only if there is none; goals of a
batch are accepted at a distance from each other, and a push is never half on file.

## 2. Modules

| Module | Models | Notes |
|---|---|---|
| `Failsafe` | `failsafe.hpp` | one action per method; a call that returns early stutters |
| `FailsafeHistory` | the same | adds the history variable `armed` |
| `FailsafeThreads` | the same, called from two threads | one step per memory access of a method |
| `FcBridge` | `fc_bridge.cpp`, pose of `drone_pose_provider.hpp` | `F == INSTANCE Failsafe`; one step per read of shared state in `send` |
| `OnboardPilot` | `pilot_main.cpp` | extends `FcBridge` with the loop |
| `Wire` | TCP connections as the socket calls see them | external; cut and noticed separately, accepted in the order they were dialled |
| `TetherAgent` | `tether_agent.cpp` | extends `Wire` |
| `LinkMonitor` | nothing: the abstract promise of the callbacks | refined by `TetherAgent` |
| `TetherPeer` | the agent with any client | closes the system |
| `Coordinator` | tether side of `coordinator.cpp` | extends `Wire` |
| `TetherLink` | coordinator and agent together | history variables for what each end handed on |
| `GridGeometry` | bounds, indices and recentering of `grid.hpp` | operators only |
| `RayWalk` | the two walks of `ray_marching.hpp`, the one of `ray_voxel.cpp` | extends `GridGeometry`; one step per voxel |
| `MotionMask` | the detectors of `motion.hpp` | operators only |
| `LiveMapper` | `live_voxel_mapper.cpp`, the grid, the safety filter of `cfc_pilot.hpp` | extends `GridGeometry`, `MotionMask`; one step per access to shared state |
| `Clustering` | `clustering.hpp` | one step per turn of the loops over voxels and over tracks |
| `Astar` | the search of `navigation.hpp` | one step per node; the queue hands nodes out in any order; `in_order` is history |
| `HeapQueue` | `std::priority_queue` | external; keys change while entries wait |
| `Costmap` | the costmap of `navigation.hpp` | extends `Clustering`, `Astar` |
| `Planner` | `plan_path` and the pipeline around it | extends `Costmap`, `HeapQueue`; the heap's top restricts `Astar`'s choice; the route is read back one parent a step |
| `Validator` | `validator.py` | operators only |
| `MissionServer` | `handle_mission` of `main.py` and its file | extends `Validator`; one step per file operation |
| `FleetListener` | `fleet_worker`, `start()` and `stop()`, and of `tether_worker` what `stop()` waits for | with any client and any peer |
| `MCRayWalk`, `MCLiveMapper`, `MCPlanner`, `MCGround` | - | instances for TLC; `MCGround` puts server and listener side by side |
| `FailsafeProofs`, `FcBridgeProofs`, `TetherProofs`, `LinkProofs`, `MapperProofs`, `RayProofs`, `PlannerProofs`, `MissionProofs` | - | TLAPS proofs, section 4 |

How state corresponds. The failsafe's variables are its members. In `FcBridge`,
`posAge` and `poseAge` are `now - last_pose_time_` and the age of the provider's
pose, saturated at `AgeCap`; `pc`, `latest` and `out` are the program counter and
locals of one `send()`; `offboard` and `setpoint` are the autopilot's side, and
`late` is history. `OnboardPilot` adds the loop's own counter and the age of the
pose it copied. In `TetherAgent`, `apc` is the place in `worker_loop`; the other
variables have the source's names, with ages instead of clocks, and `callback`
holds the callback made by the latest step. In `Coordinator`, `co_pending`, `out`
and `co_rx` are the queue, the swapped-out batch and `rx_pending`. A line is two
tokens, head and tail, so that reads, writes and cuts can split it.

In `RayWalk` and `LiveMapper` lengths are integers in a unit fine enough for the
instance; `RayWalk` counts time in lengths of the direction vector. In `LiveMapper`,
`mpc` is the place in `processing_loop` and the callbacks it runs, `fpc` the place in
`safety_filter`; a voxel's value is the number of decays it takes to fall out of the
map, and `Beam` is the table of voxels a pixel's ray meets, which `RayWalk` computes
and checks separately. `options` are the two detector flags. In `Planner`, `ppc` is the
place in the pipeline; `visited` is the array of that name in `find_clusters`,
`matched` is `cluster_matched` and `turn` the loop variable of `update_tracks`; `g`,
`came_from`, `closed` and `heap` are the search's node table and queue, and `in_order`
records whether every node taken so far was one of least f. Costs are in tenths and
step costs in hundredths of the resolution. In
`MissionServer`, `step[r]` is the place in request r's handler; `tmp` and `fleet` are
directory entries, `fd` what a handler holds open and `content` what an inode holds,
since two requests can hold the same one; `before`, `kept`, `unread` and `crossed` are
history: what was on file when a lone push began, the goals it has pushed with success,
and whether one of its reads failed or another request pushed meanwhile. In
`FleetListener`, `at` is the place in `fleet_worker`, `tether_at` the one in
`tether_worker` and `tether_open` whether that has a descriptor. In `TetherLink`,
`unacked` is history: the ground has sent something that a cut will keep from being
acknowledged.

Operators marked "Mutant" are deliberately broken versions of the definition that
follows them; no specification uses them. They show that the properties can fail.

## 3. What TLC checks

| Run | Property | What it shows |
|---|---|---|
| `failsafe` | `TypeOK`, `LatchGrounds`, `FlownOnlyIfArmed`, `ReturnIsFinal` | every sequence of calls, under every configuration: a latched fault grounds, a return is final, nothing but an arming reaches a flown mode |
| `failsafe_threads` | `KillGrounds` | the tether's thread and the loop's thread interleave access by access and a latched kill survives, given the assignment of methods to threads |
| `fc_bridge` | `TypeOK`, `OneSetpointAfterRevocation`, `OneSetpointAfterPositionLoss`, `EngagesAtRest` | how much of a withdrawn permission or of a lost position `send()` lets through; the loss of the tether does not count as a withdrawal |
| `onboard_pilot` | `PTypeOK`, `KillStopsMotion`, `PositionLossStopsMotion` | the loop brings the vehicle to rest |
| `tether_agent` | `AgentTypeOK`, `KeepsLinkMonitor`, `SilenceIsReported`, `StopReturns` | the agent implements the abstract monitor, and it reports silence and can be stopped unless lines keep coming for ever |
| `tether_link` | `CoordinatorTypeOK`, `CommandsInOrder`, `TelemetryInOrder`, `NoSplicedLine` | lines survive cuts and reconnects whole, in order, at most once |
| `tether_link_liveness` | `LinkComesBack` | the ends find each other after the last cut, from every half-open state the ground is told of |
| `ray_walk` | `RayTypeOK`, `FollowsRay`, `CrossesAll` | the three walks stay inside, follow the ray, and miss no voxel whose interior it crosses |
| `mapper` | `MTypeOK`, `StandingObstacleVetoes`, `QuietMapFades`, `ChangeReachesMap` | indices stay inside under torn reads of the origin, an obstacle that stands vetoes, changes the detector finds enter the map and leave it |
| `planner` | `PlannerTypeOK`, `ComponentsAreClusters`, `OneTrackPerCluster`, `FootprintsBlocked`, `SearchTree`, `RouteSound`, `RouteCheapest` | from voxels to a route: clusters, tracks, blocked places, and A* over a heap whose keys change |
| `ground` | `ServerTypeOK`, `BatchSeparated`, `PushIsAtomic`, `FleetStopReturns` | goals of a batch are accepted at a distance, a lone push survives a crash or an I/O error at any step, `stop()` returns but for three stated cases |
| `kill_stop` | `KillReachesEmergencyStop` (violated) | `failsafe.hpp:135-136` says the bridge maps a kill to EMERGENCY_STOP; nothing reads `kill_requested_`, and the loop keeps holding in offboard mode |

Some properties carry a condition that the code makes necessary.

* `OneSetpointAfterRevocation` counts neither entering LINK_LOSS nor being in it as
  withdrawn permission. `send()` does ask `allow_autonomy`, which refuses there, but the
  repository's documents promise that the onboard policy flies on (next section); the
  property takes neither side. A kill, a bad output and every other change of mode count.
* `SilenceIsReported` and `StopReturns` except a client whose lines never stop
  (`LinesKeepComing`): the agent's receive loop (`tether_agent.cpp:460-480`) and the one
  in `read_line` (301-316) leave on EAGAIN, end of file or an error only and do not look
  at `running`. Bytes without a newline would hold `read_line` as well; the model's
  client ends its lines.
* `LinkComesBack` excepts a ground that nobody tells (`NobodyTells`): the coordinator
  only selects for reading (`coordinator.cpp:505`) and sets no keepalive (304-335), so
  one that has sent nothing into the dead connection goes on waiting on it. The agent
  writes heartbeats, provided a telemetry source was set, and finds out.
* `FleetStopReturns` has three disjuncts. `HeldBySilence`: a client that stays connected
  and sends nothing keeps the listener's thread in `recv`. `HeldByTether`: a dial that
  `stop()` overtook (412, 469) returns a descriptor that nobody closes, and
  `send_all_blocking` (287-300) retries on it without reading `running`. `crashed`: -1
  has reached `FD_SET` (502).
* `PushIsAtomic` is claimed for a request no other overlaps while it pushes, and it
  admits the loss of earlier commands through a read that failed (`unread`).
* `StandingObstacleVetoes` asks for a heading along an axis and a vehicle inside the
  grid, `ChangeReachesMap` for changes the detector in use finds, and `RouteCheapest` for
  a search that took its nodes in the order of f (`in_order`); the next section says what
  happens otherwise.

### Seen with TLC, without a run of their own

Places where a comment, a document or a test says something the model's behaviours
do not do. Each was found by stating the sentence, looking at the counterexample and
comparing it with the code; none is needed by a property above.

* Only `reset_fault` should leave FAULT (`tests/failsafe_test.cpp:123`), but a low
  battery or a geofence breach does too (`failsafe.hpp:189-197`).
* Autonomy should keep commanding in LINK_LOSS (`failsafe.hpp:99-103`,
  `docs/ARCHITECTURE.md:11` and `56`, `docs/TETHER.md:66`, `docs/SAFETY.md:21-23`), but
  `allow_autonomy` refuses in that mode, so the bridge drops its velocities and the loop
  holds (`pilot_main.cpp:150`).
* Of a return for a low battery or a breach, `failsafe.hpp:193-194` says that callers can
  override it by re-requesting a mode. They cannot: no `request_*` method accepts RTL or
  LANDING (60-85).
  `ReturnIsFinal` states what the code does: only a fault ends a return.
* `request_disarm` ends in IDLE where the comment has ARMED (`failsafe.hpp:81`), and
  HOVER maps to RTL where the comment has LANDING (`failsafe.hpp:191`).
* HOLD is sent whatever the age of the pose (`pilot_main.cpp:163`).
* `on_tether_recover` fires on any line, parsed or not (`tether_agent.hpp:118`), and
  a coordinator with nothing to say trips the agent's one-second watchdog.
* Queueing commands is called safe because the drone drops duplicates
  (`coordinator.cpp:433-434`), but nothing is ever sent twice.
* Only the worker is said to touch the tether descriptor (`coordinator.cpp:354-355`);
  `stop()` closes it and leaves -1 behind (412-416), which can reach `FD_SET` (502).
* The pilot never sets the motion threshold. Its default is 2.0
  (`live_voxel_mapper.cpp:64`) and the mock's pixels lie in [0,1] (comment 412-415),
  so that configuration's map stays empty and the filter never vetoes
  (`pilot_main.cpp:92`). The model takes the threshold as a constant.
* The veto holds along the axes only: samples along a diagonal heading pass the
  corner a voxel shares with its neighbour (`cfc_pilot.hpp:158-160`). Hence
  `AlongAxis` in `StandingObstacleVetoes`.
* A vehicle outside the grid is never vetoed: the first sample that is outside ends
  the march (`cfc_pilot.hpp:177`), although the path may enter the grid further on
  (comment 158-159). Hence `InsideGrid`.
* The search lowers f of nodes that wait in the priority queue
  (`navigation.hpp:446-449`), whose order compares f through the index (403). The top
  need not be of least f then, a node taken too early is closed for good, and on a map
  of 4x4 places with one occupied the code returns a route of cost 570 where one of
  560 exists. Hence `in_order`.
* A NaN speed passes every comparison of the filter, so that nothing is sampled
  (`cfc_pilot.hpp:167-174`); a NaN altitude passes the band and the separation.
* The greedy fallback always appends the goal (`navigation.hpp:502`) though its
  comment says the path stops short (498), and a cluster's radius in metres is added
  to cells (239).
* `config.yaml:14-17` asks for separation from current targets; no `other_targets`
  are passed (`main.py:196`), so two requests may accept targets too close together.
* `config.yaml:11` says strictly inside; points on the west and south edges pass.
* `main.py:102` says the coordinator reads the file each tick; it never does.
* Overlapping requests share one temporary file and lose updates; the lock path is
  never used (`main.py:104`).
* A voxel's static value halves in about 231 frames, 7.7 s at 30 Hz, where the
  comment has about 60 s (`grid.hpp:57`).
* `cast_rays_batch` takes 0.5 N as the image centre (`ray_marching.hpp:314-315`),
  `pose.hpp:234-235` and `ray_voxel.cpp:506` do not.
* The offline walker drops rays that enter through the upper faces, and
  recentering moves the origin and leaves the data where it was
  (`grid.hpp:124-126`).
* An exception for a malformed corner is caught by nobody and ends the connection.
* A goal whose push fails is skipped and the loop goes on (`main.py:201-206`). Of the batch
  <a at P, a at Q, b at P>, which the validator accepts, a failure of the second push
  leaves both drones with P. `BatchSeparated` is about what is accepted.
* A fleet file that exists but cannot be read counts as empty (`main.py:120`), and the
  rewrite drops the commands of all other drones.

### Bounds

* `failsafe`: the complete state space of the object; three battery levels below,
  between and above three thresholds. `failsafe_threads`: every call of either
  thread, at every access.
* `fc_bridge`: limits of two ticks, ages saturated one past them, late setpoints
  counted to two, which is where the property fails. `onboard_pilot`: limits of one
  tick, since liveness only distinguishes fresh from stale.
* `tether_agent`: one connection at a time, a buffer of one line, one command and
  one line that does not parse, a silence limit of two ticks, one heartbeat
  (`MaxBeat`).
* `tether_link`: three connections, two of them in the accept queue, so that two
  half-open ones can wait in front of a live one; two commands, two heartbeats, two
  cuts (`MaxCuts`), no `stop()`. `tether_link_liveness`: two connections, one
  command, one heartbeat, one cut, `stop()` allowed. `MaxBeat` and `MaxCuts` are the
  only bounds on what the ends may do.
* `ray_walk`: three voxels of size four an edge; 729 starts on corners, faces, edges
  and centres inside and around the grid; the axis directions and all signed
  permutations of (1,2,2), so that ties, single faces and exact corners occur; every
  face is met at a whole time (`RayUnits`, which says that the unit of length is fine
  enough); the horizon 12 is shorter than the grid's diagonal. 203,209 states.
* `mapper`: a plane of 4x4 voxels of size five, a 3x3 image, two cameras of which one
  triggers recentering, two scenes; the noise filter in the run, the other detectors
  compared on every black and white frame by `DetectorsCompared`; a vehicle inside and
  one outside the grid, headings along an axis both ways and one oblique, speeds 0, 3
  and NaN; levels to `Cap` = 2 with `Full` = 1, so that a voxel can be full, half faded
  and gone. 183,218 states.
* `planner`: a plane of 3x3 voxels over 6x6 places, seven scenes, two positions of
  the drone, four trips of which one leaves the map, `MaxTime` = 4 frames against a
  track age of 3, so that tracks die and are replaced. 32,738 states, none of them a
  deadlock: when time is up the pipeline waits for a frame (`Idle`).
* `ground`: two drones, two requests, three batches of two to four goals, one of which
  sends a drone elsewhere and another drone to its first place, and one of which raises
  behind an accepted goal; a concave fence; any file operation may fail, any number of
  times. The file's text is smaller than the write buffer, so that one write makes it
  whole. A request begins to push into another's push if the goals left between them
  are at most `MaxOverlap` = 3, or waits for its end; nothing shared is touched while
  goals are judged, so one request judges while the other rests (`Alone`). Server and
  coordinator share no state: each steps while the other is at rest. One client of the
  listener at a time. 1,387,061 states.

The runs with `CHECK_DEADLOCK FALSE` are those where the system stops: a signal ends
the loop, `stop()` ends the ends of the link and the mapper, and a bounded scenario
(rays, cuts) ends.

### Fairness

* `onboard_pilot`: the loop is scheduled, MAVSDK calls return (its sleeps and
  timeouts are finite), and time passes.
* `tether_agent`: weak fairness of the worker; strong fairness of `AgentTick`, because
  every pass of the worker sleeps 10 ms, so that time passes under it. Nothing is assumed
  of the client.
* `tether_link_liveness`: both programs are started and scheduled, data that arrived
  is read, and a dial that can succeed does not fail for ever. The kernel gives a cut
  connection up after retransmission, hence only for an end that has sent into it: the
  agent, which writes heartbeats on the connection it serves, and the ground if
  `unacked`.
* `mapper`: weak fairness of the processing thread alone; nothing of the filter, of
  `start()` or of `stop()`.
* `ground`: weak fairness of `fleet_worker`, of `stop()` and of those steps of
  `tether_worker` that come whatever its peer does (`TetherGoesOn`); none of a send on a
  descriptor that is still good, of the clients, or of the server.

## 4. What is proved

TLAPS checks these for every value of the constants that satisfies the named
assumptions.

* **Failsafe** (`FailsafeProofs`, assumption `FailsafeConstants`). The types, the
  latch, the final return and the arming. Each is inductive once the types are known
  (the final return also needs that a return goes where the configuration says, lemma
  `OneWayDown`); `FlownOnlyIfArmed` speaks of the history variable.
  `KillBlocksAutonomy` draws the consequence the loop relies on.
* **Two threads** (`FailsafeProofs`, `ThreadAssignment`). `KillInv` says for
  each thread which accesses remain in its call and what its earlier test of
  `state_` still implies. The worker holds every tested assignment together with
  `on_kill` and `reset_fault`; the loop's thread only stores modes that are grounded
  anyway. That assignment is the assumption.
* **Bridge and loop** (`FcBridgeProofs`, `FcBridgeConstants`). `AuthorityInv` and
  `PositionInv` tie the count of late setpoints to the place in `send()`: one late
  setpoint is possible only past the check, and the next `send()` starts before it.
  `EngagesAtRest` follows from what was stored before `start()`. `BridgeTypes` and
  `PilotTypes` need the bounds of those counts.
* **Tether** (`TetherProofs`, `WireConstants`, `TetherAgentConstants`). The agent
  with any client implements `LinkMonitor`: initial states map to initial states and
  every step to a step or a stutter, given `LineEndsLoss`: while a line is being
  parsed no loss is open. `AgentTypes` adds to the types that the accept queue holds
  connections and nothing else (`AgentInv`).
* **Link** (`LinkProofs`, the two above and `TetherLinkConstants`). A command can be in
  the agent's buffer, on a connection, in the batch being sent or in the queue;
  `LinkInv` looks at all of these as one stream. Within a connection the frames
  increase, whatever an earlier connection still holds is older than what a later one
  holds, and only an uncut connection of the coordinator grows. A cut may leave a
  stream in the middle of a line, but never one that still grows, and the buffers are
  cleared with the connection. `CommandsStayInOrder` and `LinesStayWhole` follow, for
  any number of connections, cuts and commands; `TelemetryStaysInOrder` from the same
  argument in the other direction, `CoordinatorTypes` from the shape of the two ends.
* **Rays** (`RayProofs`, `GridConstants`, `RayConstants`, `RayUnits`). `RayInv` keeps
  the cell in the grid while the walk goes on (`WalkStaysInside`, `WalkLeavesNoGap`).
  `PathInv` says that the walk stands in the cell that holds the ray at its time and
  that `t_next` are the times of the faces ahead (`WalkFollowsRay`). `CoverInv` says
  that every cell whose interior the ray enters before that time has been visited,
  through faces, edges and corners met at one time (`WalkCrossesAll`).
* **Map** (`MapperProofs`, `GridConstants`, `ImageConstants`, `MapperConstants`,
  `HeadingConstants`). The clamp keeps every index inside whatever mixture of two
  origins the filter read. `MarchInv` follows the march of the filter while voxels on
  its path stand: the samples so far have met none of them, and between the two reads
  of one voxel the value read still tells that it stands. The samples are no further
  apart than a voxel is wide, so that none is stepped over (`ObstaclesVeto`).
* **Search** (`PlannerProofs`, `AstarConstants`). For any map and any order in which
  the queue hands nodes out, so for the heap too: `TreeInv` adds to `SearchTree` the
  frontier; `ReachInv` that what a taken node leads to has been reached. So a search
  that gives up has taken a trap without the goal (`GivesUpOnlyIfCutOff`), no sequence
  of legal steps of any length leads out of it (`NoRouteMissed`), and a goal that was
  found has a route of the cost that `g` says (`RouteFound`). If the nodes were taken
  in the order of f, `OrderInv` adds that no taken node is behind a waiting one, which
  is where the octile heuristic's consistency (`Consistent`) is needed; every prefix
  of any route is then either behind the search or no cheaper than what it has found
  (`OrderedIsCheapest`).
* **Pipeline** (`PlannerProofs`, `GridConstants`, `ClusteringConstants`,
  `CostmapConstants`, `MarginCoversVoxel`, `PlannerConstants`). Five invariants, one
  for each stage.
  - `FrameInv`, with `Grouped`: clusters are disjoint, lie in `visited`, and each
    component of dense voxels is visited as a whole or not at all. Expansion stops at
    visited voxels, so the step that needs it is the visit of a component next to an
    earlier cluster's border (`ClustersAreComponents`).
  - `TrackInv`: while tracks choose, those of this frame and the clusters chosen are
    matched one to one (`ClustersAreTracked`).
  - `MapInv`: `FootprintsBlocked` needs that the voxel reaches no further past its
    corner than the margin does, through two truncations toward zero. That is
    `MarginCoversVoxel`; the code's defaults, a margin of 2 m against voxels and places
    of 0.5 m, satisfy it (`ObstaclesAreBlocked`).
  - `SearchInv`: the search's invariant on the map it was given, and no search before
    (`PlansKeepTheTree`; with the other invariants, `PlannerTypes`).
  - `RouteInv`: while the parents are followed the path is the end of a route along
    which `g` grows, so that it ends at the start and visits no place twice
    (`RoutesAreSound`).

  `RoutesAreCheapest` compares `g` with the costs that relaxing every legal step
  arrives at. They are no less, because each is covered as above; they are no more,
  because the search's own route visits no place twice and is found within as many
  relaxations as there are places.
* **Missions** (`MissionProofs`, `MissionConstants`, `ValidatorConstants`,
  `NoneIsNoTarget`). `BatchInv` says that `assigned` is each drone's last accepted
  target; with it the validator's comparison gives `BatchSeparated`, through crashes
  and exceptions. `FileInv` says that a descriptor is held only from open to close and
  that the temporary name never refers to the fleet file (`ServerTypes`). It does not
  keep inodes apart: two requests may hold one, and after a rename one may hold the
  fleet file's. `PushInv` says for a request that pushes alone what each of its copies of
  the file and the file itself hold at every step of a push, whichever of its file
  operations fail, the leftovers of earlier crashes included (`PushesAreAtomic`). A goal
  more on top of commands is added the same way whether they are what was on file or,
  after a failed read, none (`OnFileOneMore`, `OnFileBlind`).

Every invariant, every action property and the refinement that a run checks is
proved. Only model-checked is liveness (`KillStopsMotion`, `PositionLossStopsMotion`,
`SilenceIsReported`, `StopReturns`, `LinkComesBack`, `QuietMapFades`,
`ChangeReachesMap`, `FleetStopReturns`), which is beyond the prover. How the heap
orders its entries is not proved either: the theorems about the search hold for any
order, and `in_order` marks the searches that took one of least f each time. The
detectors of `MotionMask` are compared on every small frame (`DetectorsCompared`), not
proved equal.

## 5. What is not modelled, and the plan

* **The camera thread of the pose provider** (`drone_pose_provider.cpp`) copies
  frames and stamps them with the pose under its lock. Its frames feed nothing the
  pilot runs: the mapper is built on `MockPoseProvider`.
* **The policy's inference and its observation vector**, `depth_occupancy.hpp`, and
  the statistics and file output of the grid: numerical or pure output. The policy
  is a choice of command.
* **`generate_velocity_command`, `limit_velocity_for_obstacles`,
  `FlightControllerInterface`, `predict_position`** and the velocities of tracks: no
  program of the repository constructs or calls them in its pipeline.
* **`mission_brain`** is a choice of proposals; `fetch_fleet` is one of the
  listener's clients.
* **Device image, wizard, training, viewer, simulation** and the offline tool's file
  I/O keep no state that several steps could get wrong.
* **A client of the agent that never ends its line**, and a fleet file larger than the
  write buffer.
* Floating-point rounding; the reuse of a descriptor's number after `stop()` has
  closed it; the wiring of the tether's hooks to the failsafe, which exists only in
  the agent's README and is taken as `ThreadAssignment`.

What comes next: that a heap hands nodes out in the order of f as long as no waiting
key is lowered, so that `in_order` can be replaced by a condition on the map; that the
dense detector agrees with its definition for every frame; then the rate limiter of
`FlightControllerInterface` and the camera thread, should a program come to use them.
