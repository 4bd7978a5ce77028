------------------------------ MODULE Clustering ------------------------------
(***************************************************************************)
(* core/clustering.hpp: voxels above the threshold grouped in clusters     *)
(* (VoxelClusterer) and clusters followed from frame to frame              *)
(* (VoxelTracker), one step per turn of their loops.  A cluster is the set *)
(* of its voxels.  Positions of centroids are multiples of 1/Fine of the   *)
(* unit of length.                                                         *)
(***************************************************************************)
EXTENDS GridGeometry, FiniteSetsExt, SequencesExt

CONSTANTS
    min_points,                \* VoxelClusterer's argument
    Fine,                      \* divisible by every number of voxels of a cluster
    max_association_distance,  \* of VoxelTracker, in units of length
    max_track_age

ASSUME ClusteringConstants ==
    /\ min_points \in Nat /\ Fine \in Nat \ {0}
    /\ max_association_distance \in Nat /\ max_track_age \in Nat \ {0}

VARIABLES
    clusters,       \* what find_clusters has found in the current frame
    visited,        \* its flags: voxels of a cluster, of a dropped one or noise
    tracks,         \* sequence of [id, at, last_seen, consecutive, total]
    next_track_id,
    matched,        \* cluster_matched of update_tracks
    turn            \* the track its loop has come to

clusteringVars == <<clusters, visited, tracks, next_track_id, matched, turn>>

ClusteringInit ==
    clusters = <<>> /\ visited = {} /\ tracks = <<>> /\ next_track_id = 0 /\ matched = {} /\ turn = 1

-----------------------------------------------------------------------------
(* find_clusters over the set of voxels above the threshold.               *)

\* The order of the linear index, the last axis running fastest.
Before(c, e) ==
    \E a \in Axis : c[a] < e[a] /\ \A b \in Axis : b < a => c[b] = e[b]

Neighbors(active, c) == {e \in active \ {c} : \A a \in Axis : e[a] - c[a] \in -1..1}

Dense(active, c) == Cardinality(Neighbors(active, c)) >= min_points

\* The smallest set of active voxels that satisfies a condition.
Smallest(active, Holds(_)) ==
    {e \in active : \A voxels \in SUBSET active : Holds(voxels) => e \in voxels}

\* Voxels already visited are not taken, those that are not dense not expanded.
ExpandCluster(active, seed, seen) ==
    Smallest(active, LAMBDA voxels :
        /\ seed \in voxels
        /\ \A c \in voxels : Dense(active, c) => Neighbors(active, c) \ seen \subseteq voxels)

\* The first active voxel not visited.
First(active, c) ==
    c \in active \ visited /\ \A e \in active \ visited : e = c \/ Before(c, e)

\* Mutant: the voxels of earlier clusters are not remembered.
VisitForgetting(active, c) ==
    /\ First(active, c)
    /\ visited' = visited \cup {c}
    /\ clusters' = IF Dense(active, c) THEN Append(clusters, ExpandCluster(active, c, {})) ELSE clusters

\* One turn of the loop over the active voxels.  Noise stays visited.
Visit(active, c) ==
    /\ First(active, c)
    /\ IF Dense(active, c)
       THEN LET cluster == ExpandCluster(active, c, visited)
            IN  /\ visited' = visited \cup cluster
                /\ clusters' = IF Cardinality(cluster) >= min_points
                               THEN Append(clusters, cluster) ELSE clusters
       ELSE visited' = visited \cup {c} /\ UNCHANGED clusters

-----------------------------------------------------------------------------
(* compute_properties: every voxel counts with its lower corner.           *)

SumOver(f, S) == MapThenSumSet(LAMBDA x : f[x], S)

Corner(o, c) == [a \in Axis |-> GridMin(o)[a] + V * c[a]]

Centroid(o, cluster) ==
    [a \in Axis |-> (Fine * SumOver([c \in cluster |-> Corner(o, c)[a]], cluster)) \div Cardinality(cluster)]

\* Largest edge of the bounding box of the corners.
Extent(cluster) == Max({V * (c[a] - e[a]) : c, e \in cluster, a \in Axis})

-----------------------------------------------------------------------------
(* update_tracks.                                                          *)

Squared(d) == d * d
Apart(p, q) == MapThenSumSet(LAMBDA a : Squared(p[a] - q[a]), Axis)

\* The elements of a set of numbers in ascending order.
Ascending(S) ==
    [n \in 1..Cardinality(S) |-> CHOOSE i \in S : Cardinality({j \in S : j < i}) = n - 1]

IsActive(track, now) == now - track.last_seen < max_track_age

\* Old tracks are erased, the others keep their order.
DropOld(now) ==
    LET kept == Ascending({i \in DOMAIN tracks : IsActive(tracks[i], now)})
    IN  tracks' = [n \in DOMAIN kept |-> tracks[kept[n]]]

\* The nearest unmatched cluster within reach, the first among equals.
Match(track, centers, taken) ==
    LET near == {i \in DOMAIN centers \ taken :
                    Apart(track.at, centers[i]) < Squared(Fine * max_association_distance)}
        best == {i \in near : \A j \in near : Apart(track.at, centers[i]) <= Apart(track.at, centers[j])}
    IN  {i \in best : \A j \in best : i <= j}

Centers(o) == [i \in DOMAIN clusters |-> Centroid(o, clusters[i])]

Seen(track, at, now) ==
    [track EXCEPT !.at = at, !.last_seen = now, !.consecutive = @ + 1, !.total = @ + 1]

Missed(track) == [track EXCEPT !.consecutive = 0]

\* Mutant: two tracks may match one cluster.
AssociateTwice(o, now) ==
    /\ turn \in DOMAIN tracks /\ turn' = turn + 1
    /\ LET match == Match(tracks[turn], Centers(o), {})
       IN  \/ /\ match = {} /\ UNCHANGED matched
              /\ tracks' = [tracks EXCEPT ![turn] = Missed(@)]
           \/ \E i \in match :
                 /\ matched' = matched \cup {i}
                 /\ tracks' = [tracks EXCEPT ![turn] = Seen(@, Centers(o)[i], now)]

\* Tracks choose in the order they were created.
Associate(o, now) ==
    /\ turn \in DOMAIN tracks /\ turn' = turn + 1
    /\ LET match == Match(tracks[turn], Centers(o), matched)
       IN  \/ /\ match = {} /\ UNCHANGED matched
              /\ tracks' = [tracks EXCEPT ![turn] = Missed(@)]
           \/ \E i \in match :
                 /\ matched' = matched \cup {i}
                 /\ tracks' = [tracks EXCEPT ![turn] = Seen(@, Centers(o)[i], now)]

NewTrack(id, at, now) == [id |-> id, at |-> at, last_seen |-> now, consecutive |-> 1, total |-> 1]

\* Clusters that no track has chosen get one of their own.
CreateTracks(o, now) ==
    LET unmatched == Ascending(DOMAIN clusters \ matched)
    IN  /\ tracks' = tracks \o
                     [n \in DOMAIN unmatched |-> NewTrack(next_track_id + n - 1, Centers(o)[unmatched[n]], now)]
        /\ next_track_id' = next_track_id + Len(unmatched)
=============================================================================
