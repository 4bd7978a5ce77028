------------------------------ MODULE MissionProofs ------------------------------
(***************************************************************************)
(* Proofs about the mission endpoint, for any drones, fence, batches and   *)
(* number of requests: the targets of a batch keep their distance, and a   *)
(* push that no other overlaps is atomic at each of its steps, whichever   *)
(* of its file operations fail.                                            *)
(***************************************************************************)
EXTENDS MissionServer, FiniteSetTheorems, TLAPS

\* What a request keeps while it judges is of its type; no rule on the order
\* of the requests or on the files is needed.
BatchTypeOK ==
    /\ todo \in [Requests -> Seq(Goal)]
    /\ accepted \in [Requests -> Seq(Goal)]
    /\ assigned \in [Requests -> [Drones -> Target \cup {None}]]

\* Between the read and the rename there is a goal being pushed.
Underway ==
    /\ step \in [Requests -> {"idle", "judge", "read", "open", "write", "replace"}]
    /\ \A r \in Requests : step[r] \in {"open", "write", "replace"} => todo[r] # <<>>

\* A drone's last accepted goal is the one "assigned" remembers.
LastIsAssigned ==
    \A r \in Requests : \A i \in 1..Len(accepted[r]) :
        (\A k \in (i + 1)..Len(accepted[r]) : accepted[r][k].drone # accepted[r][i].drone)
        => assigned[r][accepted[r][i].drone] = accepted[r][i].target

BatchInv == BatchTypeOK /\ Underway /\ LastIsAssigned /\ BatchSeparated

-----------------------------------------------------------------------------
\* The head and the tail of a sequence that is not empty.
LEMMA HeadTail ==
    ASSUME NEW S, NEW s \in Seq(S), s # <<>>
    PROVE  Head(s) \in S /\ Tail(s) \in Seq(S)
  OBVIOUS

\* A step that leaves the batch's variables alone preserves the invariant.
LEMMA BatchUnchanged ==
    ASSUME BatchInv, UNCHANGED <<accepted, assigned>>, todo' \in [Requests -> Seq(Goal)], Underway'
    PROVE  BatchInv'
  BY DEF BatchInv, BatchTypeOK, LastIsAssigned, BatchSeparated

\* A request that is forgotten leaves an empty batch behind.
LEMMA ForgetKeeps ==
    ASSUME BatchInv, NEW r \in Requests, Forget(r)
    PROVE  BatchInv'
<1>1. NoCommands \in [Drones -> Target \cup {None}]
  BY DEF NoCommands
<1>2. BatchTypeOK' /\ Underway'
  BY <1>1 DEF BatchInv, BatchTypeOK, Underway, Forget
<1>3. accepted'[r] = <<>> /\ \A s \in Requests \ {r} : accepted'[s] = accepted[s] /\ assigned'[s] = assigned[s]
  BY DEF BatchInv, BatchTypeOK, Forget
<1>4. LastIsAssigned'
  BY <1>3 DEF BatchInv, LastIsAssigned
<1>5. BatchSeparated'
  BY <1>3 DEF BatchInv, BatchSeparated
<1> QED
  BY <1>2, <1>4, <1>5 DEF BatchInv

\* Judging a goal preserves the invariant: an accepted goal was compared with
\* the last target of every other drone.
LEMMA JudgeKeeps ==
    ASSUME BatchInv, NEW r \in Requests, Judge(r)
    PROVE  BatchInv'
<1> DEFINE g == Head(todo[r])
           n == Len(accepted[r])
<1>1. g \in Goal /\ Tail(todo[r]) \in Seq(Goal)
  BY HeadTail DEF BatchInv, BatchTypeOK, Judge
<1>2. todo' \in [Requests -> Seq(Goal)] /\ Underway'
  BY <1>1 DEF BatchInv, BatchTypeOK, Underway, Judge
<1>3. CASE ~Acceptable(g, assigned[r])
  BY <1>2, <1>3, BatchUnchanged DEF Judge
<1>4. CASE Acceptable(g, assigned[r])
  <2>1. /\ accepted' = [accepted EXCEPT ![r] = Append(@, g)]
        /\ assigned' = [assigned EXCEPT ![r][g.drone] = g.target]
    BY <1>4 DEF Judge
  <2>2. g.drone \in Drones /\ g.target \in Target
    BY <1>1 DEF Goal
  <2>3. BatchTypeOK'
    BY <1>1, <1>2, <2>1, <2>2 DEF BatchInv, BatchTypeOK
  <2>4. \A s \in Requests \ {r} : accepted'[s] = accepted[s] /\ assigned'[s] = assigned[s]
    BY <2>1 DEF BatchInv, BatchTypeOK
  <2>5. /\ accepted[r] \in Seq(Goal) /\ n \in Nat
        /\ accepted'[r] = Append(accepted[r], g) /\ Len(accepted'[r]) = n + 1
        /\ accepted'[r][n + 1] = g
        /\ \A i \in 1..n : accepted'[r][i] = accepted[r][i] /\ accepted[r][i] \in Goal
    BY <1>1, <2>1 DEF BatchInv, BatchTypeOK
  <2>6. /\ assigned'[r][g.drone] = g.target
        /\ \A d \in Drones \ {g.drone} : assigned'[r][d] = assigned[r][d]
    BY <2>1, <2>2 DEF BatchInv, BatchTypeOK
  <2>7. LastIsAssigned'
    <3> SUFFICES ASSUME NEW s \in Requests, NEW i \in 1..Len(accepted'[s]),
                        \A k \in (i + 1)..Len(accepted'[s]) : accepted'[s][k].drone # accepted'[s][i].drone
                 PROVE  assigned'[s][accepted'[s][i].drone] = accepted'[s][i].target
      BY DEF LastIsAssigned
    <3>0. CASE s # r
      BY <3>0, <2>4 DEF BatchInv, LastIsAssigned
    <3> SUFFICES ASSUME s = r PROVE assigned'[r][accepted'[r][i].drone] = accepted'[r][i].target
      BY <3>0
    <3>1. CASE i = n + 1
      BY <3>1, <2>5, <2>6
    <3>2. CASE i \in 1..n
      <4>1. n + 1 \in (i + 1)..(n + 1)
        BY <3>2, <2>5
      <4>2. accepted[r][i].drone \in Drones \ {g.drone}
        BY <3>2, <4>1, <2>5 DEF Goal
      <4>3. \A k \in (i + 1)..n : accepted[r][k].drone # accepted[r][i].drone
        BY <3>2, <2>5
      <4>4. assigned[r][accepted[r][i].drone] = accepted[r][i].target
        BY <3>2, <4>3 DEF BatchInv, LastIsAssigned
      <4> QED
        BY <3>2, <4>2, <4>4, <2>5, <2>6
    <3> QED
      BY <3>1, <3>2, <2>5
  <2>8. BatchSeparated'
    <3> SUFFICES ASSUME NEW s \in Requests, NEW j \in DOMAIN accepted'[s], NEW i \in 1..(j - 1),
                        accepted'[s][i].drone # accepted'[s][j].drone,
                        \A k \in (i + 1)..(j - 1) : accepted'[s][k].drone # accepted'[s][i].drone
                 PROVE  ~TooClose(accepted'[s][j].target, accepted'[s][i].target)
      BY DEF BatchSeparated
    <3>0. CASE s # r
      BY <3>0, <2>4 DEF BatchInv, BatchSeparated
    <3> SUFFICES ASSUME s = r PROVE ~TooClose(accepted'[r][j].target, accepted'[r][i].target)
      BY <3>0
    <3>4. j \in 1..(n + 1)
      BY <2>3, <2>5 DEF BatchTypeOK
    <3>1. CASE j \in 1..n
      <4>1. /\ i \in 1..n /\ accepted'[r][i] = accepted[r][i] /\ accepted'[r][j] = accepted[r][j]
            /\ \A k \in (i + 1)..(j - 1) : accepted'[r][k] = accepted[r][k]
        BY <3>1, <2>5
      <4>2. j \in DOMAIN accepted[r]
        BY <3>1, <2>5
      <4> QED
        BY <4>1, <4>2 DEF BatchInv, BatchSeparated
    <3>2. CASE j = n + 1
      <4>1. i \in 1..n /\ accepted'[r][j] = g
        BY <3>2, <2>5
      <4>2. accepted[r][i].drone \in Drones \ {g.drone} /\ accepted[r][i].target \in Target
        BY <4>1, <2>5 DEF Goal
      <4>3. \A k \in (i + 1)..n : accepted[r][k].drone # accepted[r][i].drone
        BY <3>2, <2>5
      <4>4. assigned[r][accepted[r][i].drone] = accepted[r][i].target
        BY <4>1, <4>3 DEF BatchInv, LastIsAssigned
      <4>5. ~TooClose(g.target, accepted[r][i].target)
        BY <1>4, <4>2, <4>4, NoneIsNoTarget DEF Acceptable, Separated
      <4> QED
        BY <4>1, <4>5, <2>5
    <3> QED
      BY <3>1, <3>2, <3>4, <2>5
  <2> QED
    BY <1>2, <2>3, <2>7, <2>8 DEF BatchInv
<1> QED
  BY <1>3, <1>4

LEMMA CrashKeeps == ASSUME BatchInv, Crash PROVE BatchInv'
<1>1. NoCommands \in [Drones -> Target \cup {None}]
  BY DEF NoCommands
<1>2. BatchTypeOK' /\ Underway' /\ \A r \in Requests : accepted'[r] = <<>>
  BY <1>1 DEF BatchTypeOK, Underway, Crash
<1> QED
  BY <1>2 DEF BatchInv, LastIsAssigned, BatchSeparated

LEMMA BatchInitially == ServerInit => BatchInv
<1> SUFFICES ASSUME ServerInit PROVE BatchInv
  OBVIOUS
<1>1. NoCommands \in [Drones -> Target \cup {None}]
  BY DEF NoCommands
<1>2. BatchTypeOK /\ Underway /\ \A r \in Requests : accepted[r] = <<>>
  BY <1>1 DEF BatchTypeOK, Underway, ServerInit
<1> QED
  BY <1>2 DEF BatchInv, LastIsAssigned, BatchSeparated

LEMMA BatchStep == BatchInv /\ [ServerNext]_serverVars => BatchInv'
<1> SUFFICES ASSUME BatchInv, [ServerNext]_serverVars PROVE BatchInv'
  OBVIOUS
<1>1. CASE Crash
  BY <1>1, CrashKeeps
<1>2. ASSUME NEW r \in Requests, Handle(r) PROVE BatchInv'
  <2> USE DEF BatchInv, BatchTypeOK, Underway
  <2>1. CASE Propose(r)
    BY <2>1, BatchUnchanged, MissionConstants DEF Propose
  <2>2. CASE Judge(r)
    BY <2>2, JudgeKeeps
  <2>3. CASE Raise(r)
    BY <2>3, ForgetKeeps DEF Raise
  <2>4. CASE BeginPush(r)
    BY <2>4, BatchUnchanged DEF BeginPush
  <2>5. CASE ReadFleet(r) \/ ReadFleetFails(r)
    BY <2>5, BatchUnchanged DEF ReadFleet, ReadFleetFails, ReadAs
  <2>6. CASE OpenTmp(r)
    BY <2>6, BatchUnchanged DEF OpenTmp
  <2>7. CASE WriteTmp(r)
    BY <2>7, BatchUnchanged DEF WriteTmp
  <2>8. CASE Replace(r)
    BY <2>8, BatchUnchanged, HeadTail DEF Replace, Leave
  <2>9. CASE OpenTmpFails(r) \/ WriteTmpFails(r) \/ ReplaceFails(r)
    <3>1. /\ step[r] \in {"open", "write", "replace"} /\ step' = [step EXCEPT ![r] = "read"]
          /\ todo' = [todo EXCEPT ![r] = Tail(@)]
          /\ UNCHANGED <<accepted, assigned>>
      BY <2>9 DEF OpenTmpFails, WriteTmpFails, ReplaceFails, Fails, Leave
    <3>2. Tail(todo[r]) \in Seq(Goal)
      BY <3>1, HeadTail
    <3> QED
      BY <3>1, <3>2, BatchUnchanged
  <2>10. CASE Reply(r)
    BY <2>10, ForgetKeeps DEF Reply
  <2> QED
    BY <1>2, <2>1, <2>2, <2>3, <2>4, <2>5, <2>6, <2>7, <2>8, <2>9, <2>10 DEF Handle
<1>3. CASE UNCHANGED serverVars
  BY <1>3, BatchUnchanged DEF serverVars, requestVars, BatchInv, BatchTypeOK, Underway
<1> QED
  BY <1>1, <1>2, <1>3 DEF ServerNext

\* Whatever the model proposes and however requests interleave and crash, the
\* accepted part of a batch keeps the separation (validator.py:331-348).
THEOREM BatchesStaySeparated == ServerSpec => []BatchSeparated
<1>1. BatchInv => BatchSeparated
  BY DEF BatchInv
<1> QED
  BY <1>1, BatchInitially, BatchStep, PTL DEF ServerSpec
-----------------------------------------------------------------------------
(* The fleet file.  A request that no other overlaps while it pushes finds  *)
(* the temporary file as it left it, so that what it renames is what it     *)
(* wrote.                                                                   *)

Content == [text : {"empty", "json", "torn"}, commands : Commands]

FileTypeOK ==
    /\ fd \in [Requests -> Inode \cup {0}]
    /\ {tmp, fleet} \subseteq Inode \cup {0}
    /\ state \in [Requests -> Commands] /\ before \in [Requests -> Commands]
    /\ pushed \in [Requests -> BOOLEAN] /\ crossed \in [Requests -> BOOLEAN]
    /\ kept \in [Requests -> Seq(Goal)] /\ unread \in [Requests -> BOOLEAN]
    /\ content \in [Inode -> Content]

\* A file is open only between open() and close(), and the temporary file is
\* never the fleet file.
Descriptors ==
    /\ \A r \in Requests : fd[r] # 0 <=> step[r] = "write"
    /\ fleet # 0 => fleet # tmp

FileInv == FileTypeOK /\ Descriptors

Alone(r) == Pushing(r) /\ ~crossed[r]
Done(r)  == Len(accepted[r]) - Len(todo[r])

\* What is left to push is the end of what was accepted.
Remainder(r) ==
    /\ Done(r) \in Nat
    /\ todo[r] = SubSeq(accepted[r], Done(r) + 1, Len(accepted[r]))

\* The file and the request's copies of it at each step of a push.
Progress(r) ==
    /\ \A q \in Requests : Pushing(q) => q = r
    /\ pushed[r] => kept[r] = SubSeq(accepted[r], 1, Done(r))
    /\ OnFile(ReadFleetState, kept[r], before[r], unread[r])
    /\ step[r] # "read" => OnFile(state[r], Append(kept[r], Head(todo[r])), before[r], unread[r])
    /\ step[r] = "write" => fd[r] = tmp /\ content[tmp].text = "empty"
    /\ step[r] = "replace" => tmp # 0 /\ content[tmp] = File("json", state[r])

Sound(r) ==
    /\ IF Pushing(r) THEN Remainder(r) ELSE pushed[r] /\ kept[r] = <<>> /\ ~unread[r]
    /\ Alone(r) => Progress(r)

PushInv == \A r \in Requests : Sound(r)

-----------------------------------------------------------------------------
\* Two names and a descriptor for each request never refer to every inode.
LEMMA FreeInode ==
    ASSUME FileTypeOK, tmp = 0
    PROVE  \E n \in Inode : n \notin Used(fleet, tmp, fd)
<1> DEFINE N == Cardinality(Requests)
           held == {fd[r] : r \in Requests}
<1>1. N \in Nat
  BY FS_CardinalityType, MissionConstants
<1>2. IsFiniteSet(held) /\ Cardinality(held) <= N
  <2>1. fd \in Surjection(Requests, held)
    BY DEF FileTypeOK, Surjection
  <2> QED
    BY <2>1, FS_Surjection, MissionConstants
<1>3. Cardinality(held) \in Nat
  BY <1>2, FS_CardinalityType
<1>4. IsFiniteSet(held \cup {fleet}) /\ Cardinality(held \cup {fleet}) <= N + 1
  <2>1. /\ IsFiniteSet(held \cup {fleet})
        /\ Cardinality(held \cup {fleet}) = IF fleet \in held THEN Cardinality(held)
                                            ELSE Cardinality(held) + 1
    BY <1>2, FS_AddElement, Zenon
  <2> QED
    BY <1>1, <1>2, <1>3, <2>1
<1>5. Cardinality(Inode) = N + 2
  BY <1>1, FS_Interval DEF Inode
<1>6. CASE Inode \subseteq held \cup {fleet}
  <2>1. Cardinality(Inode) <= Cardinality(held \cup {fleet})
    BY <1>4, <1>6, FS_Subset
  <2>2. Cardinality(held \cup {fleet}) \in Nat
    BY <1>4, FS_CardinalityType
  <2> QED
    BY <1>1, <1>4, <1>5, <2>1, <2>2
<1>7. CASE ~(Inode \subseteq held \cup {fleet})
  <2>1. PICK n \in Inode : n \notin held /\ n # fleet
    BY <1>7
  <2>2. n # 0
    BY <1>1 DEF Inode
  <2> QED
    BY <2>1, <2>2 DEF Used
<1> QED
  BY <1>6, <1>7

LEMMA NoCommandsType == NoCommands \in Commands
  BY DEF NoCommands, Commands

LEMMA ZeroIsNoInode == 0 \notin Inode
  BY FS_CardinalityType, MissionConstants DEF Inode

LEMMA ReadType == ASSUME FileTypeOK PROVE ReadFleetState \in Commands
  BY NoCommandsType DEF FileTypeOK, ReadFleetState, Content

\* One goal more on top of commands.
LEMMA AddType ==
    ASSUME NEW c \in Commands, NEW g \in Goal
    PROVE  [c EXCEPT ![g.drone] = g.target] \in Commands
  BY DEF Commands, Goal

LEMMA ForgetFiles ==
    ASSUME FileInv, BatchInv', NEW r \in Requests, Forget(r), UNCHANGED fileVars
    PROVE  FileInv'
<1>1. FileTypeOK'
  BY NoCommandsType DEF FileInv, FileTypeOK, Forget, fileVars
<1>2. Descriptors'
  BY DEF FileInv, FileTypeOK, Descriptors, Forget, fileVars, BatchInv, Underway
<1> QED
  BY <1>1, <1>2 DEF FileInv

LEMMA FileInitially == ServerInit => FileInv
<1> SUFFICES ASSUME ServerInit PROVE FileInv
  OBVIOUS
<1>1. Empty \in Content
  BY NoCommandsType DEF Empty, File, Content
<1>2. FileTypeOK
  BY <1>1, NoCommandsType DEF ServerInit, FileTypeOK
<1>3. Descriptors
  BY DEF ServerInit, Descriptors
<1> QED
  BY <1>2, <1>3 DEF FileInv

LEMMA OpenTmpFiles ==
    ASSUME BatchInv, FileInv, BatchInv', NEW r \in Requests, OpenTmp(r)
    PROVE  /\ FileInv'
           /\ fd'[r] = tmp' /\ tmp' # 0 /\ content'[tmp'] = Empty
           /\ ReadFleetState' = ReadFleetState
<1> DEFINE i == IF tmp # 0 THEN tmp ELSE CHOOSE n \in Inode : n \notin Used(fleet, tmp, fd)
<1>1. tmp' = i /\ fd' = [fd EXCEPT ![r] = i] /\ content' = [content EXCEPT ![i] = Empty]
  BY DEF OpenTmp
<1>2. i \in Inode /\ i # fleet
  <2>1. CASE tmp # 0
    BY <1>1, <2>1 DEF FileInv, FileTypeOK, Descriptors
  <2>2. CASE tmp = 0
    <3>1. \E n \in Inode : n \notin Used(fleet, tmp, fd)
      BY <2>2, FreeInode DEF FileInv
    <3>2. i \in Inode /\ i \notin Used(fleet, tmp, fd)
      BY <1>1, <2>2, <3>1
    <3> QED
      BY <3>2 DEF Used
  <2> QED
    BY <2>1, <2>2
<1> HIDE DEF i
<1>3. i # 0
  BY <1>2, ZeroIsNoInode
<1>4. Empty \in Content
  BY NoCommandsType DEF Empty, File, Content
<1>5. fleet' = fleet /\ step' = [step EXCEPT ![r] = "write"]
      /\ UNCHANGED <<state, before, kept, unread, pushed, crossed>>
  BY DEF OpenTmp, pushHistory
<1>6. FileTypeOK'
  BY <1>1, <1>2, <1>4, <1>5 DEF FileInv, FileTypeOK
<1>7. Descriptors'
  BY <1>1, <1>2, <1>3, <1>5 DEF FileInv, FileTypeOK, Descriptors, BatchInv, Underway
<1>8. ReadFleetState' = ReadFleetState
  BY <1>1, <1>2, <1>5 DEF FileInv, FileTypeOK, ReadFleetState
<1> QED
  BY <1>1, <1>2, <1>3, <1>6, <1>7, <1>8 DEF FileInv, FileTypeOK

LEMMA ReplaceFiles ==
    ASSUME BatchInv, FileInv, BatchInv', NEW r \in Requests, Replace(r)
    PROVE  FileInv'
<1>1. /\ step[r] = "replace" /\ step' = [step EXCEPT ![r] = "read"]
      /\ state' = [state EXCEPT ![r] = NoCommands]
      /\ UNCHANGED <<fd, before, unread, crossed, pushed>>
      /\ tmp # 0 /\ fleet' = tmp /\ tmp' = 0
      /\ content' = [i \in Inode |-> IF i \in Used(tmp, 0, fd) THEN content[i] ELSE Empty]
  BY DEF Replace, Leave
<1>2. Empty \in Content
  BY NoCommandsType DEF Empty, File, Content
<1>3. content' \in [Inode -> Content]
  BY <1>1, <1>2 DEF FileInv, FileTypeOK
<1>4. kept' \in [Requests -> Seq(Goal)]
  <2>1. Head(todo[r]) \in Goal
    BY <1>1, HeadTail DEF BatchInv, BatchTypeOK, Underway
  <2> QED
    BY <2>1 DEF Replace, FileInv, FileTypeOK
<1>5. FileTypeOK'
  BY <1>1, <1>3, <1>4, NoCommandsType DEF FileInv, FileTypeOK
<1>6. Descriptors'
  BY <1>1 DEF FileInv, FileTypeOK, Descriptors, BatchInv, Underway
<1> QED
  BY <1>5, <1>6 DEF FileInv

LEMMA WriteTmpFiles ==
    ASSUME BatchInv, FileInv, BatchInv', NEW r \in Requests, WriteTmp(r)
    PROVE  FileInv'
<1>1. PICK after \in {File("json", state[r])} \cup (IF content[fd[r]].text = "empty" THEN {} ELSE {Torn}) :
          content' = [content EXCEPT ![fd[r]] = after]
  BY DEF WriteTmp
<1>2. after \in Content
  BY <1>1, NoCommandsType DEF FileInv, FileTypeOK, File, Torn, Content
<1>3. /\ fd' = [fd EXCEPT ![r] = 0] /\ step[r] = "write" /\ step' = [step EXCEPT ![r] = "replace"]
      /\ UNCHANGED <<state, before, kept, unread, pushed, crossed, tmp, fleet>>
  BY DEF WriteTmp, pushHistory
<1>4. FileTypeOK'
  BY <1>1, <1>2, <1>3 DEF FileInv, FileTypeOK
<1>5. Descriptors'
  BY <1>3 DEF FileInv, FileTypeOK, Descriptors, BatchInv, Underway
<1> QED
  BY <1>4, <1>5 DEF FileInv

LEMMA FailFiles ==
    ASSUME BatchInv, FileInv, BatchInv', NEW r \in Requests,
           OpenTmpFails(r) \/ WriteTmpFails(r) \/ ReplaceFails(r)
    PROVE  FileInv'
<1>1. /\ Pushing(r) /\ step' = [step EXCEPT ![r] = "read"]
      /\ state' = [state EXCEPT ![r] = NoCommands]
      /\ pushed' = [pushed EXCEPT ![r] = FALSE]
      /\ UNCHANGED <<before, kept, unread, crossed, tmp, fleet>>
  BY DEF OpenTmpFails, WriteTmpFails, ReplaceFails, Fails, Leave, Pushing, pushHistory, fileVars
<1>2. fd' \in [Requests -> Inode \cup {0}] /\ content' \in [Inode -> Content]
  <2>1. CASE UNCHANGED <<fd, content>>
    BY <2>1 DEF FileInv, FileTypeOK
  <2>2. CASE WriteTmpFails(r)
    <3>1. PICK after \in {content[fd[r]], Torn, File("json", state[r])} :
              content' = [content EXCEPT ![fd[r]] = after]
      BY <2>2 DEF WriteTmpFails
    <3>2. fd[r] \in Inode
      BY <2>2 DEF WriteTmpFails, FileInv, FileTypeOK, Descriptors
    <3>3. after \in Content
      BY <3>1, <3>2, NoCommandsType DEF FileInv, FileTypeOK, File, Torn, Content
    <3> QED
      BY <2>2, <3>1, <3>3 DEF WriteTmpFails, FileInv, FileTypeOK
  <2> QED
    BY <2>1, <2>2 DEF OpenTmpFails, ReplaceFails, fileVars
<1>3. FileTypeOK'
  BY <1>1, <1>2, NoCommandsType DEF FileInv, FileTypeOK
<1>4. \A s \in Requests : fd'[s] # 0 <=> step'[s] = "write"
  <2>1. CASE UNCHANGED fd /\ step[r] # "write"
    BY <1>1, <2>1 DEF FileInv, FileTypeOK, Descriptors, BatchInv, Underway
  <2>2. CASE fd' = [fd EXCEPT ![r] = 0]
    BY <1>1, <2>2 DEF FileInv, FileTypeOK, Descriptors, BatchInv, Underway
  <2> QED
    BY <2>1, <2>2 DEF OpenTmpFails, WriteTmpFails, ReplaceFails
<1>5. Descriptors'
  BY <1>1, <1>4 DEF FileInv, Descriptors
<1> QED
  BY <1>3, <1>5 DEF FileInv

LEMMA FileStep == BatchInv /\ FileInv /\ BatchInv' /\ [ServerNext]_serverVars => FileInv'
<1> SUFFICES ASSUME BatchInv, FileInv, BatchInv', [ServerNext]_serverVars PROVE FileInv'
  OBVIOUS
<1>1. CASE Crash
  <2>1. Empty \in Content
    BY NoCommandsType DEF Empty, File, Content
  <2>2. FileTypeOK'
    BY <1>1, <2>1, NoCommandsType DEF FileInv, FileTypeOK, Crash
  <2>3. Descriptors'
    BY <1>1 DEF FileInv, Descriptors, Crash
  <2> QED
    BY <2>2, <2>3 DEF FileInv
<1>2. ASSUME NEW r \in Requests, Handle(r) PROVE FileInv'
  <2>1. CASE Propose(r) \/ Judge(r)
    BY <2>1 DEF Propose, Judge, fileVars, pushHistory, FileInv, FileTypeOK, Descriptors, BatchInv, Underway
  <2>2. CASE Raise(r) \/ Reply(r)
    BY <2>2, ForgetFiles DEF Raise, Reply
  <2>3. CASE BeginPush(r)
    <3>1. crossed' \in [Requests -> BOOLEAN]
      BY <2>3 DEF BeginPush, FileInv, FileTypeOK
    <3>2. /\ before' \in [Requests -> Commands]
          /\ kept' \in [Requests -> Seq(Goal)] /\ unread' \in [Requests -> BOOLEAN]
      BY <2>3, ReadType, NoCommandsType DEF BeginPush, FileInv, FileTypeOK
    <3>3. step[r] = "judge" /\ step' = [step EXCEPT ![r] = "read"]
          /\ UNCHANGED <<state, fd, pushed, tmp, fleet, content>>
      BY <2>3 DEF BeginPush, fileVars
    <3>4. FileTypeOK'
      BY <3>1, <3>2, <3>3 DEF FileInv, FileTypeOK
    <3>5. Descriptors'
      BY <3>3 DEF FileInv, FileTypeOK, Descriptors, BatchInv, Underway
    <3> QED
      BY <3>4, <3>5 DEF FileInv
  <2>4. CASE ReadFleet(r) \/ ReadFleetFails(r)
    <3>1. PICK c \in {ReadFleetState, NoCommands} : ReadAs(r, c)
      BY <2>4 DEF ReadFleet, ReadFleetFails
    <3>2. step[r] = "read" /\ step' = [step EXCEPT ![r] = "open"]
          /\ UNCHANGED <<fd, before, kept, crossed, pushed, tmp, fleet, content>>
      BY <3>1 DEF ReadAs, fileVars
    <3>3. Head(todo[r]) \in Goal
      BY <3>1, HeadTail DEF ReadAs, BatchInv, BatchTypeOK
    <3>4. c \in Commands
      BY ReadType, NoCommandsType DEF FileInv
    <3>5. state' \in [Requests -> Commands]
      BY <3>1, <3>3, <3>4, AddType DEF ReadAs, FileInv, FileTypeOK
    <3>6. unread' \in [Requests -> BOOLEAN]
      BY <2>4 DEF ReadFleet, ReadFleetFails, FileInv, FileTypeOK
    <3>7. FileTypeOK'
      BY <3>2, <3>5, <3>6 DEF FileInv, FileTypeOK
    <3>8. Descriptors'
      BY <3>2 DEF FileInv, FileTypeOK, Descriptors, BatchInv, Underway
    <3> QED
      BY <3>7, <3>8 DEF FileInv
  <2>5. CASE OpenTmp(r)
    BY <2>5, OpenTmpFiles
  <2>6. CASE WriteTmp(r)
    BY <2>6, WriteTmpFiles
  <2>7. CASE Replace(r)
    BY <2>7, ReplaceFiles
  <2>8. CASE OpenTmpFails(r) \/ WriteTmpFails(r) \/ ReplaceFails(r)
    BY <2>8, FailFiles
  <2> QED
    BY <1>2, <2>1, <2>2, <2>3, <2>4, <2>5, <2>6, <2>7, <2>8 DEF Handle
<1>3. CASE UNCHANGED serverVars
  BY <1>3 DEF serverVars, requestVars, fileVars, pushHistory, FileInv, FileTypeOK, Descriptors
<1> QED
  BY <1>1, <1>2, <1>3 DEF ServerNext

-----------------------------------------------------------------------------
(* Commands with goals on top of them.                                      *)

LEMMA OverlayNone == ASSUME NEW c \in Commands PROVE Overlay(c, <<>>) = c
  BY DEF Overlay, LastOf, Commands

LEMMA OverlayOneMore ==
    ASSUME NEW c \in Commands, NEW goals \in Seq(Goal), NEW g \in Goal
    PROVE  Overlay(c, Append(goals, g)) = [Overlay(c, goals) EXCEPT ![g.drone] = g.target]
<1> DEFINE n == Len(goals)
           more == Append(goals, g)
<1>1. /\ n \in Nat /\ DOMAIN goals = 1..n /\ DOMAIN more = 1..(n + 1) /\ more[n + 1] = g
      /\ Len(more) = n + 1 /\ \A i \in 1..n : more[i] = goals[i]
  OBVIOUS
<1> HIDE DEF n, more
<1>2. g.drone \in Drones
  BY DEF Goal
<1>3. ASSUME NEW d \in Drones \ {g.drone}
      PROVE  Overlay(c, more)[d] = Overlay(c, goals)[d]
  <2>1. LastOf(d, more) = LastOf(d, goals)
    <3>1. \A i \in 1..n : (\A k \in (i + 1)..(n + 1) : more[k].drone # d)
                          <=> (\A k \in (i + 1)..n : goals[k].drone # d)
      BY <1>1, <1>3
    <3>2. n + 1 \notin LastOf(d, more)
      BY <1>1, <1>3 DEF LastOf
    <3> QED
      BY <1>1, <3>1, <3>2 DEF LastOf, n
  <2>2. \A i \in LastOf(d, goals) : more[i] = goals[i]
    BY <1>1 DEF LastOf
  <2> QED
    BY <2>1, <2>2 DEF Overlay
<1>4. Overlay(c, more)[g.drone] = g.target
  <2>1. LastOf(g.drone, more) = {n + 1}
    <3>1. n + 1 \in LastOf(g.drone, more)
      BY <1>1 DEF LastOf, n
    <3>2. ASSUME NEW i \in 1..n PROVE i \notin LastOf(g.drone, more)
      BY <1>1, <3>2 DEF LastOf, n
    <3>3. LastOf(g.drone, more) \subseteq 1..(n + 1)
      BY <1>1 DEF LastOf
    <3> QED
      BY <1>1, <3>1, <3>2, <3>3
  <2> QED
    BY <1>1, <1>2, <2>1 DEF Overlay
<1> QED
  BY <1>2, <1>3, <1>4 DEF Overlay, more

\* One goal more of a sequence, and the rest without its first.
LEMMA OneMore ==
    ASSUME NEW S, NEW s \in Seq(S), NEW n \in Nat, SubSeq(s, n + 1, Len(s)) # <<>>
    PROVE  /\ n + 1 \in 1..Len(s)
           /\ SubSeq(s, 1, n) \in Seq(S) /\ s[n + 1] \in S
           /\ SubSeq(s, 1, n + 1) = Append(SubSeq(s, 1, n), s[n + 1])
           /\ Head(SubSeq(s, n + 1, Len(s))) = s[n + 1]
           /\ Tail(SubSeq(s, n + 1, Len(s))) = SubSeq(s, n + 2, Len(s))
           /\ Len(SubSeq(s, n + 1, Len(s))) = Len(s) - n
<1>1. n + 1 \in 1..Len(s)
  OBVIOUS
<1> QED
  BY <1>1

\* What is on file after one goal more ...
LEMMA OnFileOneMore ==
    ASSUME NEW c \in Commands, NEW goals \in Seq(Goal), NEW base \in Commands, NEW blind \in BOOLEAN,
           NEW g \in Goal, OnFile(c, goals, base, blind)
    PROVE  OnFile([c EXCEPT ![g.drone] = g.target], Append(goals, g), base, blind)
<1>1. CASE c = Overlay(base, goals)
  BY <1>1, OverlayOneMore DEF OnFile
<1>2. CASE blind /\ \E i \in 1..Len(goals) : c = Overlay(NoCommands, SubSeq(goals, i, Len(goals)))
  <2>1. PICK i \in 1..Len(goals) : c = Overlay(NoCommands, SubSeq(goals, i, Len(goals)))
    BY <1>2
  <2> DEFINE rest == SubSeq(goals, i, Len(goals))
             more == Append(goals, g)
  <2>2. /\ rest \in Seq(Goal) /\ i \in 1..Len(more)
        /\ SubSeq(more, i, Len(more)) = Append(rest, g)
    OBVIOUS
  <2> HIDE DEF rest, more
  <2>3. Overlay(NoCommands, Append(rest, g)) = [Overlay(NoCommands, rest) EXCEPT ![g.drone] = g.target]
    BY <2>2, NoCommandsType, OverlayOneMore
  <2>4. [c EXCEPT ![g.drone] = g.target] = Overlay(NoCommands, SubSeq(more, i, Len(more)))
    BY <2>1, <2>2, <2>3 DEF rest
  <2> QED
    BY <1>2, <2>2, <2>4 DEF OnFile, more
<1> QED
  BY <1>1, <1>2 DEF OnFile

\* ... and after one goal more, pushed behind a read that failed.
LEMMA OnFileBlind ==
    ASSUME NEW goals \in Seq(Goal), NEW base \in Commands, NEW g \in Goal
    PROVE  OnFile([NoCommands EXCEPT ![g.drone] = g.target], Append(goals, g), base, TRUE)
<1> DEFINE more == Append(goals, g)
           n    == Len(more)
<1>1. n \in 1..Len(more) /\ SubSeq(more, n, Len(more)) = Append(<<>>, g)
  <2>1. n = Len(goals) + 1 /\ Len(goals) \in Nat /\ more[n] = g /\ more \in Seq(Goal)
    OBVIOUS
  <2> HIDE DEF n, more
  <2>2. Len(more) = n /\ n \in Nat /\ n >= 1
    BY <2>1 DEF n
  <2> DEFINE last == SubSeq(more, n, n)
             one  == Append(<<>>, g)
  <2>3. last \in Seq(Goal) /\ Len(last) = 1 /\ last[1] = more[n]
    BY <2>1, <2>2
  <2>4. one \in Seq(Goal) /\ Len(one) = 1 /\ one[1] = g
    OBVIOUS
  <2> HIDE DEF last, one
  <2>5. \A i \in 1..1 : last[i] = one[i]
    BY <2>1, <2>3, <2>4
  <2>6. last = one
    BY <2>3, <2>4, <2>5
  <2> QED
    BY <2>2, <2>6 DEF last, one
<1>2. Overlay(NoCommands, Append(<<>>, g)) = [Overlay(NoCommands, <<>>) EXCEPT ![g.drone] = g.target]
  <2> DEFINE none == <<>>
  <2>1. none \in Seq(Goal)
    OBVIOUS
  <2> HIDE DEF none
  <2>2. Overlay(NoCommands, Append(none, g)) = [Overlay(NoCommands, none) EXCEPT ![g.drone] = g.target]
    BY <2>1, NoCommandsType, OverlayOneMore
  <2> QED
    BY <2>2 DEF none
<1> HIDE DEF more, n
<1>3. [NoCommands EXCEPT ![g.drone] = g.target] = Overlay(NoCommands, SubSeq(more, n, Len(more)))
  BY <1>1, <1>2, NoCommandsType, OverlayNone
<1> QED
  BY <1>1, <1>3 DEF OnFile, more

-----------------------------------------------------------------------------
(* A push, step by step.                                                    *)

\* What a step of another request leaves as it was.
Untouched(s) ==
    /\ step'[s] = step[s] /\ todo'[s] = todo[s] /\ accepted'[s] = accepted[s]
    /\ state'[s] = state[s] /\ before'[s] = before[s] /\ pushed'[s] = pushed[s]
    /\ crossed'[s] = crossed[s] /\ fd'[s] = fd[s]
    /\ kept'[s] = kept[s] /\ unread'[s] = unread[s]

LEMMA OthersStep ==
    ASSUME NEW s \in Requests, Sound(s),
           Untouched(s),
           Alone(s) => (UNCHANGED fileVars /\ \A q \in Requests : Pushing(q)' => Pushing(q))
    PROVE  Sound(s)'
<1> USE DEF Untouched
<1>1. (Pushing(s)' <=> Pushing(s)) /\ (Alone(s)' <=> Alone(s)) /\ Done(s)' = Done(s)
  BY DEF Pushing, Alone, Done
<1>2. IF Pushing(s)' THEN Remainder(s)' ELSE pushed'[s] /\ kept'[s] = <<>> /\ ~unread'[s]
  BY <1>1 DEF Sound, Remainder
<1>3. ASSUME Alone(s)' PROVE Progress(s)'
  <2>1. Alone(s) /\ Progress(s) /\ UNCHANGED <<tmp, fleet, content>> /\ fd'[s] = fd[s]
        /\ \A q \in Requests : Pushing(q)' => Pushing(q)
    BY <1>1, <1>3 DEF Sound, fileVars
  <2>2. ReadFleetState' = ReadFleetState
    BY <2>1 DEF ReadFleetState
  <2> QED
    BY <1>1, <2>1, <2>2 DEF Progress
<1> QED
  BY <1>2, <1>3 DEF Sound

\* Nobody else is alone while a request pushes.
LEMMA OnlyOneAlone ==
    ASSUME PushInv, NEW r \in Requests, Pushing(r), NEW s \in Requests \ {r}
    PROVE  ~Alone(s)
  BY DEF PushInv, Sound, Progress

\* What a step of a request's own does is looked at for that request alone.
LEMMA OwnStep ==
    ASSUME PushInv, NEW r \in Requests, Sound(r)',
           Pushing(r) \/ (UNCHANGED fileVars /\ ~Pushing(r)'),
           \A s \in Requests \ {r} : Untouched(s)
    PROVE  PushInv'
<1> SUFFICES ASSUME NEW s \in Requests, s # r PROVE Sound(s)'
  BY DEF PushInv
<1>1. Sound(s)
  BY DEF PushInv
<1>2. Alone(s) => (UNCHANGED fileVars /\ ~Pushing(r)')
  BY OnlyOneAlone
<1>3. \A q \in Requests \ {r} : Pushing(q)' => Pushing(q)
  BY DEF Pushing, Untouched
<1>4. Alone(s) => \A q \in Requests : Pushing(q)' => Pushing(q)
  BY <1>2, <1>3
<1> QED
  BY <1>1, <1>2, <1>4, OthersStep

LEMMA ForgetPush ==
    ASSUME BatchInv, FileInv, PushInv, NEW r \in Requests, Forget(r), UNCHANGED fileVars
    PROVE  PushInv'
<1> USE DEF BatchInv, BatchTypeOK, Underway, FileInv, FileTypeOK
<1>1. ~Pushing(r)' /\ pushed'[r] /\ kept'[r] = <<>> /\ ~unread'[r]
  BY DEF Forget, Pushing
<1>2. Sound(r)'
  BY <1>1 DEF Sound, Alone
<1>3. \A s \in Requests \ {r} : Untouched(s)
  BY DEF Forget, Untouched
<1> QED
  BY <1>1, <1>2, <1>3, OwnStep

LEMMA ProposeJudgePush ==
    ASSUME BatchInv, FileInv, PushInv, NEW r \in Requests, Propose(r) \/ Judge(r)
    PROVE  PushInv'
<1> USE DEF BatchInv, BatchTypeOK, Underway, FileInv, FileTypeOK
<1>1. ~Pushing(r) /\ ~Pushing(r)' /\ UNCHANGED <<pushed, kept, unread>> /\ UNCHANGED fileVars
  BY DEF Propose, Judge, Pushing, pushHistory
<1>2. Sound(r)'
  BY <1>1 DEF Sound, Alone, PushInv
<1>3. \A s \in Requests \ {r} : Untouched(s)
  BY DEF Propose, Judge, fileVars, pushHistory, Untouched
<1> QED
  BY <1>1, <1>2, <1>3, OwnStep

\* The first to push sees the file as it is; the others are crossed.
LEMMA BeginPushPush ==
    ASSUME BatchInv, FileInv, PushInv, NEW r \in Requests, BeginPush(r)
    PROVE  PushInv'
<1> USE DEF BatchInv, BatchTypeOK, Underway, FileInv, FileTypeOK
<1>1. /\ step[r] = "judge" /\ step' = [step EXCEPT ![r] = "read"]
      /\ todo' = [todo EXCEPT ![r] = accepted[r]]
      /\ UNCHANGED <<accepted, state, fd, pushed, tmp, fleet, content>>
  BY DEF BeginPush, fileVars
<1>2. crossed' = [s \in Requests |-> IF s = r THEN \E q \in Requests : Pushing(q)
                                     ELSE crossed[s] \/ Pushing(s)]
  BY DEF BeginPush
<1>3. before' = [s \in Requests |->
                    IF crossed'[s] THEN NoCommands ELSE IF s = r THEN ReadFleetState ELSE before[s]]
  BY DEF BeginPush
<1>4. /\ kept' = [s \in Requests |-> IF crossed'[s] THEN <<>> ELSE kept[s]]
       /\ unread' = [s \in Requests |-> unread[s] /\ ~crossed'[s]]
  BY DEF BeginPush
<1>5. ASSUME NEW s \in Requests, s # r PROVE Sound(s)'
  <2>1. (Pushing(s)' <=> Pushing(s)) /\ Done(s)' = Done(s) /\ todo'[s] = todo[s]
    BY <1>1, <1>5 DEF Pushing, Done
  <2>2. ~Alone(s)'
    BY <1>2, <1>5, <2>1 DEF Alone
  <2>3. CASE Pushing(s)
    BY <1>1, <2>1, <2>2, <2>3 DEF PushInv, Sound, Remainder
  <2>4. CASE ~Pushing(s)
    BY <1>1, <1>4, <2>1, <2>2, <2>4 DEF PushInv, Sound
  <2> QED
    BY <2>3, <2>4
<1>6. Sound(r)'
  <2>1. accepted[r] \in Seq(Goal) /\ SubSeq(accepted[r], 1, 0) = <<>>
        /\ SubSeq(accepted[r], 1, Len(accepted[r])) = accepted[r]
    OBVIOUS
  <2>2. todo'[r] = accepted'[r] /\ accepted'[r] = accepted[r] /\ step'[r] = "read" /\ ~Pushing(r)
    BY <1>1 DEF Pushing
  <2>3. Done(r)' = 0 /\ Remainder(r)'
    BY <2>1, <2>2 DEF Done, Remainder
  <2>4. ASSUME Alone(r)' PROVE Progress(r)'
    <3>1. \A q \in Requests : ~Pushing(q)
      BY <1>2, <2>4 DEF Alone
    <3>2. \A q \in Requests : Pushing(q)' => q = r
      BY <1>1, <3>1 DEF Pushing
    <3>3. before'[r] = ReadFleetState
      BY <1>3, <2>4 DEF Alone
    <3>4. ReadFleetState' = ReadFleetState
      BY <1>1 DEF ReadFleetState
    <3>5. kept'[r] = <<>> /\ SubSeq(accepted'[r], 1, Done(r)') = <<>>
      BY <1>4, <2>1, <2>2, <2>3 DEF PushInv, Sound
    <3>6. OnFile(ReadFleetState', kept'[r], before'[r], unread'[r])
      BY <3>3, <3>4, <3>5, ReadType, OverlayNone DEF OnFile
    <3> QED
      BY <2>2, <3>2, <3>5, <3>6 DEF Progress
  <2> QED
    BY <2>2, <2>3, <2>4 DEF Sound, Pushing
<1> QED
  BY <1>5, <1>6 DEF PushInv

LEMMA ReadFleetPush ==
    ASSUME BatchInv, FileInv, PushInv, NEW r \in Requests, ReadFleet(r) \/ ReadFleetFails(r)
    PROVE  PushInv'
<1> USE DEF BatchInv, BatchTypeOK, Underway, FileInv, FileTypeOK
<1> DEFINE g == Head(todo[r])
<1>1. PICK c \in {ReadFleetState, NoCommands} :
          /\ ReadAs(r, c)
          /\ \/ c = ReadFleetState /\ unread' = unread
             \/ c = NoCommands /\ unread' = [unread EXCEPT ![r] = ~crossed[r]]
  BY DEF ReadFleet, ReadFleetFails
<1>2. /\ step[r] = "read" /\ step' = [step EXCEPT ![r] = "open"] /\ todo[r] # <<>>
      /\ state' = [state EXCEPT ![r] = [c EXCEPT ![g.drone] = g.target]]
      /\ UNCHANGED <<todo, accepted, before, kept, fd, pushed, crossed, tmp, fleet, content>>
  BY <1>1 DEF ReadAs, fileVars
<1>3. Pushing(r) /\ Pushing(r)' /\ step'[r] = "open" /\ Done(r)' = Done(r)
  BY <1>2 DEF Pushing, Done
<1>4. Remainder(r)'
  BY <1>2, <1>3 DEF PushInv, Sound, Remainder
<1>5. g \in Goal /\ todo'[r] = todo[r]
  BY <1>2, HeadTail
<1>6. state'[r] = [c EXCEPT ![g.drone] = g.target]
  BY <1>2
<1>7. \A s \in Requests \ {r} : Untouched(s)
  BY <1>1, <1>2 DEF Untouched
<1>8. kept[r] \in Seq(Goal) /\ before[r] \in Commands /\ unread[r] \in BOOLEAN /\ unread'[r] \in BOOLEAN
  BY <1>1
<1>9. ReadFleetState \in Commands
  BY ReadType
<1>10. ReadFleetState' = ReadFleetState /\ kept'[r] = kept[r] /\ before'[r] = before[r]
  BY <1>2 DEF ReadFleetState
<1>11. ASSUME Alone(r)' PROVE Progress(r)'
  <2>1. Progress(r) /\ ~crossed[r]
    BY <1>2, <1>3, <1>11 DEF Alone, PushInv, Sound
  <2>2. OnFile(ReadFleetState, kept[r], before[r], unread[r])
    BY <2>1 DEF Progress
  <2>3. unread[r] => unread'[r]
    BY <1>1, <2>1
  <2>4. OnFile(state'[r], Append(kept[r], g), before[r], unread'[r])
    <3>1. CASE c = ReadFleetState /\ unread' = unread
      <4> HIDE DEF g
      <4>1. OnFile([ReadFleetState EXCEPT ![g.drone] = g.target], Append(kept[r], g), before[r], unread[r])
        BY <1>5, <1>8, <1>9, <2>2, OnFileOneMore
      <4> QED
        BY <1>6, <3>1, <4>1
    <3>2. CASE c = NoCommands /\ unread' = [unread EXCEPT ![r] = ~crossed[r]]
      <4>1. unread'[r] = TRUE
        BY <2>1, <3>2
      <4> HIDE DEF g
      <4>2. OnFile([NoCommands EXCEPT ![g.drone] = g.target], Append(kept[r], g), before[r], TRUE)
        BY <1>5, <1>8, OnFileBlind
      <4> QED
        BY <1>6, <3>2, <4>1, <4>2
    <3> QED
      BY <1>1, <3>1, <3>2
  <2>5. OnFile(ReadFleetState', kept'[r], before'[r], unread'[r])
    BY <1>10, <2>2, <2>3 DEF OnFile
  <2>6. \A q \in Requests : Pushing(q)' => q = r
    BY <1>2, <2>1 DEF Progress, Pushing
  <2>7. pushed'[r] => kept'[r] = SubSeq(accepted'[r], 1, Done(r)')
    BY <1>2, <1>3, <2>1 DEF Progress
  <2>8. OnFile(state'[r], Append(kept'[r], Head(todo'[r])), before'[r], unread'[r])
    BY <1>5, <1>10, <2>4
  <2> QED
    BY <1>3, <2>5, <2>6, <2>7, <2>8 DEF Progress
<1>12. Sound(r)'
  BY <1>3, <1>4, <1>11 DEF Sound
<1> QED
  BY <1>3, <1>7, <1>12, OwnStep

LEMMA OpenTmpPush ==
    ASSUME BatchInv, FileInv, PushInv, BatchInv', NEW r \in Requests, OpenTmp(r)
    PROVE  PushInv'
<1>1. /\ step[r] = "open" /\ step' = [step EXCEPT ![r] = "write"]
      /\ UNCHANGED <<todo, accepted, state, before, kept, unread, pushed, crossed>>
      /\ \A s \in Requests \ {r} : fd'[s] = fd[s]
  BY DEF OpenTmp, pushHistory, FileInv, FileTypeOK
<1>2. fd'[r] = tmp' /\ content'[tmp'] = Empty /\ ReadFleetState' = ReadFleetState
  BY OpenTmpFiles
<1> USE DEF BatchInv, BatchTypeOK, Underway
<1>3. Pushing(r) /\ Pushing(r)' /\ step'[r] = "write" /\ Done(r)' = Done(r)
  BY <1>1 DEF Pushing, Done
<1>4. Remainder(r)'
  BY <1>1, <1>3 DEF PushInv, Sound, Remainder
<1>5. ASSUME Alone(r)' PROVE Progress(r)'
  <2>1. Progress(r)
    BY <1>1, <1>3, <1>5 DEF Alone, PushInv, Sound
  <2>2. \A q \in Requests : Pushing(q)' => q = r
    BY <1>1, <2>1 DEF Progress, Pushing
  <2>3. content'[tmp'].text = "empty"
    BY <1>2 DEF Empty, File
  <2> QED
    BY <1>1, <1>2, <1>3, <2>1, <2>2, <2>3 DEF Progress
<1>6. Sound(r)'
  BY <1>3, <1>4, <1>5 DEF Sound
<1>7. \A s \in Requests \ {r} : Untouched(s)
  BY <1>1 DEF Untouched, FileInv, FileTypeOK
<1> QED
  BY <1>3, <1>6, <1>7, OwnStep

LEMMA WriteTmpPush ==
    ASSUME BatchInv, FileInv, PushInv, NEW r \in Requests, WriteTmp(r)
    PROVE  PushInv'
<1> USE DEF BatchInv, BatchTypeOK, Underway, FileInv, FileTypeOK
<1>1. /\ step[r] = "write" /\ step' = [step EXCEPT ![r] = "replace"]
      /\ fd' = [fd EXCEPT ![r] = 0]
      /\ UNCHANGED <<todo, accepted, state, before, kept, unread, pushed, crossed, tmp, fleet>>
  BY DEF WriteTmp, pushHistory
<1>2. PICK after \in {File("json", state[r])} \cup (IF content[fd[r]].text = "empty" THEN {} ELSE {Torn}) :
          content' = [content EXCEPT ![fd[r]] = after]
  BY DEF WriteTmp
<1>3. Pushing(r) /\ Pushing(r)' /\ step'[r] = "replace" /\ Done(r)' = Done(r)
  BY <1>1 DEF Pushing, Done
<1>4. Remainder(r)'
  BY <1>1, <1>3 DEF PushInv, Sound, Remainder
<1>5. ASSUME Alone(r)' PROVE Progress(r)'
  <2>1. Progress(r)
    BY <1>1, <1>3, <1>5 DEF Alone, PushInv, Sound
  <2>2. \A q \in Requests : Pushing(q)' => q = r
    BY <1>1, <2>1 DEF Progress, Pushing
  <2>3. fd[r] = tmp /\ content[tmp].text = "empty" /\ tmp # 0 /\ tmp \in Inode
    BY <1>1, <2>1 DEF Progress, Descriptors
  <2>4. content'[tmp] = File("json", state[r])
    BY <1>2, <2>3
  <2>5. ReadFleetState' = ReadFleetState
    BY <1>1, <1>2, <2>3 DEF ReadFleetState, Descriptors
  <2> QED
    BY <1>1, <1>3, <2>1, <2>2, <2>3, <2>4, <2>5 DEF Progress
<1>6. Sound(r)'
  BY <1>3, <1>4, <1>5 DEF Sound
<1>7. \A s \in Requests \ {r} : Untouched(s)
  BY <1>1 DEF Untouched
<1> QED
  BY <1>3, <1>6, <1>7, OwnStep

\* The turn of the next goal.
LEMMA LeaveRemainder ==
    ASSUME BatchInv, PushInv, NEW r \in Requests, step[r] \in {"open", "write", "replace"},
           Leave(r), UNCHANGED accepted
    PROVE  /\ Pushing(r) /\ Pushing(r)' /\ step'[r] = "read"
           /\ Remainder(r)' /\ Done(r) \in Nat /\ Done(r)' = Done(r) + 1
           /\ Head(todo[r]) \in Goal
           /\ SubSeq(accepted[r], 1, Done(r) + 1) = Append(SubSeq(accepted[r], 1, Done(r)), Head(todo[r]))
           /\ \A q \in Requests \ {r} : step'[q] = step[q] /\ todo'[q] = todo[q]
<1> USE DEF BatchInv, BatchTypeOK, Underway
<1> DEFINE n == Done(r)
<1>1. /\ step' = [step EXCEPT ![r] = "read"] /\ todo[r] # <<>>
      /\ todo' = [todo EXCEPT ![r] = Tail(@)]
  BY DEF Leave
<1>2. Pushing(r) /\ Pushing(r)' /\ step'[r] = "read"
  BY <1>1 DEF Pushing
<1>3. Remainder(r) /\ n \in Nat /\ accepted[r] \in Seq(Goal)
  BY <1>2 DEF PushInv, Sound, Remainder
<1>4. /\ n + 1 \in 1..Len(accepted[r])
      /\ Tail(todo[r]) = SubSeq(accepted[r], n + 2, Len(accepted[r]))
      /\ SubSeq(accepted[r], 1, n + 1) = Append(SubSeq(accepted[r], 1, n), Head(todo[r]))
      /\ Head(todo[r]) \in Goal
  <2>1. todo[r] = SubSeq(accepted[r], n + 1, Len(accepted[r])) /\ Len(accepted[r]) \in Nat
    BY <1>3 DEF Remainder
  <2> HIDE DEF n
  <2>2. /\ n + 1 \in 1..Len(accepted[r]) /\ accepted[r][n + 1] \in Goal
        /\ SubSeq(accepted[r], 1, n + 1) = Append(SubSeq(accepted[r], 1, n), accepted[r][n + 1])
        /\ Head(todo[r]) = accepted[r][n + 1]
        /\ Tail(todo[r]) = SubSeq(accepted[r], n + 2, Len(accepted[r]))
    <3>1. SubSeq(accepted[r], n + 1, Len(accepted[r])) # <<>>
      BY <1>1, <2>1
    <3> QED
      BY <1>3, <2>1, <3>1, OneMore
  <2> QED
    BY <2>2
<1>5. /\ todo'[r] = SubSeq(accepted'[r], n + 2, Len(accepted'[r])) /\ Done(r)' = n + 1
  <2>1. todo'[r] = Tail(todo[r]) /\ accepted'[r] = accepted[r]
    BY <1>1
  <2>2. Len(Tail(todo[r])) = Len(todo[r]) - 1
    BY <1>1
  <2>3. Done(r)' = Len(accepted'[r]) - Len(todo'[r])
    BY DEF Done
  <2>4. n = Len(accepted[r]) - Len(todo[r]) /\ Len(accepted[r]) \in Nat /\ Len(todo[r]) \in Nat
    BY DEF Done
  <2> HIDE DEF n
  <2>5. Len(accepted'[r]) = Len(accepted[r]) /\ Len(todo'[r]) = Len(todo[r]) - 1
    BY <2>1, <2>2
  <2>6. Done(r)' = n + 1
    BY <2>3, <2>4, <2>5
  <2> QED
    BY <1>4, <2>1, <2>6
<1>6. Remainder(r)'
  <2> HIDE DEF n
  <2> QED
    BY <1>3, <1>5 DEF Remainder
<1>7. \A q \in Requests \ {r} : step'[q] = step[q] /\ todo'[q] = todo[q]
  BY <1>1
<1> QED
  BY <1>2, <1>3, <1>4, <1>5, <1>6, <1>7

LEMMA ReplacePush ==
    ASSUME BatchInv, FileInv, PushInv, NEW r \in Requests, Replace(r)
    PROVE  PushInv'
<1> USE DEF BatchInv, BatchTypeOK, Underway, FileInv, FileTypeOK
<1> DEFINE g == Head(todo[r])
<1>1. /\ step[r] = "replace" /\ Leave(r) /\ tmp # 0 /\ fleet' = tmp
      /\ UNCHANGED <<accepted, fd, pushed, before, unread, crossed>>
      /\ kept' = [kept EXCEPT ![r] = IF crossed[r] THEN @ ELSE Append(@, g)]
      /\ content' = [i \in Inode |-> IF i \in Used(tmp, 0, fd) THEN content[i] ELSE Empty]
  BY DEF Replace
<1>2. /\ Pushing(r) /\ Pushing(r)' /\ step'[r] = "read"
      /\ Remainder(r)' /\ Done(r) \in Nat /\ Done(r)' = Done(r) + 1
      /\ SubSeq(accepted[r], 1, Done(r) + 1) = Append(SubSeq(accepted[r], 1, Done(r)), g)
      /\ \A q \in Requests \ {r} : step'[q] = step[q] /\ todo'[q] = todo[q]
  BY <1>1, LeaveRemainder
<1>3. ASSUME Alone(r)' PROVE Progress(r)'
  <2>1. Progress(r) /\ ~crossed[r]
    BY <1>1, <1>2, <1>3 DEF Alone, PushInv, Sound
  <2>2. \A q \in Requests : Pushing(q)' => q = r
    BY <1>2, <2>1 DEF Progress, Pushing
  <2>3. tmp \in Inode /\ content[tmp] = File("json", state[r])
    BY <1>1, <2>1 DEF Progress
  <2>4. ReadFleetState' = state[r]
    BY <1>1, <2>3, ZeroIsNoInode DEF ReadFleetState, Used, File
  <2>5. kept'[r] = Append(kept[r], g)
    BY <1>1, <2>1
  <2>6. OnFile(state[r], Append(kept[r], g), before[r], unread[r])
    BY <1>1, <2>1 DEF Progress
  <2>7. OnFile(ReadFleetState', kept'[r], before'[r], unread'[r])
    BY <1>1, <2>4, <2>5, <2>6
  <2>8. pushed'[r] => kept'[r] = SubSeq(accepted'[r], 1, Done(r)')
    BY <1>1, <1>2, <2>1, <2>5 DEF Progress
  <2> QED
    BY <1>2, <2>2, <2>7, <2>8 DEF Progress
<1>4. Sound(r)'
  BY <1>2, <1>3 DEF Sound
<1>5. \A s \in Requests \ {r} : Untouched(s)
  BY <1>1, <1>2 DEF Untouched, Leave
<1> QED
  BY <1>2, <1>4, <1>5, OwnStep

\* A push that fails leaves the fleet file as it was.
LEMMA FailPush ==
    ASSUME BatchInv, FileInv, PushInv, NEW r \in Requests,
           OpenTmpFails(r) \/ WriteTmpFails(r) \/ ReplaceFails(r)
    PROVE  PushInv'
<1> USE DEF BatchInv, BatchTypeOK, Underway, FileInv, FileTypeOK
<1>1. /\ step[r] \in {"open", "write", "replace"} /\ Leave(r)
      /\ pushed' = [pushed EXCEPT ![r] = FALSE]
      /\ UNCHANGED <<accepted, before, kept, unread, crossed, tmp, fleet>>
      /\ fd' = fd \/ fd' = [fd EXCEPT ![r] = 0]
  BY DEF OpenTmpFails, WriteTmpFails, ReplaceFails, Fails, pushHistory, fileVars
<1>2. /\ Pushing(r) /\ Pushing(r)' /\ step'[r] = "read" /\ Remainder(r)'
      /\ \A q \in Requests \ {r} : step'[q] = step[q] /\ todo'[q] = todo[q]
  BY <1>1, LeaveRemainder
<1>3. ASSUME Alone(r)' PROVE Progress(r)'
  <2>1. Progress(r) /\ ~crossed[r]
    BY <1>1, <1>2, <1>3 DEF Alone, PushInv, Sound
  <2>2. \A q \in Requests : Pushing(q)' => q = r
    BY <1>2, <2>1 DEF Progress, Pushing
  <2>3. ReadFleetState' = ReadFleetState
    <3>1. CASE content' = content
      BY <1>1, <3>1 DEF ReadFleetState
    <3>2. CASE WriteTmpFails(r)
      <4>1. fd[r] = tmp
        BY <2>1, <3>2 DEF Progress, WriteTmpFails
      <4>2. PICK after : content' = [content EXCEPT ![fd[r]] = after]
        BY <3>2 DEF WriteTmpFails
      <4> QED
        BY <1>1, <4>1, <4>2 DEF ReadFleetState, Descriptors
    <3> QED
      BY <3>1, <3>2 DEF OpenTmpFails, ReplaceFails, fileVars
  <2>4. OnFile(ReadFleetState', kept'[r], before'[r], unread'[r])
    BY <1>1, <2>1, <2>3 DEF Progress
  <2>5. ~pushed'[r]
    BY <1>1
  <2> QED
    BY <1>2, <2>2, <2>4, <2>5 DEF Progress
<1>4. Sound(r)'
  BY <1>2, <1>3 DEF Sound
<1>5. \A s \in Requests \ {r} : Untouched(s)
  BY <1>1, <1>2 DEF Untouched, Leave
<1> QED
  BY <1>2, <1>4, <1>5, OwnStep

LEMMA PushStep ==
    BatchInv /\ FileInv /\ PushInv /\ BatchInv' /\ [ServerNext]_serverVars => PushInv'
<1> SUFFICES ASSUME BatchInv, FileInv, PushInv, BatchInv', [ServerNext]_serverVars PROVE PushInv'
  OBVIOUS
<1>1. CASE Crash
  <2>1. \A r \in Requests : ~Pushing(r)' /\ pushed'[r] /\ kept'[r] = <<>> /\ ~unread'[r]
    BY <1>1 DEF Crash, Pushing
  <2> QED
    BY <2>1 DEF PushInv, Sound, Alone
<1>2. ASSUME NEW r \in Requests, Handle(r) PROVE PushInv'
  <2>1. CASE Propose(r) \/ Judge(r)
    BY <2>1, ProposeJudgePush
  <2>2. CASE Raise(r) \/ Reply(r)
    BY <2>2, ForgetPush DEF Raise, Reply
  <2>3. CASE BeginPush(r)
    BY <2>3, BeginPushPush
  <2>4. CASE ReadFleet(r) \/ ReadFleetFails(r)
    BY <2>4, ReadFleetPush
  <2>5. CASE OpenTmp(r)
    BY <2>5, OpenTmpPush
  <2>6. CASE WriteTmp(r)
    BY <2>6, WriteTmpPush
  <2>7. CASE Replace(r)
    BY <2>7, ReplacePush
  <2>8. CASE OpenTmpFails(r) \/ WriteTmpFails(r) \/ ReplaceFails(r)
    BY <2>8, FailPush
  <2> QED
    BY <1>2, <2>1, <2>2, <2>3, <2>4, <2>5, <2>6, <2>7, <2>8 DEF Handle
<1>3. CASE UNCHANGED serverVars
  <2>1. UNCHANGED <<step, todo, accepted, state, before, kept, unread, pushed, crossed, fd, tmp, fleet, content>>
    BY <1>3 DEF serverVars, requestVars, fileVars, pushHistory
  <2>2. \A s \in Requests : Sound(s)'
    <3>1. \A s \in Requests : Untouched(s)
      BY <2>1 DEF Untouched
    <3>2. \A q \in Requests : Pushing(q)' => Pushing(q)
      BY <2>1 DEF Pushing
    <3>3. UNCHANGED fileVars
      BY <2>1 DEF fileVars
    <3> QED
      BY <3>1, <3>2, <3>3, OthersStep DEF PushInv
  <2> QED
    BY <2>2 DEF PushInv
<1> QED
  BY <1>1, <1>2, <1>3 DEF ServerNext

LEMMA PushInitially == ServerInit => PushInv
  BY DEF ServerInit, PushInv, Sound, Pushing, Alone

\* The server's invariants, together.
LEMMA ServerInvariant == ServerSpec => [](BatchInv /\ FileInv /\ PushInv)
  BY BatchInitially, FileInitially, PushInitially, BatchStep, FileStep, PushStep, PTL DEF ServerSpec

\* The server's variables keep their types: a descriptor is held only from open()
\* to close(), and the temporary file's name never refers to the fleet file.
\* Two requests may hold the same inode, and after a rename one may hold the
\* fleet file's (main.py:105-132).
THEOREM ServerTypes == ServerSpec => []ServerTypeOK
<1>1. BatchInv /\ FileInv => ServerTypeOK
  <2> SUFFICES ASSUME BatchInv, FileInv PROVE ServerTypeOK
    OBVIOUS
  <2>1. \A i \in Inode : content[i] \in Content
    BY DEF FileInv, FileTypeOK
  <2>2. \A i \in Inode : content[i].text \in {"empty", "json", "torn"} /\ content[i].commands \in Commands
    BY <2>1 DEF Content
  <2>3. \A r \in Requests : {pushed[r], crossed[r], unread[r]} \subseteq BOOLEAN
    BY DEF FileInv, FileTypeOK
  <2>4. {tmp, fleet} \cup {fd[r] : r \in Requests} \subseteq Inode \cup {0}
    BY DEF FileInv, FileTypeOK
  <2> QED
    BY <2>2, <2>3, <2>4 DEF BatchInv, Underway, FileInv, Descriptors, ServerTypeOK
<1> QED
  BY <1>1, ServerInvariant, PTL

\* A push that no other request overlaps is atomic at each of its steps: the
\* file holds what it held before and each drone's last goal pushed so far,
\* whichever of its reads, opens, writes and renames fail, for any number of
\* requests, crashes and leftovers of earlier ones; only a failed read costs
\* what was there before (main.py:105-132).
THEOREM PushesAreAtomic == ServerSpec => []PushIsAtomic
<1>1. PushInv => PushIsAtomic
  BY DEF PushInv, Sound, Alone, Progress, Done, PushIsAtomic
<1> QED
  BY <1>1, ServerInvariant, PTL
=============================================================================
