----------------------------- MODULE MissionServer -----------------------------
(***************************************************************************)
(* The mission endpoint of server/main.py.  Every request has a thread of  *)
(* the ThreadingHTTPServer: it asks the language model for goals, judges   *)
(* them one by one, and pushes each accepted goal into the fleet file by   *)
(* reading the file, writing all of it to a temporary file of ONE name,    *)
(* and renaming that over it.  No lock is held (lock_path is never used).  *)
(*                                                                         *)
(* A file is an inode: open(tmp, "w") truncates the inode the name already *)
(* has, a rename leaves writers that hold the inode writing into the fleet *)
(* file, and the text, shorter than the write buffer, reaches the inode    *)
(* when the file is closed.  Every file operation may fail (OSError): a    *)
(* read that does is taken for an empty file, a write that does is         *)
(* reported, skipped, and leaves what it had written behind.               *)
(***************************************************************************)
EXTENDS Validator

CONSTANTS
    Requests,    \* request threads
    Proposals    \* batches of goals the language model may answer

ASSUME MissionConstants ==
    /\ IsFiniteSet(Requests)
    /\ Proposals \subseteq Seq(Goal)

Inode == 1..(Cardinality(Requests) + 2)

VARIABLES
    step,      \* where each request stands
    todo,      \* goals still to judge, then goals still to push
    accepted,  \* result["accepted"]
    assigned,  \* target of each drone the batch has assigned one to
    state,     \* the fleet state a push has read and will write
    fd,        \* inode a push has opened for writing, 0 for none
    pushed,    \* pushed_ok
    tmp,       \* inode of .fleet.json.tmp, 0 for none
    fleet,     \* inode of .fleet.json, 0 for none
    content,   \* what each inode holds
    before,    \* history: what was on file when a request began to push alone
    kept,      \* history: the goals it has pushed with success
    unread,    \* history: one of its reads failed
    crossed    \* history: another request was pushing meanwhile

requestVars == <<step, todo, accepted, assigned, state, fd, pushed>>
fileVars    == <<tmp, fleet, content>>
pushHistory == <<before, kept, unread, crossed>>
serverVars  == <<requestVars, fileVars, pushHistory>>

Commands   == [Drones -> Target \cup {None}]   \* "pending_commands"
NoCommands == [d \in Drones |-> None]

File(text, commands) == [text |-> text, commands |-> commands]
Empty == File("empty", NoCommands)
Torn  == File("torn", NoCommands)

\* _read_fleet_state: a file that is missing or does not parse reads as {}; for
\* one that cannot be read see ReadFleetFails.
ReadFleetState == IF fleet = 0 THEN NoCommands ELSE content[fleet].commands

\* Where a drone's last goal stands, and commands with goals on top of them.
LastOf(d, goals) ==
    {i \in DOMAIN goals : goals[i].drone = d /\ \A k \in (i + 1)..Len(goals) : goals[k].drone # d}

Overlay(commands, goals) ==
    [d \in Drones |-> IF LastOf(d, goals) = {} THEN commands[d]
                      ELSE goals[CHOOSE i \in LastOf(d, goals) : TRUE].target]

Pushing(r) == step[r] \in {"read", "open", "write", "replace"}

ServerInit ==
    /\ step = [r \in Requests |-> "idle"]
    /\ todo = [r \in Requests |-> <<>>] /\ accepted = todo /\ kept = todo
    /\ state = [r \in Requests |-> NoCommands] /\ assigned = state /\ before = state
    /\ fd = [r \in Requests |-> 0]
    /\ pushed = [r \in Requests |-> TRUE]
    /\ crossed = [r \in Requests |-> FALSE] /\ unread = crossed
    /\ tmp = 0 /\ fleet = 0 /\ content = [i \in Inode |-> Empty]

-----------------------------------------------------------------------------
(* Asking and judging.  A missing prompt (400), an answer that does not     *)
(* parse (502) and one that names a control key (an assertion, and the      *)
(* connection drops) end the request before it has any effect.              *)

Propose(r) ==
    /\ step[r] = "idle"
    /\ \E p \in Proposals : todo' = [todo EXCEPT ![r] = p]
    /\ step' = [step EXCEPT ![r] = "judge"]
    /\ UNCHANGED <<accepted, assigned, state, fd, pushed, fileVars, pushHistory>>

\* The request's thread is gone and with it all it kept.
Forget(r) ==
    /\ step' = [step EXCEPT ![r] = "idle"]
    /\ todo' = [todo EXCEPT ![r] = <<>>]
    /\ accepted' = [accepted EXCEPT ![r] = <<>>]
    /\ assigned' = [assigned EXCEPT ![r] = NoCommands]
    /\ state' = [state EXCEPT ![r] = NoCommands]
    /\ fd' = [fd EXCEPT ![r] = 0]
    /\ pushed' = [pushed EXCEPT ![r] = TRUE]
    /\ before' = [before EXCEPT ![r] = NoCommands]
    /\ kept' = [kept EXCEPT ![r] = <<>>]
    /\ unread' = [unread EXCEPT ![r] = FALSE]
    /\ crossed' = [crossed EXCEPT ![r] = FALSE]

\* Mutant: separation is checked against the drone's own last target only.
JudgeAlone(r) ==
    /\ step[r] = "judge" /\ todo[r] # <<>> /\ ~Raises(Head(todo[r]))
    /\ LET g == Head(todo[r])
       IN  IF Acceptable(g, NoCommands)
           THEN /\ accepted' = [accepted EXCEPT ![r] = Append(@, g)]
                /\ assigned' = [assigned EXCEPT ![r][g.drone] = g.target]
           ELSE UNCHANGED <<accepted, assigned>>
    /\ todo' = [todo EXCEPT ![r] = Tail(@)]
    /\ UNCHANGED <<step, state, fd, pushed, fileVars, pushHistory>>

\* validate_goals: the next goal of the batch.
Judge(r) ==
    /\ step[r] = "judge" /\ todo[r] # <<>> /\ ~Raises(Head(todo[r]))
    /\ LET g == Head(todo[r])
       IN  IF Acceptable(g, assigned[r])
           THEN /\ accepted' = [accepted EXCEPT ![r] = Append(@, g)]
                /\ assigned' = [assigned EXCEPT ![r][g.drone] = g.target]
           ELSE UNCHANGED <<accepted, assigned>>
    /\ todo' = [todo EXCEPT ![r] = Tail(@)]
    /\ UNCHANGED <<step, state, fd, pushed, fileVars, pushHistory>>

\* A corner that is no number is caught nowhere and the connection drops.
Raise(r) ==
    /\ step[r] = "judge" /\ todo[r] # <<>> /\ Raises(Head(todo[r]))
    /\ Forget(r)
    /\ UNCHANGED fileVars

BeginPush(r) ==
    /\ step[r] = "judge" /\ todo[r] = <<>>
    /\ step' = [step EXCEPT ![r] = "read"]
    /\ todo' = [todo EXCEPT ![r] = accepted[r]]
    /\ crossed' = [s \in Requests |->
                      IF s = r THEN \E q \in Requests : Pushing(q)
                               ELSE crossed[s] \/ Pushing(s)]
    /\ before' = [s \in Requests |->
                      IF crossed'[s] THEN NoCommands ELSE IF s = r THEN ReadFleetState ELSE before[s]]
    /\ kept' = [s \in Requests |-> IF crossed'[s] THEN <<>> ELSE kept[s]]
    /\ unread' = [s \in Requests |-> unread[s] /\ ~crossed'[s]]
    /\ UNCHANGED <<accepted, assigned, state, fd, pushed, fileVars>>

-----------------------------------------------------------------------------
(* push_goal_to_coordinator, for the next accepted goal.                    *)

\* The state to write: what the read returned, with the goal in it.
ReadAs(r, commands) ==
    /\ step[r] = "read" /\ todo[r] # <<>>
    /\ state' = [state EXCEPT ![r] = [commands EXCEPT ![Head(todo[r]).drone] = Head(todo[r]).target]]
    /\ step' = [step EXCEPT ![r] = "open"]
    /\ UNCHANGED <<todo, accepted, assigned, fd, pushed, fileVars, before, kept, crossed>>

\* Mutant: the goal is written without the commands already on file.
ReadFleetBare(r) == ReadAs(r, NoCommands) /\ UNCHANGED unread

ReadFleet(r) == ReadAs(r, ReadFleetState) /\ UNCHANGED unread

\* A file that exists but cannot be read is taken for an empty one.
ReadFleetFails(r) ==
    /\ fleet # 0
    /\ ReadAs(r, NoCommands)
    /\ unread' = [unread EXCEPT ![r] = ~crossed[r]]

\* The next goal's turn, and the one an OSError leads to.
Leave(r) ==
    /\ step' = [step EXCEPT ![r] = "read"]
    /\ todo' = [todo EXCEPT ![r] = Tail(@)]
    /\ state' = [state EXCEPT ![r] = NoCommands]

Fails(r) ==
    /\ Leave(r)
    /\ pushed' = [pushed EXCEPT ![r] = FALSE]
    /\ UNCHANGED <<accepted, assigned, pushHistory>>

\* Inodes something refers to; the others are as good as new.
Used(f, t, held) == {f, t} \cup {held[r] : r \in Requests}

\* open(tmp, "w")
OpenTmp(r) ==
    /\ step[r] = "open"
    /\ LET i == IF tmp # 0 THEN tmp
                ELSE CHOOSE n \in Inode : n \notin Used(fleet, tmp, fd)
       IN  /\ tmp' = i
           /\ fd' = [fd EXCEPT ![r] = i]
           /\ content' = [content EXCEPT ![i] = Empty]
    /\ step' = [step EXCEPT ![r] = "write"]
    /\ UNCHANGED <<todo, accepted, assigned, state, pushed, fleet, pushHistory>>

OpenTmpFails(r) ==
    /\ step[r] = "open"
    /\ Fails(r)
    /\ UNCHANGED <<fd, fileVars>>

\* Mutant: the file is not closed before it is renamed.
WriteTmpLeavesOpen(r) ==
    /\ step[r] = "write"
    /\ step' = [step EXCEPT ![r] = "replace"]
    /\ UNCHANGED <<todo, accepted, assigned, state, fd, pushed, fileVars, pushHistory>>

\* json.dump and close.  Over the text of another writer the new one leaves
\* that text's tail behind it, unless it is at least as long.
WriteTmp(r) ==
    /\ step[r] = "write"
    /\ \E after \in {File("json", state[r])}
                    \cup (IF content[fd[r]].text = "empty" THEN {} ELSE {Torn}) :
          content' = [content EXCEPT ![fd[r]] = after]
    /\ fd' = [fd EXCEPT ![r] = 0]
    /\ step' = [step EXCEPT ![r] = "replace"]
    /\ UNCHANGED <<todo, accepted, assigned, state, pushed, tmp, fleet, pushHistory>>

\* A write or close that fails closes the file all the same and leaves in it
\* nothing, part of the text, or all of it.
WriteTmpFails(r) ==
    /\ step[r] = "write"
    /\ Fails(r)
    /\ \E after \in {content[fd[r]], Torn, File("json", state[r])} :
          content' = [content EXCEPT ![fd[r]] = after]
    /\ fd' = [fd EXCEPT ![r] = 0]
    /\ UNCHANGED <<tmp, fleet>>

\* os.replace
Replace(r) ==
    /\ step[r] = "replace" /\ tmp # 0
    /\ fleet' = tmp /\ tmp' = 0
    /\ content' = [i \in Inode |-> IF i \in Used(tmp, 0, fd) THEN content[i] ELSE Empty]
    /\ kept' = [kept EXCEPT ![r] = IF crossed[r] THEN @ ELSE Append(@, Head(todo[r]))]
    /\ Leave(r)
    /\ UNCHANGED <<accepted, assigned, fd, pushed, before, unread, crossed>>

\* It fails for certain when another request has renamed the file away.
ReplaceFails(r) ==
    /\ step[r] = "replace"
    /\ Fails(r)
    /\ UNCHANGED <<fd, fileVars>>

Reply(r) ==
    /\ step[r] = "read" /\ todo[r] = <<>>
    /\ Forget(r)
    /\ UNCHANGED fileVars

-----------------------------------------------------------------------------
\* The server is killed and started again: what it had not written is lost,
\* the files stay as they are.
Crash ==
    /\ \E r \in Requests : step[r] # "idle"
    /\ step' = [r \in Requests |-> "idle"]
    /\ todo' = [r \in Requests |-> <<>>] /\ accepted' = todo' /\ kept' = todo'
    /\ state' = [r \in Requests |-> NoCommands] /\ assigned' = state' /\ before' = state'
    /\ fd' = [r \in Requests |-> 0]
    /\ pushed' = [r \in Requests |-> TRUE]
    /\ crossed' = [r \in Requests |-> FALSE] /\ unread' = crossed'
    /\ content' = [i \in Inode |-> IF i \in {fleet, tmp} THEN content[i] ELSE Empty]
    /\ UNCHANGED <<tmp, fleet>>

Handle(r) ==
    \/ Propose(r) \/ Judge(r) \/ Raise(r) \/ BeginPush(r)
    \/ ReadFleet(r) \/ ReadFleetFails(r)
    \/ OpenTmp(r) \/ OpenTmpFails(r)
    \/ WriteTmp(r) \/ WriteTmpFails(r)
    \/ Replace(r) \/ ReplaceFails(r)
    \/ Reply(r)

ServerNext == Crash \/ \E r \in Requests : Handle(r)

ServerSpec == ServerInit /\ [][ServerNext]_serverVars

-----------------------------------------------------------------------------
(* Correctness.                                                             *)

ServerTypeOK ==
    /\ step \in [Requests -> {"idle", "judge", "read", "open", "write", "replace"}]
    /\ \A r \in Requests : fd[r] # 0 <=> step[r] = "write"
    /\ {tmp, fleet} \cup {fd[r] : r \in Requests} \subseteq Inode \cup {0}
    /\ fleet # 0 => fleet # tmp
    /\ \A r \in Requests : {pushed[r], crossed[r], unread[r]} \subseteq BOOLEAN
    /\ \A i \in Inode : content[i].text \in {"empty", "json", "torn"}
    /\ \A i \in Inode : content[i].commands \in Commands

\* No goal of a batch is accepted too close to the target that another drone
\* has in the batch at that moment: its last accepted one, not one it was moved
\* away from (validator.py:331-348).  This is about what is accepted.  What is
\* on file may be closer: a push that fails is skipped and the next goal is
\* pushed all the same (main.py:201-206), so that of <<a at P, a at Q, b at P>>
\* with a failure in the middle both drones are left with P.
BatchSeparated ==
    \A r \in Requests : \A j \in DOMAIN accepted[r] : \A i \in 1..(j - 1) :
        LET a == accepted[r][i]
            b == accepted[r][j]
        IN  (a.drone # b.drone /\ \A k \in (i + 1)..(j - 1) : accepted[r][k].drone # a.drone)
            => ~TooClose(b.target, a.target)

\* What is on file once goals have been pushed: each drone's last one, on top of
\* what was there before; or, if a read failed on the way, of nothing, and then
\* only the goals from that read on.
OnFile(commands, goals, initially, blind) ==
    \/ commands = Overlay(initially, goals)
    \/ /\ blind
       /\ \E i \in 1..Len(goals) : commands = Overlay(NoCommands, SubSeq(goals, i, Len(goals)))

\* While a request that no other overlaps is pushing, at every step a crash or an
\* I/O error may follow, the fleet file holds exactly the goals whose push
\* succeeded on top of what it held: a failed push leaves no trace in it, it is
\* never half written, and another drone's command is lost only through a read
\* that failed (main.py:120).  The answer says "pushed" only if every goal so
\* far is on file (main.py:105-132, 198-206).
PushIsAtomic ==
    \A r \in Requests :
        (Pushing(r) /\ ~crossed[r])
        => /\ OnFile(ReadFleetState, kept[r], before[r], unread[r])
           /\ pushed[r] => kept[r] = SubSeq(accepted[r], 1, Len(accepted[r]) - Len(todo[r]))
=============================================================================
