--------------------------------- MODULE Wire ---------------------------------
(***************************************************************************)
(* The TCP connections between a ground client and the tether agent, as    *)
(* the socket calls of tether_agent.cpp and coordinator.cpp see them.      *)
(*                                                                         *)
(* A line is two tokens, its head and the tail that carries the newline,   *)
(* so that reads and writes can stop in the middle of one.  A connection   *)
(* can be cut at any time: what has not arrived is lost, nothing more      *)
(* arrives, and each end is told by its kernel later and independently.    *)
(***************************************************************************)
EXTENDS Integers, Sequences

CONSTANTS
    Slots,      \* connections that can exist at one time
    Backlog,    \* connections the listening socket holds before accept()
    BufferSize  \* tokens a direction of a connection can hold

ASSUME WireConstants ==
    /\ Slots \in Nat \ {0}
    /\ Backlog \in Nat \ {0}
    /\ BufferSize \in Nat \ {0}

VARIABLES
    conn,      \* [slot |-> the connection in it]
    listening, \* the agent's listening socket is open
    backlog    \* slots of the connections accept() has not returned yet, in order

wireVars == <<conn, listening, backlog>>

Slot == 1..Slots
End  == {"ground", "agent"}

\* sent[e]: tokens on their way to end e or waiting there; err: the ends whose
\* kernel has reported that the connection is dead.
NoConn == [ground |-> "none", agent |-> "none", cut |-> FALSE, err |-> {},
           sent |-> [e \in End |-> <<>>]]

WireInit ==
    /\ conn = [s \in Slot |-> NoConn]
    /\ listening = FALSE
    /\ backlog = <<>>

Tokens(f) == <<[frame |-> f, part |-> "head"], [frame |-> f, part |-> "tail"]>>

Other(e) == IF e = "ground" THEN "agent" ELSE "ground"

\* The other end is gone as far as e can tell: an orderly close that has been
\* read up to, or an error its kernel reports.
Gone(s, e) ==
    \/ e \in conn[s].err
    \/ conn[s][Other(e)] = "closed" /\ ~conn[s].cut

\* connect() succeeds once the listening socket has room for it.
Open(s) ==
    /\ listening
    /\ Len(backlog) < Backlog
    /\ conn[s] = NoConn /\ \A t \in 1..(s - 1) : conn[t] # NoConn
    /\ conn' = [conn EXCEPT ![s].ground = "open", ![s].agent = "queued"]
    /\ backlog' = Append(backlog, s)

\* recv() takes any number of the tokens that wait at end e.
Take(s, e, n) == conn' = [conn EXCEPT ![s].sent[e] = SubSeq(@, n + 1, Len(@))]

\* send() hands tokens to the kernel; a cut connection swallows them.
Room(s, e) == BufferSize - Len(conn[s].sent[Other(e)])

Put(s, e, tokens) ==
    conn' = IF conn[s].cut \/ conn[s][Other(e)] = "closed" THEN conn
            ELSE [conn EXCEPT ![s].sent[Other(e)] = @ \o tokens]

\* close() of one end; a connection closed at both ends is gone.
Shut(c, e) == IF c[Other(e)] = "closed" THEN NoConn ELSE [c EXCEPT ![e] = "closed", !.sent[e] = <<>>]

\* The network cuts a connection, losing a suffix of each direction.
Cut(s) ==
    /\ conn[s] # NoConn /\ ~conn[s].cut
    /\ \E i \in 0..Len(conn[s].sent.ground), j \in 0..Len(conn[s].sent.agent) :
          conn' = [conn EXCEPT ![s].cut = TRUE,
                               ![s].sent = [ground |-> SubSeq(@.ground, 1, i),
                                            agent  |-> SubSeq(@.agent, 1, j)]]
    /\ UNCHANGED <<listening, backlog>>

\* The kernel of end e gives a cut connection up.
Notice(s, e) ==
    /\ conn[s].cut /\ conn[s][e] \in {"open", "queued"} /\ e \notin conn[s].err
    /\ conn' = [conn EXCEPT ![s].err = @ \cup {e}]
    /\ UNCHANGED <<listening, backlog>>

\* A complete line at the front of a receive buffer, and what follows it.
HasLine(rx) == \E i \in DOMAIN rx : rx[i].part = "tail"
LineLen(rx) == CHOOSE i \in DOMAIN rx : rx[i].part = "tail" /\ \A j \in 1..(i - 1) : rx[j].part = "head"
Line(rx)    == SubSeq(rx, 1, LineLen(rx))
Rest(rx)    == SubSeq(rx, LineLen(rx) + 1, Len(rx))

\* The bytes of one frame and of nothing else.
Whole(line) == Len(line) = 2 /\ line[1].frame = line[2].frame
=============================================================================
