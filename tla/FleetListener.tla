----------------------------- MODULE FleetListener -----------------------------
(***************************************************************************)
(* The coordinator's read-only HTTP endpoint: fleet_worker of              *)
(* ground/coordinator/coordinator.cpp, one thread that accepts, reads and  *)
(* answers one client at a time without any timeout, with the start() that *)
(* opens its socket and the stop() that shuts both sockets and joins both  *)
(* threads.  Of tether_worker, whose data are in Coordinator, it keeps     *)
(* where it stands and whether it has a descriptor: what stop() waits for. *)
(*                                                                         *)
(* The client is anybody on the ground machine: the mission server's       *)
(* scrape, which hangs up after 1.5 s, or one that connects and stays      *)
(* silent.  One is connected at a time; the others wait in the backlog.    *)
(***************************************************************************)
EXTENDS Naturals

VARIABLES
    fleet_running,  \* impl_->running
    fleet_fd,       \* the listening socket is open
    stop_at,        \* where the caller of stop() stands
    tether_at,      \* where tether_worker stands
    tether_open,    \* tether_fd >= 0
    at,             \* where fleet_worker stands
    client,         \* where the client stands
    sent,           \* what the client has sent
    open,           \* the client has not hung up
    answer          \* status of the answer it was sent, 0 for none yet

tetherVars   == <<tether_at, tether_open>>
clientVars   == <<client, sent, open>>
listenerVars == <<fleet_running, fleet_fd, stop_at, tetherVars, at, clientVars, answer>>

ListenerInit ==
    /\ fleet_running = FALSE /\ fleet_fd = FALSE /\ stop_at = "none" /\ at = "off"
    /\ tether_at = "off" /\ tether_open = FALSE
    /\ client = "away" /\ sent = "nothing" /\ open = FALSE /\ answer = 0

-----------------------------------------------------------------------------
(* start() and stop().                                                      *)

\* A socket that cannot be opened or bound makes start() fail and change
\* nothing; a coordinator that runs is left alone.
StartListener ==
    /\ at = "off" /\ stop_at = "none" /\ ~fleet_running
    /\ fleet_running' = TRUE /\ fleet_fd' = TRUE /\ tether_at' = "top" /\ at' = "loop"
    /\ UNCHANGED <<stop_at, tether_open, clientVars, answer>>

StopBegins ==
    /\ fleet_running /\ stop_at = "none"
    /\ fleet_running' = FALSE /\ stop_at' = "shut tether"
    /\ UNCHANGED <<fleet_fd, tetherVars, at, clientVars, answer>>

\* A descriptor that a dial is about to return is missed.
ShutTether ==
    /\ stop_at = "shut tether"
    /\ stop_at' = "shut listener" /\ tether_open' = FALSE
    /\ UNCHANGED <<fleet_running, fleet_fd, tether_at, at, clientVars, answer>>

\* shutdown and close: a client in the backlog is reset, and an accept that
\* blocks on the socket returns an error.
ShutListener ==
    /\ stop_at = "shut listener"
    /\ stop_at' = "join tether"
    /\ fleet_fd' = FALSE
    /\ IF client = "backlog"
       THEN client' = "away" /\ sent' = "nothing" /\ open' = FALSE
       ELSE UNCHANGED clientVars
    /\ UNCHANGED <<fleet_running, tetherVars, at, answer>>

JoinTether ==
    /\ stop_at = "join tether" /\ tether_at = "joinable"
    /\ stop_at' = "join listener" /\ tether_at' = "off"
    /\ UNCHANGED <<fleet_running, fleet_fd, tether_open, at, clientVars, answer>>

JoinListener ==
    /\ stop_at = "join listener" /\ at = "joinable"
    /\ stop_at' = "none" /\ at' = "off"
    /\ UNCHANGED <<fleet_running, fleet_fd, tetherVars, clientVars, answer>>

Stopper == ShutTether \/ ShutListener \/ JoinTether \/ JoinListener

-----------------------------------------------------------------------------
(* tether_worker.                                                           *)

Tether(pc, opened) ==
    /\ tether_at' = pc /\ tether_open' = opened
    /\ UNCHANGED <<fleet_running, fleet_fd, stop_at, at, clientVars, answer>>

\* Connected, it sends what is queued, if anything, and polls.
TetherTop ==
    /\ tether_at = "top"
    /\ IF ~fleet_running THEN Tether("joinable", FALSE)
       ELSE \E pc \in (IF tether_open THEN {"send", "poll"} ELSE {"dial"}) : Tether(pc, tether_open)

\* dial_tether takes a second at most; it does not look at running.
TetherDials ==
    /\ tether_at = "dial"
    /\ Tether("top", FALSE) \/ Tether("send", TRUE) \/ Tether("poll", TRUE)

\* send_all_blocking returns when the drone's side has taken all of it.
TetherSends == tether_at = "send" /\ Tether("poll", tether_open)

TetherSendFails == tether_at = "send" /\ Tether("top", FALSE)

\* Nothing, bytes, the end of the connection, or a descriptor stop() closed.
TetherPolls ==
    /\ tether_at = "poll"
    /\ Tether("top", tether_open) \/ Tether("top", FALSE)

\* FD_SET of -1: a fortified build aborts.
TetherBadFd == tether_at = "poll" /\ ~tether_open /\ Tether("crashed", FALSE)

TetherWorker == TetherTop \/ TetherDials \/ TetherSends \/ TetherSendFails \/ TetherPolls \/ TetherBadFd

\* A program that has aborted may be run again.
RunAgain ==
    /\ tether_at = "crashed"
    /\ fleet_running' = FALSE /\ fleet_fd' = FALSE /\ stop_at' = "none" /\ at' = "off"
    /\ tether_at' = "off" /\ tether_open' = FALSE
    /\ client' = "away" /\ sent' = "nothing" /\ open' = FALSE /\ answer' = 0

\* The steps that come whatever the drone's side does: a send on a descriptor
\* that is still good retries for ever (coordinator.cpp:287-300).
TetherGoesOn == TetherTop \/ TetherDials \/ (~tether_open /\ TetherSendFails) \/ TetherPolls

-----------------------------------------------------------------------------
(* fleet_worker.                                                            *)

\* Mutant: the loop does not look at the flag.
LoopForever ==
    /\ at = "loop"
    /\ at' = "accept"
    /\ UNCHANGED <<fleet_running, fleet_fd, stop_at, tetherVars, clientVars, answer>>

LoopTop ==
    /\ at = "loop"
    /\ at' = IF fleet_running THEN "accept" ELSE "joinable"
    /\ UNCHANGED <<fleet_running, fleet_fd, stop_at, tetherVars, clientVars, answer>>

Accept ==
    /\ at = "accept" /\ fleet_fd /\ client = "backlog"
    /\ client' = "served" /\ at' = "recv"
    /\ UNCHANGED <<fleet_running, fleet_fd, stop_at, tetherVars, sent, open, answer>>

\* The socket is gone: sleep 20 ms and go round.
AcceptFails ==
    /\ at = "accept" /\ ~fleet_fd
    /\ at' = "loop"
    /\ UNCHANGED <<fleet_running, fleet_fd, stop_at, tetherVars, clientVars, answer>>

\* recv goes on until the blank line, the limit, or the client's end.
Whole == {"fleet", "healthz", "other"}

Received ==
    /\ at = "recv"
    /\ sent \in Whole \/ ~open
    /\ at' = "reply"
    /\ UNCHANGED <<fleet_running, fleet_fd, stop_at, tetherVars, clientVars, answer>>

\* Only GET /fleet, /healthz and / are found; the first words of a request cut
\* short may be either.
Respond ==
    /\ at = "reply"
    /\ \/ sent \in {"fleet", "healthz", "part"} /\ answer' = 200
       \/ sent \notin {"fleet", "healthz"} /\ answer' = 404
    /\ at' = "close"
    /\ UNCHANGED <<fleet_running, fleet_fd, stop_at, tetherVars, clientVars>>

CloseClient ==
    /\ at = "close"
    /\ at' = "loop"
    /\ client' = "away" /\ sent' = "nothing" /\ open' = FALSE /\ answer' = 0
    /\ UNCHANGED <<fleet_running, fleet_fd, stop_at, tetherVars>>

Worker == LoopTop \/ Accept \/ AcceptFails \/ Received \/ Respond \/ CloseClient

-----------------------------------------------------------------------------
(* Clients.                                                                 *)

Connect ==
    /\ client = "away" /\ fleet_fd
    /\ client' = "backlog" /\ open' = TRUE
    /\ UNCHANGED <<fleet_running, fleet_fd, stop_at, tetherVars, at, sent, answer>>

Request ==
    /\ client # "away" /\ open /\ sent \in {"nothing", "part"}
    /\ sent' \in {"part"} \cup Whole /\ sent' # sent
    /\ UNCHANGED <<fleet_running, fleet_fd, stop_at, tetherVars, at, client, open, answer>>

\* The client ends its side: it is done, or its patience is.
HangUp ==
    /\ client # "away" /\ open
    /\ open' = FALSE
    /\ UNCHANGED <<fleet_running, fleet_fd, stop_at, tetherVars, at, client, sent, answer>>

Clients == Connect \/ Request \/ HangUp

ListenerNext ==
    StartListener \/ StopBegins \/ Stopper \/ TetherWorker \/ RunAgain \/ Worker \/ Clients

-----------------------------------------------------------------------------
(* Correctness.                                                             *)

\* The worker waits for a client that stays connected and sends no request.
HeldBySilence == at = "recv" /\ open /\ sent \notin Whole

\* A dial that stop() overtook has handed tether_worker a descriptor nobody will
\* close, and the drone's side takes nothing of what is sent on it.
HeldByTether == ~fleet_running /\ tether_at = "send" /\ tether_open

\* stop() returns whatever it overtakes -- a dial, a send, a poll; a blocked
\* accept, the pause after an error, a request half read -- with three
\* exceptions: one silent client holds the listener's thread for ever
\* (coordinator.cpp:560-566), a send on a connection dialled behind stop()'s back
\* never ends (287-300, 412, 469), or the poll of a closed descriptor aborts the
\* program (502).  Nothing in the code prevents them.
FleetStopReturns ==
    \/ stop_at = "shut tether" ~> (stop_at = "none" \/ tether_at = "crashed")
    \/ <>[]HeldBySilence
    \/ <>[]HeldByTether
=============================================================================
