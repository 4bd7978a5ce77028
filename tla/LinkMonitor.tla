----------------------------- MODULE LinkMonitor -----------------------------
(***************************************************************************)
(* What the tether agent promises the rest of the drone through its        *)
(* callbacks: loss and recovery alternate, starting from a link that is    *)
(* taken to be up, and a ground command is handed over only while the      *)
(* link counts as up.                                                      *)
(***************************************************************************)
CONSTANT Commands  \* ground commands the dispatcher may be handed

VARIABLES
    up,        \* the last of loss and recovery that was reported
    callback   \* the callback of the latest step, <<>> if it made none

monitorVars == <<up, callback>>

Init == up = TRUE /\ callback = <<>>

Loss       == up /\ up' = FALSE /\ callback' = <<"loss">>
Recover    == ~up /\ up' = TRUE /\ callback' = <<"recover">>
Dispatch   == up /\ up' = TRUE /\ \E c \in Commands : callback' = <<"command", c>>
Quiet      == callback' = <<>> /\ UNCHANGED up

Next == Loss \/ Recover \/ Dispatch \/ Quiet

Spec == Init /\ [][Next]_monitorVars
=============================================================================
