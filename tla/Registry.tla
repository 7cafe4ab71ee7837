------------------------------ MODULE Registry ------------------------------
(***************************************************************************)
(* What the server of sockets/server.c promises about its clients, without *)
(* processes, signals, threads or lists.  Connections come in the order of *)
(* their numbers and each goes through its stages once.  A connection is   *)
(* served from the moment it has a subserver until that has been reaped.   *)
(* The server holds the socket of a connection from accept() on, and lets  *)
(* go of it in the step in which it says that the client has left, which   *)
(* it never says of a client that is served.                               *)
(***************************************************************************)
EXTENDS Naturals

CONSTANT Conns        \* the connections, numbered from 0

VARIABLES
    up,      \* whether the server runs
    stage,   \* "none", then "accepted", "begun", "connected" and "left"
    served,  \* the connections that have a subserver
    sockets  \* the connections whose socket the server has open

vars == <<up, stage, served, sockets>>

Init ==
    /\ up = TRUE
    /\ stage = [c \in Conns |-> "none"]
    /\ served = {}
    /\ sockets = {}

Move(c, from, to) ==
    /\ stage[c] = from
    /\ stage' = [stage EXCEPT ![c] = to]

\* The next connection is accepted, once the one before it is in the list.
Arrive(c) ==
    /\ up
    /\ Move(c, "none", "accepted")
    /\ \A d \in Conns : IF d < c THEN stage[d] \in {"connected", "left"}
                                 ELSE stage[d] = "none"
    /\ sockets' = sockets \cup {c}
    /\ UNCHANGED <<up, served>>

\* It gets its subserver.
Begin(c) ==
    /\ up
    /\ Move(c, "accepted", "begun")
    /\ served' = served \cup {c}
    /\ UNCHANGED <<up, sockets>>

\* It is in the list.
Enter(c) ==
    /\ up
    /\ Move(c, "begun", "connected")
    /\ UNCHANGED <<up, served, sockets>>

\* Its subserver is no more.
Depart(c) ==
    /\ c \in served
    /\ served' = served \ {c}
    /\ UNCHANGED <<up, stage, sockets>>

\* The list says so, and the socket is closed.
Leave(c) ==
    /\ up
    /\ Move(c, "connected", "left")
    /\ c \notin served
    /\ sockets' = sockets \ {c}
    /\ UNCHANGED <<up, served>>

\* The server ends, and so do the zombies it has not reaped.
End ==
    /\ up
    /\ up' = FALSE
    /\ sockets' = {}
    /\ served' \in SUBSET served
    /\ UNCHANGED stage

Next ==
    \/ \E c \in Conns : Arrive(c) \/ Begin(c) \/ Enter(c) \/ Depart(c) \/ Leave(c)
    \/ End

Spec == Init /\ [][Next]_vars
=============================================================================
