------------------------------- MODULE Server -------------------------------
(***************************************************************************)
(* The server process of sockets/server.c: its main thread, which accepts  *)
(* connections and forks a subserver for each; its console thread          *)
(* readThread(); reap_subservers(), the handler of SIGCHLD, which may      *)
(* interrupt either thread, and both at a time, as SIGCHLD is blocked only *)
(* in the thread that is in the handler; and the list of clients that all  *)
(* share without a lock.  What a subserver does for its client is module   *)
(* Subserver; here it starts, serves and ends.                             *)
(*                                                                         *)
(* Connections are numbered in the order in which they are accepted.  The  *)
(* client list is kept oldest first: a pointer to a node is a position     *)
(* that stays when a node is inserted, the code's walk from `firstclient'  *)
(* along `nextclient' goes from the last position down to 1, and NULL is 0.*)
(***************************************************************************)
EXTENDS Integers, SequencesExt

CONSTANTS Pids,        \* pids for subservers
          NoPid,       \* no process
          Fds,         \* descriptors the server has for connections
          MaxClients,  \* how many connections are made
          PidReuse     \* whether the kernel may reuse the pid of a reaped process

ASSUME ServerAssumption ==
    /\ NoPid \notin Pids
    /\ Fds \subseteq Nat /\ Fds # {}
    /\ MaxClients \in Nat \ {0}
    /\ PidReuse \in BOOLEAN

VARIABLES
    server,      \* "up", or why it ended
    acceptor,    \* where its main thread is
    console,     \* where its console thread is
    current,     \* the node the console thread points to
    newpid,      \* what fork() returned to the main thread
    newfd,       \* what accept() returned to it
    accepted,    \* how many connections have been accepted
    fdtable,     \* the connection each open descriptor of the server is for
    clients,     \* the client list, oldest node first
    installed,   \* whether reap_subservers() is the handler of SIGCHLD yet
    sigchld,     \* whether SIGCHLD is pending
    reaping,     \* the threads that are inside reap_subservers()
    inhand,      \* the pid waitpid() returned to each thread there
    sub,         \* what each pid is
    conn,        \* the connection a subserver serves
    sigterm,     \* the subservers with SIGTERM pending
    sigusr1      \* the subservers with SIGUSR1 pending

main      == <<acceptor, newpid, newfd, accepted>>
terminal  == <<console, current>>
reaper    == <<installed, sigchld, reaping, inhand>>
processes == <<sub, conn>>
signals   == <<sigterm, sigusr1>>
vars      == <<server, main, terminal, fdtable, clients, reaper, processes, signals>>

Threads == {"main", "console"}
None  == -1                     \* no connection, no descriptor
Conns == 0 .. MaxClients - 1
NULL  == 0

Client == [clientno : Conns, pid : Pids, fdsock : Fds, status : {0, 1}]

Up == server = "up"
Alive(p) == sub[p] \in {"starting", "serving"}
Freed == IF PidReuse THEN "free" ELSE "gone"

-----------------------------------------------------------------------------
(* The client list.                                                        *)

(* Mutants: the first node is taken unseen; the last node of the list is   *)
(* never compared.                                                         *)
SearchClientPid_First(pid) == Len(clients)

SearchClientPid_SkipsLast(pid) ==
    SelectLastInSubSeq(clients, 2, Len(clients), LAMBDA e : e.pid = pid)

(* searchclientpid: the newest node with this pid. *)
SearchClientPid(pid) == SelectLastInSeq(clients, LAMBDA e : e.pid = pid)

(* searchclient: the newest node with this number. *)
SearchClient(n) == SelectLastInSeq(clients, LAMBDA e : e.clientno = n)

-----------------------------------------------------------------------------
(* The end of the server: ERROR(), exit() or a crash.  Its descriptors are *)
(* closed and its zombies reaped; nobody tells the subservers.             *)

ServerEnds(why) ==
    /\ server' = why
    /\ fdtable' = [f \in Fds |-> None]
    /\ sub' = [p \in Pids |-> IF sub[p] = "zombie" THEN Freed ELSE sub[p]]
    /\ UNCHANGED <<main, terminal, clients, reaper, conn, signals>>

-----------------------------------------------------------------------------
(* The main thread.                                                        *)

At(l) == Up /\ acceptor = l /\ "main" \notin reaping

FreeFds == {f \in Fds : fdtable[f] = None}

\* accept() returns the lowest free descriptor.
Accept ==
    /\ At("accept")
    /\ accepted < MaxClients
    /\ FreeFds # {}
    /\ newfd' = Min(FreeFds)
    /\ fdtable' = [fdtable EXCEPT ![Min(FreeFds)] = accepted]
    /\ accepted' = accepted + 1
    /\ acceptor' = "fork"
    /\ UNCHANGED <<server, newpid, terminal, clients, reaper, processes, signals>>

\* accept() fails for want of a descriptor, and ERROR exits.
AcceptFails ==
    /\ At("accept")
    /\ accepted < MaxClients
    /\ FreeFds = {}
    /\ ServerEnds("accept")

\* fork(): the child has pid p and the descriptors of all connections that are
\* open, which nothing here depends on.
Fork(p) ==
    /\ At("fork")
    /\ sub[p] = "free"
    /\ sub' = [sub EXCEPT ![p] = "starting"]
    /\ conn' = [conn EXCEPT ![p] = accepted - 1]
    /\ newpid' = p
    /\ acceptor' = "install"
    /\ UNCHANGED <<server, newfd, accepted, terminal, fdtable, clients,
                   reaper, signals>>

ForkFails ==
    /\ At("fork")
    /\ \A p \in Pids : sub[p] # "free"
    /\ ServerEnds("fork")

\* signal(SIGCHLD, reap_subservers): only after the fork.
Install ==
    /\ At("install")
    /\ installed' = TRUE
    /\ acceptor' = "insert"
    /\ UNCHANGED <<server, newpid, newfd, accepted, terminal, fdtable, clients,
                   sigchld, reaping, inhand, processes, signals>>

\* Mutant of InsertClient: the parent closes its copy of the descriptor, as
\* forking servers do, although the node keeps its number.
InsertClient_Closes ==
    /\ At("insert")
    /\ clients' = Append(clients, [clientno |-> accepted - 1, pid |-> newpid,
                                   fdsock |-> newfd, status |-> 1])
    /\ fdtable' = [fdtable EXCEPT ![newfd] = None]
    /\ newpid' = NoPid
    /\ newfd' = None
    /\ acceptor' = "accept"
    /\ UNCHANGED <<server, accepted, terminal, reaper, processes, signals>>

\* insertclient(), with total_clients as the number.
InsertClient ==
    /\ At("insert")
    /\ clients' = Append(clients, [clientno |-> accepted - 1, pid |-> newpid,
                                   fdsock |-> newfd, status |-> 1])
    /\ newpid' = NoPid
    /\ newfd' = None
    /\ acceptor' = "accept"
    /\ UNCHANGED <<server, accepted, terminal, fdtable, reaper, processes,
                   signals>>

-----------------------------------------------------------------------------
(* reap_subservers(), in thread t.                                         *)

Zombies == {p \in Pids : sub[p] = "zombie"}

\* SIGCHLD is delivered to a thread that does not block it.
SigchldArrives(t) ==
    /\ Up /\ sigchld /\ t \notin reaping
    /\ sigchld' = FALSE
    /\ reaping' = reaping \cup {t}
    /\ UNCHANGED <<server, main, terminal, fdtable, clients, installed, inhand,
                   processes, signals>>

\* It is in its loop, about to call waitpid().
InLoop(t) == Up /\ t \in reaping /\ inhand[t] = NoPid

\* waitpid() returns p: from now on the pid does not exist ...
ReapWaits(t, p) ==
    /\ InLoop(t)
    /\ p \in Zombies
    /\ sub' = [sub EXCEPT ![p] = Freed]
    /\ inhand' = [inhand EXCEPT ![t] = p]
    /\ UNCHANGED <<server, main, terminal, fdtable, clients, installed, sigchld,
                   reaping, conn, signals>>

\* Mutant of ChangeClientStatus: the descriptor is forgotten.
ChangeClientStatus_KeepsOpen(t) ==
    LET i == SearchClientPid(inhand[t]) IN
    /\ Up /\ inhand[t] # NoPid
    /\ i # NULL
    /\ clients' = [clients EXCEPT ![i].status = 0]
    /\ inhand' = [inhand EXCEPT ![t] = NoPid]
    /\ UNCHANGED <<server, main, terminal, fdtable, installed, sigchld, reaping,
                   processes, signals>>

\* ... and changeclientstatus() updates its node and closes its descriptor.
ChangeClientStatus(t) ==
    LET i == SearchClientPid(inhand[t]) IN
    /\ Up /\ inhand[t] # NoPid
    /\ i # NULL
    /\ clients' = [clients EXCEPT ![i].status = 0]
    /\ fdtable' = [fdtable EXCEPT ![clients[i].fdsock] = None]
    /\ inhand' = [inhand EXCEPT ![t] = NoPid]
    /\ UNCHANGED <<server, main, terminal, installed, sigchld, reaping,
                   processes, signals>>

\* It has no node: changeclientstatus() writes through NULL.
ReaperCrashes(t) ==
    /\ Up /\ inhand[t] # NoPid
    /\ SearchClientPid(inhand[t]) = NULL
    /\ ServerEnds("reaper")

\* Mutant of ReapReturns: one waitpid() per SIGCHLD.
ReapReturns_OnePerSignal(t) ==
    /\ InLoop(t)
    /\ reaping' = reaping \ {t}
    /\ UNCHANGED <<server, main, terminal, fdtable, clients, installed, sigchld,
                   inhand, processes, signals>>

\* waitpid() returns 0 or -1.
ReapReturns(t) ==
    /\ InLoop(t)
    /\ Zombies = {}
    /\ reaping' = reaping \ {t}
    /\ UNCHANGED <<server, main, terminal, fdtable, clients, installed, sigchld,
                   inhand, processes, signals>>

-----------------------------------------------------------------------------
(* The console thread.                                                     *)

\* It is at label l, and not interrupted by reap_subservers().
Walks(l) == Up /\ console = l /\ "console" \notin reaping

\* A command has been typed.
Typed == Walks("prompt")

\* Mutants of Follow: the end of the list is not noticed; the walk stays.
Follow_NoEnd == current' = current - 1 /\ console' = "list"
Follow_Stays == current' = current /\ console' = "list"

\* The walk goes to the next node, or is done.
Follow ==
    /\ current' = current - 1
    /\ console' = IF current - 1 = NULL THEN "prompt" ELSE "list"

List ==
    /\ Typed
    /\ clients # <<>>
    /\ console' = "list"
    /\ current' = Len(clients)
    /\ UNCHANGED <<server, main, fdtable, clients, reaper, processes, signals>>

\* The node says that its client is connected: a signal is to be sent.
ListConnected ==
    /\ Walks("list")
    /\ clients[current].status = 1
    /\ console' = "queue"
    /\ UNCHANGED <<server, main, current, fdtable, clients, reaper, processes,
                   signals>>

ListDisconnected ==
    /\ Walks("list")
    /\ clients[current].status = 0
    /\ Follow
    /\ UNCHANGED <<server, main, fdtable, clients, reaper, processes, signals>>

\* sigqueue(SIGUSR1) finds the process, which may be a zombie.
ListQueues ==
    LET p == clients[current].pid IN
    /\ Walks("queue")
    /\ Alive(p) \/ sub[p] = "zombie"
    /\ sigusr1' = IF Alive(p) THEN sigusr1 \cup {p} ELSE sigusr1
    /\ Follow
    /\ UNCHANGED <<server, main, fdtable, clients, reaper, processes, sigterm>>

\* sigqueue() finds no process: ERROR ends the server.
ListFails ==
    LET p == clients[current].pid IN
    /\ Walks("queue")
    /\ ~Alive(p) /\ sub[p] # "zombie"
    /\ ServerEnds("sigqueue")

\* disconnect() looks the number up, whatever the node's status ...
Dcon(n) ==
    LET i == SearchClient(n) IN
    /\ Typed
    /\ i # NULL
    /\ console' = "kill"
    /\ current' = i
    /\ UNCHANGED <<server, main, fdtable, clients, reaper, processes, signals>>

\* ... and calls kill() without a look at what it returns.
DconKills ==
    LET p == clients[current].pid IN
    /\ Walks("kill")
    /\ sigterm' = IF Alive(p) THEN sigterm \cup {p} ELSE sigterm
    /\ console' = "prompt"
    /\ current' = NULL
    /\ UNCHANGED <<server, main, fdtable, clients, reaper, processes, sigusr1>>

\* `dcon' without a number, once there is a client: strtol(NULL) crashes.
DconBare ==
    /\ Typed
    /\ clients # <<>>
    /\ ServerEnds("dcon")

\* `exit', or the crash on a line without a token or the end of the input.
Exit ==
    /\ Typed
    /\ ServerEnds("exit")

-----------------------------------------------------------------------------
(* The subservers.                                                         *)

\* A subserver ends.  SIGCHLD is discarded while it has no handler.
SubEnds(p) ==
    /\ sub' = [sub EXCEPT ![p] = IF Up THEN "zombie" ELSE Freed]
    /\ sigchld' = (sigchld \/ (Up /\ installed))
    /\ sigterm' = sigterm \ {p}
    /\ sigusr1' = sigusr1 \ {p}
    /\ UNCHANGED <<server, main, terminal, fdtable, clients, installed, reaping,
                   inhand, conn>>

\* It installs its handlers and serves its client.
Serve(p) ==
    /\ sub[p] = "starting"
    /\ sub' = [sub EXCEPT ![p] = "serving"]
    /\ UNCHANGED <<server, main, terminal, fdtable, clients, reaper, conn,
                   signals>>

\* Its client is gone, or it fails.
SubExits(p) ==
    /\ sub[p] = "serving"
    /\ SubEnds(p)

\* SIGTERM ends it with or without its handler.
SubTerminated(p) ==
    /\ Alive(p)
    /\ p \in sigterm
    /\ SubEnds(p)

\* SIGUSR1 has its default action, to end the process, until print_client()
\* is installed.
SubUsr1Kills(p) ==
    /\ sub[p] = "starting"
    /\ p \in sigusr1
    /\ SubEnds(p)

\* print_client() prints.
SubPrints(p) ==
    /\ sub[p] = "serving"
    /\ p \in sigusr1
    /\ sigusr1' = sigusr1 \ {p}
    /\ UNCHANGED <<server, main, terminal, fdtable, clients, reaper,
                   processes, sigterm>>

-----------------------------------------------------------------------------
Init ==
    /\ server = "up"
    /\ acceptor = "accept"
    /\ console = "prompt"
    /\ current = NULL
    /\ newpid = NoPid
    /\ newfd = None
    /\ accepted = 0
    /\ fdtable = [f \in Fds |-> None]
    /\ clients = <<>>
    /\ installed = FALSE
    /\ sigchld = FALSE
    /\ reaping = {}
    /\ inhand = [t \in Threads |-> NoPid]
    /\ sub = [p \in Pids |-> "free"]
    /\ conn = [p \in Pids |-> None]
    /\ sigterm = {}
    /\ sigusr1 = {}

Acceptor ==
    \/ Accept \/ AcceptFails \/ ForkFails \/ Install \/ InsertClient
    \/ \E p \in Pids : Fork(p)

Reaper(t) ==
    \/ SigchldArrives(t) \/ ChangeClientStatus(t) \/ ReaperCrashes(t) \/ ReapReturns(t)
    \/ \E p \in Pids : ReapWaits(t, p)

Listing == ListConnected \/ ListDisconnected \/ ListQueues \/ ListFails

Console ==
    \/ List \/ DconBare \/ Exit
    \/ \E n \in Conns : Dcon(n)

Sub(p) ==
    \/ Serve(p) \/ SubExits(p) \/ SubTerminated(p) \/ SubUsr1Kills(p) \/ SubPrints(p)

\* Nothing is left that could do anything.
Stopped ==
    /\ ~Up
    /\ \A p \in Pids : ~Alive(p)
    /\ UNCHANGED vars

Next ==
    \/ Acceptor \/ Console \/ Listing \/ DconKills
    \/ \E t \in Threads : Reaper(t)
    \/ \E p \in Pids : Sub(p)
    \/ Stopped

Spec == Init /\ [][Next]_vars

\* The server's threads run and signals are delivered.  Nobody has to connect,
\* to type a command or to leave.
Fairness ==
    /\ WF_vars(Install) /\ WF_vars(InsertClient)
    /\ \A t \in Threads : WF_vars(Reaper(t))
    /\ WF_vars(Listing) /\ WF_vars(DconKills)

FairSpec == Spec /\ Fairness

-----------------------------------------------------------------------------
(* Type invariant.                                                         *)

\* Every variable has its type, and a pointer into the client list is NULL or
\* at a node.
TypeOK ==
    /\ server \in {"up", "accept", "fork", "sigqueue", "reaper", "dcon", "exit"}
    /\ acceptor \in {"accept", "fork", "install", "insert"}
    /\ console \in {"prompt", "list", "queue", "kill"}
    /\ clients \in Seq(Client)
    /\ current \in 0 .. Len(clients)
    /\ console # "prompt" => current # NULL
    /\ newpid \in Pids \cup {NoPid}
    /\ newfd \in Fds \cup {None}
    /\ accepted \in 0 .. MaxClients
    /\ fdtable \in [Fds -> Conns \cup {None}]
    /\ installed \in BOOLEAN
    /\ sigchld \in BOOLEAN
    /\ reaping \in SUBSET Threads
    /\ inhand \in [Threads -> Pids \cup {NoPid}]
    /\ sub \in [Pids -> {"free", "starting", "serving", "zombie", "gone"}]
    /\ conn \in [Pids -> Conns \cup {None}]
    /\ sigterm \in SUBSET Pids
    /\ sigusr1 \in SUBSET Pids

-----------------------------------------------------------------------------
(* Safety.                                                                 *)

\* A thread is between waitpid() and changeclientstatus() for p.
InHand(p) == \E t \in Threads : inhand[t] = p

\* As long as no pid is reused, the client list is accurate up to what
\* reap_subservers() has in hand: a client is shown as connected (status 1)
\* exactly while its subserver has not been reaped.
StatusAccurate ==
    Up /\ ~PidReuse =>
        \A i \in DOMAIN clients :
            LET e == clients[i] IN
            IF e.status = 1
            THEN sub[e.pid] # "gone" \/ InHand(e.pid)
            ELSE sub[e.pid] = "gone" /\ ~InHand(e.pid)

\* As long as no pid is reused: although the numbers of descriptors are reused
\* all the time, the one in a connected client's node is open and is for its
\* connection, so that changeclientstatus() (server.c:1102) closes the right
\* one, and every other open descriptor is for the connection that is being
\* accepted: none leaks.
SocketsMatch ==
    Up /\ ~PidReuse =>
        \A f \in Fds :
            fdtable[f] =
                IF f = newfd THEN accepted - 1
                ELSE IF \E e \in Range(clients) : e.fdsock = f /\ e.status = 1
                THEN (CHOOSE e \in Range(clients) :
                         e.fdsock = f /\ e.status = 1).clientno
                ELSE None

\* A death is noticed: a zombie has SIGCHLD pending or reap_subservers() in its
\* loop.  The only one that can be missed is the first client's subserver: it
\* can end before the handler is installed (server.c:114).
DeathNoticed ==
    Up => \A p \in Zombies : sigchld \/ reaping # {} \/ conn[p] = 0

\* reap_subservers() can crash the server (server.c:1101) only over a
\* subserver that is so young that insertclient() (server.c:116) has not
\* recorded it yet.
ReaperFindsNode ==
    \A t \in Threads :
        inhand[t] # NoPid => SearchClientPid(inhand[t]) # NULL \/ inhand[t] = newpid

-----------------------------------------------------------------------------
(* The promise to the clients.                                             *)

\* The position of the node of connection c, or NULL.
NodeOf(c) == SelectInSeq(clients, LAMBDA e : e.clientno = c)

StageOf(c) ==
    IF NodeOf(c) # NULL
    THEN IF clients[NodeOf(c)].status = 1 THEN "connected" ELSE "left"
    ELSE IF c >= accepted THEN "none"
    ELSE IF acceptor = "fork" THEN "accepted" ELSE "begun"

\* The connections whose socket the server has open.
OpenConns == {fdtable[f] : f \in Fds \ FreeFds}

\* A subserver is there until it has been reaped.
Unreaped == {p \in Pids : Alive(p) \/ sub[p] = "zombie"}

TheRegistry == INSTANCE Registry WITH
    up      <- Up,
    stage   <- [c \in Conns |-> StageOf(c)],
    served  <- {conn[p] : p \in Unreaped},
    sockets <- OpenConns

\* As long as no pid is reused the server keeps what Registry promises: every
\* connection is entered once and in order, no interleaving of the accept loop
\* (server.c:116) with two reapers (server.c:530) shows a served client as gone,
\* and a socket is closed exactly when its client is marked (server.c:1102).
KeepsRegistry == TheRegistry!Spec

-----------------------------------------------------------------------------
(* Liveness.                                                               *)

\* The subserver of every client but the first is reaped when it has ended,
\* or the server is gone.
DeadReaped ==
    \A p \in Pids : (sub[p] = "zombie" /\ conn[p] # 0) ~> sub[p] # "zombie"

\* A walk of the console through the client list ends, however many clients
\* come and go meanwhile.
ListEnds == console \in {"list", "queue"} ~> console = "prompt" \/ ~Up

-----------------------------------------------------------------------------
(* What the source says of itself and does not do.                         *)

\* server.c:251, "list\tList of connected clients and their processes": `list'
\* does not end the server.
ListKeepsServer == server # "sigqueue"

\* server.c:252, "disconnect\tDisconnect from specific client": it is the
\* specified client's subserver that is sent SIGTERM.
DconSpecific ==
    [][\A p \in Pids : p \in sigterm' \ sigterm
           => conn[p] = clients[current].clientno]_vars
=============================================================================
