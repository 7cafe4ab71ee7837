---------------------------- MODULE ServerProofs ----------------------------
(***************************************************************************)
(* Theorems about Server for any number of pids, descriptors and           *)
(* connections: its types, its SIGCHLD handler, and, when no pid is        *)
(* reused, its client list and its descriptors.                            *)
(***************************************************************************)
EXTENDS Server, Extremes

-----------------------------------------------------------------------------
(* The inductive invariant.                                                *)

\* What main() has in hand between accept() and insertclient().
Phases ==
    /\ acceptor # "accept" => accepted > 0 /\ newfd \in Fds
    /\ acceptor = "accept" => newfd = None
    /\ acceptor \in {"install", "insert"} <=> newpid # NoPid

\* Every subserver that the server has not dealt with has a node, or is the
\* one that main() has just forked.
HasNode(p) == \E i \in DOMAIN clients : clients[i].pid = p
Unsettled(p) == Alive(p) \/ sub[p] = "zombie" \/ InHand(p)
Recorded == \A p \in Pids : Unsettled(p) => p = newpid \/ HasNode(p)

\* SIGCHLD is without its handler for the first connection only.
Early ==
    ~installed =>
        /\ acceptor # "insert"
        /\ accepted = IF acceptor = "accept" THEN 0 ELSE 1
        /\ \A p \in Pids : Alive(p) => conn[p] = 0

IInv == TypeOK /\ Phases /\ Recorded /\ Early /\ DeathNoticed

-----------------------------------------------------------------------------
(* What the searches return.                                               *)

\* searchclientpid() returns an entry with the pid if there is one.
LEMMA SearchClientPidResult ==
    ASSUME TypeOK, NEW pid
    PROVE  /\ SearchClientPid(pid) \in 0 .. Len(clients)
           /\ SearchClientPid(pid) = NULL <=> ~HasNode(pid)
           /\ SearchClientPid(pid) # NULL =>
                  /\ SearchClientPid(pid) \in DOMAIN clients
                  /\ clients[SearchClientPid(pid)].pid = pid
<1> DEFINE I == {i \in 1 .. Len(clients) : clients[i].pid = pid}
           s == SearchClientPid(pid)
<1>1. s = IF I # {} THEN Max(I) ELSE 0
  BY DEF SearchClientPid, SelectLastInSeq
<1>2. Len(clients) \in Nat /\ DOMAIN clients = 1 .. Len(clients)
  BY DEF TypeOK
<1>3. I \in SUBSET (0 .. Len(clients))
  BY <1>2
<1>4. I # {} => s \in I
  <2> HIDE DEF I, s
  <2> QED  BY <1>1, <1>2, <1>3, MaxIsGreatest
<1>5. I = {} <=> ~HasNode(pid)
  BY <1>2 DEF HasNode
<1>6. I = {} => s = 0
  BY <1>1
<1>7. I # {} => s \in 1 .. Len(clients) /\ clients[s].pid = pid
  BY <1>4
<1> HIDE DEF I, s
<1>8. CASE I = {}
  BY <1>2, <1>5, <1>6, <1>8 DEF s, NULL
<1>9. CASE I # {}
  BY <1>2, <1>5, <1>7, <1>9 DEF s, NULL
<1> QED  BY <1>8, <1>9

\* searchclient() returns an entry, or none.
LEMMA SearchClientResult ==
    ASSUME TypeOK, NEW n
    PROVE  SearchClient(n) \in 0 .. Len(clients)
<1> DEFINE I == {i \in 1 .. Len(clients) : clients[i].clientno = n}
           s == SearchClient(n)
<1>1. s = IF I # {} THEN Max(I) ELSE 0
  BY DEF SearchClient, SelectLastInSeq
<1>2. Len(clients) \in Nat
  BY DEF TypeOK
<1>3. I \in SUBSET (0 .. Len(clients))
  BY <1>2
<1>4. I # {} => s \in I
  <2> HIDE DEF I, s
  <2> QED  BY <1>1, <1>2, <1>3, MaxIsGreatest
<1>5. s = 0 \/ s \in I
  BY <1>1, <1>4
<1> HIDE DEF s
<1> QED  BY <1>2, <1>3, <1>5 DEF s

\* accept() returns a descriptor that is free.
LEMMA LeastFree ==
    ASSUME FreeFds # {}
    PROVE  Min(FreeFds) \in Fds /\ fdtable[Min(FreeFds)] = None
<1>1. FreeFds \in SUBSET Nat
  BY ServerAssumption DEF FreeFds
<1>2. Min(FreeFds) \in FreeFds
  BY <1>1, MinIsLeast
<1> QED  BY <1>2 DEF FreeFds

\* A client that is appended to the list leaves all others where they were.
LEMMA AppendResult ==
    ASSUME TypeOK, NEW e, clients' = Append(clients, e)
    PROVE  /\ Len(clients) \in Nat
           /\ DOMAIN clients = 1 .. Len(clients)
           /\ Len(clients') = Len(clients) + 1
           /\ DOMAIN clients' = 1 .. Len(clients) + 1
           /\ \A i \in 1 .. Len(clients) : clients'[i] = clients[i]
           /\ clients'[Len(clients) + 1] = e
<1>1. clients \in Seq(Client)
  BY DEF TypeOK
<1>2. clients \in Seq(Client \cup {e})
  BY <1>1
<1>3. clients' \in Seq(Client \cup {e})
  BY <1>2
<1> QED  BY <1>1, <1>2, <1>3

\* changeclientstatus() sets the status of one node.
LEMMA MarkResult ==
    ASSUME TypeOK, NEW i \in DOMAIN clients, clients' = [clients EXCEPT ![i].status = 0]
    PROVE  /\ clients' \in Seq(Client)
           /\ Len(clients') = Len(clients)
           /\ DOMAIN clients' = DOMAIN clients
           /\ \A j \in DOMAIN clients :
                  /\ clients'[j].pid = clients[j].pid
                  /\ clients'[j].clientno = clients[j].clientno
                  /\ clients'[j].fdsock = clients[j].fdsock
                  /\ clients'[j].status = IF j = i THEN 0 ELSE clients[j].status
<1>1. clients \in Seq(Client) /\ DOMAIN clients = 1 .. Len(clients) /\ Len(clients) \in Nat
  BY DEF TypeOK
<1>2. \A j \in DOMAIN clients : clients[j] \in Client
  BY <1>1
<1>3. \A j \in DOMAIN clients :
          clients'[j] = IF j = i THEN [clients[j] EXCEPT !.status = 0] ELSE clients[j]
  BY <1>1
<1>4. \A j \in DOMAIN clients : clients'[j] \in Client
  BY <1>2, <1>3 DEF Client
<1>5. clients' = [j \in 1 .. Len(clients) |-> clients'[j]]
  BY <1>1
<1>6. clients' \in Seq(Client) /\ Len(clients') = Len(clients)
  <2>1. [j \in 1 .. Len(clients) |-> clients'[j]] \in Seq(Client)
    BY <1>1, <1>4
  <2> QED  BY <1>1, <1>5, <2>1
<1> QED  BY <1>1, <1>2, <1>3, <1>6 DEF Client

-----------------------------------------------------------------------------
(* Every step keeps the invariant: first what several actions share.       *)

\* The server as it is started.
LEMMA InvInit == Init => IInv
<1> SUFFICES ASSUME Init PROVE IInv
  OBVIOUS
<1> USE ServerAssumption
<1>1. TypeOK
  <2>1. clients \in Seq(Client) /\ Len(clients) = 0 /\ current \in 0 .. Len(clients)
    BY DEF Init, NULL
  <2>2. newpid \in Pids \cup {NoPid} /\ newfd \in Fds \cup {None} /\ accepted \in 0 .. MaxClients
    BY DEF Init
  <2>3. /\ fdtable \in [Fds -> Conns \cup {None}]
        /\ inhand \in [Threads -> Pids \cup {NoPid}]
        /\ sub \in [Pids -> {"free", "starting", "serving", "zombie", "gone"}]
        /\ conn \in [Pids -> Conns \cup {None}]
    BY DEF Init
  <2>4. installed \in BOOLEAN /\ sigchld \in BOOLEAN
    BY DEF Init
  <2> QED  BY <2>1, <2>2, <2>3, <2>4 DEF Init, TypeOK
<1>2. Phases
  BY DEF Init, Phases
<1>3. Recorded /\ DeathNoticed
  BY DEF Init, Recorded, Unsettled, Alive, InHand, DeathNoticed, Zombies
<1>4. Early
  BY DEF Init, Early, Alive
<1> QED  BY <1>1, <1>2, <1>3, <1>4 DEF IInv

\* The end of the server.
LEMMA EndStep ==
    ASSUME IInv, NEW why \in {"accept", "fork", "sigqueue", "reaper", "dcon", "exit"},
           ServerEnds(why)
    PROVE  IInv'
<1> USE DEF ServerEnds, main, terminal, reaper, signals
<1>1. TypeOK'
  BY DEF IInv, TypeOK, Freed
<1>2. Phases'
  BY DEF IInv, Phases
<1>3. \A p \in Pids : sub'[p] = sub[p] \/ sub'[p] \in {"free", "gone"}
  BY DEF Freed
<1>4. Recorded'
  BY <1>3 DEF IInv, Recorded, Unsettled, Alive, InHand, HasNode
<1>5. Early'
  BY <1>3 DEF IInv, Early, Alive
<1>6. DeathNoticed'
  BY DEF DeathNoticed, Up
<1> QED  BY <1>1, <1>2, <1>4, <1>5, <1>6 DEF IInv

\* The end of a subserver.
LEMMA SubEndStep ==
    ASSUME IInv, NEW p \in Pids, Alive(p), SubEnds(p)
    PROVE  IInv'
<1> USE DEF SubEnds, main, terminal
<1>1. TypeOK'
  <2>1. sub' \in [Pids -> {"free", "starting", "serving", "zombie", "gone"}]
    BY DEF IInv, TypeOK, Freed
  <2>2. sigchld' \in BOOLEAN /\ sigterm' \in SUBSET Pids /\ sigusr1' \in SUBSET Pids
    BY DEF IInv, TypeOK
  <2> QED  BY <2>1, <2>2 DEF IInv, TypeOK
<1>2. Phases'
  BY DEF IInv, Phases
<1>3. \A q \in Pids : IF q = p THEN sub'[q] \in {"zombie", "free", "gone"}
                              ELSE sub'[q] = sub[q]
  BY DEF IInv, TypeOK, Freed
<1>4. Recorded'
  BY <1>3 DEF IInv, Recorded, Unsettled, Alive, InHand, HasNode
<1>5. Early'
  BY <1>3 DEF IInv, Early, Alive
<1>6. DeathNoticed'
  <2> SUFFICES ASSUME Up', NEW q \in Pids, sub'[q] = "zombie"
               PROVE  sigchld' \/ reaping' # {} \/ conn'[q] = 0
    BY DEF DeathNoticed, Zombies
  <2>1. Up
    BY DEF Up
  <2>2. CASE installed
    BY <2>1, <2>2
  <2>3. CASE ~installed
    BY <1>3, <2>1, <2>3 DEF IInv, Early, DeathNoticed, Zombies
  <2> QED  BY <2>2, <2>3
<1> QED  BY <1>1, <1>2, <1>4, <1>5, <1>6 DEF IInv

\* A step of the console that does not end the server.
LEMMA ConsoleStep ==
    ASSUME IInv, sigterm' \in SUBSET Pids, sigusr1' \in SUBSET Pids,
           console' \in {"prompt", "list", "queue", "kill"}, current' \in 0 .. Len(clients),
           console' # "prompt" => current' # NULL,
           UNCHANGED <<server, main, fdtable, clients, reaper, processes>>
    PROVE  IInv'
<1> USE DEF main, reaper, processes
<1>1. TypeOK'
  BY DEF IInv, TypeOK
<1>2. Phases' /\ Recorded' /\ Early'
  BY DEF IInv, Phases, Recorded, Unsettled, Alive, InHand, HasNode, Early
<1>3. DeathNoticed'
  BY DEF IInv, DeathNoticed, Up, Zombies
<1> QED  BY <1>1, <1>2, <1>3 DEF IInv

-----------------------------------------------------------------------------
(* The main thread.                                                        *)

\* accept() keeps the invariant.
LEMMA AcceptStep ==
    ASSUME IInv, Accept PROVE IInv'
<1> DEFINE f == Min(FreeFds)
<1>1. f \in Fds /\ newfd' = f /\ fdtable' = [fdtable EXCEPT ![f] = accepted]
  BY LeastFree DEF Accept
<1> HIDE DEF f
<1>2. accepted \in Nat /\ accepted \in Conns /\ accepted' = accepted + 1
  BY ServerAssumption DEF IInv, TypeOK, Accept, Conns
<1> USE DEF terminal, reaper, processes, signals
<1>3. TypeOK'
  <2>1. fdtable' \in [Fds -> Conns \cup {None}] /\ newfd' \in Fds \cup {None}
    BY <1>1, <1>2 DEF IInv, TypeOK
  <2>2. accepted' \in 0 .. MaxClients
    BY <1>2, ServerAssumption DEF Conns
  <2>3. acceptor' \in {"accept", "fork", "install", "insert"}
    BY DEF Accept
  <2> QED  BY <2>1, <2>2, <2>3 DEF IInv, TypeOK, Accept
<1>4. Phases'
  BY <1>1, <1>2 DEF IInv, Phases, Accept, At
<1>5. Recorded'
  BY DEF IInv, Recorded, Unsettled, Alive, InHand, HasNode, Accept
<1>6. Early'
  BY <1>2 DEF IInv, Early, Alive, Accept, At
<1>7. DeathNoticed'
  BY DEF IInv, DeathNoticed, Up, Zombies, Accept
<1> QED  BY <1>3, <1>4, <1>5, <1>6, <1>7 DEF IInv

\* fork() keeps it, with a pid that is new or was freed.
LEMMA ForkStep ==
    ASSUME IInv, NEW p \in Pids, Fork(p) PROVE IInv'
<1> USE DEF terminal, reaper, signals
<1>1. accepted - 1 \in Conns
  BY ServerAssumption DEF IInv, TypeOK, Phases, Fork, At, Conns
<1>2. TypeOK'
  BY <1>1 DEF IInv, TypeOK, Fork
<1>3. \A q \in Pids : q # p => sub'[q] = sub[q] /\ conn'[q] = conn[q]
  BY DEF IInv, TypeOK, Fork
<1>4. sub'[p] = "starting" /\ conn'[p] = accepted - 1
  BY DEF IInv, TypeOK, Fork
<1>5. Phases'
  BY ServerAssumption DEF IInv, Phases, Fork, At
<1>6. newpid = NoPid
  BY DEF IInv, Phases, Fork, At
<1>7. Recorded'
  BY <1>3, <1>6, ServerAssumption DEF IInv, Recorded, Unsettled, Alive, InHand, HasNode, Fork
<1>8. Early'
  BY <1>3, <1>4 DEF IInv, Early, Alive, Fork, At
<1>9. DeathNoticed'
  BY <1>3, <1>4 DEF IInv, DeathNoticed, Up, Zombies, Fork
<1> QED  BY <1>2, <1>5, <1>7, <1>8, <1>9 DEF IInv

\* sigaction() keeps it.
LEMMA InstallStep ==
    ASSUME IInv, Install PROVE IInv'
<1> USE DEF terminal, processes, signals, Install, At
<1>1. TypeOK'
  BY DEF IInv, TypeOK
<1>2. Phases'
  BY DEF IInv, Phases
<1>3. Recorded'
  BY DEF IInv, Recorded, Unsettled, Alive, InHand, HasNode
<1>4. Early'
  BY DEF Early
<1>5. DeathNoticed'
  BY DEF IInv, DeathNoticed, Up, Zombies
<1> QED  BY <1>1, <1>2, <1>3, <1>4, <1>5 DEF IInv

\* insertclient() keeps it.
LEMMA InsertStep ==
    ASSUME IInv, InsertClient PROVE IInv'
<1> DEFINE e == [clientno |-> accepted - 1, pid |-> newpid, fdsock |-> newfd, status |-> 1]
<1>1. e \in Client
  BY ServerAssumption DEF IInv, TypeOK, Phases, InsertClient, At, Client, Conns
<1>2. clients' = Append(clients, e)
  BY DEF InsertClient
<1>3. /\ \E i \in DOMAIN clients' : clients'[i].pid = newpid
      /\ \A p \in Pids : HasNode(p) => HasNode(p)'
  <2> HIDE DEF e
  <2>1. /\ Len(clients) \in Nat
        /\ DOMAIN clients = 1 .. Len(clients)
        /\ DOMAIN clients' = 1 .. Len(clients) + 1
        /\ \A i \in 1 .. Len(clients) : clients'[i] = clients[i]
        /\ clients'[Len(clients) + 1] = e
    BY <1>2, AppendResult DEF IInv
  <2>2. \A p \in Pids : HasNode(p) => HasNode(p)'
    BY <2>1 DEF HasNode
  <2>3. e.pid = newpid
    BY DEF e
  <2>4. \E i \in DOMAIN clients' : clients'[i].pid = newpid
    BY <2>1, <2>3
  <2> QED  BY <2>2, <2>4
<1> USE DEF terminal, reaper, processes, signals
<1>4. TypeOK'
  <2> HIDE DEF e
  <2>1. clients' \in Seq(Client) /\ Len(clients') = Len(clients) + 1 /\ Len(clients) \in Nat
    BY <1>1, <1>2 DEF IInv, TypeOK
  <2>2. current' \in 0 .. Len(clients')
    BY <2>1 DEF IInv, TypeOK, InsertClient
  <2> QED  BY <2>1, <2>2, ServerAssumption DEF IInv, TypeOK, InsertClient
<1>5. Phases'
  BY DEF Phases, InsertClient
<1>6. Recorded'
  BY <1>3 DEF IInv, Recorded, Unsettled, Alive, InHand, HasNode, InsertClient
<1>7. Early'
  BY DEF IInv, Early, Alive, InsertClient, At
<1>8. DeathNoticed'
  BY DEF IInv, DeathNoticed, Up, Zombies, InsertClient
<1> QED  BY <1>4, <1>5, <1>6, <1>7, <1>8 DEF IInv

-----------------------------------------------------------------------------
(* reap_subservers() and the subservers.                                   *)

\* The arrival of SIGCHLD keeps it.
LEMMA ArriveStep ==
    ASSUME IInv, NEW t \in Threads, SigchldArrives(t) PROVE IInv'
<1> USE DEF main, terminal, processes, signals, SigchldArrives
<1>1. TypeOK'
  <2>1. reaping' \in SUBSET Threads /\ sigchld' \in BOOLEAN
    BY DEF IInv, TypeOK
  <2>2. UNCHANGED <<server, main, terminal, fdtable, clients, installed, inhand,
                    processes, signals>>
    OBVIOUS
  <2> HIDE DEF SigchldArrives
  <2> QED  BY <2>1, <2>2 DEF IInv, TypeOK
<1>2. Phases' /\ Early'
  BY DEF IInv, Phases, Alive, Early
<1>3. Recorded'
  BY DEF IInv, Recorded, Unsettled, Alive, InHand, HasNode
<1>4. DeathNoticed'
  BY DEF DeathNoticed
<1> QED  BY <1>1, <1>2, <1>3, <1>4 DEF IInv

\* waitpid() in the handler keeps it.
LEMMA WaitStep ==
    ASSUME IInv, NEW t \in Threads, NEW p \in Pids, ReapWaits(t, p) PROVE IInv'
<1> USE DEF main, terminal, signals, ReapWaits
<1>1. TypeOK'
  BY DEF IInv, TypeOK, Freed
<1>2. \A q \in Pids : IF q = p THEN sub[q] = "zombie" /\ sub'[q] \in {"free", "gone"}
                              ELSE sub'[q] = sub[q]
  BY DEF IInv, TypeOK, Freed, Zombies
<1>3. \A q \in Pids : Unsettled(q)' => Unsettled(q)
  BY <1>2 DEF IInv, TypeOK, Unsettled, Alive, InHand
<1>4. Phases' /\ Recorded'
  BY <1>3 DEF IInv, Phases, Recorded, HasNode
<1>5. Early'
  BY <1>2 DEF IInv, Early, Alive
<1>6. DeathNoticed'
  BY <1>2 DEF IInv, DeathNoticed, Up, Zombies
<1> QED  BY <1>1, <1>4, <1>5, <1>6 DEF IInv

\* changeclientstatus() keeps it.
LEMMA ChangeStep ==
    ASSUME IInv, NEW t \in Threads, ChangeClientStatus(t) PROVE IInv'
<1> DEFINE i == SearchClientPid(inhand[t])
<1>1. i \in DOMAIN clients
  BY SearchClientPidResult DEF IInv, ChangeClientStatus
<1>2. /\ clients' = [clients EXCEPT ![i].status = 0]
      /\ fdtable' = [fdtable EXCEPT ![clients[i].fdsock] = None]
  BY DEF ChangeClientStatus
<1> HIDE DEF i
<1>3. /\ clients' \in Seq(Client)
      /\ Len(clients') = Len(clients)
      /\ DOMAIN clients' = DOMAIN clients
      /\ \A j \in DOMAIN clients : clients'[j].pid = clients[j].pid
  BY <1>1, <1>2, MarkResult DEF IInv
<1> USE DEF main, terminal, processes, signals, ChangeClientStatus
<1>4. TypeOK'
  <2>1. fdtable' \in [Fds -> Conns \cup {None}]
    BY <1>2 DEF IInv, TypeOK
  <2> QED  BY <1>3, <2>1 DEF IInv, TypeOK
<1>5. Phases' /\ Early'
  BY DEF IInv, Phases, Early, Alive
<1>6. Recorded'
  <2>1. \A p \in Pids : Unsettled(p)' => Unsettled(p)
    BY ServerAssumption DEF IInv, TypeOK, Unsettled, Alive, InHand
  <2> QED  BY <1>3, <2>1 DEF IInv, Recorded, HasNode
<1>7. DeathNoticed'
  BY DEF IInv, DeathNoticed, Up, Zombies
<1> QED  BY <1>4, <1>5, <1>6, <1>7 DEF IInv

\* The return of the handler keeps it.
LEMMA ReturnStep ==
    ASSUME IInv, NEW t \in Threads, ReapReturns(t) PROVE IInv'
<1> USE DEF main, terminal, processes, signals, ReapReturns
<1>1. TypeOK'
  BY DEF IInv, TypeOK
<1>2. Phases' /\ Recorded' /\ Early'
  BY DEF IInv, Phases, Recorded, Unsettled, Alive, InHand, HasNode, Early
<1>3. DeathNoticed'
  BY DEF DeathNoticed, Zombies
<1> QED  BY <1>1, <1>2, <1>3 DEF IInv

\* A subserver that begins to serve keeps it.
LEMMA ServeStep ==
    ASSUME IInv, NEW p \in Pids, Serve(p) PROVE IInv'
<1> USE DEF main, terminal, reaper, signals, Serve
<1>1. TypeOK'
  BY DEF IInv, TypeOK
<1>2. \A q \in Pids : IF q = p THEN sub[q] = "starting" /\ sub'[q] = "serving"
                              ELSE sub'[q] = sub[q]
  BY DEF IInv, TypeOK
<1>3. Phases' /\ Recorded'
  BY <1>2 DEF IInv, Phases, Recorded, Unsettled, Alive, InHand, HasNode
<1>4. Early'
  BY <1>2 DEF IInv, Early, Alive
<1>5. DeathNoticed'
  BY <1>2 DEF IInv, DeathNoticed, Up, Zombies
<1> QED  BY <1>1, <1>3, <1>4, <1>5 DEF IInv

-----------------------------------------------------------------------------
(* The console thread.                                                     *)

\* The next node is one of the list, or NULL.
LEMMA FollowResult ==
    ASSUME IInv, console \in {"list", "queue"}, Follow
    PROVE  /\ console' \in {"prompt", "list", "queue", "kill"}
           /\ current' \in 0 .. Len(clients)
           /\ console' # "prompt" => current' # NULL
<1>1. Len(clients) \in Nat /\ current \in 0 .. Len(clients) /\ current # 0
  BY DEF IInv, TypeOK, NULL
<1>2. current - 1 \in 0 .. Len(clients)
  BY <1>1
<1> QED  BY <1>2 DEF Follow

\* The walks of the console over the list keep it.
LEMMA WalkStep ==
    ASSUME IInv, List \/ ListConnected \/ ListDisconnected \/ ListQueues \/ DconKills
                 \/ \E n \in Conns : Dcon(n)
    PROVE  IInv'
<1>0. /\ Len(clients) \in Nat /\ current \in 0 .. Len(clients)
      /\ sigterm \in SUBSET Pids /\ sigusr1 \in SUBSET Pids
      /\ clients # <<>> => Len(clients) # 0
      /\ console # "prompt" => clients[current].pid \in Pids
  <2>1. clients \in Seq(Client)
    BY DEF IInv, TypeOK
  <2>2. console # "prompt" => current \in 1 .. Len(clients)
    BY <2>1 DEF IInv, TypeOK, NULL
  <2>3. \A i \in 1 .. Len(clients) : clients[i] \in Client
    BY <2>1
  <2> QED  BY <2>1, <2>2, <2>3 DEF IInv, TypeOK, Client
<1> USE DEF Walks, Typed, signals
<1>1. CASE List
  BY <1>0, <1>1, ConsoleStep DEF List, NULL
<1>2. CASE ListConnected
  BY <1>0, <1>2, ConsoleStep DEF ListConnected, IInv, TypeOK
<1>3. CASE ListDisconnected
  BY <1>0, <1>3, FollowResult, ConsoleStep DEF ListDisconnected
<1>4. CASE ListQueues
  BY <1>0, <1>4, FollowResult, ConsoleStep DEF ListQueues
<1>5. CASE DconKills
  BY <1>0, <1>5, ConsoleStep DEF DconKills, NULL
<1>6. ASSUME NEW n \in Conns, Dcon(n) PROVE IInv'
  <2>1. current' \in 0 .. Len(clients)
    BY <1>6, SearchClientResult DEF Dcon, IInv
  <2> QED  BY <1>0, <1>6, <2>1, ConsoleStep DEF Dcon
<1> QED  BY <1>1, <1>2, <1>3, <1>4, <1>5, <1>6

\* Every step keeps the inductive invariant.
LEMMA InvNext == IInv /\ [Next]_vars => IInv'
<1> SUFFICES ASSUME IInv, [Next]_vars PROVE IInv'
  OBVIOUS
<1>1. CASE Acceptor
  <2>1. ASSUME NEW p \in Pids, Fork(p) PROVE IInv'
    BY <2>1, ForkStep
  <2> QED  BY <1>1, <2>1, AcceptStep, InstallStep, InsertStep, EndStep
     DEF Acceptor, AcceptFails, ForkFails
<1>2. CASE Console
  <2>1. CASE DconBare \/ Exit
    BY <2>1, EndStep DEF DconBare, Exit
  <2> QED  BY <1>2, <2>1, WalkStep DEF Console
<1>3. CASE Listing \/ DconKills
  <2>1. CASE ListFails
    BY <2>1, EndStep DEF ListFails
  <2> QED  BY <1>3, <2>1, WalkStep DEF Listing
<1>4. ASSUME NEW t \in Threads, Reaper(t) PROVE IInv'
  <2>1. CASE ReaperCrashes(t)
    BY <2>1, EndStep DEF ReaperCrashes
  <2>2. ASSUME NEW p \in Pids, ReapWaits(t, p) PROVE IInv'
    BY <2>2, WaitStep
  <2> QED  BY <1>4, <2>1, <2>2, ArriveStep, ChangeStep, ReturnStep DEF Reaper
<1>5. ASSUME NEW p \in Pids, Sub(p) PROVE IInv'
  <2>1. CASE Serve(p)
    BY <2>1, ServeStep
  <2>2. CASE SubExits(p) \/ SubTerminated(p) \/ SubUsr1Kills(p)
    BY <2>2, SubEndStep DEF SubExits, SubTerminated, SubUsr1Kills, Alive
  <2>3. CASE SubPrints(p)
    BY <2>3, ConsoleStep DEF SubPrints, terminal, IInv, TypeOK
  <2> QED  BY <1>5, <2>1, <2>2, <2>3 DEF Sub
<1>6. CASE UNCHANGED vars
  BY <1>6, ConsoleStep DEF vars, terminal, signals, IInv, TypeOK
<1> QED  BY <1>1, <1>2, <1>3, <1>4, <1>5, <1>6 DEF Next, Stopped

\* The inductive invariant holds in every state.
LEMMA Invariant == Spec => []IInv
BY InvInit, InvNext, PTL DEF Spec

-----------------------------------------------------------------------------
\* Every variable of the server keeps its type, and the console's pointer
\* stays inside the list (server.c:37-311).
THEOREM ServerTypeCorrect == Spec => []TypeOK
<1>1. IInv => TypeOK
  BY DEF IInv
<1> QED  BY <1>1, Invariant, PTL

\* No death of a subserver is missed but that of the first client's
\* (server.c:114, 516-535).
THEOREM DeathsAreNoticed == Spec => []DeathNoticed
<1>1. IInv => DeathNoticed
  BY DEF IInv
<1> QED  BY <1>1, Invariant, PTL

\* changeclientstatus() writes through NULL for no subserver but the one that
\* main() has just forked (server.c:116, 1101).
THEOREM ReaperCrashesOnlyInFork == Spec => []ReaperFindsNode
<1>1. IInv => ReaperFindsNode
  <2> SUFFICES ASSUME IInv, NEW t \in Threads, inhand[t] # NoPid
               PROVE  SearchClientPid(inhand[t]) # NULL \/ inhand[t] = newpid
    BY DEF ReaperFindsNode
  <2>1. inhand[t] \in Pids /\ Unsettled(inhand[t])
    BY DEF IInv, TypeOK, Unsettled, InHand
  <2> QED  BY <2>1, SearchClientPidResult DEF IInv, Recorded
<1> QED  BY <1>1, Invariant, PTL

-----------------------------------------------------------------------------
(* When no pid is reused: the list, the processes and the descriptors.     *)

\* The list is that of all connections, in their order.
Numbered ==
    /\ Len(clients) = IF acceptor = "accept" THEN accepted ELSE accepted - 1
    /\ \A i \in DOMAIN clients : clients[i].clientno = i - 1

\* The pid of a node is that of the subserver of its connection: no pid is in
\* two nodes.
Forked ==
    /\ \A i \in DOMAIN clients : conn[clients[i].pid] = i - 1 /\ sub[clients[i].pid] # "free"
    /\ newpid # NoPid => conn[newpid] = accepted - 1 /\ sub[newpid] # "free"

\* No two threads have the same pid in hand, and nobody else ever gets it.
HeldOnce ==
    /\ \A t \in Threads : inhand[t] # NoPid => sub[inhand[t]] = "gone"
    /\ \A t, u \in Threads : (t # u /\ inhand[t] # NoPid) => inhand[t] # inhand[u]

\* A subserver is shown as connected until changeclientstatus() is done with it.
Statuses ==
    Up =>
        /\ \A i \in DOMAIN clients :
               IF clients[i].status = 1
               THEN sub[clients[i].pid] # "gone" \/ InHand(clients[i].pid)
               ELSE sub[clients[i].pid] = "gone" /\ ~InHand(clients[i].pid)
        /\ newpid # NoPid => sub[newpid] # "gone" \/ InHand(newpid)

\* A descriptor is open for the connection in hand or for a connected client.
Sockets ==
    Up =>
        /\ newfd # None => fdtable[newfd] = accepted - 1
        /\ \A i \in DOMAIN clients :
               clients[i].status = 1 => fdtable[clients[i].fdsock] = i - 1
        /\ \A f \in Fds :
               fdtable[f] # None =>
                   \/ f = newfd
                   \/ \E i \in DOMAIN clients : clients[i].status = 1 /\ clients[i].fdsock = f

OnceInv == Numbered /\ Forked /\ HeldOnce /\ Statuses /\ Sockets

\* What a node of the list consists of.
LEMMA NodeType ==
    ASSUME TypeOK
    PROVE  /\ Len(clients) \in Nat
           /\ DOMAIN clients = 1 .. Len(clients)
           /\ \A i \in DOMAIN clients :
                  /\ i \in Nat /\ i > 0
                  /\ clients[i].pid \in Pids
                  /\ clients[i].pid # NoPid
                  /\ clients[i].fdsock \in Fds
                  /\ clients[i].status \in {0, 1}
<1>1. clients \in Seq(Client)
  BY DEF TypeOK
<1>2. \A i \in 1 .. Len(clients) : clients[i] \in Client
  BY <1>1
<1> QED  BY <1>1, <1>2, ServerAssumption DEF Client

\* No pid is in two nodes, or in one and in the hand of main().
LEMMA PidsDiffer ==
    ASSUME TypeOK, Phases, Numbered, Forked
    PROVE  /\ \A i, j \in DOMAIN clients : clients[i].pid = clients[j].pid => i = j
           /\ \A i \in DOMAIN clients : clients[i].pid # newpid
<1>1. \A i, j \in DOMAIN clients : clients[i].pid = clients[j].pid => i = j
  <2> SUFFICES ASSUME NEW i \in DOMAIN clients, NEW j \in DOMAIN clients,
                      clients[i].pid = clients[j].pid
               PROVE  i = j
    OBVIOUS
  <2>1. i - 1 = j - 1
    BY DEF Forked
  <2> QED  BY <2>1, NodeType
<1>2. ASSUME NEW i \in DOMAIN clients, clients[i].pid = newpid PROVE FALSE
  <2>1. newpid # NoPid /\ i - 1 = accepted - 1
    BY <1>2, NodeType DEF Forked
  <2>2. acceptor # "accept" /\ Len(clients) = accepted - 1
    BY <2>1 DEF Phases, Numbered
  <2> QED  BY <2>1, <2>2, NodeType DEF TypeOK
<1> QED  BY <1>1, <1>2

\* The server as it is started.
LEMMA OnceInit == Init => OnceInv
<1> SUFFICES ASSUME Init PROVE OnceInv
  OBVIOUS
<1>1. DOMAIN clients = {} /\ Len(clients) = 0
  BY DEF Init
<1>2. Numbered /\ Forked
  BY <1>1 DEF Init, Numbered, Forked
<1>3. HeldOnce /\ Statuses
  BY <1>1 DEF Init, HeldOnce, Statuses
<1>4. Sockets
  BY <1>1 DEF Init, Sockets
<1> QED  BY <1>2, <1>3, <1>4 DEF OnceInv

\* A step in which processes run and end, and nothing else happens.
LEMMA OnceProcesses ==
    ASSUME IInv, OnceInv, UNCHANGED <<main, fdtable, clients, inhand, conn>>,
           Up' => Up,
           \A p \in Pids : /\ sub[p] # "free" => sub'[p] # "free"
                           /\ sub[p] = "gone" => sub'[p] = "gone"
                           /\ Up' /\ sub'[p] = "gone" => sub[p] = "gone"
    PROVE  OnceInv'
<1> USE DEF main
<1>1. Numbered'
  BY DEF OnceInv, Numbered
<1>2. newpid # NoPid => newpid \in Pids
  BY DEF IInv, TypeOK
<1>3. Forked'
  BY <1>2, NodeType DEF IInv, OnceInv, Forked
<1>4. HeldOnce'
  BY DEF IInv, TypeOK, OnceInv, HeldOnce
<1>5. Statuses'
  BY <1>2, NodeType DEF IInv, OnceInv, Statuses, InHand
<1>6. Sockets'
  BY DEF OnceInv, Sockets
<1> QED  BY <1>1, <1>3, <1>4, <1>5, <1>6 DEF OnceInv

\* The end of the server keeps what is known without pid reuse.
LEMMA OnceEnd ==
    ASSUME ~PidReuse, IInv, OnceInv,
           NEW why \in {"accept", "fork", "sigqueue", "reaper", "dcon", "exit"},
           ServerEnds(why)
    PROVE  OnceInv'
<1> USE DEF ServerEnds, main, reaper
<1>1. ~Up'
  BY DEF Up
<1>2. \A p \in Pids : sub'[p] = IF sub[p] = "zombie" THEN "gone" ELSE sub[p]
  BY DEF Freed
<1>3. Numbered'
  BY DEF OnceInv, Numbered
<1>4. newpid # NoPid => newpid \in Pids
  BY DEF IInv, TypeOK
<1>5. Forked'
  BY <1>2, <1>4, NodeType DEF IInv, OnceInv, Forked
<1>6. HeldOnce'
  BY <1>2 DEF IInv, TypeOK, OnceInv, HeldOnce
<1>7. Statuses' /\ Sockets'
  BY <1>1 DEF Statuses, Sockets
<1> QED  BY <1>3, <1>5, <1>6, <1>7 DEF OnceInv

\* accept() keeps it.
LEMMA OnceAccept ==
    ASSUME IInv, OnceInv, Accept PROVE OnceInv'
<1> DEFINE f == Min(FreeFds)
<1>1. /\ f \in Fds /\ fdtable[f] = None
      /\ newfd' = f /\ fdtable' = [fdtable EXCEPT ![f] = accepted]
  BY LeastFree DEF Accept
<1> HIDE DEF f
<1>2. accepted \in Nat /\ accepted' = accepted + 1 /\ acceptor = "accept" /\ acceptor' = "fork"
  BY DEF IInv, TypeOK, Accept, At
<1> USE DEF terminal, reaper, processes
<1>3. Numbered'
  BY <1>2 DEF OnceInv, Numbered, Accept
<1>4. Forked'
  BY <1>2 DEF IInv, Phases, OnceInv, Forked, Accept
<1>5. HeldOnce' /\ Statuses'
  BY DEF OnceInv, HeldOnce, Statuses, InHand, Up, Accept
<1>6. Sockets'
  <2> SUFFICES ASSUME Up PROVE Sockets'
    BY DEF Sockets, Up, Accept
  <2>1. \A g \in Fds : fdtable'[g] = IF g = f THEN accepted ELSE fdtable[g]
    BY <1>1 DEF IInv, TypeOK
  <2>2. newfd' # None => fdtable'[newfd'] = accepted' - 1
    BY <1>1, <1>2, <2>1
  <2>3. \A i \in DOMAIN clients :
            clients[i].status = 1 =>
                fdtable[clients[i].fdsock] = i - 1 /\ clients[i].fdsock # f
    BY <1>1, NodeType DEF IInv, OnceInv, Sockets, None
  <2>4. \A i \in DOMAIN clients : clients[i].status = 1 => fdtable'[clients[i].fdsock] = i - 1
    BY <2>1, <2>3, NodeType DEF IInv
  <2>5. newfd = None
    BY <1>2 DEF IInv, Phases
  <2>6. \A g \in Fds :
            fdtable'[g] # None =>
                \/ g = newfd'
                \/ \E i \in DOMAIN clients : clients[i].status = 1 /\ clients[i].fdsock = g
    BY <1>1, <2>1, <2>5, ServerAssumption DEF OnceInv, Sockets, None
  <2> QED  BY <2>2, <2>4, <2>6 DEF Sockets, Accept
<1> QED  BY <1>3, <1>4, <1>5, <1>6 DEF OnceInv

\* fork() keeps it.
LEMMA OnceFork ==
    ASSUME IInv, OnceInv, NEW p \in Pids, Fork(p) PROVE OnceInv'
<1> USE DEF terminal, reaper
<1>1. \A q \in Pids : q # p => sub'[q] = sub[q] /\ conn'[q] = conn[q]
  BY DEF IInv, TypeOK, Fork
<1>2. sub[p] = "free" /\ sub'[p] = "starting" /\ conn'[p] = accepted - 1 /\ newpid' = p
  BY DEF IInv, TypeOK, Fork
<1>3. acceptor = "fork" /\ acceptor' = "install" /\ newpid = NoPid /\ p # NoPid
  BY ServerAssumption DEF IInv, Phases, Fork, At
<1>4. \A i \in DOMAIN clients : clients[i].pid \in Pids /\ clients[i].pid # p
  BY <1>2, NodeType DEF IInv, OnceInv, Forked
<1>5. Numbered'
  BY <1>3 DEF OnceInv, Numbered, Fork
<1>6. Forked'
  BY <1>1, <1>2, <1>4 DEF OnceInv, Forked, Fork
<1>7. HeldOnce'
  BY <1>1, <1>2 DEF IInv, TypeOK, OnceInv, HeldOnce, Fork
<1>8. Statuses'
  BY <1>1, <1>2, <1>4 DEF OnceInv, Statuses, InHand, Up, Fork
<1>9. Sockets'
  BY DEF OnceInv, Sockets, Up, Fork
<1> QED  BY <1>5, <1>6, <1>7, <1>8, <1>9 DEF OnceInv

\* sigaction() keeps it.
LEMMA OnceInstall ==
    ASSUME IInv, OnceInv, Install PROVE OnceInv'
<1> USE DEF terminal, processes, Install, At
<1>1. Numbered' /\ Forked'
  BY DEF OnceInv, Numbered, Forked
<1>2. HeldOnce' /\ Statuses'
  BY DEF OnceInv, HeldOnce, Statuses, InHand, Up
<1>3. Sockets'
  BY DEF OnceInv, Sockets, Up
<1> QED  BY <1>1, <1>2, <1>3 DEF OnceInv

\* insertclient() keeps it.
LEMMA OnceInsert ==
    ASSUME IInv, OnceInv, InsertClient PROVE OnceInv'
<1> DEFINE e == [clientno |-> accepted - 1, pid |-> newpid, fdsock |-> newfd, status |-> 1]
           n == Len(clients)
<1>1. /\ e.clientno = accepted - 1 /\ e.pid = newpid /\ e.fdsock = newfd /\ e.status = 1
      /\ clients' = Append(clients, e)
  BY DEF InsertClient
<1> HIDE DEF e
<1>2. /\ n \in Nat /\ DOMAIN clients = 1 .. n
      /\ Len(clients') = n + 1 /\ DOMAIN clients' = 1 .. n + 1
      /\ \A i \in 1 .. n : clients'[i] = clients[i]
      /\ clients'[n + 1] = e
  BY <1>1, AppendResult DEF IInv
<1>3. /\ acceptor = "insert" /\ acceptor' = "accept" /\ accepted' = accepted
      /\ newpid' = NoPid /\ newfd' = None
      /\ newpid # NoPid /\ newfd # None /\ newfd \in Fds
      /\ accepted \in Nat /\ n = accepted - 1
  BY ServerAssumption DEF IInv, TypeOK, Phases, InsertClient, At, OnceInv, Numbered, None
<1> USE DEF terminal, reaper, processes
<1> HIDE DEF n
<1>4. Numbered'
  BY <1>1, <1>2, <1>3 DEF n, OnceInv, Numbered, InsertClient
<1>5. Forked'
  BY <1>1, <1>2, <1>3 DEF OnceInv, Forked, InsertClient
<1>6. HeldOnce'
  BY DEF OnceInv, HeldOnce, InsertClient
<1>7. Statuses'
  BY <1>1, <1>2, <1>3 DEF OnceInv, Statuses, InHand, Up, InsertClient
<1>8. Sockets'
  <2> SUFFICES ASSUME Up PROVE Sockets'
    BY DEF Sockets, Up, InsertClient
  <2>1. fdtable' = fdtable
    BY DEF InsertClient
  <2>2. \A i \in DOMAIN clients' : clients'[i].status = 1 => fdtable'[clients'[i].fdsock] = i - 1
    BY <1>1, <1>2, <1>3, <2>1 DEF OnceInv, Sockets
  <2>3. n + 1 \in DOMAIN clients' /\ clients'[n + 1].status = 1 /\ clients'[n + 1].fdsock = newfd
    BY <1>1, <1>2
  <2>4. \A f \in Fds : fdtable'[f] # None =>
            \E i \in DOMAIN clients' : clients'[i].status = 1 /\ clients'[i].fdsock = f
    <3> SUFFICES ASSUME NEW f \in Fds, fdtable[f] # None
                 PROVE  \E i \in DOMAIN clients' : clients'[i].status = 1 /\ clients'[i].fdsock = f
      BY <2>1
    <3>1. CASE f = newfd
      BY <2>3, <3>1
    <3>2. CASE f # newfd
      <4>1. PICK i \in DOMAIN clients : clients[i].status = 1 /\ clients[i].fdsock = f
        BY <3>2 DEF OnceInv, Sockets
      <4>2. i \in DOMAIN clients' /\ clients'[i] = clients[i]
        BY <1>2
      <4> QED  BY <4>1, <4>2
    <3> QED  BY <3>1, <3>2
  <2> QED  BY <1>3, <2>2, <2>4 DEF Sockets
<1> QED  BY <1>4, <1>5, <1>6, <1>7, <1>8 DEF OnceInv

\* waitpid() in the handler keeps it.
LEMMA OnceWaits ==
    ASSUME ~PidReuse, IInv, OnceInv, NEW t \in Threads, NEW p \in Pids, ReapWaits(t, p)
    PROVE  OnceInv'
<1> USE DEF main, terminal, signals
<1> DEFINE Held(q) == \E u \in Threads : inhand'[u] = q
<1>1. \A q \in Pids : sub'[q] = IF q = p THEN "gone" ELSE sub[q]
  BY DEF IInv, TypeOK, ReapWaits, Freed
<1>2. sub[p] = "zombie" /\ inhand[t] = NoPid /\ p # NoPid
  BY ServerAssumption DEF ReapWaits, Zombies, InLoop
<1>3. \A u \in Threads : inhand'[u] = IF u = t THEN p ELSE inhand[u]
  BY DEF IInv, TypeOK, ReapWaits
<1>4. \A q \in Pids : Held(q) <=> q = p \/ InHand(q)
  BY <1>2, <1>3, ServerAssumption DEF InHand
<1>5. newpid # NoPid => newpid \in Pids
  BY DEF IInv, TypeOK
<1>6. Numbered'
  BY DEF OnceInv, Numbered, ReapWaits
<1>7. Forked'
  BY <1>1, <1>5, NodeType DEF IInv, OnceInv, Forked, ReapWaits
<1>8. HeldOnce'
  <2>1. \A u \in Threads : inhand[u] # p
    BY <1>2 DEF OnceInv, HeldOnce
  <2>2. \A u \in Threads : inhand'[u] # NoPid => sub'[inhand'[u]] = "gone"
    BY <1>1, <1>3, <2>1 DEF IInv, TypeOK, OnceInv, HeldOnce
  <2> QED  BY <1>3, <2>1, <2>2 DEF OnceInv, HeldOnce
<1>9. Statuses'
  <2> SUFFICES ASSUME Up PROVE Statuses'
    BY DEF Statuses, Up, ReapWaits
  <2>1. newpid # NoPid => sub'[newpid] # "gone" \/ Held(newpid)
    BY <1>1, <1>4, <1>5 DEF OnceInv, Statuses
  <2>2. \A i \in DOMAIN clients :
            IF clients[i].status = 1
            THEN sub'[clients[i].pid] # "gone" \/ Held(clients[i].pid)
            ELSE sub'[clients[i].pid] = "gone" /\ ~Held(clients[i].pid)
    <3> TAKE i \in DOMAIN clients
    <3> DEFINE q == clients[i].pid
    <3>1. q \in Pids
      BY NodeType DEF IInv
    <3>2. /\ clients[i].status = 1 => sub[q] # "gone" \/ InHand(q)
          /\ clients[i].status # 1 => sub[q] = "gone" /\ ~InHand(q)
      BY DEF OnceInv, Statuses
    <3> HIDE DEF q
    <3>3. /\ clients[i].status = 1 => sub'[q] # "gone" \/ Held(q)
          /\ clients[i].status # 1 => sub'[q] = "gone" /\ ~Held(q)
      BY <1>1, <1>2, <1>4, <3>1, <3>2
    <3> QED  BY <3>3 DEF q
  <2>3. clients' = clients /\ newpid' = newpid
    BY DEF ReapWaits
  <2> QED  BY <2>1, <2>2, <2>3 DEF Statuses, InHand
<1>10. Sockets'
  BY DEF OnceInv, Sockets, Up, ReapWaits
<1> QED  BY <1>6, <1>7, <1>8, <1>9, <1>10 DEF OnceInv

\* What changeclientstatus() does: its node is that of a connected client, whose
\* descriptor it closes.
LEMMA ChangeResult ==
    ASSUME IInv, OnceInv, NEW t \in Threads, ChangeClientStatus(t)
    PROVE  \E i \in DOMAIN clients :
               /\ clients[i].pid = inhand[t]
               /\ clients[i].status = 1
               /\ sub[clients[i].pid] = "gone"
               /\ fdtable[clients[i].fdsock] = i - 1
               /\ clients' = [clients EXCEPT ![i].status = 0]
               /\ fdtable' = [fdtable EXCEPT ![clients[i].fdsock] = None]
               /\ inhand' = [inhand EXCEPT ![t] = NoPid]
               /\ Up /\ Up'
               /\ UNCHANGED <<main, processes>>
<1> DEFINE i == SearchClientPid(inhand[t])
<1>1. i \in DOMAIN clients /\ clients[i].pid = inhand[t]
  BY SearchClientPidResult DEF IInv, ChangeClientStatus
<1>2. /\ clients' = [clients EXCEPT ![i].status = 0]
      /\ fdtable' = [fdtable EXCEPT ![clients[i].fdsock] = None]
      /\ inhand' = [inhand EXCEPT ![t] = NoPid]
      /\ Up /\ Up' /\ inhand[t] # NoPid
      /\ UNCHANGED <<main, processes>>
  BY DEF ChangeClientStatus, Up
<1> HIDE DEF i
<1>3. sub[clients[i].pid] = "gone" /\ InHand(clients[i].pid)
  BY <1>1, <1>2 DEF OnceInv, HeldOnce, InHand
<1>4. clients[i].status = 1
  BY <1>1, <1>2, <1>3 DEF OnceInv, Statuses
<1>5. fdtable[clients[i].fdsock] = i - 1
  BY <1>1, <1>2, <1>4 DEF OnceInv, Sockets
<1> QED  BY <1>1, <1>2, <1>3, <1>4, <1>5

\* changeclientstatus() keeps it.
LEMMA OnceChange ==
    ASSUME IInv, OnceInv, NEW t \in Threads, ChangeClientStatus(t)
    PROVE  OnceInv'
<1>1. PICK i \in DOMAIN clients :
          /\ clients[i].pid = inhand[t]
          /\ clients[i].status = 1
          /\ sub[clients[i].pid] = "gone"
          /\ fdtable[clients[i].fdsock] = i - 1
          /\ clients' = [clients EXCEPT ![i].status = 0]
          /\ fdtable' = [fdtable EXCEPT ![clients[i].fdsock] = None]
          /\ inhand' = [inhand EXCEPT ![t] = NoPid]
          /\ Up /\ Up'
          /\ UNCHANGED <<main, processes>>
  BY ChangeResult
<1> DEFINE f == clients[i].fdsock
           Held(q) == \E u \in Threads : inhand'[u] = q
<1>2. /\ Len(clients') = Len(clients)
      /\ DOMAIN clients' = DOMAIN clients
      /\ \A j \in DOMAIN clients :
             /\ clients'[j].pid = clients[j].pid
             /\ clients'[j].clientno = clients[j].clientno
             /\ clients'[j].fdsock = clients[j].fdsock
             /\ clients'[j].status = IF j = i THEN 0 ELSE clients[j].status
  BY <1>1, MarkResult DEF IInv
<1>3. f \in Fds /\ fdtable[f] = i - 1 /\ i \in Nat /\ i > 0
  BY <1>1, NodeType DEF IInv
<1>4. \A g \in Fds : fdtable'[g] = IF g = f THEN None ELSE fdtable[g]
  BY <1>1 DEF IInv, TypeOK
<1> HIDE DEF f
<1>5. \A u \in Threads : inhand'[u] = IF u = t THEN NoPid ELSE inhand[u]
  BY <1>1 DEF IInv, TypeOK
<1>6. sub' = sub /\ conn' = conn /\ accepted' = accepted /\ acceptor' = acceptor
      /\ newpid' = newpid /\ newfd' = newfd
  BY <1>1 DEF main, processes
<1>7. Numbered'
  BY <1>2, <1>6 DEF OnceInv, Numbered
<1>8. Forked'
  BY <1>2, <1>6 DEF OnceInv, Forked
<1>9. HeldOnce'
  BY <1>5, <1>6 DEF OnceInv, HeldOnce
<1>10. inhand[t] \in Pids /\ inhand[t] # NoPid
  BY <1>1, NodeType DEF IInv
<1>11. \A q \in Pids : Held(q) <=> q # inhand[t] /\ InHand(q)
  BY <1>5, <1>10, ServerAssumption DEF OnceInv, HeldOnce, InHand
<1>12. Statuses'
  <2>1. newpid # NoPid => newpid \in Pids /\ newpid # inhand[t]
    BY <1>1, PidsDiffer DEF IInv, TypeOK, OnceInv
  <2>2. newpid' # NoPid => sub'[newpid'] # "gone" \/ Held(newpid')
    <3>1. newpid # NoPid => sub[newpid] # "gone" \/ Held(newpid)
      BY <1>1, <1>11, <2>1 DEF OnceInv, Statuses
    <3> QED  BY <1>6, <3>1
  <2>3. ASSUME NEW j \in DOMAIN clients
        PROVE  IF clients'[j].status = 1
               THEN sub'[clients'[j].pid] # "gone" \/ Held(clients'[j].pid)
               ELSE sub'[clients'[j].pid] = "gone" /\ ~Held(clients'[j].pid)
    <3>1. clients[j].pid \in Pids
      BY NodeType DEF IInv
    <3>2. j # i => clients[j].pid # inhand[t]
      BY <1>1, PidsDiffer DEF IInv, OnceInv
    <3>3. IF clients'[j].status = 1
          THEN sub[clients[j].pid] # "gone" \/ Held(clients[j].pid)
          ELSE sub[clients[j].pid] = "gone" /\ ~Held(clients[j].pid)
      BY <1>1, <1>2, <1>11, <3>1, <3>2 DEF OnceInv, Statuses
    <3> QED  BY <1>2, <1>6, <3>3
  <2> QED  BY <1>2, <2>2, <2>3 DEF Statuses, InHand
<1>13. Sockets'
  <2>1. newfd # None => newfd # f
    <3> SUFFICES ASSUME newfd # None, newfd = f PROVE FALSE
      OBVIOUS
    <3>1. i - 1 = accepted - 1
      BY <1>1, <1>3 DEF OnceInv, Sockets
    <3>2. Len(clients) = accepted - 1
      BY DEF IInv, Phases, OnceInv, Numbered
    <3> QED  BY <1>3, <3>1, <3>2, NodeType DEF IInv, TypeOK
  <2>2. newfd' # None => fdtable'[newfd'] = accepted' - 1
    BY <1>1, <1>4, <1>6, <2>1 DEF IInv, TypeOK, OnceInv, Sockets
  <2>3. ASSUME NEW j \in DOMAIN clients, clients'[j].status = 1
        PROVE  fdtable'[clients'[j].fdsock] = j - 1
    <3>1. j # i /\ clients[j].status = 1 /\ clients'[j].fdsock = clients[j].fdsock
      BY <1>2, <2>3
    <3>2. fdtable[clients[j].fdsock] = j - 1 /\ clients[j].fdsock \in Fds
      BY <1>1, <3>1, NodeType DEF IInv, OnceInv, Sockets
    <3>3. clients[j].fdsock # f
      BY <1>3, <3>1, <3>2, NodeType DEF IInv
    <3> QED  BY <1>4, <3>1, <3>2, <3>3
  <2>4. ASSUME NEW g \in Fds, fdtable'[g] # None
        PROVE  \/ g = newfd'
               \/ \E j \in DOMAIN clients' : clients'[j].status = 1 /\ clients'[j].fdsock = g
    <3>1. g # f /\ fdtable[g] # None
      BY <1>4, <2>4
    <3>2. CASE g = newfd
      BY <1>6, <3>2
    <3>3. CASE g # newfd
      <4>1. PICK j \in DOMAIN clients : clients[j].status = 1 /\ clients[j].fdsock = g
        BY <1>1, <3>1, <3>3 DEF OnceInv, Sockets
      <4>2. j # i
        BY <3>1, <4>1 DEF f
      <4> QED  BY <1>2, <4>1, <4>2
    <3> QED  BY <3>2, <3>3
  <2> QED  BY <1>2, <2>2, <2>3, <2>4 DEF Sockets
<1> QED  BY <1>7, <1>8, <1>9, <1>12, <1>13 DEF OnceInv

\* Every step keeps it.
LEMMA OnceNext ==
    ASSUME ~PidReuse, IInv, OnceInv, [Next]_vars
    PROVE  OnceInv'
<1> USE DEF main, terminal, reaper, processes, signals
<1>1. CASE Acceptor
  <2>1. ASSUME NEW p \in Pids, Fork(p) PROVE OnceInv'
    BY <2>1, OnceFork
  <2>2. CASE AcceptFails \/ ForkFails
    BY <2>2, OnceEnd DEF AcceptFails, ForkFails
  <2> QED  BY <1>1, <2>1, <2>2, OnceAccept, OnceInstall, OnceInsert DEF Acceptor
<1>2. CASE DconBare \/ Exit \/ ListFails
  BY <1>2, OnceEnd DEF DconBare, Exit, ListFails
<1>3. CASE List \/ (\E n \in Conns : Dcon(n)) \/ ListConnected \/ ListDisconnected
           \/ ListQueues \/ DconKills \/ UNCHANGED vars
  <2>1. UNCHANGED <<server, main, fdtable, clients, inhand, processes>>
    BY <1>3 DEF List, Dcon, ListConnected, ListDisconnected, ListQueues, DconKills, vars
  <2> QED  BY <2>1, OnceProcesses DEF Up
<1>4. ASSUME NEW t \in Threads, Reaper(t) PROVE OnceInv'
  <2>1. CASE ReaperCrashes(t)
    BY <2>1, OnceEnd DEF ReaperCrashes
  <2>2. ASSUME NEW p \in Pids, ReapWaits(t, p) PROVE OnceInv'
    BY <2>2, OnceWaits
  <2>3. CASE SigchldArrives(t) \/ ReapReturns(t)
    <3>1. UNCHANGED <<server, main, fdtable, clients, inhand, processes>>
      BY <2>3 DEF SigchldArrives, ReapReturns
    <3> QED  BY <3>1, OnceProcesses DEF Up
  <2> QED  BY <1>4, <2>1, <2>2, <2>3, OnceChange DEF Reaper
<1>5. ASSUME NEW p \in Pids, Sub(p) PROVE OnceInv'
  <2>1. CASE SubEnds(p) /\ Alive(p)
    <3>1. \A q \in Pids : IF q = p THEN sub[q] \in {"starting", "serving"}
                                        /\ sub'[q] = IF Up THEN "zombie" ELSE "gone"
                                   ELSE sub'[q] = sub[q]
      BY <2>1 DEF IInv, TypeOK, SubEnds, Alive, Freed
    <3>2. UNCHANGED <<server, main, fdtable, clients, inhand, conn>>
      BY <2>1 DEF SubEnds
    <3> QED  BY <3>1, <3>2, OnceProcesses DEF Up
  <2>2. CASE Serve(p)
    <3>1. \A q \in Pids : IF q = p THEN sub[q] = "starting" /\ sub'[q] = "serving"
                                   ELSE sub'[q] = sub[q]
      BY <2>2 DEF IInv, TypeOK, Serve
    <3>2. UNCHANGED <<server, main, fdtable, clients, inhand, conn>>
      BY <2>2 DEF Serve
    <3> QED  BY <3>1, <3>2, OnceProcesses DEF Up
  <2>3. CASE SubPrints(p)
    <3>1. UNCHANGED <<server, main, fdtable, clients, inhand, processes>>
      BY <2>3 DEF SubPrints
    <3> QED  BY <3>1, OnceProcesses DEF Up
  <2> QED  BY <1>5, <2>1, <2>2, <2>3 DEF Sub, SubExits, SubTerminated, SubUsr1Kills, Alive
<1> QED  BY <1>1, <1>2, <1>3, <1>4, <1>5 DEF Next, Console, Listing, Stopped

\* As long as no pid is reused.
Once == ~PidReuse => OnceInv

\* Unless pids are reused, it holds in every state.
LEMMA OnceInvariant == Spec => []Once
<1>1. Init => Once
  BY OnceInit DEF Once
<1>2. IInv /\ Once /\ [Next]_vars => Once'
  BY OnceNext DEF Once
<1> QED  BY <1>1, <1>2, Invariant, PTL DEF Spec

\* As long as no pid is reused the list shows every client as connected
\* exactly until its subserver has been reaped (server.c:1098-1105).
THEOREM StatusIsAccurate == Spec => []StatusAccurate
<1>1. IInv /\ Once => StatusAccurate
  BY DEF Once, OnceInv, Statuses, StatusAccurate
<1> QED  BY <1>1, Invariant, OnceInvariant, PTL

\* As long as no pid is reused changeclientstatus() closes the right descriptor,
\* and none leaks (server.c:1102).
THEOREM SocketsAreRight == Spec => []SocketsMatch
<1>1. IInv /\ Once => SocketsMatch
  <2> SUFFICES ASSUME IInv, OnceInv, Up, NEW f \in Fds
               PROVE  fdtable[f] =
                          IF f = newfd THEN accepted - 1
                          ELSE IF \E e \in Range(clients) : e.fdsock = f /\ e.status = 1
                          THEN (CHOOSE e \in Range(clients) :
                                   e.fdsock = f /\ e.status = 1).clientno
                          ELSE None
    BY DEF Once, SocketsMatch
  <2>1. Range(clients) = {clients[i] : i \in DOMAIN clients}
    BY DEF Range
  <2>2. CASE f = newfd
    BY <2>2, ServerAssumption DEF OnceInv, Sockets, None
  <2>3. CASE f # newfd /\ \E e \in Range(clients) : e.fdsock = f /\ e.status = 1
    <3> DEFINE e == CHOOSE e \in Range(clients) : e.fdsock = f /\ e.status = 1
    <3>1. e \in Range(clients) /\ e.fdsock = f /\ e.status = 1
      BY <2>3
    <3> HIDE DEF e
    <3>2. PICK i \in DOMAIN clients : e = clients[i]
      BY <2>1, <3>1
    <3>3. fdtable[f] = i - 1 /\ e.clientno = i - 1
      BY <3>1, <3>2 DEF OnceInv, Sockets, Numbered
    <3> QED  BY <2>3, <3>3 DEF e
  <2>4. CASE f # newfd /\ ~\E e \in Range(clients) : e.fdsock = f /\ e.status = 1
    BY <2>1, <2>4 DEF OnceInv, Sockets
  <2> QED  BY <2>2, <2>3, <2>4
<1> QED  BY <1>1, Invariant, OnceInvariant, PTL
=============================================================================
