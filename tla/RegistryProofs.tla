--------------------------- MODULE RegistryProofs ---------------------------
(***************************************************************************)
(* The server implements Registry for any number of pids, descriptors and  *)
(* connections, as long as no pid is reused: every step of Server is a     *)
(* step of Registry, or leaves all that Registry speaks of as it is.       *)
(***************************************************************************)
EXTENDS ServerProofs

-----------------------------------------------------------------------------
(* What the server shows of itself to its clients.                         *)

\* The stage of connection c, read off the list by its number.
Stage(c) ==
    IF c < Len(clients) THEN IF clients[c + 1].status = 1 THEN "connected" ELSE "left"
    ELSE IF c >= accepted THEN "none"
    ELSE IF acceptor = "fork" THEN "accepted" ELSE "begun"

Served == {conn[p] : p \in Unreaped}

\* The node of connection c is the one after c others, if the list is as long.
LEMMA NodeOfResult ==
    ASSUME TypeOK, Numbered, NEW c \in Conns
    PROVE  NodeOf(c) = IF c < Len(clients) THEN c + 1 ELSE NULL
<1> DEFINE I == {i \in 1 .. Len(clients) : clients[i].clientno = c}
<1>1. NodeOf(c) = IF I # {} THEN Min(I) ELSE 0
  BY DEF NodeOf, SelectInSeq
<1>2. c \in Nat /\ Len(clients) \in Nat /\ DOMAIN clients = 1 .. Len(clients)
  BY NodeType, ServerAssumption DEF Conns
<1>3. \A i \in I : i = c + 1
  BY <1>2 DEF Numbered
<1>4. CASE c < Len(clients)
  <2>1. I \in SUBSET Nat /\ c + 1 \in I
    BY <1>2, <1>4 DEF Numbered
  <2>2. Min(I) \in I
    <3> HIDE DEF I
    <3> QED  BY <2>1, MinIsLeast
  <2> HIDE DEF I
  <2> QED  BY <1>1, <1>3, <1>4, <2>1, <2>2
<1>5. CASE ~(c < Len(clients))
  <2>1. I = {}
    BY <1>2, <1>3, <1>5
  <2> QED  BY <1>1, <1>5, <2>1 DEF NULL
<1> QED  BY <1>4, <1>5

\* The two ways to tell the stage of a connection agree.
LEMMA StageResult ==
    IInv /\ OnceInv => \A c \in Conns : StageOf(c) = Stage(c)
<1> SUFFICES ASSUME IInv, OnceInv, NEW c \in Conns PROVE StageOf(c) = Stage(c)
  OBVIOUS
<1>1. c \in Nat /\ Len(clients) \in Nat
  BY NodeType, ServerAssumption DEF IInv, Conns
<1>2. NodeOf(c) = IF c < Len(clients) THEN c + 1 ELSE NULL
  BY NodeOfResult DEF IInv, OnceInv
<1> QED  BY <1>1, <1>2 DEF StageOf, Stage, NULL

\* No two subservers that have not been reaped are for the same connection: one
\* that is in the list, or the one that main() has just forked a process for.
LEMMA ServedOnce ==
    ASSUME IInv, OnceInv
    PROVE  /\ \A p \in Unreaped : conn[p] \in Conns
           /\ \A p, q \in Unreaped : conn[p] = conn[q] => p = q
<1>1. /\ Len(clients) \in Nat /\ DOMAIN clients = 1 .. Len(clients)
      /\ accepted \in 0 .. MaxClients /\ MaxClients \in Nat
      /\ \A i \in DOMAIN clients : i \in Nat /\ i > 0
  BY NodeType, ServerAssumption DEF IInv, TypeOK
<1>2. Len(clients) = IF acceptor = "accept" THEN accepted ELSE accepted - 1
  BY DEF OnceInv, Numbered
<1>3. newpid # NoPid => acceptor # "accept"
  BY DEF IInv, Phases
<1>4. ASSUME NEW p \in Unreaped
      PROVE  \/ p = newpid /\ newpid # NoPid /\ conn[p] = accepted - 1
             \/ \E i \in DOMAIN clients : p = clients[i].pid /\ conn[p] = i - 1
  <2>1. p \in Pids /\ p # NoPid /\ (p = newpid \/ HasNode(p))
    BY ServerAssumption DEF Unreaped, IInv, Recorded, Unsettled
  <2> QED  BY <2>1 DEF HasNode, OnceInv, Forked
<1>5. newpid # NoPid => accepted - 1 \in Conns
  BY <1>1, <1>3 DEF IInv, Phases, Conns
<1>6. \A i \in DOMAIN clients : i - 1 \in Conns /\ (newpid # NoPid => i - 1 # accepted - 1)
  BY <1>1, <1>2, <1>3 DEF Conns
<1>7. \A p \in Unreaped : conn[p] \in Conns
  BY <1>4, <1>5, <1>6
<1>8. ASSUME NEW p \in Unreaped, NEW q \in Unreaped, conn[p] = conn[q]
      PROVE  p = q
  <2>1. CASE \E i \in DOMAIN clients : p = clients[i].pid /\ conn[p] = i - 1
    <3>1. PICK i \in DOMAIN clients : p = clients[i].pid /\ conn[p] = i - 1
      BY <2>1
    <3>2. PICK j \in DOMAIN clients : q = clients[j].pid /\ conn[q] = j - 1
      BY <1>4, <1>6, <1>8, <3>1
    <3>3. i = j
      BY <1>1, <1>8, <3>1, <3>2
    <3> QED  BY <3>1, <3>2, <3>3
  <2>2. CASE p = newpid /\ newpid # NoPid /\ conn[p] = accepted - 1
    BY <1>4, <1>6, <1>8, <2>2
  <2> QED  BY <1>4, <2>1, <2>2
<1> QED  BY <1>7, <1>8

-----------------------------------------------------------------------------
(* Steps of Registry.                                                      *)

\* What the variables of Registry stand for, in terms that the steps below use.
LEMMA Stages ==
    IInv /\ OnceInv => [c \in Conns |-> StageOf(c)] = [c \in Conns |-> Stage(c)]
BY StageResult

\* The same of the next state.
LEMMA StagesNext ==
    (IInv /\ OnceInv)' => ([c \in Conns |-> StageOf(c)] = [c \in Conns |-> Stage(c)])'
<1>1. (IInv /\ OnceInv) => [c \in Conns |-> StageOf(c)] = [c \in Conns |-> Stage(c)]
  BY Stages
<1> QED  BY <1>1, PTL

\* A step that moves one connection on is a move of the registry.
LEMMA MoveResult ==
    ASSUME IInv, OnceInv, IInv', OnceInv',
           NEW c \in Conns, NEW from, NEW to,
           Stage(c) = from, Stage(c)' = to,
           \A d \in Conns : d # c => Stage(d)' = Stage(d)
    PROVE  TheRegistry!Move(c, from, to)
<1>1. [d \in Conns |-> StageOf(d)] = [d \in Conns |-> Stage(d)]
  BY Stages
<1>2. ([d \in Conns |-> StageOf(d)] = [d \in Conns |-> Stage(d)])'
  BY StagesNext
<1>3. [d \in Conns |-> StageOf(d)]' = [d \in Conns |-> Stage(d)']
  BY <1>2
<1>4. [d \in Conns |-> Stage(d)'] = [[d \in Conns |-> Stage(d)] EXCEPT ![c] = to]
  <2> HIDE DEF Stage
  <2> QED  OBVIOUS
<1> QED  BY <1>1, <1>3, <1>4 DEF TheRegistry!Move

\* Only processes, commands and signals, nothing a client can see.
LEMMA StageStays ==
    ASSUME IInv, OnceInv, IInv', OnceInv',
           \A d \in Conns : Stage(d)' = Stage(d)
    PROVE  [c \in Conns |-> StageOf(c)]' = [c \in Conns |-> StageOf(c)]
<1>1. ([d \in Conns |-> StageOf(d)] = [d \in Conns |-> Stage(d)])'
  BY StagesNext
<1> QED  BY <1>1, Stages

\* accept() lets a connection arrive.
LEMMA StepArrives ==
    ASSUME IInv, OnceInv, IInv', OnceInv', Accept PROVE TheRegistry!Next
<1>1. PICK c \in Conns : c = accepted
  BY ServerAssumption DEF IInv, TypeOK, Accept, Conns
<1>2. /\ c \in Nat /\ c # None
      /\ acceptor = "accept" /\ acceptor' = "fork" /\ accepted = c /\ accepted' = c + 1
      /\ clients' = clients /\ sub' = sub /\ conn' = conn /\ server' = server
      /\ Up
  BY <1>1 DEF IInv, TypeOK, Accept, At, processes, None
<1>3. Len(clients) = c /\ \A d \in Conns : d \in Nat
  BY <1>2 DEF OnceInv, Numbered, Conns
<1> DEFINE f == Min(FreeFds)
<1>4. f \in Fds /\ fdtable[f] = None /\ fdtable' = [fdtable EXCEPT ![f] = c]
  BY <1>2, LeastFree DEF Accept
<1> HIDE DEF f
<1>5. Stage(c) = "none" /\ Stage(c)' = "accepted"
  BY <1>2, <1>3 DEF Stage
<1>6. \A d \in Conns : d # c => Stage(d)' = Stage(d)
  BY <1>2, <1>3 DEF Stage
<1>7. TheRegistry!Move(c, "none", "accepted")
  BY <1>5, <1>6, MoveResult
<1>8. \A d \in Conns : IF d < c THEN Stage(d) \in {"connected", "left"}
                               ELSE Stage(d) = "none"
  BY <1>2, <1>3 DEF Stage
<1>9. \A g \in Fds : fdtable'[g] = IF g = f THEN c ELSE fdtable[g]
  BY <1>4 DEF IInv, TypeOK
<1>10. OpenConns' = OpenConns \cup {c}
  BY <1>2, <1>4, <1>9 DEF OpenConns, FreeFds
<1>11. UNCHANGED <<Up, {conn[p] : p \in Unreaped}>>
  BY <1>2 DEF Up, Unreaped, Alive
<1>12. \A d \in Conns : [e \in Conns |-> StageOf(e)][d] = Stage(d)
  BY StageResult
<1>13. TheRegistry!Arrive(c)
  BY <1>2, <1>7, <1>8, <1>10, <1>11, <1>12 DEF TheRegistry!Arrive
<1> QED  BY <1>13 DEF TheRegistry!Next

\* fork() begins to serve it.
LEMMA StepBegins ==
    ASSUME IInv, OnceInv, IInv', OnceInv', NEW p \in Pids, Fork(p)
    PROVE  TheRegistry!Next
<1>0. PICK c \in Conns : c = accepted - 1
  BY ServerAssumption DEF IInv, TypeOK, Phases, Fork, At, Conns
<1>1. /\ accepted \in Nat /\ accepted > 0 /\ accepted <= MaxClients /\ MaxClients \in Nat
      /\ acceptor = "fork" /\ acceptor' = "install" /\ accepted' = accepted
      /\ clients' = clients /\ fdtable' = fdtable /\ server' = server
      /\ Up /\ accepted = c + 1
  BY <1>0, ServerAssumption DEF IInv, TypeOK, Phases, Fork, At, Conns
<1>2. Len(clients) = c
  BY <1>1 DEF OnceInv, Numbered, Conns
<1>3. c \in Nat /\ \A d \in Conns : d \in Nat
  BY <1>1 DEF Conns
<1>4. Stage(c) = "accepted" /\ Stage(c)' = "begun"
  BY <1>1, <1>2 DEF Stage
<1>5. \A d \in Conns : d # c => Stage(d)' = Stage(d)
  BY <1>1, <1>2, <1>3 DEF Stage
<1>6. TheRegistry!Move(c, "accepted", "begun")
  BY <1>4, <1>5, MoveResult
<1>7. /\ sub[p] = "free"
      /\ \A q \in Pids : sub'[q] = IF q = p THEN "starting" ELSE sub[q]
      /\ \A q \in Pids : conn'[q] = IF q = p THEN c ELSE conn[q]
  BY <1>0 DEF IInv, TypeOK, Fork
<1>8. Unreaped' = Unreaped \cup {p} /\ p \notin Unreaped
  BY <1>7 DEF Unreaped, Alive
<1>9. {conn[q] : q \in Unreaped}' = {conn[q] : q \in Unreaped} \cup {c}
  BY <1>7, <1>8 DEF Unreaped
<1>10. UNCHANGED <<Up, OpenConns>>
  BY <1>1 DEF Up, OpenConns, FreeFds
<1>11. TheRegistry!Begin(c)
  BY <1>1, <1>6, <1>9, <1>10 DEF TheRegistry!Begin
<1> QED  BY <1>11 DEF TheRegistry!Next

\* insertclient() enters it.
LEMMA StepEnters ==
    ASSUME IInv, OnceInv, IInv', OnceInv', InsertClient PROVE TheRegistry!Next
<1>0. PICK c \in Conns : c = accepted - 1
  BY ServerAssumption DEF IInv, TypeOK, Phases, InsertClient, At, Conns
<1> DEFINE e == [clientno |-> accepted - 1, pid |-> newpid, fdsock |-> newfd, status |-> 1]
<1>1. /\ accepted \in Nat /\ accepted > 0 /\ accepted <= MaxClients /\ MaxClients \in Nat
      /\ acceptor = "insert" /\ acceptor' = "accept" /\ accepted' = accepted
      /\ sub' = sub /\ conn' = conn /\ fdtable' = fdtable /\ server' = server
      /\ Up /\ accepted = c + 1
  BY <1>0, ServerAssumption DEF IInv, TypeOK, Phases, InsertClient, At, Conns, processes
<1>2. Len(clients) = c
  BY <1>1 DEF OnceInv, Numbered, Conns
<1>3. e.status = 1 /\ clients' = Append(clients, e)
  BY DEF InsertClient
<1> HIDE DEF e
<1>4. /\ Len(clients) \in Nat /\ Len(clients') = Len(clients) + 1
      /\ \A i \in 1 .. Len(clients) : clients'[i] = clients[i]
      /\ clients'[Len(clients) + 1] = e
  BY <1>3, AppendResult DEF IInv
<1>5. c \in Nat /\ \A d \in Conns : d \in Nat
  BY <1>1 DEF Conns
<1>6. Stage(c) = "begun" /\ Stage(c)' = "connected"
  BY <1>1, <1>2, <1>3, <1>4 DEF Stage
<1>7. \A d \in Conns : d # c => Stage(d)' = Stage(d)
  BY <1>1, <1>2, <1>4, <1>5 DEF Stage
<1>8. TheRegistry!Move(c, "begun", "connected")
  BY <1>6, <1>7, MoveResult
<1>9. UNCHANGED <<Up, {conn[p] : p \in Unreaped}, OpenConns>>
  BY <1>1 DEF Up, Unreaped, Alive, OpenConns, FreeFds
<1>10. TheRegistry!Enter(c)
  BY <1>1, <1>8, <1>9 DEF TheRegistry!Enter
<1> QED  BY <1>10 DEF TheRegistry!Next

\* A pid stops to exist, and nothing else that a client could see happens.
LEMMA StepDeparts ==
    ASSUME IInv, OnceInv, IInv', OnceInv', NEW p \in Unreaped,
           UNCHANGED <<Up, main, fdtable, clients, conn>>,
           Unreaped' = Unreaped \ {p}
    PROVE  TheRegistry!Next
<1>1. PICK c \in Conns : c = conn[p]
  BY ServedOnce
<1>2. [d \in Conns |-> StageOf(d)]' = [d \in Conns |-> StageOf(d)]
  BY StageStays DEF main, Stage
<1>3. UNCHANGED OpenConns
  BY DEF OpenConns, FreeFds
<1>4. {conn[q] : q \in Unreaped}' = {conn[q] : q \in Unreaped'}
  OBVIOUS
<1>5. {conn[q] : q \in Unreaped \ {p}} = {conn[q] : q \in Unreaped} \ {c}
  BY <1>1, ServedOnce
<1>6. TheRegistry!Depart(c)
  BY <1>1, <1>2, <1>3, <1>4, <1>5 DEF TheRegistry!Depart
<1> QED  BY <1>6 DEF TheRegistry!Next

\* waitpid() of a subserver is such a step.
LEMMA StepWaits ==
    ASSUME ~PidReuse, IInv, OnceInv, IInv', OnceInv',
           NEW t \in Threads, NEW p \in Pids, ReapWaits(t, p)
    PROVE  TheRegistry!Next
<1>1. \A q \in Pids : sub'[q] = IF q = p THEN "gone" ELSE sub[q]
  BY DEF IInv, TypeOK, ReapWaits, Freed
<1>2. p \in Unreaped /\ Unreaped' = Unreaped \ {p}
  BY <1>1 DEF Unreaped, Alive, ReapWaits, Zombies
<1>3. UNCHANGED <<Up, main, fdtable, clients, conn>>
  BY DEF Up, ReapWaits
<1> QED  BY <1>2, <1>3, StepDeparts

\* Once the server has ended nobody is left to reap the process.
LEMMA StepOrphanEnds ==
    ASSUME ~PidReuse, ~Up, IInv, OnceInv, IInv', OnceInv',
           NEW p \in Pids, Alive(p), SubEnds(p)
    PROVE  TheRegistry!Next
<1>1. \A q \in Pids : sub'[q] = IF q = p THEN "gone" ELSE sub[q]
  BY DEF IInv, TypeOK, SubEnds, Freed
<1>2. p \in Unreaped /\ Unreaped' = Unreaped \ {p}
  BY <1>1 DEF Unreaped, Alive
<1>3. UNCHANGED <<Up, main, fdtable, clients, conn>>
  BY DEF Up, SubEnds
<1> QED  BY <1>2, <1>3, StepDeparts

\* changeclientstatus() lets a connection leave.
LEMMA StepLeaves ==
    ASSUME IInv, OnceInv, IInv', OnceInv', NEW t \in Threads, ChangeClientStatus(t)
    PROVE  TheRegistry!Next
<1>1. PICK i \in DOMAIN clients :
          /\ clients[i].status = 1
          /\ sub[clients[i].pid] = "gone"
          /\ fdtable[clients[i].fdsock] = i - 1
          /\ clients' = [clients EXCEPT ![i].status = 0]
          /\ fdtable' = [fdtable EXCEPT ![clients[i].fdsock] = None]
          /\ Up /\ Up'
          /\ UNCHANGED <<main, processes>>
  BY ChangeResult
<1>2. /\ Len(clients) \in Nat /\ DOMAIN clients = 1 .. Len(clients)
      /\ i \in Nat /\ i > 0 /\ clients[i].fdsock \in Fds
      /\ accepted \in 0 .. MaxClients /\ MaxClients \in Nat
      /\ Len(clients) <= accepted
  <2>1. TypeOK /\ accepted \in 0 .. MaxClients /\ MaxClients \in Nat
    BY ServerAssumption DEF IInv, TypeOK
  <2>2. Len(clients) = IF acceptor = "accept" THEN accepted ELSE accepted - 1
    BY DEF OnceInv, Numbered
  <2>3. /\ Len(clients) \in Nat /\ DOMAIN clients = 1 .. Len(clients)
        /\ i \in Nat /\ i > 0 /\ clients[i].fdsock \in Fds
    BY <2>1, NodeType
  <2> QED  BY <2>1, <2>2, <2>3
<1>3. PICK c \in Conns : c = i - 1
  BY <1>2 DEF Conns
<1>4. c \in Nat /\ c + 1 = i /\ c < Len(clients) /\ \A d \in Conns : d \in Nat
  BY <1>2, <1>3 DEF Conns
<1>5. /\ Len(clients') = Len(clients)
      /\ \A j \in DOMAIN clients :
             clients'[j].status = IF j = i THEN 0 ELSE clients[j].status
  BY <1>1, MarkResult DEF IInv
<1>6. accepted' = accepted /\ acceptor' = acceptor /\ sub' = sub /\ conn' = conn
  BY <1>1 DEF main, processes
<1>7. Stage(c) = "connected" /\ Stage(c)' = "left"
  BY <1>1, <1>2, <1>4, <1>5 DEF Stage
<1>8. \A d \in Conns : d # c => Stage(d)' = Stage(d)
  <2> SUFFICES ASSUME NEW d \in Conns, d # c PROVE Stage(d)' = Stage(d)
    OBVIOUS
  <2>1. d < Len(clients) => clients'[d + 1].status = clients[d + 1].status
    <3>1. d \in Nat /\ d + 1 # i /\ (d < Len(clients) => d + 1 \in 1 .. Len(clients))
      BY <1>2, <1>3, <1>4
    <3> QED  BY <1>2, <1>5, <3>1
  <2> QED  BY <1>2, <1>4, <1>5, <1>6, <2>1 DEF Stage
<1>9. TheRegistry!Move(c, "connected", "left")
  BY <1>7, <1>8, MoveResult
<1>10. c \notin {conn[p] : p \in Unreaped}
  <2> SUFFICES ASSUME NEW p \in Unreaped, conn[p] = c PROVE FALSE
    OBVIOUS
  <2>1. p \in Pids /\ p # NoPid /\ sub[p] # "gone" /\ (p = newpid \/ HasNode(p))
    BY ServerAssumption DEF Unreaped, Alive, IInv, Recorded, Unsettled
  <2>2. CASE p = newpid
    <3>1. conn[p] = accepted - 1 /\ acceptor # "accept"
      BY <2>1, <2>2 DEF IInv, Phases, OnceInv, Forked
    <3>2. Len(clients) = accepted - 1
      BY <3>1 DEF OnceInv, Numbered
    <3> QED  BY <1>2, <1>4, <3>1, <3>2
  <2>3. CASE HasNode(p)
    <3>1. PICK j \in DOMAIN clients : clients[j].pid = p /\ conn[p] = j - 1
      BY <2>3 DEF HasNode, OnceInv, Forked
    <3>2. j = i
      BY <1>2, <1>3, <3>1
    <3> QED  BY <1>1, <2>1, <3>1, <3>2
  <2> QED  BY <2>1, <2>2, <2>3
<1> DEFINE f == clients[i].fdsock
<1>11. \A g \in Fds : fdtable'[g] = IF g = f THEN None ELSE fdtable[g]
  BY <1>1 DEF IInv, TypeOK
<1>12. ASSUME NEW g \in Fds, fdtable[g] = c PROVE g = f
  <2>1. c # None /\ g # None
    BY <1>4, ServerAssumption DEF None
  <2>2. g # newfd
    <3>1. newfd = g => fdtable[g] = accepted - 1
      BY <1>1, <1>2, <2>1 DEF OnceInv, Sockets
    <3>2. acceptor = "accept" => newfd = None
      BY DEF IInv, Phases
    <3>3. newfd = g => Len(clients) = accepted - 1
      BY <2>1, <3>2 DEF OnceInv, Numbered
    <3> QED  BY <1>2, <1>4, <1>12, <3>1, <3>3
  <2>3. PICK j \in DOMAIN clients : clients[j].status = 1 /\ clients[j].fdsock = g
    BY <1>1, <1>12, <2>1, <2>2 DEF OnceInv, Sockets
  <2>4. fdtable[g] = j - 1
    BY <1>1, <2>3 DEF OnceInv, Sockets
  <2>5. j = i
    BY <1>2, <1>3, <1>12, <2>3, <2>4
  <2> QED  BY <2>3, <2>5
<1>13. f \in Fds /\ fdtable[f] = c /\ c # None
  BY <1>1, <1>2, <1>3, <1>4 DEF None
<1> HIDE DEF f
<1>14. OpenConns' = OpenConns \ {c}
  BY <1>11, <1>12, <1>13 DEF OpenConns, FreeFds
<1>15. UNCHANGED <<Up, {conn[p] : p \in Unreaped}>>
  BY <1>1, <1>6 DEF Unreaped, Alive
<1>16. TheRegistry!Leave(c)
  BY <1>1, <1>9, <1>10, <1>14, <1>15 DEF TheRegistry!Leave
<1> QED  BY <1>16 DEF TheRegistry!Next

\* The end of the server is the end of the registry.
LEMMA StepEnds ==
    ASSUME ~PidReuse, Up, IInv, OnceInv, IInv', OnceInv',
           NEW why \in {"accept", "fork", "sigqueue", "reaper", "dcon", "exit"},
           ServerEnds(why)
    PROVE  TheRegistry!Next
<1>1. ~Up'
  BY DEF ServerEnds, Up
<1>2. [d \in Conns |-> StageOf(d)]' = [d \in Conns |-> StageOf(d)]
  BY StageStays DEF ServerEnds, main, Stage
<1>3. OpenConns' = {}
  BY DEF ServerEnds, OpenConns, FreeFds
<1>4. \A q \in Pids : sub'[q] = IF sub[q] = "zombie" THEN "gone" ELSE sub[q]
  BY DEF ServerEnds, Freed
<1>5. Unreaped' \in SUBSET Unreaped /\ conn' = conn
  BY <1>4 DEF ServerEnds, Unreaped, Alive, processes
<1>6. {conn[q] : q \in Unreaped}' \in SUBSET {conn[q] : q \in Unreaped}
  BY <1>5
<1>7. TheRegistry!End
  BY <1>1, <1>2, <1>3, <1>6 DEF TheRegistry!End
<1> QED  BY <1>7 DEF TheRegistry!Next

\* A step that Registry does not see.
LEMMA StepHidden ==
    ASSUME IInv, OnceInv, IInv', OnceInv',
           \A d \in Conns : Stage(d)' = Stage(d),
           UNCHANGED <<Up, fdtable, conn, Unreaped>>
    PROVE  UNCHANGED TheRegistry!vars
<1>1. [d \in Conns |-> StageOf(d)]' = [d \in Conns |-> StageOf(d)]
  BY StageStays
<1>2. UNCHANGED <<OpenConns, {conn[q] : q \in Unreaped}>>
  BY DEF OpenConns, FreeFds
<1> QED  BY <1>1, <1>2 DEF TheRegistry!vars

-----------------------------------------------------------------------------
\* The server starts with an empty registry.
LEMMA RegistryInit == Init => TheRegistry!Init
<1> SUFFICES ASSUME Init PROVE TheRegistry!Init
  OBVIOUS
<1>1. IInv /\ OnceInv
  BY InvInit, OnceInit
<1>2. \A c \in Conns : Stage(c) = "none"
  BY ServerAssumption DEF Init, Stage, Conns
<1>3. [c \in Conns |-> StageOf(c)] = [c \in Conns |-> "none"]
  BY <1>1, <1>2, StageResult
<1>4. Up = TRUE /\ Unreaped = {} /\ OpenConns = {}
  BY DEF Init, Up, Unreaped, Alive, OpenConns, FreeFds
<1> QED  BY <1>3, <1>4 DEF TheRegistry!Init

\* Every step of the server is one of the registry, or leaves it alone.
LEMMA RegistryNext ==
    ASSUME ~PidReuse, IInv, OnceInv, IInv', OnceInv', [Next]_vars
    PROVE  [TheRegistry!Next]_TheRegistry!vars
<1> USE DEF main, terminal, reaper, processes, signals
<1>1. CASE Acceptor
  <2>1. CASE AcceptFails \/ ForkFails
    BY <2>1, StepEnds DEF AcceptFails, ForkFails, At
  <2>2. ASSUME NEW p \in Pids, Fork(p) PROVE TheRegistry!Next
    BY <2>2, StepBegins
  <2>3. CASE Install
    <3>1. \A d \in Conns : Stage(d)' = Stage(d)
      BY <2>3 DEF Install, At, Stage
    <3>2. UNCHANGED <<Up, fdtable, conn, Unreaped>>
      BY <2>3 DEF Install, Up, Unreaped, Alive
    <3> QED  BY <3>1, <3>2, StepHidden
  <2> QED  BY <1>1, <2>1, <2>2, <2>3, StepArrives, StepEnters DEF Acceptor
<1>2. CASE DconBare \/ Exit \/ ListFails
  BY <1>2, StepEnds DEF DconBare, Exit, ListFails, Typed, Walks
<1>3. CASE List \/ (\E n \in Conns : Dcon(n)) \/ ListConnected \/ ListDisconnected
           \/ ListQueues \/ DconKills \/ UNCHANGED vars
  <2>1. UNCHANGED <<server, main, fdtable, clients, processes>>
    BY <1>3 DEF List, Dcon, ListConnected, ListDisconnected, ListQueues, DconKills, vars
  <2>2. \A d \in Conns : Stage(d)' = Stage(d)
    BY <2>1 DEF Stage
  <2>3. UNCHANGED <<Up, fdtable, conn, Unreaped>>
    BY <2>1 DEF Up, Unreaped, Alive
  <2> QED  BY <2>2, <2>3, StepHidden
<1>4. ASSUME NEW t \in Threads, Reaper(t)
      PROVE  [TheRegistry!Next]_TheRegistry!vars
  <2>1. CASE ReaperCrashes(t)
    BY <2>1, StepEnds DEF ReaperCrashes
  <2>2. ASSUME NEW p \in Pids, ReapWaits(t, p) PROVE TheRegistry!Next
    BY <2>2, StepWaits
  <2>3. CASE SigchldArrives(t) \/ ReapReturns(t)
    <3>1. UNCHANGED <<server, main, fdtable, clients, processes>>
      BY <2>3 DEF SigchldArrives, ReapReturns
    <3>2. \A d \in Conns : Stage(d)' = Stage(d)
      BY <3>1 DEF Stage
    <3>3. UNCHANGED <<Up, fdtable, conn, Unreaped>>
      BY <3>1 DEF Up, Unreaped, Alive
    <3> QED  BY <3>2, <3>3, StepHidden
  <2> QED  BY <1>4, <2>1, <2>2, <2>3, StepLeaves DEF Reaper
<1>5. ASSUME NEW p \in Pids, Sub(p)
      PROVE  [TheRegistry!Next]_TheRegistry!vars
  <2>1. CASE SubEnds(p) /\ Alive(p) /\ ~Up
    BY <2>1, StepOrphanEnds
  <2>2. CASE (SubEnds(p) /\ Alive(p) /\ Up) \/ Serve(p) \/ SubPrints(p)
    <3>1. UNCHANGED <<server, main, fdtable, clients, conn>>
      BY <2>2 DEF SubEnds, Serve, SubPrints
    <3>2. \A d \in Conns : Stage(d)' = Stage(d)
      BY <3>1 DEF Stage
    <3>3. CASE SubEnds(p) /\ Alive(p) /\ Up
      <4>1. \A q \in Pids : sub'[q] = IF q = p THEN "zombie" ELSE sub[q]
        BY <3>3 DEF IInv, TypeOK, SubEnds
      <4>2. UNCHANGED Unreaped
        BY <3>3, <4>1 DEF Unreaped, Alive
      <4> QED  BY <3>1, <3>2, <4>2, StepHidden DEF Up
    <3>4. CASE Serve(p)
      <4>1. \A q \in Pids : sub'[q] = IF q = p THEN "serving" ELSE sub[q]
        BY <3>4 DEF IInv, TypeOK, Serve
      <4>2. UNCHANGED Unreaped
        BY <3>4, <4>1 DEF Unreaped, Alive, Serve
      <4> QED  BY <3>1, <3>2, <4>2, StepHidden DEF Up
    <3>5. CASE SubPrints(p)
      <4>1. UNCHANGED Unreaped
        BY <3>5 DEF Unreaped, Alive, SubPrints
      <4> QED  BY <3>1, <3>2, <4>1, StepHidden DEF Up
    <3> QED  BY <2>2, <3>3, <3>4, <3>5
  <2> QED  BY <1>5, <2>1, <2>2 DEF Sub, SubExits, SubTerminated, SubUsr1Kills, Alive
<1> QED  BY <1>1, <1>2, <1>3, <1>4, <1>5 DEF Next, Console, Listing, Stopped

\* As long as no pid is reused the server keeps what Registry promises: the
\* accept loop (server.c:75-123), the reapers (server.c:516-535) and the
\* console may interleave as they like.
THEOREM ServerKeepsRegistry == ~PidReuse => (Spec => KeepsRegistry)
<1> SUFFICES ASSUME ~PidReuse PROVE Spec => KeepsRegistry
  OBVIOUS
<1>1. Once => OnceInv
  BY DEF Once
<1>2. IInv /\ IInv' /\ OnceInv /\ OnceInv' /\ [Next]_vars
          => [TheRegistry!Next]_TheRegistry!vars
  BY RegistryNext
<1> QED  BY <1>1, <1>2, RegistryInit, Invariant, OnceInvariant, PTL
         DEF Spec, KeepsRegistry, TheRegistry!Spec
=============================================================================
