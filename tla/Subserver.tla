------------------------------ MODULE Subserver ------------------------------
(***************************************************************************)
(* The processes that serve ONE client connection of sockets/server.c: the *)
(* subserver the server forked for it (Root), the programs started by the  *)
(* client's `run' commands, and the copies of the handler that come into   *)
(* being when execlp fails, because run() then RETURNS in the child and    *)
(* the child goes on in the loop of requesthandler().                      *)
(*                                                                         *)
(* A handler process has one main thread (pc) that can be interrupted, at  *)
(* any point, by grimreaper() (SIGCHLD) and killed by terminatechildren()  *)
(* (SIGTERM).  The kernel is part of the model: process states and parents,*)
(* zombies, one pending bit per signal, the write ends of the pipes that   *)
(* run() blocks on, descriptors and the reuse of pids.                     *)
(***************************************************************************)
EXTENDS ProcessTable

CONSTANTS Pids,      \* pids the kernel hands out to this session
          Root,      \* the subserver that server.c's main() forked
          Outside,   \* the parent of everything whose parent is not a handler
          Names,     \* names of programs
          NoArg,     \* the name recorded for `run' without an argument
          FdLimit,   \* descriptors a handler may open for its pipes
          PidReuse   \* whether the kernel may reuse the pid of a reaped process

ASSUME SubserverAssumption ==
    /\ Root \in Pids
    /\ Outside \notin Pids
    /\ NoArg \in Names
    /\ FdLimit \in Nat \ {0}
    /\ PidReuse \in BOOLEAN

VARIABLES
    state,    \* what each pid is
    parent,   \* who is told when it ends
    table,    \* the process table in its memory
    pc,       \* where its main thread is
    child,    \* the pid fork() returned to run()
    prog,     \* the name run() was given
    cursor,   \* the position of `prc' or `current' in a kill loop
    pipe,     \* pipe[h]: the processes holding the write end h's run() reads
    fds,      \* pipe descriptors open in it
    sigchld,  \* whether SIGCHLD is pending for it
    reaping,  \* whether it is inside grimreaper()
    sigterm,  \* the processes with a SIGTERM sent to them
    closed,   \* whether the client closed its end of the connection
    taken     \* history: how many entries of its table it got by fork()

kernel  == <<state, parent, sigchld, sigterm, pipe>>
locals  == <<child, prog, cursor>>
vars    == <<kernel, table, pc, locals, fds, reaping, closed, taken>>

Labels == {"none", "read", "wait", "kill", "kill all", "sweep", "answer"}
States == {"free", "child", "handler", "program", "zombie", "gone", "foreign"}

-----------------------------------------------------------------------------
(* The kernel's part: processes, signals and exits.                        *)

\* What a pid becomes once its process is reaped.
Freed == IF PidReuse THEN "free" ELSE "gone"

\* kill() finds a process, which may be a zombie, under this pid.
Exists(p) == state[p] \notin {"free", "gone"}

\* The effect of a successful kill(p, SIGTERM); a zombie ignores it.
Signal(p) == sigterm' = IF state[p] = "zombie" THEN sigterm ELSE sigterm \cup {p}

Zombies(h) == {c \in Pids : state[c] = "zombie" /\ parent[c] = h}

\* Process p ends.  Its descriptors are closed, its parent is told and has
\* to reap it; its own children go to the outside, which reaps the dead ones.
Exit(p) ==
    /\ state' = [q \in Pids |->
                   IF q = p THEN IF parent[p] = Outside THEN Freed ELSE "zombie"
                   ELSE IF q \in Zombies(p) THEN Freed ELSE state[q]]
    /\ parent' = [q \in Pids |-> IF parent[q] = p THEN Outside ELSE parent[q]]
    /\ pipe' = [q \in Pids |-> IF q = p THEN {} ELSE pipe[q] \ {p}]
    /\ sigchld' = [q \in Pids |-> q # p /\ (q = parent[p] \/ sigchld[q])]
    /\ sigterm' = sigterm \ {p}
    /\ reaping' = [reaping EXCEPT ![p] = FALSE]
    /\ pc' = [pc EXCEPT ![p] = "none"]
    /\ child' = [child EXCEPT ![p] = Outside]
    /\ prog' = [prog EXCEPT ![p] = NoArg]
    /\ cursor' = [cursor EXCEPT ![p] = 0]
    /\ fds' = [fds EXCEPT ![p] = 0]
    /\ UNCHANGED <<table, closed, taken>>

-----------------------------------------------------------------------------
(* The main thread of a handler.                                           *)

\* It is at label l, and not interrupted by grimreaper().
At(h, l) == state[h] = "handler" /\ pc[h] = l /\ ~reaping[h]

\* It has read a command from the client.
Command(h) == At(h, "read") /\ ~closed

Goto(h, l) == pc' = [pc EXCEPT ![h] = l]

\* Any command without an effect on processes: list, print, add, mul, a wrong
\* command.  Its answer is still to be written.
OtherCommand(h) ==
    /\ Command(h)
    /\ Goto(h, "answer")
    /\ UNCHANGED <<kernel, table, locals, fds, reaping, closed, taken>>

\* A line of blanks has no first token, `kill all' may have no name: either
\* is a NULL the C library reads through.
GarbledCommand(h) ==
    /\ Command(h)
    /\ Exit(h)

\* The answer is written, and the loop of requesthandler() goes round.
Answer(h) ==
    /\ At(h, "answer")
    /\ Goto(h, "read")
    /\ UNCHANGED <<kernel, table, locals, fds, reaping, closed, taken>>

\* Writing to a client that is gone raises SIGPIPE, which nobody handles.
BrokenPipe(h) ==
    /\ At(h, "answer")
    /\ closed
    /\ Exit(h)

-----------------------------------------------------------------------------
(* run                                                                     *)

\* Mutant of FdsLeft: an off-by-one in the limit.
FdsLeft_OffByOne(h) == fds[h] + 1 <= FdLimit

\* pipe2() finds two descriptors.
FdsLeft(h) == fds[h] + 2 <= FdLimit

\* Mutants of ForkPipes: the child closes both ends of its pipe; the handler
\* does not close its own write end.
ForkPipes_ChildCloses(h, c) == [pipe EXCEPT ![h] = {}, ![c] = {}]
ForkPipes_ParentKeeps(h, c) == [pipe EXCEPT ![h] = {h, c}, ![c] = {}]

\* Who holds write ends once h has forked c: c has the one of the new pipe,
\* which h closes, and a copy of each one that h holds for the pipes of the
\* handlers it descends from.
ForkPipes(h, c) ==
    [q \in Pids |-> IF q = h THEN {c}
                    ELSE IF q = c THEN {}
                    ELSE IF h \in pipe[q] THEN pipe[q] \cup {c} ELSE pipe[q]]

\* pipe2() and fork().  The child is a copy, table and descriptors included.
\* The handler keeps the read end for ever and blocks reading it.
RunForks(h, c, name) ==
    /\ Command(h)
    /\ FdsLeft(h)
    /\ state[c] = "free"
    /\ state' = [state EXCEPT ![c] = "child"]
    /\ parent' = [parent EXCEPT ![c] = h]
    /\ pipe' = ForkPipes(h, c)
    /\ table' = [table EXCEPT ![c] = table[h]]
    /\ taken' = [taken EXCEPT ![c] = Len(table[h])]
    /\ fds' = [fds EXCEPT ![h] = fds[h] + 1, ![c] = fds[h] + 1]
    /\ child' = [child EXCEPT ![h] = c]
    /\ prog' = [prog EXCEPT ![h] = name, ![c] = name]
    /\ Goto(h, "wait")
    /\ UNCHANGED <<sigchld, sigterm, cursor, reaping, closed>>

\* pipe2() or fork() fails, for want of two descriptors or of a process, and
\* ERROR exits.
RunFails(h) ==
    /\ Command(h)
    /\ ~FdsLeft(h) \/ \A c \in Pids : state[c] # "free"
    /\ Exit(h)

\* The read of the pipe returns 0 because every write end is closed; run()
\* returns the child's pid whatever became of it, and main records it.
RunReturns(h) ==
    /\ At(h, "wait")
    /\ pipe[h] = {}
    /\ table' = [table EXCEPT ![h] = InsertFirst(@, child[h], prog[h])]
    /\ child' = [child EXCEPT ![h] = Outside]
    /\ prog' = [prog EXCEPT ![h] = NoArg]
    /\ Goto(h, "answer")
    /\ UNCHANGED <<kernel, cursor, fds, reaping, closed, taken>>

\* execlp() succeeds: the pipes are O_CLOEXEC, the memory image is replaced.
ExecSucceeds(c) ==
    /\ state[c] = "child"
    /\ prog[c] # NoArg
    /\ state' = [state EXCEPT ![c] = "program"]
    /\ pipe' = [q \in Pids |-> pipe[q] \ {c}]
    /\ table' = [table EXCEPT ![c] = <<>>]
    /\ taken' = [taken EXCEPT ![c] = 0]
    /\ fds' = [fds EXCEPT ![c] = 0]
    /\ prog' = [prog EXCEPT ![c] = NoArg]
    /\ UNCHANGED <<parent, sigchld, sigterm, pc, child, cursor, reaping, closed>>

\* execlp() fails: run() returns 0 in the child, which answers "Bad Name" and
\* goes on as a handler of the same connection, write end still open.
ExecFails(c) ==
    /\ state[c] = "child"
    /\ prog[c] # NoArg
    /\ state' = [state EXCEPT ![c] = "handler"]
    /\ prog' = [prog EXCEPT ![c] = NoArg]
    /\ Goto(c, "answer")
    /\ UNCHANGED <<parent, sigchld, sigterm, pipe, table, child, cursor, fds,
                   reaping, closed, taken>>

\* `run' without an argument: the child crashes in sscanf(NULL).
NoArgument(c) ==
    /\ state[c] = "child"
    /\ prog[c] = NoArg
    /\ Exit(c)

-----------------------------------------------------------------------------
(* kill                                                                    *)

Victim(h) == table[h][cursor[h]].pid

\* killoneprocess() looks its argument up and checks isrunning ...
KillOne(h, verdict, position) ==
    /\ Command(h)
    /\ IF verdict = "terminate"
       THEN Goto(h, "kill") /\ cursor' = [cursor EXCEPT ![h] = position]
       ELSE Goto(h, "answer") /\ UNCHANGED cursor
    /\ UNCHANGED <<kernel, table, child, prog, fds, reaping, closed, taken>>

KillPid(h, p) == KillOne(h, PidVerdict(table[h], p), SearchPid(table[h], p))

KillName(h, name) ==
    KillOne(h, NameVerdict(table[h], name), SearchPName(table[h], name, 1))

\* ... and then calls kill().
KillSends(h) ==
    /\ At(h, "kill")
    /\ Exists(Victim(h))
    /\ Signal(Victim(h))
    /\ cursor' = [cursor EXCEPT ![h] = 0]
    /\ Goto(h, "answer")
    /\ UNCHANGED <<state, parent, sigchld, pipe, table, child, prog, fds,
                   reaping, closed, taken>>

\* killallprocess() finds its first node of that name ...
KillAllName(h, name) ==
    LET first == SearchPName(table[h], name, 1) IN
    /\ Command(h)
    /\ IF first = NULL
       THEN Goto(h, "answer") /\ UNCHANGED cursor
       ELSE Goto(h, "kill all") /\ cursor' = [cursor EXCEPT ![h] = first]
    /\ UNCHANGED <<kernel, table, child, prog, fds, reaping, closed, taken>>

\* ... and signals it and looks for the next, ended or not.
KillAllStep(h) ==
    LET name == table[h][cursor[h]].processname
        next == SearchPName(table[h], name, cursor[h] + 1)
    IN
    /\ At(h, "kill all")
    /\ IF Exists(Victim(h)) THEN Signal(Victim(h)) ELSE UNCHANGED sigterm
    /\ cursor' = [cursor EXCEPT ![h] = next]
    /\ IF next = NULL THEN Goto(h, "answer") ELSE UNCHANGED pc
    /\ UNCHANGED <<state, parent, sigchld, pipe, table, child, prog, fds,
                   reaping, closed, taken>>

\* kill() fails in a way its caller answers with ERROR: no such process in
\* killoneprocess(); in all three, a pid that is another user's by now.
KillErrors(h) ==
    /\ \/ At(h, "kill") /\ (~Exists(Victim(h)) \/ state[Victim(h)] = "foreign")
       \/ At(h, "kill all") /\ state[Victim(h)] = "foreign"
       \/ /\ At(h, "sweep")
          /\ cursor[h] \in DOMAIN table[h]
          /\ state[Victim(h)] = "foreign"
    /\ Exit(h)

-----------------------------------------------------------------------------
(* The end of the connection: killall() over the whole table, then exit.   *)

\* The read returns 0 or ECONNRESET.
ReadEnds(h) ==
    /\ At(h, "read")
    /\ closed
    /\ cursor' = [cursor EXCEPT ![h] = 1]
    /\ Goto(h, "sweep")
    /\ UNCHANGED <<kernel, table, child, prog, fds, reaping, closed, taken>>

SweepStep(h) ==
    /\ At(h, "sweep")
    /\ cursor[h] \in DOMAIN table[h]
    /\ Exists(Victim(h))
    /\ Signal(Victim(h))
    /\ cursor' = [cursor EXCEPT ![h] = @ + 1]
    /\ UNCHANGED <<state, parent, sigchld, pipe, table, pc, child, prog, fds,
                   reaping, closed, taken>>

\* killall() is at an entry whose process does not exist any more.
Spinning(h) ==
    /\ At(h, "sweep")
    /\ cursor[h] \in DOMAIN table[h]
    /\ ~Exists(Victim(h))

\* On ESRCH the loop continues WITHOUT going to the next entry.
SweepSpins(h) == Spinning(h) /\ UNCHANGED vars

\* Mutant of SweepEnds: the loop stops before the last entry.
SweepEnds_Early(h) ==
    /\ At(h, "sweep")
    /\ cursor[h] + 1 \notin DOMAIN table[h]
    /\ Exit(h)

\* The list is done.  The process exits, or crashes in changeclientstatus(0):
\* either way it is gone.
SweepEnds(h) ==
    /\ At(h, "sweep")
    /\ cursor[h] \notin DOMAIN table[h]
    /\ Exit(h)

-----------------------------------------------------------------------------
(* Signal handlers.                                                        *)

\* SIGCHLD is delivered; it stays blocked while grimreaper() runs.
SigchldArrives(h) ==
    /\ state[h] = "handler"
    /\ sigchld[h]
    /\ ~reaping[h]
    /\ sigchld' = [sigchld EXCEPT ![h] = FALSE]
    /\ reaping' = [reaping EXCEPT ![h] = TRUE]
    /\ UNCHANGED <<state, parent, sigterm, pipe, table, pc, locals, fds,
                   closed, taken>>

\* One round of grimreaper(): waitpid() returned c, insertendtime() marks it.
Reap(h, c) ==
    /\ reaping[h]
    /\ c \in Zombies(h)
    /\ SearchPid(table[h], c) # NULL
    /\ state' = [state EXCEPT ![c] = Freed]
    /\ parent' = [parent EXCEPT ![c] = Outside]
    /\ table' = [table EXCEPT ![h] = InsertEndTime(@, c)]
    /\ UNCHANGED <<sigchld, sigterm, pipe, pc, locals, fds, reaping, closed, taken>>

\* The same round for a child that is not in the table: searchpid() returns
\* NULL and insertendtime() writes through it.
ReapCrashes(h, c) ==
    /\ reaping[h]
    /\ c \in Zombies(h)
    /\ SearchPid(table[h], c) = NULL
    /\ Exit(h)

\* Mutant of ReapReturns: one waitpid() per SIGCHLD.
ReapReturns_OnePerSignal(h) ==
    /\ reaping[h]
    /\ reaping' = [reaping EXCEPT ![h] = FALSE]
    /\ UNCHANGED <<kernel, table, pc, locals, fds, closed, taken>>

\* waitpid() returns 0 or -1.
ReapReturns(h) ==
    /\ reaping[h]
    /\ Zombies(h) = {}
    /\ reaping' = [reaping EXCEPT ![h] = FALSE]
    /\ UNCHANGED <<kernel, table, pc, locals, fds, closed, taken>>

\* terminatechildren(): changeclientstatus(getpid()) looks for the process in
\* its copy of the client list, made before the server inserted it, and writes
\* through the NULL it gets.  A child that has not exec'ed yet does the same.
TermArrives(h) ==
    /\ state[h] \in {"handler", "child"}
    /\ h \in sigterm
    /\ Exit(h)

-----------------------------------------------------------------------------
(* The rest of the world.                                                  *)

\* The server's console disconnects this client.
Disconnect ==
    /\ state[Root] = "handler"
    /\ Root \notin sigterm
    /\ sigterm' = sigterm \cup {Root}
    /\ UNCHANGED <<state, parent, sigchld, pipe, table, pc, locals, fds,
                   reaping, closed, taken>>

ClientCloses ==
    /\ ~closed
    /\ closed' = TRUE
    /\ UNCHANGED <<kernel, table, pc, locals, fds, reaping, taken>>

\* A program ends, by itself or by the signal it got.
ProgramExits(p) ==
    /\ state[p] = "program"
    /\ Exit(p)

\* A process that has nothing to do with this session gets a free pid.
ForeignStarts(p) ==
    /\ PidReuse
    /\ state[p] = "free"
    /\ state' = [state EXCEPT ![p] = "foreign"]
    /\ UNCHANGED <<parent, sigchld, sigterm, pipe, table, pc, locals, fds,
                   reaping, closed, taken>>

ForeignExits(p) ==
    /\ state[p] = "foreign"
    /\ Exit(p)

-----------------------------------------------------------------------------
Init ==
    /\ state = [p \in Pids |-> IF p = Root THEN "handler" ELSE "free"]
    /\ parent = [p \in Pids |-> Outside]
    /\ table = [p \in Pids |-> <<>>]
    /\ pc = [p \in Pids |-> IF p = Root THEN "answer" ELSE "none"]
    /\ child = [p \in Pids |-> Outside]
    /\ prog = [p \in Pids |-> NoArg]
    /\ cursor = [p \in Pids |-> 0]
    /\ pipe = [p \in Pids |-> {}]
    /\ fds = [p \in Pids |-> 0]
    /\ sigchld = [p \in Pids |-> FALSE]
    /\ reaping = [p \in Pids |-> FALSE]
    /\ sigterm = {}
    /\ closed = FALSE
    /\ taken = [p \in Pids |-> 0]

\* One turn of a handler's main thread on a command it is executing.
Execute(h) ==
    \/ Answer(h) \/ BrokenPipe(h) \/ RunReturns(h)
    \/ KillSends(h) \/ KillAllStep(h) \/ KillErrors(h)
    \/ ReadEnds(h) \/ SweepStep(h) \/ SweepEnds(h)

Interrupt(h) ==
    \/ SigchldArrives(h) \/ ReapReturns(h) \/ TermArrives(h)
    \/ \E c \in Pids : Reap(h, c) \/ ReapCrashes(h, c)

Exec(c) == ExecSucceeds(c) \/ ExecFails(c) \/ NoArgument(c)

\* The client's next command.
Request(h) ==
    \/ OtherCommand(h) \/ GarbledCommand(h) \/ RunFails(h)
    \/ \E c \in Pids, name \in Names : RunForks(h, c, name)
    \/ \E p \in Pids : KillPid(h, p)
    \/ \E name \in Names : KillName(h, name) \/ KillAllName(h, name)

\* Everybody is gone: nothing more happens.
Finished ==
    /\ closed
    /\ \A p \in Pids : state[p] \in {"free", "gone"}
    /\ UNCHANGED vars

Next ==
    \/ \E p \in Pids :
         \/ Request(p) \/ Execute(p) \/ SweepSpins(p) \/ Interrupt(p) \/ Exec(p)
         \/ ProgramExits(p) \/ ForeignStarts(p) \/ ForeignExits(p)
    \/ Disconnect
    \/ ClientCloses
    \/ Finished

Spec == Init /\ [][Next]_vars

\* The scheduler runs every process that can run, and the kernel delivers
\* signals.  Nothing makes a client send a command or close, or a program end.
Fairness ==
    \A p \in Pids : WF_vars(Execute(p)) /\ WF_vars(Interrupt(p)) /\ WF_vars(Exec(p))

FairSpec == Spec /\ Fairness

-----------------------------------------------------------------------------
(* Type invariant.                                                         *)

\* Every variable has its type; in particular a handler never holds FdLimit
\* descriptors or more for its pipes (run(), server.c:748), and a kill loop's
\* pointer never leaves the list by more than its terminating NULL.
TypeOK ==
    /\ state \in [Pids -> States]
    /\ parent \in [Pids -> Pids \cup {Outside}]
    /\ table \in [Pids -> Seq(Entry(Pids, Names))]
    /\ pc \in [Pids -> Labels]
    /\ child \in [Pids -> Pids \cup {Outside}]
    /\ prog \in [Pids -> Names]
    /\ cursor \in [Pids -> Nat]
    /\ pipe \in [Pids -> SUBSET Pids]
    /\ fds \in [Pids -> 0 .. FdLimit - 1]
    /\ sigchld \in [Pids -> BOOLEAN]
    /\ reaping \in [Pids -> BOOLEAN]
    /\ sigterm \in SUBSET Pids
    /\ closed \in BOOLEAN
    /\ taken \in [Pids -> Nat]

-----------------------------------------------------------------------------
(* Safety.                                                                 *)

\* The processes that run the server's code on this connection.
Servers == {p \in Pids : state[p] \in {"child", "handler"}}

\* h1 is held back in run() by a pipe of which h2 has the write end.
HeldBy(h1, h2) == pc[h1] = "wait" /\ h2 \in pipe[h1]

\* Of any two processes that run the server's code, one waits for the other.
Chained ==
    \A h1, h2 \in Servers : h1 # h2 => HeldBy(h1, h2) \/ HeldBy(h2, h1)

\* However many handlers failed `run' commands have left on one connection,
\* at most one of them reads commands and writes answers: all others are held
\* in run() (server.c:768) by the pipe that the newest one never closes.
OneActiveHandler ==
    \A h1, h2 \in Servers : h1 # h2 => pc[h1] = "wait" \/ pc[h2] = "wait"

\* The newest record of c in the table of h says that it runs.
RecordedRunning(h, c) ==
    LET i == SearchPid(table[h], c) IN i # NULL /\ table[h][i].isrunning

\* Every child that a handler has not reaped is either the one run() is
\* starting right now or is known to its table as running: the only child
\* whose death can crash grimreaper() (server.c:559) is the one in flight.
ChildAccounted ==
    \A h, c \in Pids :
        parent[c] = h => \/ pc[h] = "wait" /\ child[h] = c
                         \/ RecordedRunning(h, c)

\* No death is forgotten: while a handler has a zombie, SIGCHLD is pending for
\* it or grimreaper() is still in its loop (server.c:545), although any number
\* of deaths shares one SIGCHLD.
NoLostDeath ==
    \A h \in Pids : Zombies(h) # {} => sigchld[h] \/ reaping[h]

\* The positions of the entries a process inserted itself: those it got by
\* fork() are at the end of its list.
Own(h) == 1 .. Len(table[h]) - taken[h]

\* As long as the kernel reuses no pid, the table of a live handler tells the
\* truth about the programs it started: an entry is running exactly while the
\* program runs or is a zombie that grimreaper() has yet to collect.
TableAccurate ==
    ~PidReuse =>
        \A h \in Pids : state[h] = "handler" =>
            \A i \in Own(h) :
                LET e == table[h][i] IN
                IF e.isrunning
                THEN state[e.pid] \in {"program", "zombie"} /\ parent[e.pid] = h
                ELSE state[e.pid] = "gone"

\* p has been sent SIGTERM or is dead.
Terminated(p) == p \in sigterm \/ state[p] \in {"zombie", "gone"}

\* A session can start fewer than FdLimit programs in its lifetime, however
\* many of them have ended: run() (server.c:768) never closes the read end.
RunBudget == \A h \in Pids : Len(table[h]) < FdLimit

-----------------------------------------------------------------------------
(* Action properties.                                                      *)

\* As long as no pid is reused: when killall() (server.c:688) gets to the end
\* of the list at all, every program in it has been terminated, the ones
\* inherited from a predecessor included.
SweptClean ==
    [][~PidReuse =>
        \A h \in Pids : SweepEnds(h) =>
            \A i \in DOMAIN table[h] : Terminated(table[h][i].pid)']_vars

\* As long as no pid is reused: when `kill all' answers (server.c:676), every
\* program of that name in the table has been terminated, whatever ended,
\* or was reaped, while the loop was under way.
KillAllCovers ==
    [][~PidReuse =>
        \A h \in Pids : pc[h] = "kill all" /\ pc'[h] = "answer" =>
            \A i \in DOMAIN table[h] :
                table[h][i].processname = table[h][cursor[h]].processname
                    => Terminated(table[h][i].pid)']_vars

-----------------------------------------------------------------------------
(* Liveness.                                                               *)

\* Every dead child of a handler is reaped, by grimreaper() (server.c:544) or
\* because its parent dies too.
DeathsReaped == \A c \in Pids : state[c] = "zombie" ~> state[c] # "zombie"

\* Once the client has closed, no handler of the session is left, unless one
\* is stuck in killall() (server.c:704).  A handler that run() holds back is
\* let go by the one that holds it.
SessionEnds == closed ~> Servers = {} \/ \E h \in Pids : Spinning(h)

-----------------------------------------------------------------------------
(* What the source says of itself and does not do.                         *)

\* server.c:569, "signal handler for SIGTERM to subserver for terminating all
\* the associated threads and processes": when SIGTERM has ended a handler, its
\* programs have been terminated.
SigtermTerminates ==
    [][\A h \in Pids : state[h] = "handler" /\ TermArrives(h) =>
        \A i \in DOMAIN table[h] : Terminated(table[h][i].pid)']_vars

\* server.c:687, "kill all the processes": killall() gets done with the list.
KillallEnds ==
    \A h \in Pids : At(h, "sweep") ~> state[h] # "handler"
=============================================================================
