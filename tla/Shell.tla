-------------------------------- MODULE Shell --------------------------------
(***************************************************************************)
(* The local shell: parser.c, which executes commands, and client.c, which *)
(* runs in an xterm window that parser.c starts and takes one line after   *)
(* the other from the user.  A pipe carries lines to the parser, another   *)
(* carries answers back; the client reads ONCE for every line it has sent. *)
(*                                                                         *)
(* As in the server, a failed execlp() makes run() return in the child,    *)
(* which becomes a second parser on the same pipes.  Unlike the server's   *)
(* sockets, the pipes are inherited by every program that is run.          *)
(*                                                                         *)
(* Names are not modelled: those that `kill' compares carry newlines and   *)
(* remains of longer lines that were in the buffer before, so that any     *)
(* entries of the table, and none, may match.                              *)
(***************************************************************************)
EXTENDS ProcessTable

CONSTANTS Pids,     \* pids of the shell's processes; none is used twice
          Root,     \* the parser that the user started
          Window,   \* the xterm with the client
          Outside,  \* the parent of everything whose parent is not a parser
          MaxLines, \* how many lines the user types
          MaxWords  \* how many arguments a print may have

ASSUME ShellAssumption ==
    /\ {Root, Window} \subseteq Pids /\ Root # Window
    /\ Outside \notin Pids
    /\ MaxLines \in Nat /\ MaxWords \in Nat

VARIABLES
    state,    \* what each pid is
    parent,   \* who is told when it ends
    sigchld,  \* whether SIGCHLD is pending for it
    sigterm,  \* the processes with a SIGTERM sent to them
    reaping,  \* whether it is inside sigcld_handler()
    table,    \* the process table in its memory
    buffer,   \* the command its buffer still holds
    pc,       \* where it is in the loop of main()
    child,    \* the pid fork() returned to run()
    cursor,   \* the entries a kill has yet to signal
    pieces,   \* the writes an answer still takes; in list, the entry it is at
    client,   \* where client.c is
    lines,    \* mainpipe: the commands that wait to be read
    unread,   \* secondpipe: whether there is something to read
    typed,    \* how many lines the user has typed
    copies,   \* history: the parsers that came of a failed run
    many      \* history: whether some answer took two writes

kernel == <<state, parent, sigchld, sigterm, reaping>>
memory == <<table, buffer, pc, child, cursor, pieces>>
pipes  == <<client, lines, unread, typed, many>>
vars   == <<kernel, memory, pipes, copies>>

\* What a line asks for.  The buffer is never cleared, and what is left of
\* longer lines behind a shorter one may turn a line of blanks into a command;
\* "blank" is a line that stays one.  The client drops an empty line.
Commands == {"blank", "exit", "run", "bare run", "list", "listall", "kill",
             "kill all", "print", "other"}
Labels == {"none", "read", "answer", "wait", "list", "kill", "kill all"}
States == {"free", "child", "parser", "program", "window", "zombie", "gone"}

-----------------------------------------------------------------------------
(* The kernel's part.                                                      *)

Exists(p) == state[p] \notin {"free", "gone"}
Zombies(h) == {c \in Pids : state[c] = "zombie" /\ parent[c] = h}

\* Process p ends.
Exit(p) ==
    /\ state' = [q \in Pids |->
                   IF q = p THEN IF parent[p] = Outside THEN "gone" ELSE "zombie"
                   ELSE IF q \in Zombies(p) THEN "gone" ELSE state[q]]
    /\ parent' = [q \in Pids |-> IF parent[q] = p THEN Outside ELSE parent[q]]
    /\ sigchld' = [q \in Pids |-> q # p /\ (q = parent[p] \/ sigchld[q])]
    /\ reaping' = [reaping EXCEPT ![p] = FALSE]
    /\ pc' = [pc EXCEPT ![p] = "none"]
    /\ child' = [child EXCEPT ![p] = Outside]
    /\ cursor' = [cursor EXCEPT ![p] = {}]
    /\ pieces' = [pieces EXCEPT ![p] = 0]
    /\ table' = [table EXCEPT ![p] = <<>>]
    /\ buffer' = [buffer EXCEPT ![p] = "none"]
    /\ UNCHANGED copies

\* A process that ends without having sent a signal or touched the pipes.
Ends(p) == Exit(p) /\ sigterm' = sigterm \ {p} /\ UNCHANGED pipes

Signal(p) == sigterm' = IF state[p] = "zombie" THEN sigterm ELSE sigterm \cup {p}

\* Who holds the parser's ends of both pipes, and who the client's.
Inheritors == {p \in Pids : state[p] \in {"child", "parser", "program"}}
WindowOpen == client # "gone" \/ state[Window] = "window"

-----------------------------------------------------------------------------
(* The parser.                                                             *)

\* It is at label l, and not interrupted by sigcld_handler().
At(h, l) == state[h] = "parser" /\ pc[h] = l /\ ~reaping[h]
Goto(h, l) == pc' = [pc EXCEPT ![h] = l]

\* It goes on to write an answer of n pieces.
Reply(h, n) ==
    /\ Goto(h, "answer")
    /\ pieces' = [pieces EXCEPT ![h] = n]

\* One write to secondpipe; nobody handles the SIGPIPE of a closed window.
Write == WindowOpen /\ unread' = TRUE

Answer(h) ==
    /\ At(h, "answer")
    /\ Write
    /\ many' = (many \/ pieces[h] > 1)
    /\ pieces' = [pieces EXCEPT ![h] = @ - 1]
    /\ IF pieces[h] = 1 THEN Goto(h, "read") ELSE UNCHANGED pc
    /\ UNCHANGED <<kernel, table, buffer, child, cursor, client, lines, typed, copies>>

\* list has another write to do.
Listing(h) ==
    /\ At(h, "list")
    /\ pieces[h] \in {0} \cup {i \in DOMAIN table[h] : table[h][i].isrunning}

BrokenPipe(h) ==
    /\ At(h, "answer") \/ Listing(h)
    /\ ~WindowOpen
    /\ Ends(h)

\* read() takes every line there is.  Their first word is that of the first
\* line, or of one that follows lines without any: blank ones, and those among
\* the others that have only tabs.  A space, such as blank lines begin with,
\* ends it; the words of later lines become its arguments.
Meanings(line, more) ==
    {line} \cup CASE more /\ line = "bare run" -> {"run"}
                  [] more /\ line = "list" -> {"listall"}
                  [] more /\ line = "kill" -> {"kill all"}
                  [] OTHER -> {}

Merged(ls) ==
    LET firsts == {i \in DOMAIN ls : /\ \A j \in 1 .. i - 1 : ls[j] \in {"blank", "other"}
                                    /\ \A j \in 2 .. i : ls[j] # "blank"}
    IN UNION {Meanings(ls[i], i < Len(ls)) : i \in firsts}

Obeys(h, command) ==
    /\ At(h, "read")
    /\ lines # <<>>
    /\ command \in Merged(lines)
    /\ lines' = <<>>
    /\ buffer' = [buffer EXCEPT ![h] = command]
    /\ UNCHANGED <<state, parent, sigchld, reaping, client, unread, typed, copies, many>>

\* exit: the window is told to end, the programs are not.
ExitCommand(h) ==
    /\ At(h, "read")
    /\ lines # <<>>
    /\ "exit" \in Merged(lines)
    /\ IF Exists(Window) THEN Signal(Window) ELSE UNCHANGED sigterm
    /\ Exit(h)
    /\ lines' = <<>>
    /\ UNCHANGED <<client, unread, typed, many>>

\* Mutant of OneWrite: a wrong command is passed over like a blank line.
OneWrite_Never(h) == Obeys(h, "other") /\ UNCHANGED <<sigterm, pc, pieces>>

\* help, a wrong command, and arithmetic: every path through add(), subtract(),
\* multiply() and the division writes once.
OneWrite(h) == Obeys(h, "other") /\ Reply(h, 1) /\ UNCHANGED sigterm

\* print writes its words and then a newline; a blank line is passed over.
Other(h) ==
    \/ OneWrite(h)
    \/ Obeys(h, "print") /\ (\E n \in 0 .. MaxWords : Reply(h, n + 1)) /\ UNCHANGED sigterm
    \/ Obeys(h, "blank") /\ UNCHANGED <<sigterm, pc, pieces>>

OtherCommand(h) == Other(h) /\ UNCHANGED <<table, child, cursor>>

\* list all: a header and every entry.
ListAll(h) ==
    /\ Obeys(h, "listall")
    /\ Reply(h, 1 + Len(table[h]))
    /\ UNCHANGED <<sigterm, table, child, cursor>>

\* list: a header, or a message, and the entries from the head to the first
\* that is not running, each looked at when it is reached.
List(h) ==
    /\ Obeys(h, "list")
    /\ Goto(h, "list")
    /\ UNCHANGED <<sigterm, table, child, cursor, pieces>>

ListStep(h) ==
    /\ At(h, "list")
    /\ IF Listing(h)
       THEN /\ Write
            /\ many' = (many \/ pieces[h] > 0)
            /\ pieces' = [pieces EXCEPT ![h] = @ + 1]
            /\ UNCHANGED pc
       ELSE /\ Goto(h, "read")
            /\ pieces' = [pieces EXCEPT ![h] = 0]
            /\ UNCHANGED <<unread, many>>
    /\ UNCHANGED <<kernel, table, buffer, child, cursor, client, lines, typed, copies>>

-----------------------------------------------------------------------------
(* run                                                                     *)

\* pipe2() and fork(): c is a copy of h, and h blocks until c has closed the
\* pipe.
Forks(h, c, command) ==
    /\ state[c] = "free"
    /\ state' = [state EXCEPT ![c] = "child"]
    /\ parent' = [parent EXCEPT ![c] = h]
    /\ table' = [table EXCEPT ![c] = table[h]]
    /\ buffer' = [buffer EXCEPT ![h] = command, ![c] = command]
    /\ child' = [child EXCEPT ![h] = c]
    /\ Goto(h, "wait")
    /\ UNCHANGED <<sigchld, sigterm, reaping, cursor, pieces>>

RunForks(h, c, command) ==
    /\ At(h, "read")
    /\ lines # <<>>
    /\ command \in {"run", "bare run"}
    /\ command \in Merged(lines)
    /\ Forks(h, c, command)
    /\ lines' = <<>>
    /\ UNCHANGED <<client, unread, typed, copies, many>>

\* fork() fails, or pipe2(): every run leaves the read end of its pipe open.
RunFails(h) ==
    /\ At(h, "read")
    /\ lines # <<>>
    /\ Merged(lines) \cap {"run", "bare run"} # {}
    /\ Exit(h)
    /\ lines' = <<>>
    /\ UNCHANGED <<sigterm, client, unread, typed, many>>

\* insertfirst(), with some name
Recorded(entries, pid) == InsertFirst(entries, pid, "name")

\* Mutants of RunReturns: main records a child only if it has not ended; the
\* parser closes the read end too early and does not wait.
RunReturns_Alive(h) ==
    /\ At(h, "wait")
    /\ state[child[h]] \notin {"child", "parser"}
    /\ table' = [table EXCEPT ![h] = IF state[child[h]] = "program"
                                     THEN Recorded(@, child[h]) ELSE @]
    /\ child' = [child EXCEPT ![h] = Outside]
    /\ Reply(h, 1)
    /\ UNCHANGED <<kernel, buffer, cursor, pipes, copies>>

RunReturns_AtOnce(h) ==
    /\ At(h, "wait")
    /\ table' = [table EXCEPT ![h] = Recorded(@, child[h])]
    /\ child' = [child EXCEPT ![h] = Outside]
    /\ Reply(h, 1)
    /\ UNCHANGED <<kernel, buffer, cursor, pipes, copies>>

\* The child holds the pipe until it executes a program or ends; whatever it
\* did, main records it and answers "Success".
RunReturns(h) ==
    /\ At(h, "wait")
    /\ state[child[h]] \notin {"child", "parser"}
    /\ table' = [table EXCEPT ![h] = Recorded(@, child[h])]
    /\ child' = [child EXCEPT ![h] = Outside]
    /\ Reply(h, 1)
    /\ UNCHANGED <<kernel, buffer, cursor, pipes, copies>>

ExecSucceeds(c) ==
    /\ state[c] = "child"
    /\ buffer[c] = "run"
    /\ state' = [state EXCEPT ![c] = "program"]
    /\ table' = [table EXCEPT ![c] = <<>>]
    /\ UNCHANGED <<parent, sigchld, sigterm, reaping, buffer, pc, child, cursor, pieces,
                   pipes, copies>>

\* run() returns 0 in the child, which answers "Bad Name" and reads on.
ExecFails(c) ==
    /\ state[c] = "child"
    /\ buffer[c] = "run"
    /\ state' = [state EXCEPT ![c] = "parser"]
    /\ copies' = copies \cup {c}
    /\ Reply(c, 1)
    /\ UNCHANGED <<parent, sigchld, sigterm, reaping, table, buffer, child, cursor, pipes>>

\* `run' without an argument: sscanf(NULL).
NoArgument(c) ==
    /\ state[c] = "child"
    /\ buffer[c] = "bare run"
    /\ Ends(c)

-----------------------------------------------------------------------------
(* kill                                                                    *)

\* searchpid()
Position(entries, pid) == SearchPid(entries, pid)

\* searchpname(), called again and again: the entries of one name.
Namesakes(entries) == SUBSET DOMAIN entries
First(positions) == CHOOSE i \in positions : \A j \in positions : i <= j

\* killoneprocess() with a number, or kill without an argument: the entry is
\* looked up and found running, or there is an answer ...
KillPid(h, p) ==
    LET i == Position(table[h], p) IN
    /\ Obeys(h, "kill")
    /\ IF i # NULL /\ table[h][i].isrunning
       THEN Goto(h, "kill") /\ cursor' = [cursor EXCEPT ![h] = {i}] /\ UNCHANGED pieces
       ELSE Reply(h, 1) /\ UNCHANGED cursor
    /\ UNCHANGED <<sigterm, table, child>>

\* ... with a name ...
KillName(h, same) ==
    /\ Obeys(h, "kill")
    /\ same # {}
    /\ IF table[h][First(same)].isrunning
       THEN Goto(h, "kill") /\ cursor' = [cursor EXCEPT ![h] = {First(same)}] /\ UNCHANGED pieces
       ELSE Reply(h, 1) /\ UNCHANGED cursor
    /\ UNCHANGED <<sigterm, table, child>>

\* ... with a name that is not in the table, which is printed before the
\* pointer is looked at; or `kill all' with a table but no name.
KillCrashes(h) ==
    /\ At(h, "read")
    /\ lines # <<>>
    /\ \/ "kill" \in Merged(lines)
       \/ "kill all" \in Merged(lines) /\ table[h] # <<>>
    /\ Exit(h)
    /\ lines' = <<>>
    /\ UNCHANGED <<sigterm, client, unread, typed, many>>

\* killallprocess() goes ahead if the newest of the name is running.
KillAll(h, same) ==
    /\ Obeys(h, "kill all")
    /\ IF same # {} /\ table[h][First(same)].isrunning
       THEN Goto(h, "kill all") /\ cursor' = [cursor EXCEPT ![h] = same] /\ UNCHANGED pieces
       ELSE Reply(h, 1) /\ UNCHANGED cursor
    /\ UNCHANGED <<sigterm, table, child>>

Victim(h) == table[h][First(cursor[h])].pid

\* Mutant of KillSends: the pointer is not moved on.
KillSends_Stays(h) ==
    /\ At(h, "kill") \/ At(h, "kill all")
    /\ Exists(Victim(h))
    /\ Signal(Victim(h))
    /\ IF Cardinality(cursor[h]) = 1 THEN Reply(h, 1) ELSE UNCHANGED <<pc, pieces>>
    /\ UNCHANGED <<state, parent, sigchld, reaping, table, buffer, child, cursor, pipes, copies>>

\* kill(), and the answer after the last one.
KillSends(h) ==
    /\ At(h, "kill") \/ At(h, "kill all")
    /\ Exists(Victim(h))
    /\ Signal(Victim(h))
    /\ cursor' = [cursor EXCEPT ![h] = @ \ {First(@)}]
    /\ IF Cardinality(cursor[h]) = 1 THEN Reply(h, 1) ELSE UNCHANGED <<pc, pieces>>
    /\ UNCHANGED <<state, parent, sigchld, reaping, table, buffer, child, pipes, copies>>

\* A process that has been reaped by now: any failure of kill() is exit(-1).
KillErrors(h) ==
    /\ At(h, "kill") \/ At(h, "kill all")
    /\ ~Exists(Victim(h))
    /\ Ends(h)

-----------------------------------------------------------------------------
(* The end of the pipe: read() returns 0, which main() does not tell from a *)
(* line, and it executes what the buffer holds once more, now without       *)
(* arguments.                                                               *)

EndOfFile(h) == At(h, "read") /\ lines = <<>> /\ ~WindowOpen

\* A buffer without a word: the first token is NULL.
NoWord(h) == EndOfFile(h) /\ buffer[h] = "none" /\ Ends(h)

RunsAgain(h, c) ==
    /\ EndOfFile(h)
    /\ buffer[h] \in {"run", "bare run"}
    /\ Forks(h, c, "bare run")
    /\ UNCHANGED <<pipes, copies>>

RunsAgainFails(h) ==
    /\ EndOfFile(h)
    /\ buffer[h] \in {"run", "bare run"}
    /\ Ends(h)

AnswersAgain(h) ==
    /\ EndOfFile(h)
    /\ buffer[h] \notin {"none", "run", "bare run", "blank"}
    /\ Reply(h, 1)
    /\ UNCHANGED <<kernel, table, buffer, child, cursor, pipes, copies>>

\* A blank line is passed over for ever.
Spins(h) == EndOfFile(h) /\ buffer[h] = "blank" /\ UNCHANGED vars

-----------------------------------------------------------------------------
(* sigcld_handler()                                                        *)

SigchldArrives(h) ==
    /\ state[h] = "parser"
    /\ sigchld[h]
    /\ ~reaping[h]
    /\ sigchld' = [sigchld EXCEPT ![h] = FALSE]
    /\ reaping' = [reaping EXCEPT ![h] = TRUE]
    /\ UNCHANGED <<state, parent, sigterm, memory, pipes, copies>>

\* insertendtime()
Marked(entries, pid) == InsertEndTime(entries, pid)

Reap(h, c) ==
    /\ reaping[h]
    /\ c \in Zombies(h)
    /\ Position(table[h], c) # NULL
    /\ state' = [state EXCEPT ![c] = "gone"]
    /\ parent' = [parent EXCEPT ![c] = Outside]
    /\ table' = [table EXCEPT ![h] = Marked(@, c)]
    /\ UNCHANGED <<sigchld, sigterm, reaping, buffer, pc, child, cursor, pieces, pipes,
                   copies>>

\* A child that is not in the table: insertendtime() writes through NULL.
ReapCrashes(h, c) ==
    /\ reaping[h]
    /\ c \in Zombies(h)
    /\ Position(table[h], c) = NULL
    /\ Ends(h)

\* Mutant of ReapReturns: one waitpid() for each signal.
ReapReturns_OnePerSignal(h) ==
    /\ reaping[h]
    /\ reaping' = [reaping EXCEPT ![h] = FALSE]
    /\ UNCHANGED <<state, parent, sigchld, sigterm, memory, pipes, copies>>

ReapReturns(h) ==
    /\ reaping[h]
    /\ Zombies(h) = {}
    /\ reaping' = [reaping EXCEPT ![h] = FALSE]
    /\ UNCHANGED <<state, parent, sigchld, sigterm, memory, pipes, copies>>

-----------------------------------------------------------------------------
(* The client, its window, and the programs.                               *)

\* A line typed at the prompt goes to mainpipe; without a reader the client
\* is killed by SIGPIPE.
Types(command) ==
    /\ client = "prompt"
    /\ typed < MaxLines
    /\ typed' = typed + 1
    /\ IF Inheritors # {}
       THEN client' = "wait" /\ lines' = Append(lines, command)
       ELSE client' = "gone" /\ UNCHANGED lines
    /\ UNCHANGED <<kernel, memory, unread, copies, many>>

\* The end-of-file key at the prompt: nothing is written, and the client waits
\* for the answer to it.
TypesNothing ==
    /\ client = "prompt"
    /\ client' = "idle"
    /\ UNCHANGED <<kernel, memory, lines, unread, typed, copies, many>>

\* Mutant of ClientReads: without a writer the client is not at the prompt
\* again.
ClientReads_Blocks ==
    /\ client \in {"wait", "idle"}
    /\ unread
    /\ unread' = FALSE
    /\ client' = "prompt"
    /\ UNCHANGED <<kernel, memory, lines, typed, copies, many>>

\* The one read(): all there is, or 0 when nobody can write any more.
ClientReads ==
    /\ client \in {"wait", "idle"}
    /\ unread \/ Inheritors = {}
    /\ unread' = FALSE
    /\ client' = "prompt"
    /\ UNCHANGED <<kernel, memory, lines, typed, copies, many>>

\* The window ends: it is closed or told to, or the client in it has ended.
WindowEnds ==
    /\ state[Window] = "window"
    /\ Ends(Window)

\* The client ends with its window.
ClientEnds ==
    /\ client # "gone"
    /\ state[Window] # "window"
    /\ client' = "gone"
    /\ UNCHANGED <<kernel, memory, lines, unread, typed, copies, many>>

ProgramEnds(p) == state[p] = "program" /\ Ends(p)

-----------------------------------------------------------------------------
Init ==
    /\ state = [p \in Pids |-> CASE p = Root -> "parser" [] p = Window -> "window"
                                 [] OTHER -> "free"]
    /\ parent = [p \in Pids |-> IF p = Window THEN Root ELSE Outside]
    /\ sigchld = [p \in Pids |-> FALSE]
    /\ sigterm = {}
    /\ reaping = [p \in Pids |-> FALSE]
    /\ table = [p \in Pids |-> <<>>]
    /\ buffer = [p \in Pids |-> "none"]
    /\ pc = [p \in Pids |-> IF p = Root THEN "read" ELSE "none"]
    /\ child = [p \in Pids |-> Outside]
    /\ cursor = [p \in Pids |-> {}]
    /\ pieces = [p \in Pids |-> 0]
    /\ client = "prompt"
    /\ lines = <<>>
    /\ unread = FALSE
    /\ typed = 0
    /\ copies = {}
    /\ many = FALSE

\* What the main program of a parser does.
Turn(h) ==
    \/ ExitCommand(h) \/ OtherCommand(h) \/ ListAll(h) \/ List(h) \/ RunFails(h)
    \/ \E c \in Pids, command \in Commands : RunForks(h, c, command)
    \/ \E p \in Pids : KillPid(h, p)
    \/ \E same \in Namesakes(table[h]) : KillName(h, same) \/ KillAll(h, same)
    \/ KillCrashes(h) \/ KillSends(h) \/ KillErrors(h)
    \/ Answer(h) \/ BrokenPipe(h) \/ ListStep(h) \/ RunReturns(h)
    \/ NoWord(h) \/ RunsAgainFails(h) \/ AnswersAgain(h)
    \/ \E c \in Pids : RunsAgain(h, c)

Interrupt(h) ==
    \/ SigchldArrives(h) \/ ReapReturns(h)
    \/ \E c \in Pids : Reap(h, c) \/ ReapCrashes(h, c)

Exec(c) == ExecSucceeds(c) \/ ExecFails(c) \/ NoArgument(c)

\* Everybody is gone.
Stopped ==
    /\ client = "gone"
    /\ \A p \in Pids : state[p] \in {"free", "gone"}
    /\ UNCHANGED vars

Next ==
    \/ \E p \in Pids : Turn(p) \/ Spins(p) \/ Interrupt(p) \/ Exec(p) \/ ProgramEnds(p)
    \/ \E command \in Commands : Types(command)
    \/ TypesNothing \/ ClientReads \/ WindowEnds \/ ClientEnds
    \/ Stopped

Spec == Init /\ [][Next]_vars

\* The scheduler runs what can run, the kernel delivers signals, and a window
\* ends when its client has ended or it was told to.  The user need not type
\* or close the window, and programs need not end.
Fairness ==
    /\ \A p \in Pids \ {Window} : WF_vars(Turn(p)) /\ WF_vars(Interrupt(p))
    /\ \A p \in Pids \ {Window, Root} : WF_vars(Exec(p))
    /\ WF_vars(ClientReads)
    /\ WF_vars(ClientEnds)
    /\ WF_vars((client = "gone" \/ Window \in sigterm) /\ WindowEnds)

FairSpec == Spec /\ Fairness
-----------------------------------------------------------------------------
(* Properties.                                                             *)

\* Every variable has its type, and the kill loops hold on to entries of the
\* table exactly while they run (parser.c:270-364).
TypeOK ==
    /\ state \in [Pids -> States]
    /\ parent \in [Pids -> Pids \cup {Outside}]
    /\ sigchld \in [Pids -> BOOLEAN]
    /\ sigterm \subseteq Pids
    /\ reaping \in [Pids -> BOOLEAN]
    /\ table \in [Pids -> Seq(Entry(Pids, {"name"}))]
    /\ buffer \in [Pids -> Commands \cup {"none"}]
    /\ pc \in [Pids -> Labels]
    /\ child \in [Pids -> Pids \cup {Outside}]
    /\ \A h \in Pids : cursor[h] \subseteq DOMAIN table[h]
    /\ \A h \in Pids : cursor[h] # {} <=> pc[h] \in {"kill", "kill all"}
    /\ pieces \in [Pids -> Nat]
    /\ client \in {"prompt", "wait", "idle", "gone"}
    /\ \A i \in DOMAIN lines : lines[i] \in Commands
    /\ unread \in BOOLEAN
    /\ typed \in 0 .. MaxLines
    /\ copies \subseteq Pids
    /\ many \in BOOLEAN

\* However many parsers failed `run' commands have left, one at most reads
\* lines and answers (parser.c:383-424).
OneActiveParser ==
    \A h1, h2 \in {p \in Pids : state[p] \in {"child", "parser"}} :
        h1 # h2 => pc[h1] = "wait" \/ pc[h2] = "wait"

\* A child whose death crashes sigcld_handler() (parser.c:557) is the window
\* or the one that run() is starting: every other child that is not reaped is
\* in the table, as running.
ReaperKnows ==
    \A h, c \in Pids :
        (parent[c] = h /\ c # Window) =>
            \/ pc[h] = "wait" /\ child[h] = c
            \/ LET i == Position(table[h], c) IN i # NULL /\ table[h][i].isrunning

\* The client reads once for a line (client.c:33).  While a parser runs this is
\* enough as long as no answer took two writes and no parser that came of a
\* failed run has ended: back at its prompt the client has left nothing in
\* either pipe, so that each answer it shows is that of the line before it, and
\* no two lines merge.
InStep ==
    /\ client = "prompt"
    /\ \E p \in Pids : state[p] = "parser"
    /\ ~many
    /\ \A p \in copies : state[p] = "parser"
    => lines = <<>> /\ ~unread

\* Client and parser wait for each other only after a blank line, or after the
\* client sent nothing (client.c:33, parser.c:104): whatever answers merged or
\* were left over, and whichever parser was interrupted or has ended, no
\* other line stays without an answer.
MutualWait(h) == client = "wait" /\ ~unread /\ lines = <<>> /\ At(h, "read")

OnlyBlankHangs == \A h \in Pids : MutualWait(h) => buffer[h] = "blank"

\* The client's wait ends (client.c:33) unless it is for a blank line, or the
\* parsers are gone and programs hold the pipe open.
Orphaned ==
    /\ \A p \in Pids : state[p] \notin {"child", "parser"}
    /\ \E p \in Pids : state[p] = "program"

WaitEnds ==
    (client = "wait") ~> (client # "wait" \/ Orphaned \/ \E h \in Pids : MutualWait(h))

\* The end of the window is the end of the shell (parser.c:25-50 and 104): the
\* parser that was started ends, by a signal it cannot write through or a
\* crash, but does not stay behind.
RootFollows == (client = "gone") ~> (state[Root] \in {"zombie", "gone"})
=============================================================================
