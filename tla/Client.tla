------------------------------- MODULE Client -------------------------------
(***************************************************************************)
(* The network client, sockets/client.c: a main thread at the prompt >>,   *)
(* and, while there is a connection, two threads: readthread() takes the   *)
(* user's lines to the server, writethread() the server's answers to the   *)
(* terminal.  They share, without a lock, serverstatus and the descriptor  *)
(* of the connection, which each of the three closes when it is done.      *)
(*                                                                         *)
(* Attempts to connect are numbered; the current connection is the last.   *)
(* Commands of no effect here (help, a newline, a wrong use of connect)    *)
(* are steps of readthread() only.  At the end of its input the client     *)
(* finds the rest of an older line in its buffer: that is again a command  *)
(* of no effect, or none at all, as in a garbled line.                     *)
(***************************************************************************)
EXTENDS Integers, FiniteSetsExt

CONSTANTS Fds,          \* descriptors the client has for sockets
          MaxConnects   \* bound on the number of `connect' commands

ASSUME ClientAssumption ==
    /\ Fds \subseteq Nat
    /\ MaxConnects \in Nat \ {0}

VARIABLES
    client,        \* "up", or why it ended
    main,          \* where its main thread is
    reader,        \* where readthread() is
    writer,        \* where writethread() is
    cancelled,     \* whether writethread() has a cancellation pending
    serverstatus,  \* 2 at first, 1 when connected, 0 when disconnected
    sock,          \* the descriptor the threads are given a pointer to
    fdtable,       \* the attempt each open descriptor is for
    tries,         \* how many attempts there were
    failed,        \* history: the attempts that failed
    servergone,    \* whether the server has ended the current connection
    asked          \* history: whether the user has ended it

threads == <<main, reader, writer, cancelled>>
socket  == <<sock, fdtable, tries, failed>>
vars    == <<client, threads, serverstatus, socket, servergone, asked>>

MainLabels   == {"prompt", "create reader", "create writer", "join reader",
                 "cancel", "join writer", "close"}
ReaderLabels == {"none", "check", "input", "close", "done"}
WriterLabels == {"none", "check", "call", "read", "close", "done"}

None == -1

Up == client = "up"
FreeFds == {f \in Fds : fdtable[f] = None}
Open == sock # None /\ fdtable[sock] # None

\* close(sock); it fails, unseen, if another thread was faster.
CloseSock == fdtable' = IF Open THEN [fdtable EXCEPT ![sock] = None] ELSE fdtable

\* The process ends, and its descriptors are closed.
Ends(why) ==
    /\ client' = why
    /\ fdtable' = [f \in Fds |-> None]
    /\ UNCHANGED <<threads, serverstatus, sock, tries, failed, servergone, asked>>

-----------------------------------------------------------------------------
(* The main thread.                                                        *)

At(l) == Up /\ main = l

\* serverconnect() opens a socket ...
Opens ==
    /\ At("prompt")
    /\ tries < MaxConnects
    /\ FreeFds # {}
    /\ fdtable' = [fdtable EXCEPT ![Min(FreeFds)] = tries]
    /\ tries' = tries + 1
    /\ UNCHANGED <<client, reader, writer, cancelled>>

\* ... and main() begins to serve its connection.
Starts ==
    /\ main' = "create reader"
    /\ servergone' = FALSE
    /\ asked' = FALSE

\* Mutant of Connect: serverstatus is only ever set by its initialisation.
Connect_KeepsStatus ==
    /\ Opens /\ Starts
    /\ sock' = Min(FreeFds)
    /\ UNCHANGED <<serverstatus, failed>>

\* `connect' succeeds.
Connect ==
    /\ Opens /\ Starts
    /\ sock' = Min(FreeFds)
    /\ serverstatus' = 1
    /\ UNCHANGED failed

\* Mutant of ConnectFails: the result of serverconnect() is not checked.
ConnectFails_Unchecked ==
    /\ Opens /\ Starts
    /\ sock' = None
    /\ serverstatus' = 1
    /\ failed' = failed \cup {tries}

\* An unknown host, or connect() fails: serverconnect() returns -1 and never
\* closes the socket.
ConnectFails ==
    /\ Opens
    /\ sock' = None
    /\ failed' = failed \cup {tries}
    /\ UNCHANGED <<main, serverstatus, servergone, asked>>

\* socket() fails, and serverconnect() exits.
NoSocket ==
    /\ At("prompt")
    /\ FreeFds = {}
    /\ Ends("socket")

MainGoto(l) ==
    /\ main' = l
    /\ UNCHANGED <<client, serverstatus, sock, tries, failed, servergone, asked>>

CreateReader ==
    /\ At("create reader") /\ MainGoto("create writer")
    /\ reader' = "check"
    /\ UNCHANGED <<writer, cancelled, fdtable>>

CreateWriter ==
    /\ At("create writer") /\ MainGoto("join reader")
    /\ writer' = "check"
    /\ UNCHANGED <<reader, cancelled, fdtable>>

JoinReader ==
    /\ At("join reader") /\ MainGoto("cancel")
    /\ reader = "done"
    /\ reader' = "none"
    /\ UNCHANGED <<writer, cancelled, fdtable>>

\* Mutant of Cancel: writethread() is left to end by itself.
Cancel_Never ==
    /\ At("cancel") /\ MainGoto("join writer")
    /\ UNCHANGED <<reader, writer, cancelled, fdtable>>

\* pthread_cancel(), if the connection is said to be over.
Cancel ==
    /\ At("cancel") /\ MainGoto("join writer")
    /\ cancelled' = (serverstatus = 0)
    /\ UNCHANGED <<reader, writer, fdtable>>

\* Mutant of JoinWriter: nobody waits for writethread().
JoinWriter_Skipped ==
    /\ At("join writer") /\ MainGoto("close")
    /\ UNCHANGED <<reader, writer, cancelled, fdtable>>

JoinWriter ==
    /\ At("join writer") /\ MainGoto("close")
    /\ writer = "done"
    /\ writer' = "none"
    /\ cancelled' = FALSE
    /\ UNCHANGED <<reader, fdtable>>

\* The main thread closes the descriptor once more and is back at the prompt.
Close ==
    /\ At("close") /\ MainGoto("prompt")
    /\ CloseSock
    /\ UNCHANGED <<reader, writer, cancelled>>

-----------------------------------------------------------------------------
(* readthread().                                                           *)

Reads(l) == Up /\ reader = l

ReaderGoto(l) ==
    /\ reader' = l
    /\ UNCHANGED <<client, main, writer, cancelled, sock, tries, failed,
                   servergone>>

\* The top of its loop: it may learn that the connection is over.
ReaderChecks ==
    /\ Reads("check")
    /\ ReaderGoto(IF serverstatus = 0 THEN "close" ELSE "input")
    /\ UNCHANGED <<serverstatus, fdtable, asked>>

\* `disconnect'.
Disconnect ==
    /\ Reads("input") /\ ReaderGoto("close")
    /\ serverstatus' = 0
    /\ asked' = TRUE
    /\ UNCHANGED fdtable

\* help or a newline; or a command for the server, the result of whose write()
\* is ignored: nothing shows that the descriptor is closed.
Send ==
    /\ Reads("input") /\ ReaderGoto("check")
    /\ UNCHANGED <<serverstatus, fdtable, asked>>

\* The server has gone, and write() raises SIGPIPE.
SendBreaks ==
    /\ Reads("input")
    /\ Open /\ servergone
    /\ Ends("sigpipe")

ReaderCloses ==
    /\ Reads("close") /\ ReaderGoto("done")
    /\ CloseSock
    /\ UNCHANGED <<serverstatus, asked>>

-----------------------------------------------------------------------------
(* writethread().  read(), write() and close() are cancellation points: it *)
(* takes no step of its own once it is cancelled.                          *)

Writes(l) == Up /\ writer = l /\ ~cancelled

WriterGoto(l) ==
    /\ writer' = l
    /\ UNCHANGED <<client, main, reader, cancelled, sock, tries, failed,
                   servergone, asked>>

WriterChecks ==
    /\ Writes("check")
    /\ WriterGoto(IF serverstatus = 0 THEN "close" ELSE "call")
    /\ UNCHANGED <<serverstatus, fdtable>>

\* It calls read().  From now on it holds the connection, even if another
\* thread closes the descriptor, and stays blocked then.
WriterBlocks ==
    /\ Writes("call") /\ WriterGoto("read")
    /\ Open
    /\ UNCHANGED <<serverstatus, fdtable>>

\* The server sends something, which is printed.
WriterPrints ==
    /\ Writes("read") /\ WriterGoto("check")
    /\ ~servergone
    /\ UNCHANGED <<serverstatus, fdtable>>

\* read() returns -1, for a descriptor that is closed or a connection that is
\* reset, or 0 at the end of the connection.
ReadFails ==
    \/ Writes("call") /\ ~Open
    \/ Writes("read") /\ servergone

\* Mutant of ReadEnds: serverstatus is not updated.
ReadEnds_Silent ==
    /\ ReadFails /\ WriterGoto("close")
    /\ UNCHANGED <<serverstatus, fdtable>>

ReadEnds ==
    /\ ReadFails /\ WriterGoto("close")
    /\ serverstatus' = 0
    /\ UNCHANGED fdtable

WriterCloses ==
    /\ Writes("close") /\ WriterGoto("done")
    /\ CloseSock
    /\ UNCHANGED serverstatus

WriterCancelled ==
    /\ Up /\ cancelled
    /\ writer \notin {"none", "done"}
    /\ WriterGoto("done")
    /\ UNCHANGED <<serverstatus, fdtable>>

-----------------------------------------------------------------------------
\* `exit', a garbled line or an error of read(0), wherever the user's input is
\* read.
Exit ==
    /\ At("prompt") \/ Reads("input")
    /\ Ends("exit")

\* The server ends the connection, or the network does.
ServerCloses ==
    /\ Up /\ main # "prompt" /\ ~servergone
    /\ servergone' = TRUE
    /\ UNCHANGED <<client, threads, serverstatus, socket, asked>>

Init ==
    /\ client = "up"
    /\ main = "prompt"
    /\ reader = "none"
    /\ writer = "none"
    /\ cancelled = FALSE
    /\ serverstatus = 2
    /\ sock = None
    /\ fdtable = [f \in Fds |-> None]
    /\ tries = 0
    /\ failed = {}
    /\ servergone = FALSE
    /\ asked = FALSE

MainThread == CreateReader \/ CreateWriter \/ JoinReader \/ Cancel \/ JoinWriter \/ Close
Reader == ReaderChecks \/ ReaderCloses
Writer == WriterChecks \/ WriterBlocks \/ ReadEnds \/ WriterCloses \/ WriterCancelled
User == Connect \/ ConnectFails \/ NoSocket \/ Disconnect \/ Send \/ SendBreaks \/ Exit

Stopped == ~Up /\ UNCHANGED vars

Next == MainThread \/ Reader \/ Writer \/ User \/ WriterPrints \/ ServerCloses \/ Stopped

Spec == Init /\ [][Next]_vars

\* The three threads are scheduled.  Nobody has to type, and the server has
\* neither to answer nor to leave.
Fairness == WF_vars(MainThread) /\ WF_vars(Reader) /\ WF_vars(Writer)

FairSpec == Spec /\ Fairness

-----------------------------------------------------------------------------
(* Type invariant.                                                         *)

\* Every variable has its type, and no thread is given a pointer to -1.
TypeOK ==
    /\ client \in {"up", "socket", "sigpipe", "exit"}
    /\ main \in MainLabels
    /\ reader \in ReaderLabels
    /\ writer \in WriterLabels
    /\ cancelled \in BOOLEAN
    /\ serverstatus \in {0, 1, 2}
    /\ sock \in Fds \cup {None}
    /\ main # "prompt" => sock # None
    /\ fdtable \in [Fds -> 0 .. MaxConnects - 1 \cup {None}]
    /\ tries \in 0 .. MaxConnects
    /\ failed \in SUBSET (0 .. MaxConnects - 1)
    /\ servergone \in BOOLEAN
    /\ asked \in BOOLEAN

-----------------------------------------------------------------------------
(* Safety.                                                                 *)

\* Whenever the client is back at its prompt (client.c:187), nothing is left
\* of a connection that was made: no thread that could read, or close, the
\* descriptor of the next one, and no descriptor.  What leaks is exactly one
\* descriptor per failed attempt (client.c:226, 234).
PromptClean ==
    At("prompt") =>
        /\ reader = "none" /\ writer = "none"
        /\ {fdtable[f] : f \in Fds \ FreeFds} = failed

\* When a thread is at its end, serverstatus says so: this is what the other
\* thread's check, and the condition of pthread_cancel() (client.c:177), rely
\* on, whichever of the two ends first.
StatusTells ==
    Up /\ (reader \in {"close", "done"} \/ writer \in {"close", "done"} \/ main = "cancel")
        => serverstatus = 0

\* The client does not hang up by itself: from its creation to the end of its
\* threads a connection that neither the user nor the server has ended has its
\* descriptor open, although three threads may close it (client.c:28, 36, 43,
\* 65, 91, 186).
ConnectionKept ==
    Up /\ main # "prompt" /\ ~asked /\ ~servergone
        => Open /\ fdtable[sock] = tries - 1

-----------------------------------------------------------------------------
(* Liveness.                                                               *)

\* After `disconnect', or when readthread() learns that the server has gone,
\* the prompt comes back without any help of the user or the server: the
\* writethread() that is blocked in read() is cancelled (client.c:179).
DisconnectReturns == reader = "close" ~> main = "prompt" \/ ~Up
=============================================================================
