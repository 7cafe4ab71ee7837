------------------------------ MODULE Workers ------------------------------
(***************************************************************************)
(* The answers of one subserver of sockets/server.c to its client: the     *)
(* commands that one read() finds, the thread that requesthandler() starts *)
(* for each arithmetic command and does not wait for, the main thread that *)
(* writes all other answers to the same socket, and the end of the         *)
(* connection, which may come while threads are still to write.            *)
(*                                                                         *)
(* The programs of the client are here only as the entries killall() has   *)
(* to go through, reaped or not; module Subserver has their life.          *)
(***************************************************************************)
EXTENDS Arithmetic

CONSTANTS Lines,       \* the lines the client may send: [op, args, newline]
          MaxLines,    \* how many it sends
          MaxPrograms  \* how many programs it has started before

\* A command: its first word, which may be none of those that matter here, its
\* arguments and whether a newline ends it.
Ops == {"add", "mul", "sub", "div", "print", "list", "kill", "blank", "other"}
Commands == [op : Ops, args : Seq(Int \cup {Word}), newline : BOOLEAN]

ASSUME WorkersAssumption ==
    /\ Lines \subseteq Commands
    /\ \A line \in Lines : ~line.newline => line.args # <<>>
    /\ MaxLines \in Nat
    /\ MaxPrograms \in Nat

VARIABLES
    peer,     \* the client's end: "open"; "closed" in order, and then "broken"
              \* when a late write was refused; "reset", with an error for the
              \* next call, and "aborted" after that
    sent,     \* how many lines the client has sent
    inbox,    \* the lines that wait to be read
    obeyed,   \* the commands main has taken, numbered in this order
    main,     \* where the main thread is
    pieces,   \* how many writes the answer of main's command still takes
    workers,  \* the numbers of the commands whose thread has not ended
    socket,   \* whether sockfd is open
    unswept,  \* the entries of programs killall() has not signalled
    reaped,   \* those whose program has ended and been reaped
    outbox    \* what reached the client: [no, text]

vars == <<peer, sent, inbox, obeyed, main, pieces, workers, socket, unswept, reaped, outbox>>

\* "failed" is the end of the process by an error of its own.
MainLabels == {"read", "answer", "close", "sweep", "gone", "failed"}

-----------------------------------------------------------------------------
(* What is one command, and who answers it.                                *)

\* Lines that are read together are ONE command, with every argument there is.
\* It is named by the first word, which blank lines before it do not change;
\* but a space behind the first of them makes that one the command, and blank
\* lines that nothing or a space follows are a wrong command.
Names(lines) ==
    LET named == {i \in DOMAIN lines : lines[i].op # "blank"}
        first == IF named = {} THEN Len(lines) + 1 ELSE Min(named)
    IN (IF named = {} THEN {} ELSE {lines[first].op})
       \cup (IF first > 1 THEN {"blank"} ELSE {})
       \cup (IF first > 2 THEN {"other"} ELSE {})

Merged(lines) ==
    [op : Names(lines),
     args : {FlattenSeq([i \in DOMAIN lines |-> lines[i].args])},
     newline : {Last(lines).newline}]

\* Mutant of InThread: print is given to a thread too.
InThread_Print(op) == op \in {"add", "mul", "sub", "div", "print"}

InThread(op) == op \in {"add", "mul", "sub", "div"}

\* How many writes an answer of main takes: print writes each argument by
\* itself, list a line for every entry or for some, kill all one for every entry
\* that it finds dead, and a blank line is not answered.
Pieces(command) ==
    CASE command.op = "print" -> {Len(command.args)}
      [] command.op = "blank" -> {0}
      [] command.op \in {"list", "kill"} -> 1 .. MaxPrograms + 1
      [] OTHER -> {1}

Said == [kind |-> "said", value |-> 0, newline |-> TRUE]

\* Mutant: the thread parses main's buffer, not its own copy of the line.
Result_Shared(no) ==
    LET command == Last(obeyed) IN Answer(obeyed[no].op, command.args, command.newline)

\* What the thread of a command writes.
Result(no) ==
    LET command == obeyed[no]
    IN IF command.op = "print" THEN Said
       ELSE Answer(command.op, command.args, command.newline)

-----------------------------------------------------------------------------
(* The socket.                                                             *)

\* write() to the socket: it may arrive, it may be lost, and it may raise the
\* SIGPIPE that ends the process, workers and main, wherever they are.
\* The client's kernel answers what comes after its close with a reset.
Dies ==
    /\ main' = "gone"
    /\ workers' = {}
    /\ pieces' = 0
    /\ UNCHANGED <<peer, outbox>>

Lost ==
    /\ peer' \in CASE socket /\ peer = "closed" -> {"closed", "broken"}
                   [] socket /\ peer = "reset" -> {"aborted"}
                   [] OTHER -> {peer}
    /\ UNCHANGED outbox

Write(no, text) ==
    IF socket /\ peer = "open"
    THEN outbox' = Append(outbox, [no |-> no, text |-> text]) /\ UNCHANGED peer
    ELSE Lost

Sigpipe == socket /\ peer \in {"broken", "aborted"}

-----------------------------------------------------------------------------
(* The client.                                                             *)

Send(line) ==
    /\ peer = "open"
    /\ sent < MaxLines
    /\ sent' = sent + 1
    /\ inbox' = Append(inbox, line)
    /\ UNCHANGED <<peer, obeyed, main, pieces, workers, socket, unswept, reaped, outbox>>

\* It closes its end, or ends with an answer unread, which resets.
Close(how) ==
    /\ peer = "open"
    /\ peer' = how
    /\ UNCHANGED <<sent, inbox, obeyed, main, pieces, workers, socket, unswept, reaped, outbox>>

-----------------------------------------------------------------------------
(* The main thread.                                                        *)

\* One read() and the dispatch: a thread is created for arithmetic, and since
\* pthread_join() and pthread_detach() get 0 for a thread, main goes on ...
Read(n) ==
    /\ main = "read"
    /\ inbox' = SubSeq(inbox, n + 1, Len(inbox))
    /\ \E command \in Merged(SubSeq(inbox, 1, n)) :
        /\ obeyed' = Append(obeyed, command)
        /\ IF InThread(command.op)
           THEN workers' = workers \cup {Len(obeyed) + 1} /\ UNCHANGED <<main, pieces>>
           ELSE main' = "answer" /\ pieces' \in Pieces(command) /\ UNCHANGED workers
    /\ UNCHANGED <<peer, sent, socket, unswept, reaped, outbox>>

Fails ==
    /\ main' = "failed"
    /\ workers' = {}
    /\ pieces' = 0
    /\ UNCHANGED <<peer, sent, obeyed, socket, unswept, reaped, outbox>>

\* ... where the C library looks before it reads what 0 points to.
JoinFails(n) ==
    /\ main = "read"
    /\ \E command \in Merged(SubSeq(inbox, 1, n)) : InThread(command.op)
    /\ inbox' = SubSeq(inbox, n + 1, Len(inbox))
    /\ Fails

\* Mutant of MainWrites: the loop of print goes one argument too far.
MainWrites_TooFar ==
    /\ main = "answer"
    /\ pieces >= 0
    /\ IF Sigpipe THEN Dies
       ELSE /\ Write(Len(obeyed), Said)
            /\ pieces' = pieces - 1
            /\ UNCHANGED <<main, workers>>
    /\ UNCHANGED <<sent, inbox, obeyed, socket, unswept, reaped>>

\* The answer of main's own command, in one write or more.
MainWrites ==
    /\ main = "answer"
    /\ pieces > 0
    /\ IF Sigpipe THEN Dies
       ELSE /\ Write(Len(obeyed), Said)
            /\ pieces' = pieces - 1
            /\ UNCHANGED <<main, workers>>
    /\ UNCHANGED <<sent, inbox, obeyed, socket, unswept, reaped>>

\* kill of a program that was running when its entry was read ends the
\* handler when it is gone by now.
KillFails ==
    /\ main = "answer"
    /\ pieces > 0
    /\ obeyed # <<>> /\ Last(obeyed).op = "kill"
    /\ reaped # {}
    /\ Fails
    /\ UNCHANGED inbox

Answered ==
    /\ main = "answer"
    /\ pieces = 0
    /\ main' = "read"
    /\ UNCHANGED <<peer, sent, inbox, obeyed, pieces, workers, socket, unswept, reaped, outbox>>

\* Mutant of ReadEnds: an error of read() only makes the loop go round.
ReadEnds_Retries ==
    /\ main = "read"
    /\ inbox = <<>>
    /\ peer # "open"
    /\ main' = IF peer = "reset" THEN "read" ELSE "close"
    /\ UNCHANGED <<peer, sent, inbox, obeyed, pieces, workers, socket, unswept, reaped, outbox>>

\* read() returns 0, or -1 with ECONNRESET, which is reported once; the main
\* program closes the socket in the first case only.
ReadEnds ==
    /\ main = "read"
    /\ inbox = <<>>
    /\ peer # "open"
    /\ main' = IF peer = "reset" THEN "sweep" ELSE "close"
    /\ peer' = IF peer = "reset" THEN "aborted" ELSE peer
    /\ UNCHANGED <<sent, inbox, obeyed, pieces, workers, socket, unswept, reaped, outbox>>

\* Mutant of CloseSocket: the socket is left to exit().
CloseSocket_Later ==
    /\ main = "close"
    /\ main' = "sweep"
    /\ UNCHANGED <<peer, sent, inbox, obeyed, pieces, workers, socket, unswept, reaped, outbox>>

CloseSocket ==
    /\ main = "close"
    /\ socket' = FALSE
    /\ main' = "sweep"
    /\ UNCHANGED <<peer, sent, inbox, obeyed, pieces, workers, unswept, reaped, outbox>>

\* killall() signals one program after the other, and does not get past one
\* that has been reaped.
Stuck == main = "sweep" /\ unswept \in reaped

Sweep ==
    /\ main = "sweep"
    /\ unswept > 0
    /\ ~Stuck
    /\ unswept' = unswept - 1
    /\ UNCHANGED <<peer, sent, inbox, obeyed, main, pieces, workers, socket, reaped, outbox>>

Spins == Stuck /\ UNCHANGED vars

\* exit() takes the threads with it.
Exit ==
    /\ main = "sweep"
    /\ unswept = 0
    /\ main' = "gone"
    /\ workers' = {}
    /\ UNCHANGED <<peer, sent, inbox, obeyed, pieces, socket, unswept, reaped, outbox>>

-----------------------------------------------------------------------------
(* The threads.                                                            *)

\* Mutant of WorkerWrites: the thread ends without a word when an argument is
\* not a number.
WorkerWrites_Silent(no) ==
    /\ no \in workers
    /\ IF Sigpipe THEN Dies
       ELSE /\ IF Result(no).kind = "strings" THEN UNCHANGED <<peer, outbox>>
                                              ELSE Write(no, Result(no))
            /\ workers' = workers \ {no}
            /\ UNCHANGED <<main, pieces>>
    /\ UNCHANGED <<sent, inbox, obeyed, socket, unswept, reaped>>

\* A thread writes its one answer and ends.
WorkerWrites(no) ==
    /\ no \in workers
    /\ IF Sigpipe THEN Dies
       ELSE /\ Write(no, Result(no))
            /\ workers' = workers \ {no}
            /\ UNCHANGED <<main, pieces>>
    /\ UNCHANGED <<sent, inbox, obeyed, socket, unswept, reaped>>

\* The arguments of a `div' without any are what malloc() left there.
WorkerCrashes(no) ==
    /\ no \in workers
    /\ obeyed[no].op = "div" /\ obeyed[no].args = <<>>
    /\ Fails
    /\ UNCHANGED inbox

\* grimreaper() interrupts whichever thread it may.
ProgramReaped(p) ==
    /\ main \notin {"gone", "failed"}
    /\ reaped' = reaped \cup {p}
    /\ UNCHANGED <<peer, sent, inbox, obeyed, main, pieces, workers, socket, unswept, outbox>>

-----------------------------------------------------------------------------
\* requesthandler() begins by writing "Connected".
Init ==
    /\ peer = "open"
    /\ sent = 0
    /\ inbox = <<>>
    /\ obeyed = <<>>
    /\ main = "answer"
    /\ pieces = 1
    /\ workers = {}
    /\ socket = TRUE
    /\ unswept = MaxPrograms
    /\ reaped = {}
    /\ outbox = <<>>

Main ==
    \/ \E n \in 1 .. Len(inbox) : Read(n) \/ JoinFails(n)
    \/ MainWrites \/ KillFails \/ Answered \/ ReadEnds \/ CloseSocket \/ Sweep \/ Exit

\* The process has ended: nothing more happens to it.
Over == main \in {"gone", "failed"} /\ UNCHANGED vars

Next ==
    \/ \E line \in Lines : Send(line)
    \/ \E how \in {"closed", "reset"} : Close(how)
    \/ Main
    \/ \E no \in workers : WorkerWrites(no) \/ WorkerCrashes(no)
    \/ \E p \in 1 .. MaxPrograms : ProgramReaped(p)
    \/ Spins \/ Over

Spec == Init /\ [][Next]_vars

Worker(no) == no \in workers /\ (WorkerWrites(no) \/ WorkerCrashes(no))

FairSpec == Spec /\ WF_vars(Main) /\ \A no \in 1 .. MaxLines : WF_vars(Worker(no))

-----------------------------------------------------------------------------
(* Properties.                                                             *)

\* Every thread is at a place of its code, and the threads that run are those
\* of arithmetic commands (server.c:316-500).
TypeOK ==
    /\ peer \in {"open", "closed", "broken", "reset", "aborted"}
    /\ sent \in 0 .. MaxLines
    /\ \A i \in DOMAIN inbox : inbox[i] \in Lines
    /\ obeyed \in Seq(Commands)
    /\ Len(inbox) + Len(obeyed) <= sent
    /\ main \in MainLabels
    /\ pieces \in Nat
    /\ workers \subseteq {no \in DOMAIN obeyed : InThread(obeyed[no].op)}
    /\ socket \in BOOLEAN
    /\ unswept \in 0 .. MaxPrograms
    /\ reaped \subseteq 1 .. MaxPrograms
    /\ \A i \in DOMAIN outbox : outbox[i].no \in 0 .. Len(obeyed)

\* Whether the text is the number, but for digits and a newline that do not
\* fit.
Shows(text, n, bytes) ==
    /\ text.kind = "number"
    /\ NumChars(n) <= bytes => text.value = n
    /\ NumChars(n) < bytes => text.newline

\* A quotient is shown for two numbers unless the divisor is zero, or the
\* dividend beyond every float, and then never.  It is off by no more than half
\* a hundredth, for two decimals, and half the last bit of a float, if both
\* numbers are floats and the text was not cut.
DivisionExact(args, text) ==
    LET a == Number(args[1])
        b == args[2]
    IN /\ text.kind = "quotient" => Len(args) = 2 /\ b \notin {0, Word}
       /\ (Len(args) = 2 /\ b \notin {0, Word} /\ {Abs(a), Abs(b)} \subseteq 0 .. 2 ^ Precision - 1)
              => /\ text.kind = "quotient"
                 /\ Places(a, b) <= Cut =>
                        2 ^ (Precision + 1) * Abs(text.value * b - 100 * a)
                            <= 2 ^ Precision * Abs(b) + 200 * Abs(a)

\* However the threads interleave and lines merge, the answer to an arithmetic
\* command is computed from its own arguments, and is exact when they and the
\* result have the width of the code's type (server.c:785-912): a partial
\* result that overflows does no harm, and `sub' always subtracts its first
\* number too.
Exact(command, text) ==
    LET args == command.args
        long == ~Words(args) /\ \A i \in DOMAIN args : InLong(args[i])
        int  == ~Words(args) /\ \A i \in DOMAIN args : InInt(args[i])
    IN CASE command.op = "add" -> long /\ InLong(Sum(args)) => Shows(text, Sum(args), Room)
         [] command.op = "mul" -> long /\ InLong(Product(args)) => Shows(text, Product(args), Cut)
         [] command.op = "sub" -> int /\ InInt(-Sum(args)) => Shows(text, -Sum(args), Cut)
         [] command.op = "div" -> DivisionExact(args, text)
         [] OTHER -> text = Said

AnswersExact ==
    \A i \in DOMAIN outbox :
        outbox[i].no > 0 => Exact(obeyed[outbox[i].no], outbox[i].text)

\* What add shows is never cut, not even the sum that overflowed: 20 bytes
\* have room for every long (server.c:872).
SumsWhole ==
    \A i \in DOMAIN outbox :
        LET no == outbox[i].no IN
        (no > 0 /\ obeyed[no].op = "add" /\ ~Words(obeyed[no].args)) =>
            LET args == obeyed[no].args
                sum == Sum([k \in DOMAIN args |-> StrToL(args[k])])
            IN outbox[i].text.value = ToLong(sum)

\* An answer that a later one overtakes is one that a thread gives: what the
\* main thread answers (list, kill, print and so on) comes in the order of
\* the commands and after `Connected', and no answer comes twice
\* (server.c:316-500).
OnlyThreadsOvertaken ==
    \A i, j \in DOMAIN outbox :
        (i < j /\ outbox[i].no >= outbox[j].no) =>
            /\ outbox[j].no > 0
            /\ IF outbox[i].no = outbox[j].no
               THEN obeyed[outbox[j].no].op \in {"print", "list", "kill"}
               ELSE obeyed[outbox[j].no].op \in {"add", "mul", "sub", "div"}

\* killall() is cut short, by a late answer of a thread that raises SIGPIPE,
\* only after the client reset the connection: when it closed it in order,
\* the socket is closed before killall(), which nothing but an entry that has
\* been reaped then keeps from the rest of the list (server.c:93-108).
SweepCutShort == main = "sweep" /\ main' = "gone" /\ unswept > 0
SweepCompletes == [][SweepCutShort => peer = "aborted"]_vars

\* Every command that is no blank line or empty print is answered in the end,
\* unless the client goes or the process fails, by the 0 it gives to
\* pthread_join(), a `div' without arguments, or a kill() that comes too late
\* (server.c:316-500).
CommandsAnswered ==
    \A no \in 1 .. MaxLines :
        (no <= Len(obeyed) /\ (InThread(obeyed[no].op) \/ 0 \notin Pieces(obeyed[no])))
            ~> \/ peer # "open" \/ main = "failed"
               \/ \E i \in DOMAIN outbox : outbox[i].no = no

\* When the client goes, in whatever way, the process ends, unless killall()
\* comes to a program that has been reaped (server.c:95-110 and 704).
SessionOver == (peer # "open") ~> (main \in {"gone", "failed"} \/ Stuck)

-----------------------------------------------------------------------------
(* What the source says of itself and does not do.                         *)

\* server.c:888, "Divide by zero not allowed...": that is the answer to every
\* division by zero.
ZeroRefused ==
    \A i \in DOMAIN outbox :
        LET no == outbox[i].no IN
        (no > 0 /\ obeyed[no].op = "div" /\ Len(obeyed[no].args) = 2 /\ obeyed[no].args[2] = 0)
            => outbox[i].text.kind = "zero"
=============================================================================
