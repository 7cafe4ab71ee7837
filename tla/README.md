# Verification of the socket shell (CSE 441 project)

The program is a small remote shell in C. `sockets/server.c` accepts TCP
connections and forks a *subserver* for each; a subserver runs programs, keeps a
table of them and kills them on the commands of its client; `sockets/client.c`
is the client. All of it is processes, signals, threads and lists shared without
a lock. This directory holds TLA+ models of these parts, TLC configurations that
check them on small instances, and theorems that TLAPS has proved for every
instance.

## 1. The system

| component | code | state | operations | hard behaviour |
|---|---|---|---|---|
| process table | `sockets/processlist.h` | a linked list, newest first: pid, name, isrunning, times | insertfirst, searchpid, searchpname, insertendtime | a SIGCHLD handler changes the list while a command walks it |
| subserver | `sockets/server.c` 316-778 | the table; programs, zombies, signals, pipes of the kernel | requesthandler's loop; run, kill, kill all, list, print; killall() at the end; grimreaper (SIGCHLD), terminatechildren (SIGTERM), print_client (SIGUSR1) | fork, exec and its failure, deaths in any order, signals at any point, the reuse of pids, the end of the connection |
| server | `sockets/server.c` 37-311, 516-535, 987-1105 | the client list, descriptors, the console's pointer into the list | main's accept loop, reap_subservers (SIGCHLD), the console thread's list, dcon and exit | three threads of control on one list, descriptors and pids that are reused |
| worker threads | `sockets/server.c` 409-474, 787-914 | none of their own; they write to the client's socket | add, mul, sub, div | answers out of order (the threads are not really joined), a late answer to a client that is gone, numeric edges |
| network client | `sockets/client.c` | serverstatus, the descriptor, two threads | connect, disconnect, exit, commands passed on | three threads share a flag and a descriptor that each may close |
| local shell | `parser.c`, `processtable.h` | the table as above, a buffer, two pipes | the same commands for one local client in a window | a failed exec leaves a second reader of the pipes, programs inherit them, the end of a pipe is taken for a line |
| local client | `client.c` | two descriptors | one request, one read of an answer | alternation with a parser that answers in no write, one, or several |
| staging | `staging.c` | - | drafts of the arithmetic | not built |

Interactions: the server forks a subserver, which gets a copy of the client list
(made before its own node is in it) and of every open socket; it reaps the
subserver on SIGCHLD; the console thread sends SIGUSR1 (list) and SIGTERM (dcon).
A subserver forks programs, which inherit the socket of the client. The client
and its subserver exchange lines over the connection; either may end it.

What makes each part correct:

* process table: a search returns the newest entry of a pid or a name; marking an
  entry as ended touches that entry only.
* subserver: one process at a time serves the connection; no death is lost; the
  table tells the truth; kill loops pass nobody over; a session ends and leaves no
  program behind.
* server: the client list tells the truth; descriptors close when, and only when,
  their client has left; no client's coming or going harms the others.
* client: the prompt comes back after every connection; nothing of a connection
  outlives it; the client does not hang up by itself.
* workers: an answer is computed from its own command and right at the widths of
  the code; only the answers of threads come late; every command is answered unless
  the process fails; once the client has gone only killall() can keep it from ending.
* local shell: one parser at a time reads; the table knows every child; request and
  answer stay in step; nobody waits for ever; the shell goes with its window.

## 2. The modules

| module | models | kind |
|---|---|---|
| `ProcessTable` | `processlist.h`, and what list and kill conclude from the table | operators on sequences |
| `Extremes` | | lemmas on the least and the greatest of a set of numbers, and induction up to a number |
| `ProcessTableProofs` | | lemmas on the operators of `ProcessTable` |
| `Subserver` | one connection: its handlers, programs, signals, pipes | state machine |
| `MCSubserver` | | symmetry sets for TLC |
| `SubserverProofs` | | inductive invariant and theorems |
| `Server` | the server process: accept loop, console thread, SIGCHLD handler, life of the subservers | state machine |
| `Registry` | what the server promises about its clients | abstract specification, implemented by `Server` |
| `MCServer` | | symmetry set for TLC |
| `ServerProofs` | | inductive invariants and theorems |
| `RegistryProofs` | | that `Server` implements `Registry` |
| `Arithmetic` | add, multiply, subtract, divide: from arguments to bytes | operators |
| `Workers` | the answers of one subserver: main thread, worker threads, the end of the connection | state machine |
| `MCWorkers` | | lines and widths for TLC |
| `WorkersProofs` | | inductive invariants and theorems |
| `Client` | the client's three threads | state machine |
| `ClientProofs` | | inductive invariant and theorems |
| `Shell` | `parser.c` with `client.c`: parsers, programs, window, pipes | state machine |
| `ShellProofs` | | inductive invariant and theorems |

Operators with a suffix after an underscore (`ReapReturns_OnePerSignal`) are
plausible wrong versions of the definition they are named after. The
specifications do not use them; `PROJECT.json` tells which property each of them
breaks.

### Subserver

A handler is a process that runs `requesthandler()`. `pc[h]` is where its main
thread is: `read` at the read of the socket, `wait` in run()'s read of the pipe
(server.c:768), `kill` between killoneprocess()'s check and its kill(), `kill all`
and `sweep` in the loops of killallprocess() and killall(), `answer` before it
writes to the client. `cursor[h]` is the pointer those loops hold. `reaping[h]`
says that grimreaper() has interrupted it; as the handler runs on the main thread
(commands block nobody else there), a handler that is reaping takes no other
step, and each round of waitpid() is a step of its own, so that new deaths fall
between two rounds. SIGTERM (`TermArrives`) may strike at any point.

The kernel's part is explicit: zombies with a parent, one pending bit for
SIGCHLD (signals do not queue), orphans, the set of processes that hold the write
end of each run()'s pipe, and pids that, with `PidReuse`, become free when a
process is reaped, for later children as well as for `foreign` processes.

The consequence of a failed execlp() is modelled as the code has it: run()
returns 0 in the *child* (server.c:761), which becomes a second handler
(`ExecFails`) with a copy of the table; the parent stays in run(), because the
child still holds the write end.

### Server

Each step of the accept loop is an action (`Accept`, `Fork`, `Install`,
`InsertClient`), so that reap_subservers() may fall between fork() and
insertclient(). The kernel blocks SIGCHLD only in the thread that is handling it,
so the handler is modelled per thread: `reaping` is the set of threads inside it,
`inhand[t]` the pid that waitpid() has returned to thread t there. Two reapers can
each be between waitpid() (`ReapWaits`) and the update of a node
(`ChangeClientStatus`) while the thread that is not interrupted goes on. The
console's check of a status (`ListConnected`) and its sigqueue() (`ListQueues`,
`ListFails`) are two steps, and so are its lookup (`Dcon`) and its kill()
(`DconKills`). A subserver starts, installs its handlers (`Serve`) and ends for any
reason; what it does meanwhile is module `Subserver`.

`Registry` says what all this is for, without threads, signals or pids: a
connection goes through the stages none, accepted, begun, connected, left; it is
`served` while it has a subserver that has not been reaped; the server has its
socket from accept() on until the very step that shows it as left; and it is never
shown as left while served. `TheRegistry` in `Server` is the refinement mapping: the
stage of a connection is read off its node's status, or where the accept loop is
when it has no node. `KeepsRegistry` needs that no pid is reused while its node is
in the list; it is checked in the run without reuse, and proved.

### Client

`main`, `reader` and `writer` are where the three threads are; each access to
serverstatus and each close is a step. A `writer` that is in `read` holds the
connection, and stays blocked, when another thread closes the descriptor, as
the kernel has it; only the server or pthread_cancel() gets it out.

### Arithmetic and Workers

`Arithmetic` has the four functions as they are: the first word replaced by "0" or
"1" (so that `sub 5 3` is 0 - 5 - 3), strtol() saturating, longs and ints wrapping
around, and the number of bytes each write() sends, 20 for add and sizeof(out) for
the others (`Line`, `Quotient` say what such a cut leaves of a number). A quotient
is one of floats: strtof(), the division and `%.2f` each round to the nearest number
they have (`Nearest`), the first two to `Precision` bits (`Float`), so that
`div 16384003 250` is 65536.02. The divisor is compared with "0" as a text before it
is converted, and the last argument of a command still has its newline, so that only
a zero without one is refused; with one the answer is inf or nan. The check for words
looks at the second argument only, and a word as the dividend counts as 0 (`Number`).

In `Workers` a `Read` takes any number of the lines that wait as ONE command
(`Merged`, what token() makes of them): its first word decides and all arguments are
its. Which word that is depends on how blank lines begin: with a space, which makes
the first of them the command, or not (`Names`). An arithmetic command gets a thread,
which is only a number in `workers`: main goes on because pthread_join() and
pthread_detach() are given 0 for a thread (server.c:436) and the C library looks
before it follows the pointer; one that does not look crashes, which the model allows
at every such command (`JoinFails`). Two more ends of the process by its own fault
are a kill() that comes too late (`KillFails`) and a `div` without arguments, which
reads what malloc() left (`WorkerCrashes`). `Result` is the answer from the command's own arguments, as each
thread has a copy of the line. Every answer is tagged in `outbox` with the command
it is for. `peer` is what TCP makes of a client that closes (the next write is
lost, the one after raises SIGPIPE) or resets (ECONNRESET once, then SIGPIPE);
SIGPIPE ends the process wherever its threads are. At the end main closes the
socket, if read() returned 0, and goes through killall() (`Sweep`), where a program
that has been reaped (`ProgramReaped`, at any time) holds it for ever (`Stuck`).

### Shell

`state` is what each process is: a parser, a child between fork() and exec, a
program, the window. A parser's `pc`, `table`, `buffer` and `cursor` are its own
memory, which fork() copies. A failed exec makes the child a second parser
(`ExecFails`), as in the server. Whoever was forked from a parser holds its ends of
both pipes (`Inheritors`), programs included. `lines` and `unread` are the pipes,
`client` is where client.c is in its loop; its read takes all that is in the pipe
(`ClientReads`). `EndOfFile` is read() returning 0, which the parser does not tell
from a line: it executes what its buffer holds once more, without arguments.
`buffer` therefore remembers the last command. Lines that are read together are one
command; the words of the later ones become its arguments, so that `list` may turn
into `list all` (`Meanings`). `RunFails` is fork() failing, or pipe2(), for which every
run leaves one descriptor fewer (parser.c:404). `copies` and `many` are history
variables for the condition of `InStep`.

### What the models abstract from

* Commands are chosen freely at each read while the connection is open, so that
  lines that one read() merges, or splits, are covered; their text is not modelled.
* Times, addresses, ports and the wording of answers are left out: no decision
  reads them. In `Subserver` `print`, `list` and arithmetic only answer
  (`OtherCommand`); `Workers` has these answers, and has the programs only as
  numbers. There list and kill take any number of writes from one to one more than
  the programs, of one text.
* `Subserver` lets grimreaper() interrupt the main thread only. A worker thread, in
  the moment it lives, could be interrupted instead and run it next to main.
* Arguments of arithmetic are integers or no numbers; fractions are left out, and so
  is the sign of a quotient shown as 0, inf or nan. No byte of an answer
  is lost or split on the way.
* In `Shell` the names that `kill` compares carry newlines and what longer lines
  left in the buffer (it is never cleared), so any set of entries may match
  (`Namesakes`), and any line may turn out to be any command. The local arithmetic,
  which differs from the server's in `sub` (abs() of each number), is one answer.
* The console's commands are chosen whole, and every client has a number it can be
  given. The code reads sizeof(lineBuffer), eight bytes, at a time (server.c:176), so
  `dcon` takes three digits at most.
* `Exit` closes a process's descriptors, orphans its children and tells its parent
  in one step.
* The malloc() calls in signal handlers are undefined behaviour of the allocator
  and not modelled; writes are assumed not to block; pthread_create() succeeds.
* `Server` does not say who inherits which socket. A subserver has copies of all
  that were open when it was forked (server.c:74), so a client shown as disconnected
  (server.c:239) sees the end of its connection only when every later subserver
  and every program of these is gone.

## 3. The runs

Every run ends within about two minutes on two cores. Deadlock is checked in all of them.
Each specification has one explicit stuttering step for the state in which nothing
is left to do (`Finished`, `Stopped`), and nothing else may stop.

| run | bounds | shows |
|---|---|---|
| subserver | 4 pids (one subserver, three children), 3 names (one of them "no argument"), 4 descriptors, no reuse of pids | `OneActiveHandler`, `ChildAccounted`, `TableAccurate`, `SweptClean`, `KillAllCovers` |
| subserver_pid_reuse | 3 pids, 2 names, 3 descriptors, pids reused, foreign processes, `FairSpec` | `RunBudget`, `NoLostDeath`, `ChildAccounted`, which do not depend on the life of a pid; `DeathsReaped`, `SessionEnds` |
| server | 4 pids, 2 descriptors, 4 connections, no reuse | `StatusAccurate`, `SocketsMatch`, `DeathNoticed`, `ReaperFindsNode`; the refinement `KeepsRegistry`; accept() running out of descriptors |
| server_pid_reuse | 2 pids, 3 descriptors, 3 connections, reuse, `FairSpec` | `DeathNoticed` and `ReaperFindsNode` when pids come again; `DeadReaped`, `ListEnds`; fork() failing |
| client | 3 descriptors, 4 attempts, `FairSpec` | `PromptClean`, `StatusTells`, `ConnectionKept`, `DisconnectReturns`; socket() failing |
| workers | 3 lines of 6 kinds, 1 program, a long of 11 bits, an int of 9 and a float of 6, answers cut after 4 bytes, `FairSpec` | `AnswersExact`, `SumsWhole`, `OnlyThreadsOvertaken`, `SweepCompletes`, `CommandsAnswered`, `SessionOver` |
| shell | the parser, its window and 2 children, 3 lines, prints of at most one word, `FairSpec` | `OneActiveParser`, `ReaperKnows`, `InStep`, `OnlyBlankHangs`, `WaitEnds`, `RootFollows`; fork() or pipe2() failing |
| sigterm_terminates, killall_ends, list_keeps_server, dcon_specific, zero_refused | as small as the behaviour allows | section 5 |

Why the bounds are enough: three children are a list with a first, a middle and a
last entry, two programs of one name next to one of another, and a handler whose
child's child has failed an exec too; two names tell a match from a mismatch, the
third is what makes run() crash; with
4 descriptors and no reuse run() fails for want of pids, with 3 descriptors and
reuse for want of descriptors. Two
descriptors for four connections make the server reuse a descriptor in every
order with the reaper, and fail in accept(). Four attempts on three descriptors
let the client lose all of them. Three lines make two threads and an answer of
main's in every order, merge in every way, and leave a thread behind a closed
connection; their numbers are at the ends of the ranges, and the widths are such
that a product, a sum and a quotient each fit, are cut and overflow (the proportions
of the C types: an add always fits, a mul need not). Two lines are a division whose
arguments change when others merge with it, and `AnswersChecked` in `MCWorkers` tries
mul, sub and div on all lists of up to three numbers at the ends of the ranges and
beyond, words included. In `shell` two children are a program next to a copy
of the parser, or a copy of a copy; a third line is the one that shows an answer
left over by the second. Sets of pids and of names are symmetric (except
the subserver's own pid and "no argument"), and symmetry is used only in runs
without liveness properties. A behaviour without reuse is, as far as the liveness
properties can tell, one of those with it (a `gone` pid and a `free` one name no
process), so that these are checked with reuse only. `KeepsRegistry` is a safety
property and every variable of `Registry` is a function of `Server`'s state that a
permutation of pids leaves alone, so the symmetry of pids is sound for it.

### Fairness

Weak fairness for every process that can run (`Execute`, `Exec`, the server's
threads, the client's threads, main and each worker thread, each parser and its
children) and for the delivery of pending signals
(`Interrupt`, `Reaper`): the scheduler and the kernel give no less. There is no
fairness for a client to send a command or to close, for a program to end, for a
user to type, for a peer to answer. `SessionEnds` is therefore conditional on the
client having closed, and `DisconnectReturns` on the reading thread having noticed
the end, which may need one more line from the user. In `Shell` the user need not
type or close the window and programs need not end, so `WaitEnds` excepts a client
whose parsers are gone while a program holds the pipe; the window ends when its
client has, or when it was sent SIGTERM.

## 4. What is proved

TLAPS proves these for any number of pids, names, descriptors, connections,
attempts, lines and words, from the named assumptions on the constants only
(`SubserverAssumption`, `ServerAssumption`, `ClientAssumption`, `ShellAssumption`,
`ArithmeticAssumption`, `WorkersAssumption`), and with and without the reuse of
pids unless said otherwise. Every invariant and every action property that a
passing run checks is proved, and so is the refinement.

*Subserver.* `IInv` is `TypeOK /\ Phases /\ ParentsLive /\ Chained /\ NoLostDeath
/\ ChildAccounted`.

* `OneActiveHandler` is not inductive: that two handlers are not both active says
  nothing of two that wait, one of which may be let go. `Chained` says more: of
  any two processes that run the server's code one is in run() and waits for the
  other, which holds the write end. A fork passes the child every write end its
  parent has (`ForkPipes`), so the order is total, and a process that ends leaves
  the chain intact. `OneActive` follows.
* `ChildAccounted` needs `Phases` (the child run() waits for is valid while it
  waits) and `ParentsLive` (a parent that is told of a death exists), and the lemmas
  `InsertFirstSearch` and `InsertEndTimeSearch` of `ProcessTableProofs` on what an
  insertion and a mark do to the search for each pid. From it follows
  `ReaperCrashesOnlyInRun`: grimreaper() writes through NULL for no other child
  than the one run() is starting. (That crash does happen: `run true` ended the
  subserver in about half of our trials of the built program.)
* `NoLostDeath` is inductive together with `ParentsLive`.
* `RunBudget` bounds the table by `FdLimit`; `Budget` bounds it by the descriptors
  the process holds, in every process that runs the server's code, because a child
  inherits both and may become a handler that goes on with what is left. In run()
  one more is taken, for the entry that comes.
* `TableAccurate` speaks of a handler's own entries, which a new one joins and
  fork() cuts off. `Ledger` adds to it that a child has no entry of its own yet
  (`Inherits`), that tables hold only pids that were started (`Started`), that the
  pid in run() is in no entry of its parent (`InFlight`), and that no pid has two
  own entries (`OwnDistinct`): insertendtime() marks the newest entry of a pid, and
  without `OwnDistinct` an older one could keep saying running.
* `KillAllCovers` and `SweptClean` speak of the step that ends a loop. `Covered` is
  the loop's invariant: everything in front of the pointer (of the name, in
  killallprocess()) was signalled or is dead. It holds on because what is terminated
  stays so while no pid is reused, and because grimreaper(), which may come between
  any two rounds, marks entries but does not move them. `OnceInv` is `IInv` and,
  without reuse, `Ledger` and `Covered`.

*Client.* `IInv` is `TypeOK` and, while the process is up, `ThreadsThere` (which
threads exist is a matter of where main() is), `StatusTrue` (serverstatus 0 has a
reason, and every thread at its end has set it), `OwnDescriptor` (as long as
serverstatus is 1 nobody has closed; once readthread() is done the descriptor is
closed) and `Leaks`. From it follow `CleanAtPrompt`, `EndIsTold` and `NoHangUp`.

*Workers.* All theorems hold for any lines, any number of them, any number of
arguments and any widths, from `ArithmeticAssumption` and `WorkersAssumption`.

* `SweepCompletes` speaks of a step; its invariant `SweepInv` is that main is in
  killall() with the socket closed or with the connection aborted, and that a
  connection that is reset or aborted stays so.
* `OnlyThreadsOvertaken` relates any two answers. `OrderInv` strengthens it by what
  each process still owes: a thread that runs belongs to an arithmetic command,
  and nothing in the outbox is its answer yet (`NotYet`); main's own command is the
  newest and no thread's (`MainsOwn`), and unless it is a print, a list or a kill it
  takes one write that has not been made (`OneWrite`). An answer that is added is then either the newest
  command's or a thread's.
* `AnswersExact` has two halves. That each text in the outbox is the reply to its
  own command is an invariant of the threads (`TextInv`: `Replies`, and
  `NotThreads`, that what main answers is no thread's command). That a reply is
  exact is arithmetic (`AnswerExact`). The loops of add(), multiply() and
  subtract() are folds; `FoldExists` shows that there is a function such as FoldLeft
  chooses, and the lemmas `AddRuns`, `MultiplyRuns` and so on that it goes through
  the arguments one by one. Then, by induction on how many arguments have been taken
  (`UpTo`), what the loop holds is the wrapped value of what a loop over unbounded
  integers holds (`AddIsSum`, `MultiplyIsProduct`, `SubtractIsNegativeSum`), since
  wrapping a partial result keeps it congruent modulo the width (`WrapResult`,
  `WrapCongruent`, `LongResult`, `IntResult`). `LineShows` says what of a number is
  left in the bytes sent. For a quotient, `NearestFacts` bounds each rounding by half
  of one, `IntegersFit` shows that integers of up to `Precision` bits are floats, and
  `FloatFacts` that the float of a quotient is off by half its last bit: it is
  at least half of 2 ^ `Precision` steps, or else a finer step would do (`StepFacts`,
  `Bits`, `Relative`). `BothRoundings` adds the rounding to hundredths, and
  `QuotientExact` and `DivideExact` conclude. Powers of two are reasoned about as
  numbers of subsets (`PowerDoubles`, `PowersGrow`), because the exponentiation of the
  standard modules says nothing to the provers.
* `SumsWhole` needs besides that no long has a longer text than the least one
  (`NumCharsFacts`).
* `TypeOK` needs that what several lines are merged to is a command (`MergedType`,
  `FlattenType`).

The induction over data in these is an induction over a *set* of numbers
(`LeastElement` and `UpTo` in `Extremes`), because the library's induction theorems
take an operator as a parameter and cannot be used here.

*Server.* `IInv` is `TypeOK`, `Phases` (what main() holds between accept() and
insertclient()), `Recorded` (every subserver that is not settled, because it runs,
is a zombie or is in a reaper's hand, has a node or is the one main() has just
forked), `Early` (without the handler there is only the first connection) and
`DeathNoticed`. `ServerTypeCorrect`, `DeathsAreNoticed` and `ReaperCrashesOnlyInFork`
follow, from `ServerAssumption`, with and without the reuse of pids.

Without reuse, `OnceInv` adds: `Numbered` (the list is all connections in order),
`Forked` (the pid of a node is that of its connection's subserver, hence in no
other node), `HeldOnce` (two threads never have the same pid in hand, though both
may be in the handler), `Statuses` and `Sockets`. `HeldOnce` is what the two SIGCHLD
handlers need: from it `ChangeResult` shows that changeclientstatus() always finds
the node of a client still shown as connected, whose descriptor is still that
client's. `StatusIsAccurate` and `SocketsAreRight` follow.

*Shell.* `IInv` is `TypeInv /\ Phases /\ Family /\ Started /\ InFlight /\
ReaperKnows /\ Chained /\ Hang /\ Turns`, with and without parsers that come of a
failed run.

* `OneActiveParser` follows from `Chained`: of any two processes that read lines,
  answer, or are about to, one is held in run() by a child that does too. A wait
  ends with the child that is waited for, so that who is let go is the last but one
  of the chain.
* `ReaperKnows` needs `Family` (parents are live parsers, the window is the first
  parser's only other child), `InFlight` (the child in run() is not recorded yet)
  and `Phases`, and the same lemmas on the table as the subserver's.
* `OnlyBlankHangs` is inductive in the form of `Hang`: when the client waits and
  both pipes are empty, *every* parser at the prompt has a blank line in its buffer
  (`Fine`), those included that are interrupted or have just been let go. A parser
  that reads a line empties the pipe, so it must be shown (`OthersHeld`) that all
  other parsers are in run() by then.
* `InStep` looks at the client's prompt only. `Turns` follows each line on its way:
  while the condition of `InStep` holds (`Orderly`; a state that is orderly has
  always been, `OrderlyBefore`), one thing at most is under way, a line in mainpipe,
  an answer that a process owes (`Owes`), or one in secondpipe, and nothing when the
  client is at its prompt.
* The steps of `Next` are first reduced to seven kinds (`StepKinds`) by what they
  change in the family; each part of the invariant is then proved by kind. What a
  kind does is stated once (`ExitEffect`, `ForksEffect`, `ReapEffect`, ...).

*Registry.* `RegistryProofs` shows that `Server` implements it
(`ServerKeepsRegistry`, without reuse of pids). `StageResult` reads the stage of a
connection off the list by its number; `ServedOnce` says that no two unreaped
subservers are for the same connection, without which waitpid() could not be the
departure of one. Each `Step...` lemma maps one kind of step: accept() to `Arrive`,
fork() to `Begin`, insertclient() to `Enter`, waitpid(), or a death after the
server's, to `Depart`, changeclientstatus() to `Leave`, every end of the server to
`End`, and all else to a stutter. `Extremes` has what `Min` and `Max` return.

Model-checked only: the liveness properties (`DeathsReaped`, `SessionEnds`,
`DeadReaped`, `ListEnds`, `DisconnectReturns`, `CommandsAnswered`, `SessionOver`,
`WaitEnds`, `RootFollows`), which rest on fairness and so on ENABLED, out of the
prover's reach; and the five disagreements of section 5, which are
counterexamples.

## 5. What the source says and does not do

| run | the source says | the model shows |
|---|---|---|
| sigterm_terminates | server.c:569, the SIGTERM handler terminates "all the associated threads and processes" | its first call looks the process up in a copy of the client list that has no node for it and writes through NULL: killall() is never reached |
| killall_ends | server.c:687, "kill all the processes" | after ESRCH the loop does not go on to the next entry: it spins for ever, and the rest is not killed |
| list_keeps_server | server.c:251, list is a "List of connected clients and their processes" | a client that leaves between the check and sigqueue() makes `list` end the whole server |
| dcon_specific | server.c:252, "Disconnect from specific client" | the node's status is not looked at: a pid that was reused takes another client down |
| zero_refused | server.c:888, "Divide by zero not allowed..." | the argument that is compared with "0" ends in a newline: a division by zero is answered inf |

All but `dcon_specific` were also seen in, or follow directly from, runs of the built
program. Relatives that the models contain without a run of their own: `list`, "list
running children" (server.c:944), stops at the first entry that has ended; `kill
name` says "All instances have already been killed" (server.c:636) when only the
newest has ended, and a subserver that the console's `list` signals before it has
installed its handler dies of SIGUSR1 (`SubUsr1Kills`). A first client that leaves
before signal() is called (server.c:114) is not noticed until another one leaves;
`DeathNoticed` and `DeadReaped` say that it is the only one.

Besides, answers of more than eight bytes are cut, and a late answer of a thread to a
client that reset the connection ends the subserver in the middle of killall()
(`SweepCompletes` says that no late answer does so otherwise). In the local shell
`kill` of an unknown name and the end of the window crash the parser, `kill all` ends
it when an instance has been reaped, and an `exit` read by a copy leaves its parent to
crash on the window's death.

## 6. Plan

Done: all components but `staging.c`, the refinement of the registry, and the
proofs above. What is left, in this order:

1. An abstract *ledger* of jobs (started, running, ended; an end is recorded once
   and only for a job that has started) that each table of `Subserver` and `Shell`
   implements.
2. `Descriptors`: a composition of `Server` and the subservers' programs about who
   keeps a connection open, and the eight bytes that the console reads at a time
   (server.c:176).

Not modelled and not planned: `staging.c` (includes a header that does not exist;
drafts of functions that are in `server.c`), the layout of printed tables, the
parsing of addresses and times, the heap (inputline is allocated one byte short,
server.c:350) and what print_client() reads (server.c:511).
