--------------------------- MODULE SubserverProofs --------------------------
(***************************************************************************)
(* Theorems about Subserver for any number of pids and names, any limit on *)
(* descriptors, with and without the reuse of pids.                        *)
(***************************************************************************)
EXTENDS Subserver, ProcessTableProofs

-----------------------------------------------------------------------------
(* The inductive invariant.                                                *)

\* Only a handler has a program counter and is interrupted; the locals of
\* run() and of the kill loops are valid where they are used.
Phases ==
    \A p \in Pids :
        /\ state[p] # "handler" => pc[p] = "none" /\ ~reaping[p]
        /\ pc[p] = "wait" => child[p] \in Pids
        /\ pc[p] \in {"kill", "kill all"} => cursor[p] \in DOMAIN table[p]

\* Whoever has a parent inside the session has a live handler as its parent.
ParentsLive ==
    \A c \in Pids : parent[c] # Outside => state[parent[c]] = "handler"

IInv ==
    /\ TypeOK
    /\ Phases
    /\ ParentsLive
    /\ Chained
    /\ NoLostDeath
    /\ ChildAccounted

-----------------------------------------------------------------------------
(* Types.                                                                  *)

\* The end of a process keeps every variable in its type.
LEMMA ExitTypeOK ==
    ASSUME TypeOK, NEW p \in Pids, Exit(p)
    PROVE  TypeOK'
<1>1. Freed \in States
  BY DEF Freed, States
<1>2. /\ state' \in [Pids -> States]
      /\ parent' \in [Pids -> Pids \cup {Outside}]
      /\ pipe' \in [Pids -> SUBSET Pids]
      /\ sigchld' \in [Pids -> BOOLEAN]
  BY <1>1 DEF TypeOK, Exit, States
<1>3. /\ sigterm' \in SUBSET Pids
      /\ reaping' \in [Pids -> BOOLEAN]
      /\ pc' \in [Pids -> Labels]
      /\ child' \in [Pids -> Pids \cup {Outside}]
      /\ prog' \in [Pids -> Names]
  BY SubserverAssumption DEF TypeOK, Exit, Labels
<1>4. cursor' \in [Pids -> Nat] /\ fds' \in [Pids -> 0 .. FdLimit - 1]
  <2>1. 0 \in 0 .. FdLimit - 1
    BY SubserverAssumption
  <2> QED  BY <2>1 DEF TypeOK, Exit
<1> QED  BY <1>2, <1>3, <1>4 DEF TypeOK, Exit

\* A signal sent to a pid leaves a set of pids.
LEMMA SignalTypeOK ==
    ASSUME TypeOK, NEW p \in Pids, Signal(p)
    PROVE  sigterm' \in SUBSET Pids
BY DEF TypeOK, Signal

\* The entry a kill loop is at is one of a pid.
LEMMA VictimTypeOK ==
    ASSUME TypeOK, NEW h \in Pids, cursor[h] \in DOMAIN table[h]
    PROVE  Victim(h) \in Pids
<1>1. table[h] \in Seq(Entry(Pids, Names))
  BY DEF TypeOK
<1>2. table[h][cursor[h]] \in Entry(Pids, Names)
  BY <1>1
<1> QED  BY <1>2 DEF Victim, Entry

\* Looking up the argument of `kill' keeps every variable in its type.
LEMMA KillOneTypeOK ==
    ASSUME TypeOK, NEW h \in Pids, NEW verdict, NEW position \in Nat,
           KillOne(h, verdict, position)
    PROVE  TypeOK'
<1>1. CASE verdict = "terminate"
  BY <1>1 DEF TypeOK, KillOne, Goto, Labels, kernel
<1>2. CASE verdict # "terminate"
  BY <1>2 DEF TypeOK, KillOne, Goto, Labels, kernel
<1> QED  BY <1>1, <1>2

\* Every step keeps every variable in its type.
LEMMA TypeStep ==
    ASSUME TypeOK, Phases, [Next]_vars
    PROVE  TypeOK'
<1> USE SubserverAssumption
<1>1. CASE UNCHANGED vars
  BY <1>1 DEF TypeOK, vars, kernel, locals
<1>2. ASSUME NEW h \in Pids, Request(h)
      PROVE  TypeOK'
  <2>1. CASE OtherCommand(h)
    BY <2>1 DEF TypeOK, OtherCommand, Goto, Labels, kernel, locals
  <2>2. CASE GarbledCommand(h)
    BY <2>2, ExitTypeOK DEF GarbledCommand
  <2>3. CASE RunFails(h)
    BY <2>3, ExitTypeOK DEF RunFails
  <2>4. ASSUME NEW c \in Pids, NEW name \in Names, RunForks(h, c, name)
        PROVE  TypeOK'
    <3>1. /\ state' \in [Pids -> States]
          /\ parent' \in [Pids -> Pids \cup {Outside}]
          /\ pc' \in [Pids -> Labels]
          /\ child' \in [Pids -> Pids \cup {Outside}]
          /\ prog' \in [Pids -> Names]
          BY <2>4 DEF TypeOK, RunForks, Goto, States, Labels
    <3>2. pipe' \in [Pids -> SUBSET Pids]
      BY <2>4 DEF TypeOK, RunForks, ForkPipes
    <3>3. table' \in [Pids -> Seq(Entry(Pids, Names))] /\ taken' \in [Pids -> Nat]
      <4>1. Len(table[h]) \in Nat
        BY DEF TypeOK
      <4> QED  BY <2>4, <4>1 DEF TypeOK, RunForks
    <3>4. fds' \in [Pids -> 0 .. FdLimit - 1]
      <4>1. fds[h] + 1 \in 0 .. FdLimit - 1
        BY SMTT(20), <2>4 DEF TypeOK, RunForks, FdsLeft
      <4>2. fds' = [fds EXCEPT ![h] = fds[h] + 1, ![c] = fds[h] + 1]
        BY <2>4 DEF RunForks
      <4> QED  BY <4>1, <4>2 DEF TypeOK
    <3> QED  BY <2>4, <3>1, <3>2, <3>3, <3>4 DEF TypeOK, RunForks
  <2>5. ASSUME NEW p \in Pids, KillPid(h, p)
        PROVE  TypeOK'
    <3>1. SearchPid(table[h], p) \in Nat
      BY SearchPidResult DEF TypeOK
    <3> QED  BY <2>5, <3>1, KillOneTypeOK DEF KillPid
  <2>6. ASSUME NEW name \in Names, KillName(h, name)
        PROVE  TypeOK'
    <3>1. SearchPName(table[h], name, 1) \in Nat
      BY SearchPNameResult DEF TypeOK
    <3> QED  BY <2>6, <3>1, KillOneTypeOK DEF KillName
  <2>7. ASSUME NEW name \in Names, KillAllName(h, name)
        PROVE  TypeOK'
    <3>1. SearchPName(table[h], name, 1) \in Nat
      BY SearchPNameResult DEF TypeOK
    <3>2. pc' \in [Pids -> Labels] /\ cursor' \in [Pids -> Nat]
      <4>1. CASE SearchPName(table[h], name, 1) = NULL
        BY <2>7, <4>1 DEF TypeOK, KillAllName, Goto, Labels
      <4>2. CASE SearchPName(table[h], name, 1) # NULL
        <5>1. /\ pc' = [pc EXCEPT ![h] = "kill all"]
              /\ cursor' = [cursor EXCEPT ![h] = SearchPName(table[h], name, 1)]
          BY <2>7, <4>2 DEF KillAllName, Goto
        <5> QED  BY <3>1, <5>1 DEF TypeOK, Labels
      <4> QED  BY <4>1, <4>2
    <3> QED  BY <2>7, <3>2 DEF TypeOK, KillAllName, kernel
  <2> QED  BY <1>2, <2>1, <2>2, <2>3, <2>4, <2>5, <2>6, <2>7 DEF Request
<1>3. ASSUME NEW h \in Pids, Execute(h)
      PROVE  TypeOK'
  <2>1. CASE Answer(h)
    BY <2>1 DEF TypeOK, Answer, Goto, Labels, kernel, locals
  <2>2. CASE BrokenPipe(h) \/ KillErrors(h) \/ SweepEnds(h)
    BY <2>2, ExitTypeOK DEF BrokenPipe, KillErrors, SweepEnds
  <2>3. CASE RunReturns(h)
    <3>1. child[h] \in Pids /\ prog[h] \in Names /\ table[h] \in Seq(Entry(Pids, Names))
      BY <2>3 DEF TypeOK, Phases, RunReturns, At
    <3>2. InsertFirst(table[h], child[h], prog[h]) \in Seq(Entry(Pids, Names))
      BY <3>1 DEF InsertFirst, Entry
    <3> QED  BY <2>3, <3>2 DEF TypeOK, RunReturns, Goto, Labels, kernel
  <2>4. CASE KillSends(h)
    <3>1. sigterm' \in SUBSET Pids
      BY <2>4, VictimTypeOK, SignalTypeOK DEF Phases, KillSends, At
    <3> QED  BY <2>4, <3>1 DEF TypeOK, KillSends, Goto, Labels
  <2>5. CASE KillAllStep(h)
    <3>1. sigterm' \in SUBSET Pids
      BY <2>5, VictimTypeOK, SignalTypeOK DEF TypeOK, Phases, KillAllStep, At
    <3>2. SearchPName(table[h], table[h][cursor[h]].processname, cursor[h] + 1) \in Nat
      BY SearchPNameResult DEF TypeOK
    <3> QED  BY <2>5, <3>1, <3>2 DEF TypeOK, KillAllStep, Goto, Labels
  <2>6. CASE ReadEnds(h)
    BY <2>6 DEF TypeOK, ReadEnds, Goto, Labels, kernel
  <2>7. CASE SweepStep(h)
    <3>1. sigterm' \in SUBSET Pids
      BY <2>7, VictimTypeOK, SignalTypeOK DEF SweepStep
    <3>2. cursor' \in [Pids -> Nat]
      BY <2>7 DEF TypeOK, SweepStep
    <3> QED  BY <2>7, <3>1, <3>2 DEF TypeOK, SweepStep
  <2> QED  BY <1>3, <2>1, <2>2, <2>3, <2>4, <2>5, <2>6, <2>7 DEF Execute
<1>4. ASSUME NEW h \in Pids, Interrupt(h)
      PROVE  TypeOK'
  <2>1. CASE SigchldArrives(h)
    BY <2>1 DEF TypeOK, SigchldArrives, locals
  <2>2. CASE ReapReturns(h)
    BY <2>2 DEF TypeOK, ReapReturns, kernel, locals
  <2>3. CASE TermArrives(h)
    BY <2>3, ExitTypeOK DEF TermArrives
  <2>4. ASSUME NEW c \in Pids, Reap(h, c)
        PROVE  TypeOK'
    <3>1. Freed \in States
      BY DEF Freed, States
    <3>2. InsertEndTime(table[h], c) \in Seq(Entry(Pids, Names))
      BY <2>4, InsertEndTimeEntries DEF TypeOK, Reap
    <3> QED  BY <2>4, <3>1, <3>2 DEF TypeOK, Reap, locals
  <2>5. ASSUME NEW c \in Pids, ReapCrashes(h, c)
        PROVE  TypeOK'
    BY <2>5, ExitTypeOK DEF ReapCrashes
  <2> QED  BY <1>4, <2>1, <2>2, <2>3, <2>4, <2>5 DEF Interrupt
<1>5. ASSUME NEW c \in Pids, Exec(c)
      PROVE  TypeOK'
  <2>1. CASE ExecSucceeds(c)
    <3>1. <<>> \in Seq(Entry(Pids, Names)) /\ 0 \in 0 .. FdLimit - 1
      OBVIOUS
    <3> QED  BY <2>1, <3>1 DEF TypeOK, ExecSucceeds, States
  <2>2. CASE ExecFails(c)
    BY <2>2 DEF TypeOK, ExecFails, Goto, States, Labels
  <2>3. CASE NoArgument(c)
    BY <2>3, ExitTypeOK DEF NoArgument
  <2> QED  BY <1>5, <2>1, <2>2, <2>3 DEF Exec
<1>6. ASSUME NEW p \in Pids, ProgramExits(p) \/ ForeignExits(p)
      PROVE  TypeOK'
  BY <1>6, ExitTypeOK DEF ProgramExits, ForeignExits
<1>7. ASSUME NEW p \in Pids, ForeignStarts(p)
      PROVE  TypeOK'
  BY <1>7 DEF TypeOK, ForeignStarts, States, locals
<1>8. CASE Disconnect
  BY <1>8 DEF TypeOK, Disconnect, locals
<1>9. CASE ClientCloses
  BY <1>9 DEF TypeOK, ClientCloses, kernel, locals
<1> QED
  BY <1>1, <1>2, <1>3, <1>4, <1>5, <1>6, <1>7, <1>8, <1>9
  DEF Next, SweepSpins, Finished

-----------------------------------------------------------------------------
(* The kinds of steps.                                                     *)

\* A step that starts, ends, reaps and interrupts nobody and keeps out of
\* run(): all that moves is the main thread of a handler, and pending SIGTERMs.
Calm ==
    /\ UNCHANGED <<state, parent, sigchld, pipe, table, child, reaping, fds, taken>>
    /\ sigterm \subseteq sigterm'
    /\ \A p \in Pids :
          /\ pc'[p] = "wait" <=> pc[p] = "wait"
          /\ pc[p] = "none" => pc'[p] = "none"
          /\ pc'[p] \in {"kill", "kill all"} => cursor'[p] \in DOMAIN table[p]

\* The main thread of a handler goes from one label to another, neither of
\* them in run(), with a valid cursor if it goes to a kill loop.
LEMMA GotoCalm ==
    ASSUME TypeOK, Phases, NEW h \in Pids, NEW l \in Labels, Goto(h, l),
           pc[h] # "wait", pc[h] # "none", l # "wait",
           UNCHANGED <<state, parent, sigchld, pipe, table, child, reaping, fds, taken>>,
           sigterm \subseteq sigterm',
           \A p \in Pids : p # h => cursor'[p] = cursor[p],
           l \in {"kill", "kill all"} => cursor'[h] \in DOMAIN table[h]
    PROVE  Calm
<1>1. \A p \in Pids : pc'[p] = IF p = h THEN l ELSE pc[p]
  BY DEF TypeOK, Goto
<1> QED  BY <1>1 DEF Calm, Phases

\* Most steps are calm.
LEMMA CalmSteps ==
    ASSUME TypeOK, Phases, NEW h \in Pids,
           \/ OtherCommand(h) \/ Answer(h) \/ ReadEnds(h)
           \/ \E p \in Pids : KillPid(h, p)
           \/ \E name \in Names : KillName(h, name) \/ KillAllName(h, name)
           \/ KillSends(h) \/ KillAllStep(h) \/ SweepStep(h)
    PROVE  Calm
<1>1. CASE OtherCommand(h)
  BY <1>1, GotoCalm
  DEF OtherCommand, Command, At, Labels, kernel, locals
<1>2. CASE Answer(h)
  BY <1>2, GotoCalm DEF Answer, At, Labels, kernel, locals
<1>3. CASE ReadEnds(h)
  <2>1. \A p \in Pids : p # h => cursor'[p] = cursor[p]
    BY <1>3 DEF ReadEnds, TypeOK
  <2> QED  BY <1>3, <2>1, GotoCalm DEF ReadEnds, At, Labels, kernel
<1>4. ASSUME NEW verdict, NEW position, KillOne(h, verdict, position),
             verdict = "terminate" => position \in DOMAIN table[h]
      PROVE  Calm
  <2>1. UNCHANGED <<state, parent, sigchld, sigterm, pipe, table, child, reaping,
                    fds, taken>>
        /\ pc[h] = "read"
    BY <1>4 DEF KillOne, Command, At, kernel
  <2>2. CASE verdict = "terminate"
    <3>1. Goto(h, "kill") /\ cursor' = [cursor EXCEPT ![h] = position]
      BY <1>4, <2>2 DEF KillOne
    <3>2. \A p \in Pids : cursor'[p] = IF p = h THEN position ELSE cursor[p]
      BY <3>1 DEF TypeOK
    <3> QED  BY <1>4, <2>1, <2>2, <3>1, <3>2, GotoCalm DEF Labels
  <2>3. CASE verdict # "terminate"
    <3>1. Goto(h, "answer") /\ UNCHANGED cursor
      BY <1>4, <2>3 DEF KillOne
    <3> QED  BY <2>1, <3>1, GotoCalm DEF Labels
  <2> QED  BY <2>2, <2>3
<1>5. ASSUME NEW p \in Pids, KillPid(h, p)
      PROVE  Calm
  <2>1. PidVerdict(table[h], p) = "terminate"
          => SearchPid(table[h], p) \in DOMAIN table[h]
    BY SearchPidResult DEF TypeOK, PidVerdict, IsNewest
  <2> QED  BY <1>4, <1>5, <2>1 DEF KillPid
<1>6. ASSUME NEW name \in Names, KillName(h, name)
      PROVE  Calm
  <2>1. NameVerdict(table[h], name) = "terminate"
          => SearchPName(table[h], name, 1) \in DOMAIN table[h]
    BY SearchPNameResult DEF TypeOK, NameVerdict
  <2> QED  BY <1>4, <1>6, <2>1 DEF KillName
<1>7. ASSUME NEW name \in Names, KillAllName(h, name)
      PROVE  Calm
  <2> DEFINE first == SearchPName(table[h], name, 1)
  <2>1. UNCHANGED <<state, parent, sigchld, sigterm, pipe, table, child, reaping,
                    fds, taken>>
        /\ pc[h] = "read"
    BY <1>7 DEF KillAllName, Command, At, kernel
  <2>2. CASE first = NULL
    <3>1. Goto(h, "answer") /\ UNCHANGED cursor
      BY <1>7, <2>2 DEF KillAllName
    <3> QED  BY <2>1, <3>1, GotoCalm DEF Labels
  <2>3. CASE first # NULL
    <3>1. Goto(h, "kill all") /\ cursor' = [cursor EXCEPT ![h] = first]
      BY <1>7, <2>3 DEF KillAllName
    <3>2. first \in DOMAIN table[h]
      BY <2>3, SearchPNameResult DEF TypeOK
    <3> HIDE DEF first
    <3>3. \A p \in Pids : cursor'[p] = IF p = h THEN first ELSE cursor[p]
      BY <3>1 DEF TypeOK
    <3> QED  BY <2>1, <3>1, <3>2, <3>3, GotoCalm DEF Labels
  <2> QED  BY <2>2, <2>3
<1>8. CASE KillSends(h)
  <2>1. \A p \in Pids : p # h => cursor'[p] = cursor[p]
    BY <1>8 DEF KillSends, TypeOK
  <2>2. sigterm \subseteq sigterm'
    BY <1>8 DEF KillSends, Signal
  <2> QED  BY <1>8, <2>1, <2>2, GotoCalm DEF KillSends, At, Labels
<1>9. CASE KillAllStep(h)
  <2> DEFINE next == SearchPName(table[h], table[h][cursor[h]].processname,
                                 cursor[h] + 1)
  <2>1. /\ UNCHANGED <<state, parent, sigchld, pipe, table, child, reaping, fds, taken>>
        /\ sigterm \subseteq sigterm'
        /\ pc[h] = "kill all"
        /\ cursor' = [cursor EXCEPT ![h] = next]
    BY <1>9 DEF KillAllStep, At, Signal
  <2>2. next # NULL => next \in DOMAIN table[h]
    BY SearchPNameResult DEF TypeOK
  <2>3. next = NULL => Goto(h, "answer")
    BY <1>9 DEF KillAllStep
  <2>4. next # NULL => pc' = pc
    BY <1>9 DEF KillAllStep
  <2> HIDE DEF next
  <2>5. \A p \in Pids : cursor'[p] = IF p = h THEN next ELSE cursor[p]
    BY <2>1 DEF TypeOK
  <2>6. CASE next = NULL
    BY <2>1, <2>3, <2>5, <2>6, GotoCalm DEF Labels
  <2>7. CASE next # NULL
    BY <2>1, <2>2, <2>4, <2>5, <2>7 DEF Calm, Phases
  <2> QED  BY <2>6, <2>7
<1>10. CASE SweepStep(h)
  <2>1. \A p \in Pids : p # h => cursor'[p] = cursor[p]
    BY <1>10 DEF SweepStep, TypeOK
  <2>2. /\ UNCHANGED <<state, parent, sigchld, pipe, table, child, reaping, pc,
                     fds, taken>>
        /\ sigterm \subseteq sigterm'
        /\ pc[h] = "sweep"
    BY <1>10 DEF SweepStep, At, Signal
  <2> QED  BY <2>1, <2>2 DEF Calm, Phases
<1> QED
  BY <1>1, <1>2, <1>3, <1>5, <1>6, <1>7, <1>8, <1>9, <1>10

\* What a process is that can end by itself.
Alive == {"child", "handler", "program", "foreign"}

\* Every step is calm, ends a process that is alive or is one of eight others.
LEMMA StepKinds ==
    ASSUME TypeOK, Phases, [Next]_vars
    PROVE  \/ Calm
           \/ \E p \in Pids : Exit(p) /\ state[p] \in Alive
           \/ \E h, c \in Pids, name \in Names : RunForks(h, c, name)
           \/ \E h \in Pids : RunReturns(h)
           \/ \E c \in Pids : ExecSucceeds(c) \/ ExecFails(c)
           \/ \E h \in Pids : SigchldArrives(h) \/ ReapReturns(h)
           \/ \E h, c \in Pids : Reap(h, c)
           \/ \E p \in Pids : ForeignStarts(p)
<1>1. CASE UNCHANGED vars
  BY <1>1 DEF Calm, Phases, vars, kernel, locals
<1>2. CASE \E p \in Pids : SweepSpins(p)
  BY <1>1, <1>2 DEF SweepSpins
<1>3. CASE Finished
  BY <1>1, <1>3 DEF Finished
<1>4. CASE Disconnect \/ ClientCloses
  BY <1>4 DEF Calm, Phases, Disconnect, ClientCloses, kernel, locals
<1>5. CASE \E p \in Pids : Request(p)
  BY <1>5, CalmSteps DEF Request, GarbledCommand, RunFails, Command, At, Alive
<1>6. CASE \E p \in Pids : Execute(p)
  BY <1>6, CalmSteps DEF Execute, BrokenPipe, KillErrors, SweepEnds, At, Alive
<1>7. CASE \E p \in Pids : Interrupt(p)
  BY <1>7 DEF Interrupt, TermArrives, ReapCrashes, Phases, Alive
<1>8. CASE \E p \in Pids : Exec(p)
  BY <1>8 DEF Exec, NoArgument, Alive
<1>9. CASE \E p \in Pids :
             ProgramExits(p) \/ ForeignStarts(p) \/ ForeignExits(p)
  BY <1>9 DEF ProgramExits, ForeignExits, Alive
<1> QED
  BY <1>1, <1>2, <1>3, <1>4, <1>5, <1>6, <1>7, <1>8, <1>9 DEF Next

-----------------------------------------------------------------------------
(* Every step preserves every part of the invariant.                       *)

\* Every step keeps what goes with a program counter.
LEMMA PhasesStep ==
    ASSUME TypeOK, Phases, [Next]_vars
    PROVE  Phases'
<1>1. CASE Calm
  BY <1>1 DEF Calm, Phases
<1>2. ASSUME NEW p \in Pids, Exit(p)
      PROVE  Phases'
  <2>1. \A q \in Pids : state'[q] # "handler" => q = p \/ state[q] # "handler"
    BY <1>2 DEF TypeOK, Exit, Zombies
  <2>2. ~reaping'[p] /\ pc'[p] = "none"
    BY <1>2 DEF TypeOK, Exit
  <2>3. \A q \in Pids \ {p} : /\ pc'[q] = pc[q]
                              /\ reaping'[q] = reaping[q]
                              /\ child'[q] = child[q]
                              /\ cursor'[q] = cursor[q]
    BY <1>2 DEF TypeOK, Exit
  <2>4. table' = table
    BY <1>2 DEF Exit
  <2> QED  BY <2>1, <2>2, <2>3, <2>4 DEF Phases
<1>3. ASSUME NEW h \in Pids, NEW c \in Pids, NEW name \in Names,
             RunForks(h, c, name)
      PROVE  Phases'
  BY <1>3 DEF TypeOK, Phases, RunForks, Command, At, Goto
<1>4. ASSUME NEW h \in Pids, RunReturns(h)
      PROVE  Phases'
  BY <1>4 DEF TypeOK, Phases, RunReturns, At, Goto, kernel
<1>5. ASSUME NEW c \in Pids, ExecSucceeds(c)
      PROVE  Phases'
  BY <1>5 DEF TypeOK, Phases, ExecSucceeds
<1>6. ASSUME NEW c \in Pids, ExecFails(c)
      PROVE  Phases'
  BY <1>6 DEF TypeOK, Phases, ExecFails, Goto
<1>7. ASSUME NEW h \in Pids, SigchldArrives(h) \/ ReapReturns(h)
      PROVE  Phases'
  BY <1>7 DEF TypeOK, Phases, SigchldArrives, ReapReturns, kernel, locals
<1>8. ASSUME NEW h \in Pids, NEW c \in Pids, Reap(h, c)
      PROVE  Phases'
  <2>1. table[h] \in Seq(Entry(Pids, Names)) /\ SearchPid(table[h], c) # NULL
    BY <1>8 DEF TypeOK, Reap
  <2>2. DOMAIN InsertEndTime(table[h], c) = DOMAIN table[h]
    BY <2>1, InsertEndTimeEntries
  <2>3. \A p \in Pids : DOMAIN table'[p] = DOMAIN table[p]
    BY <1>8, <2>2 DEF TypeOK, Reap
  <2>4. state'[c] # "handler" /\ pc[c] = "none" /\ ~reaping[c]
    BY <1>8 DEF TypeOK, Phases, Reap, Zombies, Freed
  <2>5. \A p \in Pids \ {c} : state'[p] = state[p]
    BY <1>8 DEF TypeOK, Reap
  <2>6. UNCHANGED <<pc, reaping, child, cursor>>
    BY <1>8 DEF Reap, locals
  <2> QED  BY <2>3, <2>4, <2>5, <2>6 DEF Phases
<1>9. ASSUME NEW p \in Pids, ForeignStarts(p)
      PROVE  Phases'
  BY <1>9 DEF TypeOK, Phases, ForeignStarts, locals
<1> QED
  BY <1>1, <1>2, <1>3, <1>4, <1>5, <1>6, <1>7, <1>8, <1>9, StepKinds

\* Every step leaves no child with a parent that has ended.
LEMMA ParentsLiveStep ==
    ASSUME TypeOK, Phases, ParentsLive, [Next]_vars
    PROVE  ParentsLive'
<1> USE SubserverAssumption
<1>1. CASE Calm
  BY <1>1 DEF Calm, ParentsLive
<1>2. ASSUME NEW p \in Pids, Exit(p)
      PROVE  ParentsLive'
  BY <1>2 DEF TypeOK, ParentsLive, Exit, Zombies
<1>3. ASSUME NEW h \in Pids, NEW c \in Pids, NEW name \in Names,
             RunForks(h, c, name)
      PROVE  ParentsLive'
  BY <1>3 DEF TypeOK, ParentsLive, RunForks, Command, At
<1>4. ASSUME NEW h \in Pids, RunReturns(h)
      PROVE  ParentsLive'
  BY <1>4 DEF ParentsLive, RunReturns, kernel
<1>5. ASSUME NEW c \in Pids, ExecSucceeds(c) \/ ExecFails(c)
      PROVE  ParentsLive'
  BY SMTT(20), <1>5 DEF TypeOK, ParentsLive, ExecSucceeds, ExecFails
<1>6. ASSUME NEW h \in Pids, SigchldArrives(h) \/ ReapReturns(h)
      PROVE  ParentsLive'
  BY <1>6 DEF ParentsLive, SigchldArrives, ReapReturns, kernel
<1>7. ASSUME NEW h \in Pids, NEW c \in Pids, Reap(h, c)
      PROVE  ParentsLive'
  BY <1>7 DEF TypeOK, ParentsLive, Reap, Zombies
<1>8. ASSUME NEW p \in Pids, ForeignStarts(p)
      PROVE  ParentsLive'
  BY <1>8 DEF TypeOK, ParentsLive, ForeignStarts
<1> QED
  BY <1>1, <1>2, <1>3, <1>4, <1>5, <1>6, <1>7, <1>8, StepKinds

\* Every step keeps all but one of the subservers on a connection waiting.
LEMMA ChainedStep ==
    ASSUME TypeOK, Phases, Chained, [Next]_vars
    PROVE  Chained'
<1>1. CASE Calm
  BY <1>1 DEF Calm, Chained, HeldBy, Servers
<1>2. ASSUME NEW p \in Pids, Exit(p)
      PROVE  Chained'
  <2>1. Servers' \subseteq Servers \ {p}
    BY <1>2 DEF TypeOK, Exit, Servers, Freed, Zombies
  <2>2. \A q \in Pids \ {p} : pc'[q] = pc[q] /\ pipe'[q] = pipe[q] \ {p}
    BY <1>2 DEF TypeOK, Exit
  <2> QED  BY <2>1, <2>2 DEF Chained, HeldBy, Servers
<1>3. ASSUME NEW h \in Pids, NEW c \in Pids, NEW name \in Names,
             RunForks(h, c, name)
      PROVE  Chained'
  <2>1. /\ Servers' = Servers \cup {c}
        /\ h \in Servers
        /\ c \notin Servers
    BY <1>3 DEF TypeOK, RunForks, Command, At, Servers
  <2>2. \A q \in Pids : pipe'[q] = IF q = h THEN {c}
                                   ELSE IF q = c THEN {}
                                   ELSE IF h \in pipe[q] THEN pipe[q] \cup {c}
                                   ELSE pipe[q]
    BY <1>3 DEF RunForks, ForkPipes
  <2>3. \A q \in Pids : pc'[q] = IF q = h THEN "wait" ELSE pc[q]
    BY <1>3 DEF TypeOK, RunForks, Goto
  <2>4. pc[h] = "read"
    BY <1>3 DEF RunForks, Command, At
  <2>5. \A q \in Servers \ {h} : pc[q] = "wait" /\ h \in pipe[q]
    BY <2>1, <2>4 DEF Chained, HeldBy
  <2>6. Servers \subseteq Pids
    BY DEF Servers
  <2>7. ASSUME NEW q \in Servers, NEW r \in Servers, q # r, HeldBy(q, r)
        PROVE  HeldBy(q, r)'
    <3>1. q # h /\ q # c /\ q \in Pids
      BY <2>1, <2>4, <2>6, <2>7 DEF HeldBy
    <3> QED  BY <2>2, <2>3, <2>7, <3>1 DEF HeldBy
  <2>8. ASSUME NEW q \in Servers
        PROVE  HeldBy(q, c)'
    <3>1. q \in Pids /\ q # c
      BY <2>1, <2>6
    <3> QED  BY <2>2, <2>3, <2>5, <3>1 DEF HeldBy
  <2>9. \A q, r \in Servers : q # r => HeldBy(q, r)' \/ HeldBy(r, q)'
    BY <2>7 DEF Chained
  <2> QED  BY <2>1, <2>8, <2>9 DEF Chained
<1>4. ASSUME NEW h \in Pids, RunReturns(h)
      PROVE  Chained'
  <2>1. Servers' = Servers /\ pipe' = pipe /\ pipe[h] = {}
    BY <1>4 DEF RunReturns, Servers, kernel
  <2>2. \A q \in Pids \ {h} : pc'[q] = pc[q]
    BY <1>4 DEF TypeOK, RunReturns, Goto
  <2> QED  BY <2>1, <2>2 DEF Chained, HeldBy, Servers
<1>5. ASSUME NEW c \in Pids, ExecSucceeds(c)
      PROVE  Chained'
  <2>1. Servers' = Servers \ {c} /\ pc' = pc
    BY <1>5 DEF TypeOK, ExecSucceeds, Servers
  <2>2. \A q \in Pids : pipe'[q] = pipe[q] \ {c}
    BY <1>5 DEF ExecSucceeds
  <2> QED  BY <2>1, <2>2 DEF Chained, HeldBy, Servers
<1>6. ASSUME NEW c \in Pids, ExecFails(c)
      PROVE  Chained'
  <2>1. Servers' = Servers /\ pipe' = pipe /\ pc[c] = "none"
    BY <1>6 DEF TypeOK, Phases, ExecFails, Servers
  <2>2. \A q \in Pids \ {c} : pc'[q] = pc[q]
    BY <1>6 DEF TypeOK, ExecFails, Goto
  <2> QED  BY <2>1, <2>2 DEF Chained, HeldBy, Servers
<1>7. ASSUME NEW h \in Pids, SigchldArrives(h) \/ ReapReturns(h)
      PROVE  Chained'
  BY <1>7 DEF Chained, HeldBy, Servers, SigchldArrives, ReapReturns, kernel
<1>8. ASSUME NEW h \in Pids, NEW c \in Pids, Reap(h, c)
      PROVE  Chained'
  <2>1. Servers' = Servers /\ pipe' = pipe /\ pc' = pc
    BY <1>8 DEF TypeOK, Reap, Servers, Zombies, Freed
  <2> QED  BY <2>1 DEF Chained, HeldBy
<1>9. ASSUME NEW p \in Pids, ForeignStarts(p)
      PROVE  Chained'
  <2>1. Servers' = Servers /\ pipe' = pipe /\ pc' = pc
    BY <1>9 DEF TypeOK, ForeignStarts, Servers
  <2> QED  BY <2>1 DEF Chained, HeldBy
<1> QED
  BY <1>1, <1>2, <1>3, <1>4, <1>5, <1>6, <1>7, <1>8, <1>9, StepKinds

\* Every step keeps each unreaped death announced.
LEMMA NoLostDeathStep ==
    ASSUME TypeOK, Phases, NoLostDeath, [Next]_vars
    PROVE  NoLostDeath'
<1> USE SubserverAssumption
<1>1. CASE Calm
  BY <1>1 DEF Calm, NoLostDeath, Zombies
<1>2. ASSUME NEW p \in Pids, Exit(p)
      PROVE  NoLostDeath'
  <2>1. ASSUME NEW h \in Pids, NEW c \in Pids,
               state'[c] = "zombie", parent'[c] = h
        PROVE  sigchld'[h] \/ reaping'[h]
    <3>1. h # p /\ parent[c] = h
      BY <1>2, <2>1 DEF TypeOK, Exit
    <3>2. CASE c = p
      BY <1>2, <3>1, <3>2 DEF TypeOK, Exit
    <3>3. CASE c # p
      <4>1. c \in Zombies(h)
        BY <1>2, <2>1, <3>1, <3>3 DEF TypeOK, Exit, Zombies, Freed
      <4>2. sigchld[h] \/ reaping[h]
        BY <4>1 DEF NoLostDeath
      <4> QED  BY <1>2, <3>1, <4>2 DEF TypeOK, Exit
    <3> QED  BY <3>2, <3>3
  <2> QED  BY <2>1 DEF NoLostDeath, Zombies
<1>3. ASSUME NEW h \in Pids, NEW c \in Pids, NEW name \in Names,
             RunForks(h, c, name)
      PROVE  NoLostDeath'
  <2>1. \A q \in Pids : Zombies(q)' \subseteq Zombies(q)
    BY <1>3 DEF TypeOK, RunForks, Zombies
  <2> QED  BY <1>3, <2>1 DEF NoLostDeath, RunForks
<1>4. ASSUME NEW h \in Pids, RunReturns(h)
      PROVE  NoLostDeath'
  BY <1>4 DEF NoLostDeath, RunReturns, Zombies, kernel
<1>5. ASSUME NEW c \in Pids, ExecSucceeds(c) \/ ExecFails(c)
      PROVE  NoLostDeath'
  <2>1. \A q \in Pids : Zombies(q)' \subseteq Zombies(q)
    BY <1>5 DEF TypeOK, ExecSucceeds, ExecFails, Zombies
  <2> QED  BY <1>5, <2>1 DEF NoLostDeath, ExecSucceeds, ExecFails
<1>6. ASSUME NEW h \in Pids, SigchldArrives(h)
      PROVE  NoLostDeath'
  BY <1>6 DEF TypeOK, NoLostDeath, SigchldArrives, Zombies
<1>7. ASSUME NEW h \in Pids, ReapReturns(h)
      PROVE  NoLostDeath'
  BY <1>7 DEF TypeOK, NoLostDeath, ReapReturns, Zombies, kernel
<1>8. ASSUME NEW h \in Pids, NEW c \in Pids, Reap(h, c)
      PROVE  NoLostDeath'
  <2>1. \A q \in Pids : Zombies(q)' \subseteq Zombies(q)
    BY <1>8 DEF TypeOK, Reap, Zombies, Freed
  <2> QED  BY <1>8, <2>1 DEF NoLostDeath, Reap
<1>9. ASSUME NEW p \in Pids, ForeignStarts(p)
      PROVE  NoLostDeath'
  <2>1. \A q \in Pids : Zombies(q)' \subseteq Zombies(q)
    BY <1>9 DEF TypeOK, ForeignStarts, Zombies
  <2> QED  BY <1>9, <2>1 DEF NoLostDeath, ForeignStarts
<1> QED
  BY <1>1, <1>2, <1>3, <1>4, <1>5, <1>6, <1>7, <1>8, <1>9, StepKinds

\* A step that leaves a handler's table and its main thread's place in run()
\* alone, and gives it no child, leaves its children accounted for.
LEMMA AccountedKept ==
    ASSUME ChildAccounted, NEW h \in Pids, NEW c \in Pids,
           parent[c] = h, table'[h] = table[h],
           pc[h] = "wait" => pc'[h] = "wait", child'[h] = child[h]
    PROVE  (pc'[h] = "wait" /\ child'[h] = c) \/ RecordedRunning(h, c)'
BY DEF ChildAccounted, RecordedRunning

\* Every step keeps each child in its parent's table or in run().
LEMMA ChildAccountedStep ==
    ASSUME TypeOK, Phases, ParentsLive, ChildAccounted, [Next]_vars
    PROVE  ChildAccounted'
<1> USE SubserverAssumption
<1> SUFFICES ASSUME NEW h \in Pids, NEW c \in Pids, parent'[c] = h
             PROVE  (pc'[h] = "wait" /\ child'[h] = c) \/ RecordedRunning(h, c)'
  BY DEF ChildAccounted
<1> DEFINE Goal == (pc'[h] = "wait" /\ child'[h] = c) \/ RecordedRunning(h, c)'
<1>1. CASE Calm
  BY <1>1, AccountedKept DEF Calm
<1>2. ASSUME NEW p \in Pids, Exit(p)
      PROVE  Goal
  <2>1. h # p /\ parent[c] = h
    BY <1>2 DEF TypeOK, Exit
  <2>2. pc'[h] = pc[h] /\ child'[h] = child[h] /\ table' = table
    BY <1>2, <2>1 DEF TypeOK, Exit
  <2> QED  BY <2>1, <2>2, AccountedKept
<1>3. ASSUME NEW g \in Pids, NEW d \in Pids, NEW name \in Names,
             RunForks(g, d, name)
      PROVE  Goal
  <2>1. CASE c = d
    BY <1>3, <2>1 DEF TypeOK, RunForks, Command, At, Goto
  <2>2. CASE c # d
    <3>1. parent[c] = h /\ state[h] = "handler" /\ h # d
      BY <1>3, <2>2 DEF TypeOK, ParentsLive, RunForks
    <3>2. table'[h] = table[h]
      BY <1>3, <3>1 DEF TypeOK, RunForks
    <3>3. CASE h = g
      <4>1. pc[h] # "wait"
        BY <1>3, <3>3 DEF RunForks, Command, At
      <4>2. RecordedRunning(h, c)
        BY <3>1, <4>1 DEF ChildAccounted
      <4> QED  BY <3>2, <4>2 DEF RecordedRunning
    <3>4. CASE h # g
      <4>1. pc'[h] = pc[h] /\ child'[h] = child[h]
        BY <1>3, <3>4 DEF TypeOK, RunForks, Goto
      <4> QED  BY <3>1, <3>2, <4>1, AccountedKept
    <3> QED  BY <3>3, <3>4
  <2> QED  BY <2>1, <2>2
<1>4. ASSUME NEW g \in Pids, RunReturns(g)
      PROVE  Goal
  <2>1. parent[c] = h
    BY <1>4 DEF RunReturns, kernel
  <2>2. CASE h # g
    <3>1. table'[h] = table[h] /\ pc'[h] = pc[h] /\ child'[h] = child[h]
      BY <1>4, <2>2 DEF TypeOK, RunReturns, Goto
    <3> QED  BY <2>1, <3>1, AccountedKept
  <2>3. CASE h = g
    <3>1. /\ table[h] \in Seq(Entry(Pids, Names))
          /\ child[h] \in Pids
          /\ prog[h] \in Names
      BY <1>4, <2>3 DEF TypeOK, Phases, RunReturns, At
    <3>2. table'[h] = InsertFirst(table[h], child[h], prog[h])
      BY <1>4, <2>3 DEF TypeOK, RunReturns
    <3>3. CASE c = child[h]
      <4>1. SearchPid(InsertFirst(table[h], child[h], prog[h]), child[h]) = 1
        BY <3>1, InsertFirstSearch
      <4>2. InsertFirst(table[h], child[h], prog[h])[1].isrunning
        BY <3>1, InsertFirstEntries, ZenonT(30)
      <4> QED  BY <3>2, <3>3, <4>1, <4>2 DEF RecordedRunning, NULL
    <3>4. CASE c # child[h]
      <4>1. SearchPid(table[h], c) # NULL
            /\ table[h][SearchPid(table[h], c)].isrunning
        BY <2>1, <3>4 DEF ChildAccounted, RecordedRunning
      <4>2. SearchPid(table[h], c) \in Nat
        BY <3>1, SearchPidResult
      <4>3. /\ SearchPid(table'[h], c) = SearchPid(table[h], c) + 1
            /\ table'[h][SearchPid(table[h], c) + 1]
                 = table[h][SearchPid(table[h], c)]
        BY <3>1, <3>2, <3>4, <4>1, InsertFirstSearchOther
      <4>4. /\ SearchPid(table'[h], c) # NULL
            /\ table'[h][SearchPid(table'[h], c)].isrunning
        BY <4>1, <4>2, <4>3 DEF NULL
      <4> QED  BY <4>4 DEF RecordedRunning
    <3> QED  BY <3>3, <3>4
  <2> QED  BY <2>2, <2>3
<1>5. ASSUME NEW d \in Pids, ExecSucceeds(d) \/ ExecFails(d)
      PROVE  Goal
  <2>1. parent[c] = h /\ h # d
    BY <1>5 DEF ParentsLive, ExecSucceeds, ExecFails
  <2>2. table'[h] = table[h] /\ pc'[h] = pc[h] /\ child'[h] = child[h]
    BY <1>5, <2>1 DEF TypeOK, ExecSucceeds, ExecFails, Goto
  <2> QED  BY <2>1, <2>2, AccountedKept
<1>6. ASSUME NEW g \in Pids, SigchldArrives(g) \/ ReapReturns(g)
      PROVE  Goal
  BY <1>6, AccountedKept DEF SigchldArrives, ReapReturns, kernel, locals
<1>7. ASSUME NEW g \in Pids, NEW d \in Pids, Reap(g, d)
      PROVE  Goal
  <2>1. parent[c] = h /\ c # d /\ UNCHANGED <<pc, child>>
    BY <1>7 DEF TypeOK, Reap, locals
  <2>2. CASE h # g
    BY <1>7, <2>1, <2>2, AccountedKept DEF TypeOK, Reap
  <2>3. CASE h = g
    <3>1. /\ table[h] \in Seq(Entry(Pids, Names))
          /\ SearchPid(table[h], d) # NULL
          /\ table'[h] = InsertEndTime(table[h], d)
      BY <1>7, <2>3 DEF TypeOK, Reap
    <3>2. CASE pc[h] = "wait" /\ child[h] = c
      BY <2>1, <3>2
    <3>3. CASE RecordedRunning(h, c)
      <4>1. SearchPid(table[h], c) # NULL
            /\ table[h][SearchPid(table[h], c)].isrunning
        BY <3>3 DEF RecordedRunning
      <4>2. /\ SearchPid(table'[h], c) = SearchPid(table[h], c)
            /\ table'[h][SearchPid(table[h], c)]
                 = table[h][SearchPid(table[h], c)]
        BY <2>1, <3>1, <4>1, InsertEndTimeSearch
      <4>3. /\ SearchPid(table'[h], c) # NULL
            /\ table'[h][SearchPid(table'[h], c)].isrunning
        BY <4>1, <4>2
      <4> QED  BY <4>3 DEF RecordedRunning
    <3> QED  BY <2>1, <3>2, <3>3 DEF ChildAccounted
  <2> QED  BY <2>2, <2>3
<1>8. ASSUME NEW p \in Pids, ForeignStarts(p)
      PROVE  Goal
  BY <1>8, AccountedKept DEF ForeignStarts, locals
<1> QED
  BY <1>1, <1>2, <1>3, <1>4, <1>5, <1>6, <1>7, <1>8, StepKinds

-----------------------------------------------------------------------------
(* The theorems.                                                           *)

\* The subserver as the server starts it.
LEMMA IInvInit == Init => IInv
<1> SUFFICES ASSUME Init
             PROVE  IInv
  OBVIOUS
<1> USE SubserverAssumption
<1>1. TypeOK
  <2>1. <<>> \in Seq(Entry(Pids, Names)) /\ 0 \in 0 .. FdLimit - 1
    OBVIOUS
  <2> QED  BY <2>1 DEF Init, TypeOK, States, Labels
<1>2. Phases /\ ParentsLive /\ NoLostDeath /\ ChildAccounted
  BY DEF Init, Phases, ParentsLive, NoLostDeath, ChildAccounted, Zombies
<1>3. Servers = {Root}
  BY DEF Init, Servers
<1>4. Chained
  BY <1>3 DEF Chained
<1> QED  BY <1>1, <1>2, <1>4 DEF IInv

\* Every step keeps the inductive invariant.
LEMMA IInvStep == IInv /\ [Next]_vars => IInv'
BY TypeStep, PhasesStep, ParentsLiveStep, ChainedStep, NoLostDeathStep,
   ChildAccountedStep DEF IInv

\* The invariant holds in every state the session reaches.
THEOREM Invariance == Spec => []IInv
BY IInvInit, IInvStep, PTL DEF Spec

\* Every variable keeps its type; in particular no handler ever holds as many
\* descriptors for its pipes as the limit allows (run(), server.c:748).
THEOREM TypeCorrect == Spec => []TypeOK
<1>1. IInv => TypeOK
  BY DEF IInv
<1> QED  BY <1>1, Invariance, PTL

\* Of all the processes that failed `run' commands left in the loop of
\* requesthandler() (server.c:328), never two are active on the connection.
THEOREM OneActive == Spec => []OneActiveHandler
<1>1. IInv => OneActiveHandler
  BY DEF IInv, Chained, OneActiveHandler, HeldBy
<1> QED  BY <1>1, Invariance, PTL

\* A zombie of a handler always has SIGCHLD pending for it, or a grimreaper()
\* in its loop (server.c:545): no death goes unnoticed.
THEOREM DeathsNoticed == Spec => []NoLostDeath
<1>1. IInv => NoLostDeath
  BY DEF IInv
<1> QED  BY <1>1, Invariance, PTL

\* Every child a handler has not reaped is in flight in run() or recorded as
\* running, however often the kernel reuses pids.
THEOREM ChildrenAccounted == Spec => []ChildAccounted
<1>1. IInv => ChildAccounted
  BY DEF IInv
<1> QED  BY <1>1, Invariance, PTL

\* grimreaper() writes through NULL (insertendtime(), processlist.h:98) only
\* for the one child that run() is starting: a handler that is anywhere else
\* never crashes there.
THEOREM ReaperCrashesOnlyInRun ==
    Spec => [][\A h, c \in Pids :
                 ReapCrashes(h, c) => pc[h] = "wait" /\ child[h] = c]_vars
<1>1. ASSUME IInv, NEW h \in Pids, NEW c \in Pids, ReapCrashes(h, c)
      PROVE  pc[h] = "wait" /\ child[h] = c
  BY <1>1 DEF IInv, ChildAccounted, RecordedRunning, ReapCrashes, Zombies
<1>2. IInv => [\A h, c \in Pids :
                 ReapCrashes(h, c) => pc[h] = "wait" /\ child[h] = c]_vars
  BY <1>1
<1> QED  BY <1>2, Invariance, PTL

-----------------------------------------------------------------------------
(* The budget of descriptors.                                              *)

\* A process that runs the server's code holds a descriptor for every entry of
\* its table, the inherited ones included, and one more while it is in run().
Budget ==
    \A p \in Pids :
        /\ Len(table[p]) < FdLimit
        /\ p \in Servers => Len(table[p]) <= fds[p]
        /\ pc[p] = "wait" => Len(table[p]) < fds[p]

\* Every step keeps the number of runs within the descriptors.
LEMMA BudgetStep ==
    ASSUME TypeOK, Phases, Budget, [Next]_vars
    PROVE  Budget'
<1> USE SubserverAssumption
<1>1. CASE Calm
  <2>1. Servers' = Servers /\ table' = table /\ fds' = fds
    BY <1>1 DEF Calm, Servers
  <2>2. \A p \in Pids : pc'[p] = "wait" <=> pc[p] = "wait"
    BY <1>1 DEF Calm
  <2> QED  BY <2>1, <2>2 DEF Budget
<1>2. ASSUME NEW p \in Pids, Exit(p)
      PROVE  Budget'
  <2>1. Servers' \subseteq Servers \ {p}
    BY <1>2 DEF TypeOK, Exit, Servers, Freed, Zombies
  <2>2. /\ table' = table
        /\ pc'[p] = "none"
        /\ \A q \in Pids \ {p} : fds'[q] = fds[q] /\ pc'[q] = pc[q]
    BY <1>2 DEF TypeOK, Exit
  <2>3. \A q \in Servers' : fds'[q] = fds[q]
    BY <2>1, <2>2 DEF Servers
  <2> QED  BY <2>1, <2>2, <2>3 DEF Budget
<1>3. ASSUME NEW h \in Pids, NEW c \in Pids, NEW name \in Names,
             RunForks(h, c, name)
      PROVE  Budget'
  <2>1. /\ Servers' = Servers \cup {c}
        /\ h \in Servers /\ c \notin Servers /\ h # c
    BY <1>3 DEF TypeOK, RunForks, Command, At, Servers
  <2>2. \A q \in Pids : /\ table'[q] = IF q = c THEN table[h] ELSE table[q]
                        /\ fds'[q] = IF q \in {h, c} THEN fds[h] + 1 ELSE fds[q]
    BY <1>3, <2>1 DEF TypeOK, RunForks
  <2>3. \A q \in Pids : pc'[q] = IF q = h THEN "wait" ELSE pc[q]
    BY <1>3 DEF TypeOK, RunForks, Goto
  <2>4. pc[c] # "wait"
    BY <2>1 DEF Phases, Servers
  <2>5. fds[h] \in Nat /\ Len(table[h]) \in Nat /\ Len(table[h]) <= fds[h]
    BY <2>1 DEF Budget, TypeOK
  <2>6. ASSUME NEW q \in Pids, q # h, q # c
        PROVE  /\ Len(table'[q]) < FdLimit
               /\ q \in Servers' => Len(table'[q]) <= fds'[q]
               /\ pc'[q] = "wait" => Len(table'[q]) < fds'[q]
    BY <2>1, <2>2, <2>3, <2>6 DEF Budget
  <2>7. /\ Len(table'[h]) < FdLimit
        /\ Len(table'[h]) < fds'[h]
        /\ Len(table'[h]) <= fds'[h]
    BY <2>1, <2>2, <2>5 DEF Budget
  <2>8. /\ Len(table'[c]) < FdLimit
        /\ Len(table'[c]) <= fds'[c]
        /\ pc'[c] # "wait"
    BY <2>1, <2>2, <2>3, <2>4, <2>5 DEF Budget
  <2> QED  BY <2>6, <2>7, <2>8 DEF Budget
<1>4. ASSUME NEW h \in Pids, RunReturns(h)
      PROVE  Budget'
  <2>1. Servers' = Servers /\ fds' = fds /\ pc[h] = "wait"
    BY <1>4 DEF RunReturns, At, Servers, kernel
  <2>2. \A q \in Pids \ {h} : table'[q] = table[q] /\ pc'[q] = pc[q]
    BY <1>4 DEF TypeOK, RunReturns, Goto
  <2>3. pc'[h] = "answer"
    BY <1>4 DEF TypeOK, RunReturns, Goto
  <2>4. Len(table'[h]) = Len(table[h]) + 1
    <3>1. /\ table[h] \in Seq(Entry(Pids, Names))
          /\ child[h] \in Pids
          /\ prog[h] \in Names
      BY <1>4 DEF TypeOK, Phases, RunReturns, At
    <3>2. table'[h] = InsertFirst(table[h], child[h], prog[h])
      BY <1>4 DEF TypeOK, RunReturns
    <3>3. Len(InsertFirst(table[h], child[h], prog[h])) = Len(table[h]) + 1
      BY <3>1, InsertFirstLen
    <3> QED  BY <3>2, <3>3
  <2>5. /\ Len(table[h]) < fds[h]
        /\ fds[h] \in 0 .. FdLimit - 1
        /\ Len(table[h]) \in Nat
    BY <2>1 DEF Budget, TypeOK
  <2>6. Len(table'[h]) < FdLimit /\ Len(table'[h]) <= fds'[h]
    BY <2>1, <2>4, <2>5
  <2> QED  BY <2>1, <2>2, <2>3, <2>6 DEF Budget
<1>5. ASSUME NEW c \in Pids, ExecSucceeds(c)
      PROVE  Budget'
  <2>1. /\ Servers' = Servers \ {c}
        /\ pc' = pc /\ pc[c] # "wait"
        /\ table'[c] = <<>>
        /\ \A q \in Pids \ {c} : table'[q] = table[q] /\ fds'[q] = fds[q]
    BY <1>5 DEF TypeOK, Phases, ExecSucceeds, Servers
  <2>2. Len(table'[c]) = 0 /\ c \notin Servers'
    BY <2>1
  <2>3. ASSUME NEW q \in Pids
        PROVE  /\ Len(table'[q]) < FdLimit
               /\ q \in Servers' => Len(table'[q]) <= fds'[q]
               /\ pc'[q] = "wait" => Len(table'[q]) < fds'[q]
    <3>1. CASE q = c
      BY <2>1, <2>2, <3>1
    <3>2. CASE q # c
      BY <2>1, <3>2 DEF Budget
    <3> QED  BY <3>1, <3>2
  <2> QED  BY <2>3 DEF Budget
<1>6. ASSUME NEW c \in Pids, ExecFails(c)
      PROVE  Budget'
  <2>1. Servers' = Servers /\ UNCHANGED <<table, fds>>
    BY <1>6 DEF TypeOK, ExecFails, Servers
  <2>2. \A q \in Pids : pc'[q] = "wait" => pc[q] = "wait"
    BY <1>6 DEF TypeOK, ExecFails, Goto
  <2> QED  BY <2>1, <2>2 DEF Budget
<1>7. ASSUME NEW h \in Pids, SigchldArrives(h) \/ ReapReturns(h)
      PROVE  Budget'
  BY <1>7 DEF Budget, Servers, SigchldArrives, ReapReturns, kernel
<1>8. ASSUME NEW h \in Pids, NEW c \in Pids, Reap(h, c)
      PROVE  Budget'
  <2>1. table[h] \in Seq(Entry(Pids, Names)) /\ SearchPid(table[h], c) # NULL
    BY <1>8 DEF TypeOK, Reap
  <2>2. Len(InsertEndTime(table[h], c)) = Len(table[h])
    BY <2>1, InsertEndTimeEntries
  <2>3. \A q \in Pids : Len(table'[q]) = Len(table[q])
    BY <1>8, <2>2 DEF TypeOK, Reap
  <2>4. Servers' = Servers /\ UNCHANGED <<pc, fds>>
    BY <1>8 DEF TypeOK, Reap, Servers, Zombies, Freed
  <2> QED  BY <2>3, <2>4 DEF Budget
<1>9. ASSUME NEW p \in Pids, ForeignStarts(p)
      PROVE  Budget'
  <2>1. Servers' = Servers /\ UNCHANGED <<table, pc, fds>>
    BY <1>9 DEF TypeOK, ForeignStarts, Servers
  <2> QED  BY <2>1 DEF Budget
<1> QED
  BY <1>1, <1>2, <1>3, <1>4, <1>5, <1>6, <1>7, <1>8, <1>9, StepKinds

\* A subserver starts with all its descriptors.
LEMMA BudgetInit == Init => Budget
<1> SUFFICES ASSUME Init
             PROVE  Budget
  OBVIOUS
<1>1. FdLimit \in Nat \ {0}
  BY SubserverAssumption
<1>2. \A p \in Pids : Len(table[p]) = 0 /\ fds[p] = 0 /\ pc[p] # "wait"
  BY DEF Init
<1> QED  BY <1>1, <1>2 DEF Budget

\* A session starts fewer programs than it may have descriptors, however many
\* of them have ended: run() (server.c:768) never closes the read end.
THEOREM RunsAreBudgeted == Spec => []RunBudget
<1>1. Init => IInv /\ Budget
  BY IInvInit, BudgetInit
<1>2. IInv /\ Budget /\ [Next]_vars => (IInv /\ Budget)'
  BY IInvStep, BudgetStep DEF IInv
<1>3. Budget => RunBudget
  BY DEF Budget, RunBudget
<1> QED  BY <1>1, <1>2, <1>3, PTL DEF Spec

-----------------------------------------------------------------------------
(* The books of a session in which no pid is reused.                       *)

\* A child has all its entries from the process it is a copy of.
Inherits == \A c \in Pids : state[c] = "child" => taken[c] = Len(table[c])

\* Every pid in a table is that of a process that was started.
Started == \A h \in Pids : \A c \in Jobs(table[h]) : state[c] # "free"

\* While a handler is in run(), the child it waits for is its own, is not in its
\* table, and holds the pipe for as long as it runs the server's code.
InFlight ==
    \A h \in Pids : pc[h] = "wait" =>
        /\ parent[child[h]] = h
        /\ \/ state[child[h]] \in {"program", "zombie"}
           \/ state[child[h]] \in {"child", "handler"} /\ child[h] \in pipe[h]
        /\ child[h] \notin Jobs(table[h])

\* A handler has started each of its own entries' processes once.
OwnDistinct ==
    \A h \in Pids : state[h] = "handler" =>
        \A i, j \in Own(h) : table[h][i].pid = table[h][j].pid => i = j

\* Entry e tells the truth about a program that h started.
Truth(h, e) ==
    IF e.isrunning
    THEN state[e.pid] \in {"program", "zombie"} /\ parent[e.pid] = h
    ELSE state[e.pid] = "gone"

\* A handler's own entries tell the truth.
OwnTrue ==
    \A h \in Pids : state[h] = "handler" => \A i \in Own(h) : Truth(h, table[h][i])

\* What is known of the tables.
Ledger == Inherits /\ Started /\ InFlight /\ OwnDistinct /\ OwnTrue

\* A process that was started does not become free again.
LEMMA NoneFreed ==
    ASSUME TypeOK, Phases, ~PidReuse, [Next]_vars,
           NEW p \in Pids, state[p] # "free"
    PROVE  state'[p] # "free"
<1>1. CASE Calm
  BY <1>1 DEF Calm
<1>2. ASSUME NEW q \in Pids, Exit(q)
      PROVE  state'[p] # "free"
  BY <1>2 DEF Exit, Freed
<1>3. ASSUME NEW h \in Pids, NEW c \in Pids, NEW name \in Names,
             RunForks(h, c, name)
      PROVE  state'[p] # "free"
  BY <1>3 DEF TypeOK, RunForks
<1>4. ASSUME NEW h \in Pids,
             RunReturns(h) \/ SigchldArrives(h) \/ ReapReturns(h)
      PROVE  state'[p] # "free"
  BY <1>4 DEF RunReturns, SigchldArrives, ReapReturns, kernel
<1>5. ASSUME NEW c \in Pids, ExecSucceeds(c) \/ ExecFails(c)
      PROVE  state'[p] # "free"
  BY <1>5 DEF TypeOK, ExecSucceeds, ExecFails
<1>6. ASSUME NEW h \in Pids, NEW c \in Pids, Reap(h, c)
      PROVE  state'[p] # "free"
  BY <1>6 DEF TypeOK, Reap, Freed
<1>7. ASSUME NEW q \in Pids, ForeignStarts(q)
      PROVE  state'[p] # "free"
  BY <1>7 DEF ForeignStarts
<1> QED
  BY <1>1, <1>2, <1>3, <1>4, <1>5, <1>6, <1>7, StepKinds

\* What becomes of the table of a process in a step.
LEMMA TableMoves ==
    ASSUME TypeOK, Phases, [Next]_vars, NEW p \in Pids
    PROVE  \/ table'[p] = table[p] /\ taken'[p] = taken[p]
           \/ \E h \in Pids, name \in Names : RunForks(h, p, name)
           \/ ExecSucceeds(p)
           \/ RunReturns(p)
           \/ \E c \in Pids : Reap(p, c)
<1>1. CASE Calm
  BY <1>1 DEF Calm
<1>2. ASSUME NEW q \in Pids, Exit(q)
      PROVE  table'[p] = table[p] /\ taken'[p] = taken[p]
  BY <1>2 DEF Exit
<1>3. ASSUME NEW h \in Pids, NEW c \in Pids, NEW name \in Names,
             RunForks(h, c, name), c # p
      PROVE  table'[p] = table[p] /\ taken'[p] = taken[p]
  BY <1>3 DEF TypeOK, RunForks
<1>4. ASSUME NEW h \in Pids, RunReturns(h), h # p
      PROVE  table'[p] = table[p] /\ taken'[p] = taken[p]
  BY <1>4 DEF TypeOK, RunReturns
<1>5. ASSUME NEW c \in Pids, ExecSucceeds(c), c # p
      PROVE  table'[p] = table[p] /\ taken'[p] = taken[p]
  BY <1>5 DEF TypeOK, ExecSucceeds
<1>6. ASSUME NEW h \in Pids, ExecFails(h) \/ SigchldArrives(h) \/ ReapReturns(h)
      PROVE  table'[p] = table[p] /\ taken'[p] = taken[p]
  BY <1>6 DEF ExecFails, SigchldArrives, ReapReturns
<1>7. ASSUME NEW h \in Pids, NEW c \in Pids, Reap(h, c), h # p
      PROVE  table'[p] = table[p] /\ taken'[p] = taken[p]
  BY <1>7 DEF TypeOK, Reap
<1>8. ASSUME NEW q \in Pids, ForeignStarts(q)
      PROVE  table'[p] = table[p] /\ taken'[p] = taken[p]
  BY <1>8 DEF ForeignStarts
<1> QED
  BY <1>1, <1>2, <1>3, <1>4, <1>5, <1>6, <1>7, <1>8, StepKinds

\* What run() inserts when it returns.
LEMMA RunInserts ==
    ASSUME TypeOK, Phases, NEW h \in Pids, RunReturns(h)
    PROVE  /\ state[h] = "handler"
           /\ pc[h] = "wait"
           /\ table[h] \in Seq(Entry(Pids, Names))
           /\ child[h] \in Pids
           /\ prog[h] \in Names
           /\ table'[h] = InsertFirst(table[h], child[h], prog[h])
BY DEF TypeOK, Phases, RunReturns, At

\* What a round of grimreaper() marks.
LEMMA ReapMarks ==
    ASSUME TypeOK, Phases, NEW h \in Pids, NEW c \in Pids, Reap(h, c)
    PROVE  /\ state[h] = "handler"
           /\ state[c] = "zombie" /\ parent[c] = h
           /\ table[h] \in Seq(Entry(Pids, Names))
           /\ SearchPid(table[h], c) # NULL
           /\ table'[h] = InsertEndTime(table[h], c)
BY DEF TypeOK, Phases, Reap, Zombies

\* Every step leaves only pids that were started in the tables.
LEMMA StartedStep ==
    ASSUME TypeOK, Phases, ~PidReuse, Started, InFlight, [Next]_vars
    PROVE  Started'
<1> SUFFICES ASSUME NEW p \in Pids, NEW c \in Jobs(table'[p])
             PROVE  state'[c] # "free"
  BY DEF Started
<1>1. \A q \in Pids : table[q] \in Seq(Entry(Pids, Names))
  BY DEF TypeOK
<1>2. \A q \in Pids : Jobs(table[q]) \subseteq Pids
  BY <1>1, JobsTypeOK
<1>3. ASSUME NEW q \in Pids, c \in Jobs(table[q])
      PROVE  state'[c] # "free"
  BY <1>2, <1>3, NoneFreed DEF Started
<1>4. ASSUME NEW h \in Pids, NEW name \in Names, RunForks(h, p, name)
      PROVE  table'[p] = table[h]
  BY <1>4 DEF TypeOK, RunForks
<1>5. CASE ExecSucceeds(p)
  <2>1. table'[p] = <<>>
    BY <1>5 DEF TypeOK, ExecSucceeds
  <2> QED  BY <2>1 DEF Jobs
<1>6. CASE RunReturns(p)
  <2>1. Jobs(table'[p]) = Jobs(table[p]) \cup {child[p]} /\ child[p] \in Pids
    BY <1>6, RunInserts, InsertFirstJobs
  <2>2. state[child[p]] # "free"
    BY <1>6, RunInserts DEF InFlight
  <2> QED  BY <1>3, <2>1, <2>2, NoneFreed
<1>7. ASSUME NEW d \in Pids, Reap(p, d)
      PROVE  state'[c] # "free"
  <2>1. Jobs(table'[p]) = Jobs(table[p])
    BY <1>7, ReapMarks, InsertEndTimeJobs
  <2> QED  BY <1>3, <2>1
<1> QED  BY <1>3, <1>4, <1>5, <1>6, <1>7, TableMoves

\* Every step leaves a child with the entries it was born with.
LEMMA InheritsStep ==
    ASSUME TypeOK, Phases, Inherits, [Next]_vars
    PROVE  Inherits'
<1> SUFFICES ASSUME NEW c \in Pids, state'[c] = "child"
             PROVE  taken'[c] = Len(table'[c])
  BY DEF Inherits
<1>1. ASSUME NEW h \in Pids, NEW name \in Names, RunForks(h, c, name)
      PROVE  taken'[c] = Len(table'[c])
  BY <1>1 DEF TypeOK, RunForks
<1>2. CASE ExecSucceeds(c)
  BY <1>2 DEF TypeOK, ExecSucceeds
<1>3. CASE RunReturns(c) \/ \E d \in Pids : Reap(c, d)
  <2>1. state[c] = "handler"
    BY <1>3, RunInserts, ReapMarks
  <2>2. state'[c] = "handler"
    BY <1>3, <2>1 DEF TypeOK, RunReturns, Reap, Zombies, kernel
  <2> QED  BY <2>2
<1>4. CASE table'[c] = table[c] /\ taken'[c] = taken[c]
  <2>1. state[c] = "child" \/ \E h \in Pids, name \in Names : RunForks(h, c, name)
    <3>1. CASE Calm
      BY <3>1 DEF Calm
    <3>2. ASSUME NEW p \in Pids, Exit(p)
          PROVE  state[c] = "child"
      BY <3>2 DEF TypeOK, Exit, Freed
    <3>3. ASSUME NEW h \in Pids, NEW d \in Pids, NEW name \in Names,
                 RunForks(h, d, name), c # d
          PROVE  state[c] = "child"
      BY <3>3 DEF TypeOK, RunForks
    <3>4. ASSUME NEW h \in Pids,
                 RunReturns(h) \/ SigchldArrives(h) \/ ReapReturns(h)
          PROVE  state[c] = "child"
      BY <3>4 DEF RunReturns, SigchldArrives, ReapReturns, kernel
    <3>5. ASSUME NEW d \in Pids, ExecSucceeds(d) \/ ExecFails(d)
          PROVE  state[c] = "child"
      BY <3>5 DEF TypeOK, ExecSucceeds, ExecFails
    <3>6. ASSUME NEW h \in Pids, NEW d \in Pids, Reap(h, d)
          PROVE  state[c] = "child"
      BY <3>6 DEF TypeOK, Reap, Freed
    <3>7. ASSUME NEW p \in Pids, ForeignStarts(p)
          PROVE  state[c] = "child"
      BY <3>7 DEF TypeOK, ForeignStarts
    <3> QED
      BY <3>1, <3>2, <3>3, <3>4, <3>5, <3>6, <3>7, StepKinds
  <2> QED  BY <1>1, <1>4, <2>1 DEF Inherits
<1> QED  BY <1>1, <1>2, <1>3, <1>4, TableMoves

\* Nothing touches the child that a handler waits for in run() but its own
\* execlp() and its own end.
LEMMA InFlightStep ==
    ASSUME TypeOK, Phases, ~PidReuse, Started, InFlight, [Next]_vars
    PROVE  InFlight'
<1> USE SubserverAssumption
<1> DEFINE Held(h, c) == \/ state'[c] \in {"program", "zombie"}
                         \/ state'[c] \in {"child", "handler"} /\ c \in pipe'[h]
           Goal(h) == /\ parent'[child'[h]] = h
                      /\ Held(h, child'[h])
                      /\ child'[h] \notin Jobs(table'[h])
<1> SUFFICES ASSUME NEW h \in Pids, pc'[h] = "wait"
             PROVE  Goal(h)
  BY DEF InFlight
<1>1. CASE Calm
  BY <1>1 DEF Calm, InFlight
<1>2. ASSUME NEW p \in Pids, Exit(p), state[p] \in Alive
      PROVE  Goal(h)
  <2>1. /\ h # p
        /\ pc[h] = "wait"
        /\ child'[h] = child[h]
        /\ table' = table
        /\ pipe'[h] = pipe[h] \ {p}
    BY <1>2 DEF TypeOK, Exit
  <2>2. child[h] \in Pids /\ parent[child[h]] = h
    BY <2>1 DEF Phases, InFlight
  <2>3. parent'[child[h]] = h
    BY <1>2, <2>1, <2>2 DEF TypeOK, Exit
  <2>4. CASE child[h] = p
    <3>1. state'[p] = "zombie"
      BY <1>2, <2>2, <2>4 DEF TypeOK, Exit
    <3> QED  BY <2>1, <2>3, <2>4, <3>1 DEF InFlight
  <2>5. CASE child[h] # p
    <3>1. state'[child[h]] = state[child[h]]
      BY <1>2, <2>1, <2>2, <2>5 DEF TypeOK, Exit, Zombies
    <3> QED  BY <2>1, <2>3, <2>5, <3>1 DEF InFlight
  <2> QED  BY <2>4, <2>5
<1>3. ASSUME NEW g \in Pids, NEW d \in Pids, NEW name \in Names,
             RunForks(g, d, name)
      PROVE  Goal(h)
  <2>1. /\ g # d /\ pc[d] # "wait"
        /\ \A q \in Pids : q # d => table'[q] = table[q]
        /\ \A q \in Pids : q # d => state'[q] = state[q] /\ parent'[q] = parent[q]
        /\ \A q \in Pids : q # g => pc'[q] = pc[q] /\ child'[q] = child[q]
    BY <1>3 DEF TypeOK, Phases, RunForks, Command, At, Goto
  <2>2. state[d] = "free" /\ state'[d] = "child" /\ parent'[d] = g
    BY <1>3 DEF TypeOK, RunForks
  <2>3. CASE h = g
    <3>1. child'[h] = d /\ pipe'[h] = {d}
      BY <1>3, <2>3 DEF TypeOK, RunForks, ForkPipes
    <3>2. d \notin Jobs(table[h])
      BY <2>2 DEF Started
    <3> QED  BY <2>1, <2>2, <2>3, <3>1, <3>2
  <2>4. CASE h # g
    <3>1. pc[h] = "wait" /\ h # d
      BY <2>1, <2>4
    <3>2. child[h] \in Pids /\ child[h] # d
      BY <2>2, <3>1 DEF Phases, InFlight
    <3>3. pipe[h] \subseteq pipe'[h]
      BY <1>3, <2>4, <3>1 DEF RunForks, ForkPipes
    <3> QED  BY <2>1, <2>4, <3>1, <3>2, <3>3 DEF InFlight
  <2> QED  BY <2>3, <2>4
<1>4. ASSUME NEW g \in Pids, RunReturns(g)
      PROVE  Goal(h)
  <2>1. /\ h # g /\ pc[h] = "wait"
        /\ table'[h] = table[h] /\ child'[h] = child[h]
        /\ UNCHANGED <<state, parent, pipe>>
    BY <1>4 DEF TypeOK, RunReturns, Goto, kernel
  <2> QED  BY <2>1 DEF InFlight
<1>5. ASSUME NEW d \in Pids, ExecSucceeds(d)
      PROVE  Goal(h)
  <2>1. /\ h # d /\ pc[h] = "wait"
        /\ table'[h] = table[h] /\ child'[h] = child[h] /\ parent' = parent
        /\ pipe'[h] = pipe[h] \ {d}
        /\ \A q \in Pids : state'[q] = IF q = d THEN "program" ELSE state[q]
    BY <1>5 DEF TypeOK, Phases, ExecSucceeds
  <2>2. child[h] \in Pids
    BY <2>1 DEF Phases
  <2> QED  BY <2>1, <2>2 DEF InFlight
<1>6. ASSUME NEW d \in Pids, ExecFails(d)
      PROVE  Goal(h)
  <2>1. /\ pc[h] = "wait" /\ state[d] = "child"
        /\ UNCHANGED <<table, child, parent, pipe>>
        /\ \A q \in Pids : state'[q] = IF q = d THEN "handler" ELSE state[q]
    BY <1>6 DEF TypeOK, Phases, ExecFails, Goto
  <2>2. child[h] \in Pids
    BY <2>1 DEF Phases
  <2> QED  BY <2>1, <2>2 DEF InFlight
<1>7. ASSUME NEW g \in Pids, SigchldArrives(g) \/ ReapReturns(g)
      PROVE  Goal(h)
  BY <1>7 DEF InFlight, SigchldArrives, ReapReturns, kernel, locals
<1>8. ASSUME NEW g \in Pids, NEW d \in Pids, Reap(g, d)
      PROVE  Goal(h)
  <2>1. /\ UNCHANGED <<pc, child, pipe>>
        /\ \A q \in Pids : q # d => state'[q] = state[q] /\ parent'[q] = parent[q]
        /\ h # g => table'[h] = table[h]
    BY <1>8 DEF TypeOK, Reap, locals
  <2>2. pc[h] = "wait" /\ child[h] \in Pids
    BY <2>1 DEF Phases
  <2>3. Jobs(table'[h]) = Jobs(table[h])
    BY <1>8, <2>1, ReapMarks, InsertEndTimeJobs
  <2>4. child[h] # d
    <3>1. CASE h = g
      BY <1>8, <2>2, <3>1, ReapMarks, SearchPidJobs DEF InFlight
    <3>2. CASE h # g
      BY <1>8, <2>2, <3>2, ReapMarks DEF InFlight
    <3> QED  BY <3>1, <3>2
  <2> QED  BY <2>1, <2>2, <2>3, <2>4 DEF InFlight
<1>9. ASSUME NEW p \in Pids, ForeignStarts(p)
      PROVE  Goal(h)
  BY <1>9 DEF ForeignStarts
<1> QED
  BY <1>1, <1>2, <1>3, <1>4, <1>5, <1>6, <1>7, <1>8, <1>9, StepKinds

\* An entry that tells the truth goes on to do so, unless its process is reaped.
LEMMA TruthKept ==
    ASSUME TypeOK, Phases, ~PidReuse, [Next]_vars,
           NEW h \in Pids, NEW e \in Entry(Pids, Names), Truth(h, e),
           state'[h] = "handler", ~Reap(h, e.pid)
    PROVE  Truth(h, e)'
<1> USE SubserverAssumption
<1>1. e.pid \in Pids
  BY DEF Entry
<1> DEFINE p == e.pid
<1>2. (state'[p] = state[p] /\ parent'[p] = parent[p]) => Truth(h, e)'
  BY DEF Truth
<1>3. /\ state[p] \in {"program", "zombie", "gone"}
      /\ state[p] # "gone" => parent[p] = h
  BY DEF Truth
<1> HIDE DEF p
<1>4. CASE Calm
  BY <1>2, <1>4 DEF Calm
<1>5. ASSUME NEW q \in Pids, Exit(q), state[q] \in Alive
      PROVE  Truth(h, e)'
  <2>1. h # q
    BY <1>5 DEF TypeOK, Exit, Freed
  <2>2. CASE p = q
    <3>1. state[p] = "program" /\ parent[p] = h
      BY <1>3, <1>5, <2>2 DEF Alive
    <3>2. state'[p] = "zombie" /\ parent'[p] = h
      BY <1>5, <2>1, <2>2, <3>1 DEF TypeOK, Exit
    <3> QED  BY <3>1, <3>2 DEF Truth, p
  <2>3. CASE p # q
    <3>1. state'[p] = state[p]
      BY <1>1, <1>3, <1>5, <2>1, <2>3 DEF TypeOK, Exit, Zombies, p
    <3>2. CASE state[p] = "gone"
      BY <3>1, <3>2 DEF Truth, p
    <3>3. CASE state[p] # "gone"
      <4>1. parent'[p] = parent[p]
        BY <1>1, <1>3, <1>5, <2>1, <3>3 DEF TypeOK, Exit, p
      <4> QED  BY <1>2, <3>1, <4>1
    <3> QED  BY <3>2, <3>3
  <2> QED  BY <2>2, <2>3
<1>6. ASSUME NEW g \in Pids, NEW d \in Pids, NEW name \in Names,
             RunForks(g, d, name)
      PROVE  Truth(h, e)'
  BY <1>1, <1>2, <1>3, <1>6 DEF TypeOK, RunForks, p
<1>7. ASSUME NEW g \in Pids,
             RunReturns(g) \/ SigchldArrives(g) \/ ReapReturns(g)
      PROVE  Truth(h, e)'
  BY <1>2, <1>7 DEF RunReturns, SigchldArrives, ReapReturns, kernel
<1>8. ASSUME NEW d \in Pids, ExecSucceeds(d) \/ ExecFails(d)
      PROVE  Truth(h, e)'
  BY <1>1, <1>2, <1>3, <1>8 DEF TypeOK, ExecSucceeds, ExecFails, p
<1>9. ASSUME NEW g \in Pids, NEW d \in Pids, Reap(g, d)
      PROVE  Truth(h, e)'
  <2>1. d # p
    BY <1>3, <1>9, ReapMarks DEF p
  <2> QED  BY <1>1, <1>2, <1>9, <2>1 DEF TypeOK, Reap, p
<1>10. ASSUME NEW q \in Pids, ForeignStarts(q)
      PROVE  Truth(h, e)'
  BY <1>10 DEF ForeignStarts
<1> QED
  BY <1>4, <1>5, <1>6, <1>7, <1>8, <1>9, <1>10, StepKinds

\* A handler was one before the step, or is a child whose execlp() has failed.
LEMMA HandlerBefore ==
    ASSUME TypeOK, Phases, [Next]_vars, NEW h \in Pids, state'[h] = "handler"
    PROVE  state[h] = "handler" \/ ExecFails(h)
<1>1. CASE Calm
  BY <1>1 DEF Calm
<1>2. ASSUME NEW p \in Pids, Exit(p)
      PROVE  state[h] = "handler"
  BY <1>2 DEF TypeOK, Exit, Freed
<1>3. ASSUME NEW g \in Pids, NEW c \in Pids, NEW name \in Names,
             RunForks(g, c, name)
      PROVE  state[h] = "handler"
  BY <1>3 DEF TypeOK, RunForks
<1>4. ASSUME NEW g \in Pids,
             RunReturns(g) \/ SigchldArrives(g) \/ ReapReturns(g)
      PROVE  state[h] = "handler"
  BY <1>4 DEF RunReturns, SigchldArrives, ReapReturns, kernel
<1>5. ASSUME NEW d \in Pids, ExecSucceeds(d) \/ ExecFails(d), ~ExecFails(h)
      PROVE  state[h] = "handler"
  BY <1>5 DEF TypeOK, ExecSucceeds, ExecFails
<1>6. ASSUME NEW g \in Pids, NEW d \in Pids, Reap(g, d)
      PROVE  state[h] = "handler"
  BY <1>6 DEF TypeOK, Reap, Freed
<1>7. ASSUME NEW p \in Pids, ForeignStarts(p)
      PROVE  state[h] = "handler"
  BY <1>7 DEF TypeOK, ForeignStarts
<1> QED
  BY <1>1, <1>2, <1>3, <1>4, <1>5, <1>6, <1>7, StepKinds

\* The entries that a process made itself are entries of its table.
LEMMA OwnEntries ==
    ASSUME TypeOK, NEW h \in Pids
    PROVE  /\ Len(table[h]) \in Nat /\ taken[h] \in Nat
           /\ DOMAIN table[h] = 1 .. Len(table[h])
           /\ Own(h) \subseteq DOMAIN table[h]
           /\ \A i \in Own(h) : table[h][i] \in Entry(Pids, Names)
<1>1. table[h] \in Seq(Entry(Pids, Names)) /\ taken[h] \in Nat
  BY DEF TypeOK
<1>2. Own(h) \subseteq DOMAIN table[h]
  BY <1>1 DEF Own
<1> QED  BY <1>1, <1>2

\* The entry that run() returns with is true, as the child holds the pipe until
\* it has executed the program or ended; the entry that grimreaper() marks is the
\* only one of its pid that the handler made itself.
LEMMA OwnStep ==
    ASSUME TypeOK, Phases, ~PidReuse, Ledger, [Next]_vars
    PROVE  OwnDistinct' /\ OwnTrue'
<1> DEFINE Distinct(h) ==
             \A i, j \in Own(h) : table[h][i].pid = table[h][j].pid => i = j
           True(h) == \A i \in Own(h) : Truth(h, table[h][i])
<1> SUFFICES ASSUME NEW h \in Pids, state'[h] = "handler"
             PROVE  Distinct(h)' /\ True(h)'
  BY DEF OwnDistinct, OwnTrue
<1>1. CASE ExecFails(h)
  <2>1. table' = table /\ taken' = taken /\ taken[h] = Len(table[h])
    BY <1>1 DEF ExecFails, Ledger, Inherits
  <2>2. Own(h)' = {}
    BY <2>1, OwnEntries DEF Own
  <2> QED  BY <2>2
<1>2. CASE state[h] = "handler" /\ (\A c \in Pids : ~Reap(h, c))
           /\ table'[h] = table[h] /\ taken'[h] = taken[h]
  <2>1. Own(h)' = Own(h)
    BY <1>2 DEF Own
  <2>2. ASSUME NEW i \in Own(h)
        PROVE  Truth(h, table[h][i])'
    <3> DEFINE e == table[h][i]
    <3>1. e \in Entry(Pids, Names) /\ Truth(h, e)
      BY <1>2, OwnEntries DEF Ledger, OwnTrue
    <3>2. e.pid \in Pids
      BY <3>1 DEF Entry
    <3>3. PICK d \in Entry(Pids, Names) : d = e
      BY <3>1
    <3>4. Truth(h, d) /\ ~Reap(h, d.pid)
      BY <1>2, <3>1, <3>2, <3>3
    <3>5. Truth(h, d)'
      BY <3>4, TruthKept
    <3>6. d = table'[h][i]
      BY <1>2, <3>3
    <3> QED  BY <3>5, <3>6
  <2> QED  BY <1>2, <2>1, <2>2 DEF Ledger, OwnDistinct
<1>3. CASE RunReturns(h)
  <2> PICK t, u : t = table[h] /\ u = table'[h]
    OBVIOUS
  <2>1. /\ state[h] = "handler"
        /\ pc[h] = "wait"
        /\ t \in Seq(Entry(Pids, Names))
        /\ child[h] \in Pids
        /\ prog[h] \in Names
        /\ u = InsertFirst(t, child[h], prog[h])
    BY <1>3, RunInserts
  <2>2. /\ state' = state /\ parent' = parent /\ taken' = taken
        /\ pipe[h] = {}
    BY <1>3 DEF RunReturns, kernel
  <2>3. /\ Len(u) = Len(t) + 1
        /\ u[1].pid = child[h]
        /\ \A i \in DOMAIN t : u[i + 1] = t[i]
    BY <2>1, InsertFirstEntries
  <2>4. u[1].isrunning
    <3>1. /\ t \in Seq(Entry(Pids, Names))
          /\ child[h] \in Pids
          /\ prog[h] \in Names
      BY <2>1
    <3>2. InsertFirst(t, child[h], prog[h])[1].isrunning
      BY <3>1, InsertFirstEntries, ZenonT(30)
    <3>3. u = InsertFirst(t, child[h], prog[h])
      BY <2>1
    <3> QED  BY <3>2, <3>3, Zenon
  <2>5. /\ state[child[h]] \in {"program", "zombie"} /\ parent[child[h]] = h
        /\ child[h] \notin Jobs(t)
    BY <2>1, <2>2 DEF Ledger, InFlight
  <2>6. /\ DOMAIN t = 1 .. Len(t) /\ Len(t) \in Nat /\ taken[h] \in Nat
        /\ Own(h) = 1 .. Len(t) - taken[h]
        /\ Own(h) \subseteq DOMAIN t
    BY OwnEntries DEF Own
  <2>7. Own(h)' = 1 .. (Len(t) + 1) - taken[h]
    BY <2>2, <2>3 DEF Own
  <2>8. /\ \A i \in Own(h) : Truth(h, t[i])
        /\ \A i, j \in Own(h) : t[i].pid = t[j].pid => i = j
    BY <2>1 DEF Ledger, OwnTrue, OwnDistinct
  <2>9. Truth(h, u[1])'
    BY <2>2, <2>3, <2>4, <2>5, Zenon DEF Truth
  <2>10. ASSUME NEW i \in Own(h)', i # 1
         PROVE  i - 1 \in Own(h) /\ i - 1 \in DOMAIN t /\ u[i] = t[i - 1]
    <3>1. i - 1 \in Own(h) /\ (i - 1) + 1 = i
      BY <2>6, <2>7, <2>10
    <3> QED  BY <2>3, <2>6, <3>1
  <2>11. ASSUME NEW i \in Own(h)'
         PROVE  Truth(h, u[i])'
    <3>1. CASE i = 1
      BY <2>9, <3>1
    <3>2. CASE i # 1
      <4>1. Truth(h, t[i - 1]) /\ u[i] = t[i - 1]
        BY <2>8, <2>10, <3>2
      <4> QED  BY <2>2, <4>1 DEF Truth
    <3> QED  BY <3>1, <3>2
  <2>12. ASSUME NEW i \in Own(h)', i # 1
         PROVE  u[i].pid # u[1].pid
    BY <2>3, <2>5, <2>10, <2>12 DEF Jobs
  <2>13. ASSUME NEW i \in Own(h)', NEW j \in Own(h)', u[i].pid = u[j].pid
         PROVE  i = j
    <3>1. CASE i = 1 \/ j = 1
      BY <2>12, <2>13, <3>1
    <3>2. CASE i # 1 /\ j # 1
      <4>1. i - 1 = j - 1
        BY <2>8, <2>10, <2>13, <3>2
      <4> QED  BY <2>7, <4>1
    <3> QED  BY <3>1, <3>2
  <2> QED  BY <2>11, <2>13
<1>4. ASSUME NEW c \in Pids, Reap(h, c)
      PROVE  Distinct(h)' /\ True(h)'
  <2> PICK t, u, s : t = table[h] /\ u = table'[h] /\ s = SearchPid(t, c)
    OBVIOUS
  <2>1. /\ state[h] = "handler"
        /\ state[c] = "zombie" /\ parent[c] = h
        /\ t \in Seq(Entry(Pids, Names))
        /\ s # NULL
        /\ u = InsertEndTime(t, c)
    BY <1>4, ReapMarks
  <2>2. /\ taken' = taken
        /\ \A q \in Pids : /\ state'[q] = IF q = c THEN "gone" ELSE state[q]
                           /\ q # c => parent'[q] = parent[q]
    BY <1>4 DEF TypeOK, Reap, Freed
  <2>3. /\ Len(u) = Len(t)
        /\ ~u[s].isrunning
        /\ \A j \in DOMAIN t : /\ u[j].pid = t[j].pid
                               /\ j # s => u[j] = t[j]
    BY <2>1, InsertEndTimeEntries
  <2>4. IsNewest(t, c, s) /\ s \in Nat
    BY <2>1, SearchPidResult
  <2>5. /\ DOMAIN t = 1 .. Len(t) /\ Len(t) \in Nat /\ taken[h] \in Nat
        /\ Own(h) = 1 .. Len(t) - taken[h]
        /\ Own(h) \subseteq DOMAIN t
        /\ \A i \in Own(h) : t[i] \in Entry(Pids, Names)
    BY OwnEntries DEF Own
  <2>6. Own(h)' = Own(h)
    BY <2>2, <2>3 DEF Own
  <2>7. /\ \A i \in Own(h) : Truth(h, t[i])
        /\ \A i, j \in Own(h) : t[i].pid = t[j].pid => i = j
    BY <2>1 DEF Ledger, OwnTrue, OwnDistinct
  <2>8. ASSUME NEW i \in Own(h)
        PROVE  Truth(h, u[i])'
    <3>1. i \in DOMAIN t /\ t[i].pid \in Pids
      BY <2>5 DEF Entry
    <3>2. CASE t[i].pid = c
      <4>1. i = s
        <5>1. s \in Own(h)
          BY <2>4, <2>5, <3>1, <3>2 DEF IsNewest
        <5> QED  BY <2>4, <2>7, <3>2, <5>1 DEF IsNewest
      <4>2. ~u[i].isrunning /\ u[i].pid = c /\ state'[c] = "gone"
        BY <2>2, <2>3, <3>1, <3>2, <4>1
      <4> QED  BY <4>2 DEF Truth
    <3>3. CASE t[i].pid # c
      <4>1. i # s
        BY <2>4, <3>3 DEF IsNewest
      <4>2. u[i] = t[i] /\ Truth(h, t[i])
        BY <2>3, <2>7, <3>1, <4>1
      <4> QED  BY <2>2, <3>1, <3>3, <4>2 DEF Truth
    <3> QED  BY <3>2, <3>3
  <2>9. \A i, j \in Own(h) : u[i].pid = u[j].pid => i = j
    BY <2>3, <2>5, <2>7
  <2> QED  BY <2>6, <2>8, <2>9
<1>5. state[h] = "handler" => ~ExecSucceeds(h)
        /\ \A g \in Pids, name \in Names : ~RunForks(g, h, name)
  BY DEF ExecSucceeds, RunForks
<1> QED  BY <1>1, <1>2, <1>3, <1>4, <1>5, HandlerBefore, TableMoves

\* Every step keeps the ledger, unless pids are reused.
LEMMA LedgerStep ==
    ASSUME TypeOK, Phases, ~PidReuse, Ledger, [Next]_vars
    PROVE  Ledger'
BY InheritsStep, StartedStep, InFlightStep, OwnStep DEF Ledger

\* The ledger of a subserver that has run nothing.
LEMMA LedgerInit == Init => Ledger
<1> SUFFICES ASSUME Init
             PROVE  Ledger
  OBVIOUS
<1>1. \A p \in Pids : /\ table[p] = <<>> /\ taken[p] = 0
                      /\ state[p] # "child" /\ pc[p] # "wait"
  BY DEF Init
<1>2. \A p \in Pids : Own(p) = {} /\ Jobs(table[p]) = {}
  BY <1>1 DEF Own, Jobs
<1>3. Inherits
  BY <1>1 DEF Inherits
<1>4. Started /\ InFlight /\ OwnDistinct /\ OwnTrue
  BY <1>1, <1>2 DEF Started, InFlight, OwnDistinct, OwnTrue
<1> QED  BY <1>3, <1>4 DEF Ledger

-----------------------------------------------------------------------------
(* The kill loops, in a session in which no pid is reused.                 *)

\* What a kill loop has behind it has been terminated: killallprocess() the
\* entries of the name it is looking for, killall() all entries.
Covered ==
    \A h \in Pids :
        /\ pc[h] = "kill all" =>
             \A i \in DOMAIN table[h] :
                (/\ i < cursor[h]
                 /\ table[h][i].processname = table[h][cursor[h]].processname)
                => Terminated(table[h][i].pid)
        /\ pc[h] = "sweep" =>
             /\ cursor[h] # 0
             /\ \A i \in DOMAIN table[h] :
                  i < cursor[h] => Terminated(table[h][i].pid)

\* Who has been sent SIGTERM, or is dead, stays so: a handler that dies takes
\* no signal back, and nobody else gets the pid.
LEMMA TerminatedStable ==
    ASSUME TypeOK, Phases, ~PidReuse, [Next]_vars,
           NEW p \in Pids, Terminated(p)
    PROVE  Terminated(p)'
<1>1. CASE Calm
  BY <1>1 DEF Calm, Terminated
<1>2. ASSUME NEW q \in Pids, Exit(q)
      PROVE  Terminated(p)'
  <2>1. CASE p = q
    BY <1>2, <2>1 DEF TypeOK, Exit, Freed, Terminated
  <2>2. CASE p # q
    BY <1>2, <2>2 DEF TypeOK, Exit, Freed, Terminated
  <2> QED  BY <2>1, <2>2
<1>3. ASSUME NEW h \in Pids, NEW c \in Pids, NEW name \in Names,
             RunForks(h, c, name)
      PROVE  Terminated(p)'
  BY <1>3 DEF TypeOK, RunForks, Terminated
<1>4. ASSUME NEW h \in Pids,
             RunReturns(h) \/ SigchldArrives(h) \/ ReapReturns(h)
      PROVE  Terminated(p)'
  BY <1>4 DEF RunReturns, SigchldArrives, ReapReturns, kernel, Terminated
<1>5. ASSUME NEW c \in Pids, ExecSucceeds(c) \/ ExecFails(c)
      PROVE  Terminated(p)'
  BY <1>5 DEF TypeOK, ExecSucceeds, ExecFails, Terminated
<1>6. ASSUME NEW h \in Pids, NEW c \in Pids, Reap(h, c)
      PROVE  Terminated(p)'
  BY <1>6 DEF TypeOK, Reap, Freed, Terminated
<1>7. ASSUME NEW q \in Pids, ForeignStarts(q)
      PROVE  Terminated(p)'
  BY <1>7 DEF ForeignStarts
<1> QED
  BY <1>1, <1>2, <1>3, <1>4, <1>5, <1>6, <1>7, StepKinds

\* p is in a kill loop after the step, or has just left killallprocess().
Looping(p) ==
    \/ pc'[p] \in {"kill all", "sweep"}
    \/ pc[p] = "kill all" /\ pc'[p] = "answer"

\* The step leaves the kill loop of p alone, but for a round of its grimreaper().
LoopAlone(p) ==
    /\ pc'[p] = pc[p]
    /\ cursor'[p] = cursor[p]
    /\ table'[p] = table[p] \/ \E c \in Pids : Reap(p, c)

\* The step is one of the loop itself.
LoopSteps(p) ==
    \/ \E name \in Names : KillAllName(p, name)
    \/ KillAllStep(p)
    \/ ReadEnds(p)
    \/ SweepStep(p)

\* A kill loop is left alone, or the step is one of it.
LEMMA LoopMoves ==
    ASSUME TypeOK, Phases, [Next]_vars, NEW p \in Pids, Looping(p)
    PROVE  LoopAlone(p) \/ LoopSteps(p)
<1>1. CASE UNCHANGED <<pc, cursor, table>>
  BY <1>1 DEF LoopAlone
<1>2. ASSUME NEW h \in Pids, NEW l, Goto(h, l), pc[h] # "kill all",
             l \notin {"kill all", "sweep"}, UNCHANGED table,
             \A q \in Pids : q # h => cursor'[q] = cursor[q]
      PROVE  LoopAlone(p)
  <2>1. \A q \in Pids : pc'[q] = IF q = h THEN l ELSE pc[q]
    BY <1>2 DEF TypeOK, Goto
  <2> QED  BY <1>2, <2>1 DEF LoopAlone, Looping
<1>3. ASSUME NEW q \in Pids, Exit(q)
      PROVE  LoopAlone(p)
  <2>1. p # q
    BY <1>3 DEF TypeOK, Exit, Looping
  <2> QED  BY <1>3, <2>1 DEF TypeOK, Exit, LoopAlone
<1>4. ASSUME NEW h \in Pids, Request(h)
      PROVE  LoopAlone(p) \/ LoopSteps(p)
  <2>1. CASE OtherCommand(h)
    BY <1>2, <2>1 DEF OtherCommand, Command, At, locals
  <2>2. CASE GarbledCommand(h) \/ RunFails(h)
    BY <1>3, <2>2 DEF GarbledCommand, RunFails
  <2>3. ASSUME NEW c \in Pids, NEW name \in Names, RunForks(h, c, name)
        PROVE  LoopAlone(p)
    <3>1. /\ pc[c] = "none" /\ h # c
          /\ \A q \in Pids : /\ pc'[q] = IF q = h THEN "wait" ELSE pc[q]
                             /\ q # c => table'[q] = table[q]
          /\ cursor' = cursor
      BY <2>3 DEF TypeOK, Phases, RunForks, Command, At, Goto
    <3>2. p # h /\ p # c
      BY <3>1 DEF Looping
    <3> QED  BY <3>1, <3>2 DEF LoopAlone
  <2>4. ASSUME NEW verdict, NEW position, KillOne(h, verdict, position)
        PROVE  LoopAlone(p)
    <3>1. pc[h] = "read" /\ table' = table
      BY <2>4 DEF KillOne, Command, At
    <3>2. CASE verdict = "terminate"
      <4>1. Goto(h, "kill") /\ cursor' = [cursor EXCEPT ![h] = position]
        BY <2>4, <3>2 DEF KillOne
      <4>2. \A q \in Pids : q # h => cursor'[q] = cursor[q]
        BY <4>1 DEF TypeOK
      <4> QED  BY <1>2, <3>1, <4>1, <4>2
    <3>3. CASE verdict # "terminate"
      <4>1. Goto(h, "answer") /\ UNCHANGED cursor
        BY <2>4, <3>3 DEF KillOne
      <4> QED  BY <1>2, <3>1, <4>1
    <3> QED  BY <3>2, <3>3
  <2>5. ASSUME NEW name \in Names, KillAllName(h, name)
        PROVE  LoopAlone(p) \/ LoopSteps(p)
    <3>1. CASE p = h
      BY <2>5, <3>1 DEF LoopSteps
    <3>2. CASE p # h
      BY <2>5, <3>2 DEF TypeOK, KillAllName, Goto, LoopAlone
    <3> QED  BY <3>1, <3>2
  <2> QED
    BY <1>4, <2>1, <2>2, <2>3, <2>4, <2>5 DEF Request, KillPid, KillName
<1>5. ASSUME NEW h \in Pids, Execute(h)
      PROVE  LoopAlone(p) \/ LoopSteps(p)
  <2>1. CASE Answer(h)
    BY <1>2, <2>1 DEF Answer, At, locals
  <2>2. CASE BrokenPipe(h) \/ KillErrors(h) \/ SweepEnds(h)
    BY <1>3, <2>2 DEF BrokenPipe, KillErrors, SweepEnds
  <2>3. CASE RunReturns(h)
    <3>1. /\ \A q \in Pids : /\ pc'[q] = IF q = h THEN "answer" ELSE pc[q]
                             /\ q # h => table'[q] = table[q]
          /\ cursor' = cursor /\ pc[h] = "wait"
      BY <2>3 DEF TypeOK, RunReturns, At, Goto
    <3> QED  BY <3>1 DEF LoopAlone, Looping
  <2>4. CASE KillSends(h)
    <3>1. \A q \in Pids : q # h => cursor'[q] = cursor[q]
      BY <2>4 DEF TypeOK, KillSends
    <3>2. Goto(h, "answer") /\ table' = table /\ pc[h] = "kill"
      BY <2>4 DEF KillSends, At
    <3> QED  BY <1>2, <3>1, <3>2
  <2>5. CASE KillAllStep(h) \/ ReadEnds(h) \/ SweepStep(h)
    <3>1. CASE p = h
      BY <2>5, <3>1 DEF LoopSteps
    <3>2. CASE p # h
      <4>1. pc'[p] = pc[p] /\ cursor'[p] = cursor[p] /\ table' = table
        BY <2>5, <3>2 DEF TypeOK, KillAllStep, ReadEnds, SweepStep, Goto
      <4> QED  BY <4>1 DEF LoopAlone
    <3> QED  BY <3>1, <3>2
  <2> QED  BY <1>5, <2>1, <2>2, <2>3, <2>4, <2>5 DEF Execute
<1>6. ASSUME NEW h \in Pids, Interrupt(h)
      PROVE  LoopAlone(p)
  <2>1. CASE SigchldArrives(h) \/ ReapReturns(h)
    BY <1>1, <2>1 DEF SigchldArrives, ReapReturns, locals, LoopAlone
  <2>2. ASSUME NEW c \in Pids, Reap(h, c)
        PROVE  LoopAlone(p)
    BY <2>2 DEF TypeOK, Reap, locals, LoopAlone
  <2>3. CASE TermArrives(h) \/ \E c \in Pids : ReapCrashes(h, c)
    BY <1>3, <2>3 DEF TermArrives, ReapCrashes
  <2> QED  BY <1>6, <2>1, <2>2, <2>3 DEF Interrupt
<1>7. ASSUME NEW c \in Pids, Exec(c)
      PROVE  LoopAlone(p)
  <2>1. CASE ExecSucceeds(c)
    <3>1. /\ pc[c] = "none"
          /\ \A q \in Pids : q # c => table'[q] = table[q]
          /\ pc' = pc /\ cursor' = cursor
      BY <2>1 DEF TypeOK, Phases, ExecSucceeds
    <3> QED  BY <3>1 DEF LoopAlone, Looping
  <2>2. CASE ExecFails(c)
    <3>1. pc[c] = "none" /\ Goto(c, "answer") /\ UNCHANGED <<table, cursor>>
      BY <2>2 DEF Phases, ExecFails
    <3> QED  BY <1>2, <3>1
  <2>3. CASE NoArgument(c)
    BY <1>3, <2>3 DEF NoArgument
  <2> QED  BY <1>7, <2>1, <2>2, <2>3 DEF Exec
<1>8. ASSUME NEW q \in Pids, ProgramExits(q) \/ ForeignExits(q)
      PROVE  LoopAlone(p)
  BY <1>3, <1>8 DEF ProgramExits, ForeignExits
<1>9. ASSUME UNCHANGED vars \/ Disconnect \/ ClientCloses \/ Finished
             \/ \E q \in Pids : SweepSpins(q) \/ ForeignStarts(q)
      PROVE  LoopAlone(p)
  <2>1. UNCHANGED <<pc, cursor, table>>
    BY <1>9 DEF vars, locals, Disconnect, ClientCloses, Finished, SweepSpins,
                ForeignStarts
  <2> QED  BY <2>1 DEF LoopAlone
<1> QED  BY <1>4, <1>5, <1>6, <1>7, <1>8, <1>9 DEF Next

\* The pid of an entry is the same for as long as the table is not replaced.
LEMMA LoopAloneTable ==
    ASSUME TypeOK, Phases, NEW p \in Pids, LoopAlone(p)
    PROVE  /\ DOMAIN table'[p] = DOMAIN table[p]
           /\ \A i \in DOMAIN table[p] :
                /\ table'[p][i].pid = table[p][i].pid
                /\ table'[p][i].processname = table[p][i].processname
<1>1. CASE table'[p] = table[p]
  BY <1>1
<1>2. ASSUME NEW c \in Pids, Reap(p, c)
      PROVE  /\ DOMAIN table'[p] = DOMAIN table[p]
             /\ \A i \in DOMAIN table[p] :
                  /\ table'[p][i].pid = table[p][i].pid
                  /\ table'[p][i].processname = table[p][i].processname
  BY <1>2, ReapMarks, InsertEndTimeEntries
<1> QED  BY <1>1, <1>2 DEF LoopAlone

\* A process that a loop sends SIGTERM to, or finds gone, has been terminated.
LEMMA SignalTerminates ==
    ASSUME NEW v \in Pids, UNCHANGED state,
           IF Exists(v) THEN Signal(v) ELSE state[v] # "free"
    PROVE  Terminated(v)'
<1>1. CASE Exists(v)
  BY <1>1 DEF Signal, Terminated
<1>2. CASE ~Exists(v)
  BY <1>2 DEF Exists, Terminated
<1> QED  BY <1>1, <1>2

\* The types of a table and of the cursor of a kill loop.
LEMMA EntryPids ==
    ASSUME TypeOK, NEW p \in Pids
    PROVE  /\ table[p] \in Seq(Entry(Pids, Names))
           /\ cursor[p] \in Nat /\ cursor[p] + 1 \in Nat \ {0}
           /\ \A i \in DOMAIN table[p] :
                i \in Nat /\ 1 <= i /\ table[p][i].pid \in Pids
<1>1. table[p] \in Seq(Entry(Pids, Names)) /\ cursor[p] \in Nat
  BY DEF TypeOK
<1>2. ASSUME NEW i \in DOMAIN table[p]
      PROVE  i \in Nat /\ 1 <= i /\ table[p][i].pid \in Pids
  <2>1. table[p][i] \in Entry(Pids, Names)
    BY <1>1
  <2>2. i \in Nat /\ 1 <= i
    BY <1>1
  <2> QED  BY <2>1, <2>2 DEF Entry
<1>3. cursor[p] + 1 \in Nat \ {0}
  BY <1>1
<1> QED  BY <1>1, <1>2, <1>3

\* One round of killallprocess() signals the entry it is at; whatever lies
\* between it and the next one has another name.
LEMMA KillAllRound ==
    ASSUME TypeOK, Phases, ~PidReuse, Started, Covered, [Next]_vars,
           NEW p \in Pids, KillAllStep(p)
    PROVE  \A i \in DOMAIN table[p] :
              (/\ table[p][i].processname = table[p][cursor[p]].processname
               /\ pc'[p] = "kill all" => i < cursor'[p])
              => Terminated(table[p][i].pid)'
<1> DEFINE name == table[p][cursor[p]].processname
           next == SearchPName(table[p], name, cursor[p] + 1)
<1>1. /\ pc[p] = "kill all"
      /\ cursor[p] \in DOMAIN table[p]
      /\ UNCHANGED <<state, table>>
      /\ cursor'[p] = next
      /\ next # NULL => pc'[p] = "kill all"
  BY DEF TypeOK, Phases, KillAllStep, At
<1>2. table[p] \in Seq(Entry(Pids, Names)) /\ cursor[p] + 1 \in Nat \ {0}
  BY EntryPids
<1> HIDE DEF name
<1>3. /\ next \in Nat
      /\ \A j \in DOMAIN table[p] :
           cursor[p] + 1 <= j /\ (next = NULL \/ j < next)
             => table[p][j].processname # name
  BY <1>2, SearchPNameResult
<1> HIDE DEF next
<1>4. ASSUME NEW i \in DOMAIN table[p],
             table[p][i].processname = name,
             pc'[p] = "kill all" => i < cursor'[p]
      PROVE  Terminated(table[p][i].pid)'
  <2>1. next = NULL \/ i < next
    BY <1>1, <1>4
  <2>2. ~(cursor[p] + 1 <= i)
    BY <1>3, <1>4, <2>1
  <2>3. i \in Nat /\ cursor[p] \in Nat
    BY EntryPids
  <2>4. i < cursor[p] \/ i = cursor[p]
    BY <2>2, <2>3
  <2>5. PICK v \in Pids : v = table[p][i].pid
    BY EntryPids
  <2>6. v = table'[p][i].pid
    BY <1>1, <2>5
  <2>7. CASE i < cursor[p]
    <3>1. Terminated(v)
      BY <1>1, <1>4, <2>5, <2>7 DEF Covered, name
    <3>2. Terminated(v)'
      BY <3>1, TerminatedStable
    <3> QED  BY <2>6, <3>2
  <2>8. CASE i = cursor[p]
    <3>1. v = Victim(p)
      BY <2>5, <2>8 DEF Victim
    <3>2. state[v] # "free"
      BY <2>5 DEF Started, Jobs
    <3>3. Exists(v) => Signal(v)
      BY <3>1 DEF KillAllStep
    <3>4. Terminated(v)'
      BY <1>1, <3>2, <3>3, SignalTerminates
    <3> QED  BY <2>6, <3>4
  <2> QED  BY <2>4, <2>7, <2>8
<1> QED  BY <1>4 DEF name

\* Every step keeps what a kill loop has passed signalled.
LEMMA CoveredStep ==
    ASSUME TypeOK, Phases, ~PidReuse, Started, Covered, [Next]_vars
    PROVE  Covered'
<1> DEFINE InKillAll(h) ==
             pc[h] = "kill all" =>
               \A i \in DOMAIN table[h] :
                  (/\ i < cursor[h]
                   /\ table[h][i].processname = table[h][cursor[h]].processname)
                  => Terminated(table[h][i].pid)
           InSweep(h) ==
             pc[h] = "sweep" =>
               /\ cursor[h] # 0
               /\ \A i \in DOMAIN table[h] :
                    i < cursor[h] => Terminated(table[h][i].pid)
<1> SUFFICES ASSUME NEW p \in Pids, Looping(p)
             PROVE  InKillAll(p)' /\ InSweep(p)'
  BY DEF Covered, Looping
<1>1. CASE LoopAlone(p)
  <2>1. /\ pc'[p] = pc[p] /\ cursor'[p] = cursor[p]
        /\ DOMAIN table'[p] = DOMAIN table[p]
        /\ \A i \in DOMAIN table[p] :
             /\ table'[p][i].pid = table[p][i].pid
             /\ table'[p][i].processname = table[p][i].processname
    BY <1>1, LoopAloneTable DEF LoopAlone
  <2>2. ASSUME NEW i \in DOMAIN table[p], Terminated(table[p][i].pid)
        PROVE  Terminated(table[p][i].pid)'
    <3>1. PICK v \in Pids : v = table[p][i].pid
      BY EntryPids
    <3>2. Terminated(v)'
      BY <2>2, <3>1, TerminatedStable
    <3> QED  BY <2>1, <3>1, <3>2
  <2>3. InKillAll(p)'
    <3>1. SUFFICES ASSUME pc[p] = "kill all",
                          NEW i \in DOMAIN table[p], i < cursor[p],
                          table[p][i].processname
                            = table'[p][cursor[p]].processname
                   PROVE  Terminated(table[p][i].pid)'
      BY <2>1
    <3>2. cursor[p] \in DOMAIN table[p]
      BY <3>1 DEF Phases
    <3>3. Terminated(table[p][i].pid)
      BY <2>1, <3>1, <3>2 DEF Covered
    <3> QED  BY <2>2, <3>3
  <2>4. InSweep(p)'
    BY <2>1, <2>2 DEF Covered
  <2> QED  BY <2>3, <2>4
<1>2. ASSUME NEW name \in Names, KillAllName(p, name)
      PROVE  InKillAll(p)' /\ InSweep(p)'
  <2> DEFINE first == SearchPName(table[p], name, 1)
  <2>1. /\ first # NULL => pc'[p] = "kill all" /\ cursor'[p] = first
        /\ first = NULL => pc'[p] = "answer"
        /\ table' = table
    BY <1>2 DEF TypeOK, KillAllName, Goto
  <2>2. first # NULL
    BY <1>2, <2>1 DEF KillAllName, Command, At, Looping
  <2>3. /\ table[p][first].processname = name
        /\ \A j \in DOMAIN table[p] :
             1 <= j /\ j < first => table[p][j].processname # name
    <3>1. table[p] \in Seq(Entry(Pids, Names)) /\ 1 \in Nat \ {0}
      BY EntryPids
    <3> QED  BY <2>2, <3>1, SearchPNameResult
  <2> HIDE DEF first
  <2>4. \A j \in DOMAIN table[p] : 1 <= j
    BY EntryPids
  <2> QED  BY <2>1, <2>2, <2>3, <2>4
<1>3. CASE KillAllStep(p)
  <2>1. /\ UNCHANGED table
        /\ pc'[p] \in {"kill all", "answer"}
    BY <1>3 DEF TypeOK, KillAllStep, At, Goto
  <2>2. ASSUME pc'[p] = "kill all"
        PROVE  table'[p][cursor'[p]].processname
                 = table[p][cursor[p]].processname
    <3> DEFINE name == table[p][cursor[p]].processname
               next == SearchPName(table[p], name, cursor[p] + 1)
    <3>1. cursor'[p] = next /\ next # NULL
      BY <1>3, <2>2 DEF TypeOK, KillAllStep, At, Goto
    <3>2. table[p] \in Seq(Entry(Pids, Names)) /\ cursor[p] + 1 \in Nat \ {0}
      BY EntryPids
    <3> HIDE DEF name
    <3>3. table[p][next].processname = name
      BY <3>1, <3>2, SearchPNameResult
    <3> HIDE DEF next
    <3>4. name = table[p][cursor[p]].processname
      BY DEF name
    <3> QED  BY <2>1, <3>1, <3>3, <3>4
  <2>3. ASSUME pc'[p] = "kill all", NEW i \in DOMAIN table[p], i < cursor'[p],
               table[p][i].processname = table'[p][cursor'[p]].processname
        PROVE  Terminated(table[p][i].pid)'
    BY <1>3, <2>2, <2>3, KillAllRound
  <2> QED  BY <2>1, <2>3
<1>4. CASE ReadEnds(p)
  <2>1. pc'[p] = "sweep" /\ cursor'[p] = 1 /\ table' = table
    BY <1>4 DEF TypeOK, ReadEnds, Goto
  <2>2. ASSUME NEW i \in DOMAIN table[p]
        PROVE  ~(i < 1)
    <3>1. i \in Nat /\ 1 <= i
      BY EntryPids
    <3> QED  BY <3>1
  <2> QED  BY <2>1, <2>2
<1>5. CASE SweepStep(p)
  <2>1. /\ pc[p] = "sweep" /\ pc'[p] = "sweep"
        /\ cursor[p] \in DOMAIN table[p]
        /\ cursor'[p] = cursor[p] + 1
        /\ UNCHANGED <<state, table>>
        /\ Exists(Victim(p)) /\ Signal(Victim(p))
    BY <1>5 DEF TypeOK, SweepStep, At
  <2>2. ASSUME NEW i \in DOMAIN table[p], i < cursor'[p]
        PROVE  Terminated(table[p][i].pid)'
    <3>1. PICK v \in Pids : v = table[p][i].pid
      BY EntryPids
    <3>2. Terminated(v)'
      <4>1. CASE i < cursor[p]
        <5>1. Terminated(v)
          BY <2>1, <3>1, <4>1 DEF Covered
        <5> QED  BY <5>1, TerminatedStable
      <4>2. CASE i = cursor[p]
        <5>1. v = Victim(p)
          BY <3>1, <4>2 DEF Victim
        <5> QED  BY <2>1, <5>1, SignalTerminates
      <4> QED  BY <2>1, <2>2, <4>1, <4>2, EntryPids
    <3> QED  BY <2>1, <3>1, <3>2
  <2>3. cursor'[p] # 0
    BY <2>1, EntryPids
  <2> QED  BY <2>1, <2>2, <2>3
<1> QED
  BY <1>1, <1>2, <1>3, <1>4, <1>5, LoopMoves DEF Looping, LoopSteps

\* No kill loop runs at the start.
LEMMA CoveredInit == Init => Covered
<1> SUFFICES ASSUME Init
             PROVE  Covered
  OBVIOUS
<1>1. \A p \in Pids : pc[p] \notin {"kill all", "sweep"}
  BY DEF Init
<1> QED  BY <1>1 DEF Covered

-----------------------------------------------------------------------------
(* The theorems about a session in which no pid is reused.                 *)

\* What is kept of the tables and the kill loops besides IInv.
OnceInv == IInv /\ (~PidReuse => Ledger /\ Covered)

\* Every step keeps the invariant with the ledger.
LEMMA OnceInvStep == OnceInv /\ [Next]_vars => OnceInv'
<1> SUFFICES ASSUME OnceInv, [Next]_vars
             PROVE  OnceInv'
  OBVIOUS
<1>1. IInv'
  BY IInvStep DEF OnceInv
<1>2. ~PidReuse => Ledger' /\ Covered'
  BY LedgerStep, CoveredStep DEF OnceInv, IInv, Ledger
<1> QED  BY <1>1, <1>2 DEF OnceInv

\* Unless pids are reused, ledger and kill loops are right in every state of
\* the subserver (server.c:316-500 and 680-760).
THEOREM OnceInvariance == Spec => []OnceInv
<1>1. Init => OnceInv
  BY IInvInit, LedgerInit, CoveredInit DEF OnceInv
<1> QED  BY <1>1, OnceInvStep, PTL DEF Spec

\* Without reuse of pids the table of a handler tells the truth about each
\* program it started: run() (server.c:771) and grimreaper() (server.c:559)
\* between them record every start and every end, in whatever order execlp(),
\* exits and SIGCHLD come.
THEOREM TablesAreAccurate == Spec => []TableAccurate
<1>1. OnceInv => TableAccurate
  BY DEF OnceInv, Ledger, OwnTrue, Truth, TableAccurate
<1> QED  BY <1>1, OnceInvariance, PTL

\* Without reuse of pids `kill all' (server.c:676) has terminated every program
\* of the name when it answers, however grimreaper() interrupted it.
THEOREM KillAllIsComplete == Spec => KillAllCovers
<1>1. ASSUME OnceInv, [Next]_vars, ~PidReuse, NEW h \in Pids,
             pc[h] = "kill all" /\ pc'[h] = "answer",
             NEW i \in DOMAIN table[h],
             table[h][i].processname = table[h][cursor[h]].processname
      PROVE  Terminated(table[h][i].pid)'
  <2>1. TypeOK /\ Phases /\ Started /\ Covered
    BY <1>1 DEF OnceInv, IInv, Ledger
  <2>2. LoopAlone(h) \/ LoopSteps(h)
    BY <1>1, <2>1, LoopMoves DEF Looping
  <2>3. KillAllStep(h)
    BY <1>1, <2>2 DEF LoopAlone, LoopSteps, KillAllName, ReadEnds, SweepStep,
                      Command, At
  <2> QED  BY <1>1, <2>1, <2>3, KillAllRound
<1>2. OnceInv /\ [Next]_vars =>
        [~PidReuse =>
           \A h \in Pids : pc[h] = "kill all" /\ pc'[h] = "answer" =>
               \A i \in DOMAIN table[h] :
                   table[h][i].processname = table[h][cursor[h]].processname
                       => Terminated(table[h][i].pid)']_vars
  BY <1>1
<1> QED  BY <1>2, OnceInvariance, PTL DEF Spec, KillAllCovers

\* Without reuse of pids a killall() (server.c:688) that gets to the end of its
\* list has terminated everything in it.
THEOREM SweepIsClean == Spec => SweptClean
<1>1. ASSUME OnceInv, [Next]_vars, ~PidReuse, NEW h \in Pids, SweepEnds(h),
             NEW i \in DOMAIN table[h]
      PROVE  Terminated(table[h][i].pid)'
  <2>1. TypeOK /\ Phases /\ Covered
    BY <1>1 DEF OnceInv, IInv
  <2>2. /\ pc[h] = "sweep"
        /\ cursor[h] \notin DOMAIN table[h]
        /\ table' = table
    BY <1>1 DEF SweepEnds, At, Exit
  <2>3. cursor[h] # 0 /\ cursor[h] \in Nat
    BY <2>1, <2>2, EntryPids DEF Covered
  <2>4. i < cursor[h]
    <3>1. table[h] \in Seq(Entry(Pids, Names))
      BY <2>1, EntryPids
    <3> QED  BY <2>2, <2>3, <3>1
  <2>5. PICK v \in Pids : v = table[h][i].pid
    BY <2>1, EntryPids
  <2>6. Terminated(v)
    BY <2>1, <2>2, <2>4, <2>5 DEF Covered
  <2>7. Terminated(v)'
    BY <1>1, <2>1, <2>6, TerminatedStable
  <2> QED  BY <2>2, <2>5, <2>7
<1>2. OnceInv /\ [Next]_vars =>
        [~PidReuse =>
           \A h \in Pids : SweepEnds(h) =>
               \A i \in DOMAIN table[h] : Terminated(table[h][i].pid)']_vars
  BY <1>1
<1> QED  BY <1>2, OnceInvariance, PTL DEF Spec, SweptClean
=============================================================================
