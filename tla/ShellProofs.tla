----------------------------- MODULE ShellProofs -----------------------------
(***************************************************************************)
(* Theorems about Shell for any number of processes, any number of lines   *)
(* and any number of words.                                                *)
(***************************************************************************)
EXTENDS Shell, ProcessTableProofs, FiniteSetTheorems

-----------------------------------------------------------------------------
(* The inductive invariant.                                                *)

\* The types, and what TypeOK leaves open of them.
TypeInv ==
    /\ TypeOK
    /\ cursor \in [Pids -> SUBSET Nat]
    /\ lines \in Seq(Commands)

\* Only a parser has a program counter and is interrupted; the locals of run()
\* are valid where they are used, and an answer has something left to write.
Phases ==
    \A p \in Pids :
        /\ state[p] # "parser" => pc[p] = "none" /\ ~reaping[p]
        /\ pc[p] = "wait" => child[p] \in Pids
        /\ pc[p] = "answer" => pieces[p] > 0
        /\ pc[p] \notin {"answer", "list"} => pieces[p] = 0

\* The parser that was started is nobody's child, the window its only; all
\* other parsers are copies, and whoever has a parent has a live one.
Family ==
    /\ parent[Root] = Outside
    /\ state[Root] \in {"parser", "zombie", "gone"}
    /\ parent[Window] \in {Root, Outside}
    /\ state[Window] \in {"window", "zombie", "gone"}
    /\ \A p \in Pids :
          /\ parent[p] # Outside => state[parent[p]] = "parser"
          /\ state[p] = "parser" => p = Root \/ p \in copies
    /\ \A p \in copies : state[p] \in {"parser", "zombie", "gone"}

\* A table has only pids that were started.
Started ==
    \A h, c \in Pids : c \in Jobs(table[h]) => state[c] # "free"

\* The pid a parser waits for in run() is that of its child, and not recorded
\* yet.
InFlight ==
    \A h \in Pids :
        pc[h] = "wait" =>
            /\ parent[child[h]] = h
            /\ state[child[h]] \in {"child", "parser", "program", "zombie"}
            /\ child[h] \notin Jobs(table[h])

\* A process that reads lines, answers, or is about to; and one that cannot
\* before another has stopped to.
Serves(p) == state[p] \in {"child", "parser"}
Held(h) == pc[h] = "wait" /\ Serves(child[h])

\* Of any two such processes one is held: OneActiveParser is not inductive, as
\* a wait ends with the process that is waited for.
Chained ==
    \A h1, h2 \in {p \in Pids : Serves(p)} : h1 # h2 => Held(h1) \/ Held(h2)

\* When the client waits and both pipes are empty, no parser is at the prompt
\* with a line executed, or past the header of a list.
Waiting == client = "wait" /\ ~unread /\ lines = <<>>

Fine(h) ==
    /\ pc[h] = "read" => buffer[h] = "blank"
    /\ pc[h] = "list" => pieces[h] = 0

Hang == Waiting => \A h \in Pids : Fine(h)

\* Process p has yet to answer a line that was read.
Owes(p) ==
    \/ state[p] = "child"
    \/ pc[p] \in {"answer", "kill", "kill all"}
    \/ pc[p] = "list" /\ pieces[p] = 0
    \/ pc[p] = "wait" /\ ~Serves(child[p])

Owing == \E p \in Pids : Owes(p)

\* The condition of InStep, for as long as the client is there.
Orderly ==
    /\ client # "gone"
    /\ ~many
    /\ \A p \in copies : state[p] = "parser"
    /\ \E p \in Pids : Serves(p)

\* One thing at most is under way for the client: a line in mainpipe, an answer
\* owed for it, or one in secondpipe; and nothing at its prompt.
OneUnderWay ==
    /\ client \in {"prompt", "idle"} => lines = <<>> /\ ~unread /\ ~Owing
    /\ lines # <<>> => ~unread /\ ~Owing
    /\ unread => ~Owing

Turns == Orderly => OneUnderWay

IInv ==
    /\ TypeInv
    /\ Phases
    /\ Family
    /\ Started
    /\ InFlight
    /\ ReaperKnows
    /\ Chained
    /\ Hang
    /\ Turns

-----------------------------------------------------------------------------
(* Lemmas about the operators of Shell.                                    *)

\* Of sequences.
LEMMA EmptySequence ==
    ASSUME NEW T
    PROVE  <<>> \in Seq(T)
OBVIOUS

\* The positions of a sequence, and what is at them.
LEMMA SequenceDomain ==
    ASSUME NEW T, NEW s \in Seq(T)
    PROVE  /\ DOMAIN s = 1 .. Len(s) /\ Len(s) \in Nat
           /\ DOMAIN s \subseteq Nat
           /\ \A i \in 1 .. Len(s) : s[i] \in T
OBVIOUS

\* The first of some positions is one of them.
LEMMA FirstIsLeast ==
    ASSUME NEW S \in SUBSET Nat, S # {}
    PROVE  First(S) \in S
BY LeastElement DEF First

\* Taking its first entry from a set of positions leaves nothing exactly if
\* it was the only one.
LEMMA LastVictim ==
    ASSUME NEW n \in Nat, NEW S \in SUBSET (1 .. n), S # {}
    PROVE  Cardinality(S) = 1 <=> S \ {First(S)} = {}
<1>1. S \in SUBSET Nat
  OBVIOUS
<1>2. First(S) \in S
  BY <1>1, FirstIsLeast
<1>3. IsFiniteSet(S)
  <2>1. IsFiniteSet(1 .. n)
    BY FS_Interval
  <2> QED  BY <2>1, FS_Subset
<1>4. Cardinality(S) = 1 <=> \E x : S = {x}
  BY <1>3, FS_Singleton
<1> QED  BY <1>2, <1>4

\* Every parser's table is one, and the entries of a kill loop are in it.
LEMMA Tables ==
    ASSUME TypeInv, NEW h \in Pids
    PROVE  /\ table[h] \in Seq(Entry(Pids, {"name"}))
           /\ Len(table[h]) \in Nat
           /\ cursor[h] \in SUBSET (1 .. Len(table[h]))
           /\ cursor[h] # {} <=> pc[h] \in {"kill", "kill all"}
<1>1. table[h] \in Seq(Entry(Pids, {"name"}))
  BY DEF TypeInv, TypeOK
<1>2. DOMAIN table[h] = 1 .. Len(table[h]) /\ Len(table[h]) \in Nat
  BY <1>1, SequenceDomain
<1> QED  BY <1>1, <1>2 DEF TypeInv, TypeOK

\* The entry that a kill loop is at is that of a pid.
LEMMA VictimTypeOK ==
    ASSUME TypeInv, NEW h \in Pids, pc[h] \in {"kill", "kill all"}
    PROVE  Victim(h) \in Pids
<1>1. cursor[h] \in SUBSET (1 .. Len(table[h])) /\ cursor[h] # {}
  BY Tables
<1>2. First(cursor[h]) \in 1 .. Len(table[h])
  <2>1. cursor[h] \in SUBSET Nat
    BY DEF TypeInv
  <2> QED  BY <1>1, <2>1, FirstIsLeast
<1>3. table[h][First(cursor[h])] \in Entry(Pids, {"name"})
  <2> HIDE DEF First
  <2> QED  BY <1>2, Tables, SequenceDomain
<1> QED  BY <1>3 DEF Victim, Entry

-----------------------------------------------------------------------------
(* Types and phases.                                                       *)

\* What a step leaves in the variables that Exit and Moves do not set.
RestTypeOK ==
    /\ sigterm' \in SUBSET Pids
    /\ client' \in {"prompt", "wait", "idle", "gone"}
    /\ lines' \in Seq(Commands)
    /\ unread' \in BOOLEAN
    /\ typed' \in 0 .. MaxLines
    /\ many' \in BOOLEAN

\* The end of a process keeps types and phases.
LEMMA ExitTypeOK ==
    ASSUME TypeInv, Phases, NEW p \in Pids, Exit(p), RestTypeOK
    PROVE  TypeInv' /\ Phases'
<1> USE ShellAssumption
<1>1. /\ state' \in [Pids -> States]
      /\ parent' \in [Pids -> Pids \cup {Outside}]
      /\ sigchld' \in [Pids -> BOOLEAN]
      /\ reaping' \in [Pids -> BOOLEAN]
  BY DEF TypeInv, TypeOK, Exit, States
<1>2. /\ pc' \in [Pids -> Labels]
      /\ child' \in [Pids -> Pids \cup {Outside}]
      /\ buffer' \in [Pids -> Commands \cup {"none"}]
      /\ pieces' \in [Pids -> Nat]
      /\ cursor' \in [Pids -> SUBSET Nat]
      /\ table' \in [Pids -> Seq(Entry(Pids, {"name"}))]
      /\ copies' \in SUBSET Pids
  <2>1. <<>> \in Seq(Entry(Pids, {"name"})) /\ {} \in SUBSET Nat
    OBVIOUS
  <2> QED  BY <2>1 DEF TypeInv, TypeOK, Exit, Labels
<1>3. /\ ~reaping'[p] /\ pc'[p] = "none" /\ cursor'[p] = {} /\ pieces'[p] = 0
      /\ state'[p] # "parser"
  BY DEF TypeInv, TypeOK, Exit
<1>4. ASSUME NEW q \in Pids, q # p
      PROVE  /\ reaping'[q] = reaping[q] /\ pc'[q] = pc[q] /\ cursor'[q] = cursor[q]
             /\ pieces'[q] = pieces[q] /\ table'[q] = table[q] /\ child'[q] = child[q]
             /\ state'[q] # "parser" => state[q] # "parser"
  BY <1>4 DEF TypeInv, TypeOK, Exit, Zombies
<1>5. ASSUME NEW q \in Pids
      PROVE  /\ cursor'[q] \subseteq DOMAIN table'[q]
             /\ cursor'[q] # {} <=> pc'[q] \in {"kill", "kill all"}
  BY <1>3, <1>4 DEF TypeInv, TypeOK
<1>6. Phases'
  BY <1>3, <1>4 DEF Phases
<1>7. \A i \in DOMAIN lines' : lines'[i] \in Commands
  BY SequenceDomain DEF RestTypeOK
<1> QED  BY <1>1, <1>2, <1>5, <1>6, <1>7 DEF TypeInv, TypeOK, RestTypeOK

\* A step of the main program of h, to label l with n pieces and cursor C.
Moves(h, l, n, C) ==
    /\ UNCHANGED <<state, parent, sigchld, reaping, table, child, copies>>
    /\ pc' = [pc EXCEPT ![h] = l]
    /\ pieces' = [pieces EXCEPT ![h] = n]
    /\ cursor' = [cursor EXCEPT ![h] = C]
    /\ buffer' \in [Pids -> Commands \cup {"none"}]

\* Such a step keeps types and phases.
LEMMA MovesTypeOK ==
    ASSUME TypeInv, Phases, NEW h \in Pids, state[h] = "parser",
           NEW l \in Labels, NEW n \in Nat, NEW C \in SUBSET DOMAIN table[h],
           Moves(h, l, n, C), RestTypeOK,
           C # {} <=> l \in {"kill", "kill all"},
           l # "wait", l = "answer" => n > 0, l \notin {"answer", "list"} => n = 0
    PROVE  TypeInv' /\ Phases'
<1>1. C \in SUBSET Nat
  <2>1. DOMAIN table[h] \subseteq Nat
    BY Tables, SequenceDomain
  <2> QED  BY <2>1
<1>2. /\ pc' \in [Pids -> Labels]
      /\ pieces' \in [Pids -> Nat]
      /\ cursor' \in [Pids -> SUBSET Nat]
  BY <1>1 DEF TypeInv, TypeOK, Moves
<1>3. \A q \in Pids : /\ pc'[q] = IF q = h THEN l ELSE pc[q]
                      /\ pieces'[q] = IF q = h THEN n ELSE pieces[q]
                      /\ cursor'[q] = IF q = h THEN C ELSE cursor[q]
  BY DEF TypeInv, TypeOK, Moves
<1>4. Phases'
  <2>1. UNCHANGED <<state, reaping, child>>
    BY DEF Moves
  <2> QED  BY <1>3, <2>1 DEF Phases
<1>5. \A q \in Pids : /\ cursor'[q] \subseteq DOMAIN table[q]
                      /\ cursor'[q] # {} <=> pc'[q] \in {"kill", "kill all"}
  BY <1>3 DEF TypeInv, TypeOK
<1>6. \A i \in DOMAIN lines' : lines'[i] \in Commands
  BY SequenceDomain DEF RestTypeOK
<1> QED  BY <1>2, <1>4, <1>5, <1>6 DEF TypeInv, TypeOK, Moves, RestTypeOK

\* A move that leaves the entries of the kill loop alone.
Passes(h) ==
    /\ UNCHANGED <<state, parent, sigchld, reaping, table, child, copies, cursor>>
    /\ buffer' \in [Pids -> Commands \cup {"none"}]
    /\ state[h] = "parser"
    /\ pc[h] \notin {"kill", "kill all"}
    /\ RestTypeOK

\* Such a step, with what it does to the program counter, is one of those.
LEMMA PassesMoves ==
    ASSUME TypeInv, NEW h \in Pids, Passes(h), NEW l, Goto(h, l),
           NEW n, pieces' = [pieces EXCEPT ![h] = n]
    PROVE  Moves(h, l, n, {})
<1>1. cursor[h] = {}
  BY Tables DEF Passes
<1>2. cursor' = [cursor EXCEPT ![h] = {}]
  BY <1>1 DEF TypeInv, Passes
<1> QED  BY <1>2 DEF Moves, Goto, Passes

\* It goes on to write n pieces ...
LEMMA ReplyTypeOK ==
    ASSUME TypeInv, Phases, NEW h \in Pids, Passes(h), NEW n \in Nat, n > 0, Reply(h, n)
    PROVE  TypeInv' /\ Phases'
<1>1. Moves(h, "answer", n, {})
  BY PassesMoves DEF Reply
<1>2. {} \in SUBSET DOMAIN table[h] /\ "answer" \in Labels
  BY DEF Labels
<1> QED  BY <1>1, <1>2, MovesTypeOK DEF Passes

\* ... to read, or to list from an entry.
LEMMA GotoTypeOK ==
    ASSUME TypeInv, Phases, NEW h \in Pids, Passes(h),
           NEW l \in {"read", "list"}, Goto(h, l),
           NEW n \in Nat, pieces' = [pieces EXCEPT ![h] = n], l = "read" => n = 0
    PROVE  TypeInv' /\ Phases'
<1>1. Moves(h, l, n, {})
  BY PassesMoves
<1>2. {} \in SUBSET DOMAIN table[h] /\ l \in Labels
  BY DEF Labels
<1> QED  BY <1>1, <1>2, MovesTypeOK DEF Passes

\* What a command leaves in those variables.
LEMMA ObeysTypeOK ==
    ASSUME TypeInv, NEW h \in Pids, NEW command \in Commands, Obeys(h, command),
           UNCHANGED sigterm
    PROVE  /\ RestTypeOK
           /\ buffer' \in [Pids -> Commands \cup {"none"}]
           /\ pc[h] = "read" /\ state[h] = "parser"
           /\ UNCHANGED <<state, parent, sigchld, reaping, copies>>
BY EmptySequence DEF TypeInv, TypeOK, Obeys, At, RestTypeOK

\* Ends keeps types and phases.
LEMMA EndsTypeOK ==
    ASSUME TypeInv, Phases, NEW p \in Pids, Ends(p)
    PROVE  TypeInv' /\ Phases'
<1>1. RestTypeOK
  BY DEF TypeInv, TypeOK, Ends, RestTypeOK, pipes
<1> QED  BY <1>1, ExitTypeOK DEF Ends

\* fork() keeps types and phases, of the child too.
LEMMA ForksTypeOK ==
    ASSUME TypeInv, Phases, NEW h \in Pids, NEW c \in Pids, NEW command \in Commands,
           At(h, "read"), Forks(h, c, command),
           lines' \in Seq(Commands), UNCHANGED <<client, unread, typed, copies, many>>
    PROVE  TypeInv' /\ Phases'
<1>1. /\ state' \in [Pids -> States]
      /\ parent' \in [Pids -> Pids \cup {Outside}]
      /\ table' \in [Pids -> Seq(Entry(Pids, {"name"}))]
      /\ buffer' \in [Pids -> Commands \cup {"none"}]
      /\ child' \in [Pids -> Pids \cup {Outside}]
      /\ pc' \in [Pids -> Labels]
  BY DEF TypeInv, TypeOK, Forks, Goto, States, Labels
<1>2. \A q \in Pids : /\ pc'[q] = IF q = h THEN "wait" ELSE pc[q]
                      /\ child'[q] = IF q = h THEN c ELSE child[q]
                      /\ state'[q] = IF q = c THEN "child" ELSE state[q]
                      /\ table'[q] = IF q = c THEN table[h] ELSE table[q]
  BY DEF TypeInv, TypeOK, Forks, Goto
<1>3. /\ state[h] = "parser" /\ pc[h] = "read" /\ pieces[h] = 0 /\ cursor[h] = {}
      /\ state[c] = "free" /\ pc[c] = "none" /\ cursor[c] = {}
  BY Tables DEF Forks, At, Phases
<1>4. Phases'
  BY <1>2, <1>3 DEF Phases, Forks
<1>5. ASSUME NEW q \in Pids
      PROVE  /\ cursor[q] \subseteq DOMAIN table'[q]
             /\ cursor[q] # {} <=> pc'[q] \in {"kill", "kill all"}
  BY <1>2, <1>3 DEF TypeInv, TypeOK
<1>6. \A i \in DOMAIN lines' : lines'[i] \in Commands
  BY SequenceDomain
<1> QED  BY <1>1, <1>4, <1>5, <1>6 DEF TypeInv, TypeOK, Forks

\* insertendtime() keeps the type of a table and its length.
LEMMA MarkedTypeOK ==
    ASSUME NEW Names, NEW t \in Seq(Entry(Pids, Names)), NEW c, SearchPid(t, c) # NULL
    PROVE  Marked(t, c) \in Seq(Entry(Pids, Names)) /\ DOMAIN Marked(t, c) = DOMAIN t
BY InsertEndTimeEntries DEF Marked

\* Of a step of a parser's main program.
LEMMA TurnTypeOK ==
    ASSUME TypeInv, Phases, NEW h \in Pids, Turn(h)
    PROVE  TypeInv' /\ Phases'
<1> USE ShellAssumption
<1>0. 1 \in Nat /\ 1 > 0 /\ <<>> \in Seq(Commands)
  BY EmptySequence
<1>1. CASE ExitCommand(h)
  <2>1. RestTypeOK
    <3>1. sigterm' \in SUBSET Pids
      <4>1. sigterm \in SUBSET Pids
        BY DEF TypeInv, TypeOK
      <4>2. sigterm' = sigterm \/ sigterm' = sigterm \cup {Window}
        BY <1>1 DEF ExitCommand, Signal
      <4> QED  BY <4>1, <4>2
    <3>2. UNCHANGED <<client, unread, typed, many>> /\ lines' = <<>>
      BY <1>1 DEF ExitCommand
    <3>3. /\ client \in {"prompt", "wait", "idle", "gone"} /\ unread \in BOOLEAN
          /\ typed \in 0 .. MaxLines /\ many \in BOOLEAN
      BY DEF TypeInv, TypeOK
    <3> QED  BY <1>0, <3>1, <3>2, <3>3 DEF RestTypeOK
  <2> QED  BY <1>1, <2>1, ExitTypeOK DEF ExitCommand
<1>2. CASE OtherCommand(h)
  <2>1. Passes(h) /\ pc[h] = "read"
    <3>1. PICK command \in Commands : Obeys(h, command) /\ UNCHANGED sigterm
      BY <1>2 DEF OtherCommand, Other, OneWrite, Commands
    <3>2. UNCHANGED <<table, child, cursor>>
      BY <1>2 DEF OtherCommand
    <3> QED  BY <3>1, <3>2, ObeysTypeOK DEF Passes
  <2>2. CASE OneWrite(h)
    BY <1>0, <2>1, <2>2, ReplyTypeOK DEF OneWrite
  <2>3. ASSUME NEW n \in 0 .. MaxWords, Reply(h, n + 1)
        PROVE  TypeInv' /\ Phases'
    <3>2. n + 1 \in Nat /\ n + 1 > 0
      OBVIOUS
    <3> QED  BY <2>1, <2>3, <3>2, ReplyTypeOK
  <2>4. CASE UNCHANGED <<pc, pieces>>
    <3>1. Goto(h, "read") /\ pieces' = [pieces EXCEPT ![h] = 0]
      BY <2>1, <2>4 DEF TypeInv, TypeOK, Phases, Goto
    <3> QED  BY <2>1, <3>1, GotoTypeOK
  <2> QED  BY <1>2, <2>2, <2>3, <2>4 DEF OtherCommand, Other
<1>3. CASE ListAll(h)
  <2>1. Passes(h)
    BY <1>3, ObeysTypeOK DEF ListAll, Passes, Commands
  <2>2. Len(table[h]) \in Nat
    BY Tables
  <2>3. 1 + Len(table[h]) \in Nat /\ 1 + Len(table[h]) > 0
    <3> DEFINE n == Len(table[h])
    <3> HIDE DEF n
    <3>1. n \in Nat => 1 + n \in Nat /\ 1 + n > 0
      OBVIOUS
    <3> QED  BY <2>2, <3>1 DEF n
  <2> QED  BY <1>3, <2>1, <2>3, ReplyTypeOK DEF ListAll
<1>4. CASE List(h)
  <2>1. Passes(h) /\ pc[h] = "read"
    BY <1>4, ObeysTypeOK DEF List, Passes, Commands
  <2>2. Goto(h, "list") /\ pieces' = [pieces EXCEPT ![h] = 0]
    BY <1>4, <2>1 DEF List, TypeInv, TypeOK, Phases
  <2> QED  BY <2>1, <2>2, GotoTypeOK
<1>5. CASE RunFails(h) \/ KillCrashes(h)
  <2>1. RestTypeOK
    BY <1>0, <1>5 DEF TypeInv, TypeOK, RunFails, KillCrashes, RestTypeOK
  <2> QED  BY <1>5, <2>1, ExitTypeOK DEF RunFails, KillCrashes
<1>6. ASSUME NEW c \in Pids, NEW command \in Commands, RunForks(h, c, command)
      PROVE  TypeInv' /\ Phases'
  BY <1>0, <1>6, ForksTypeOK DEF RunForks
<1>7. ASSUME NEW command \in {"kill", "kill all"}, NEW C \in SUBSET DOMAIN table[h],
             Obeys(h, command), UNCHANGED <<sigterm, table, child>>,
             \/ C # {} /\ Goto(h, command) /\ cursor' = [cursor EXCEPT ![h] = C]
                  /\ UNCHANGED pieces
             \/ Reply(h, 1) /\ UNCHANGED cursor
      PROVE  TypeInv' /\ Phases'
  <2>0. command \in Commands /\ command \in Labels
    BY DEF Commands, Labels
  <2>1. /\ UNCHANGED <<state, parent, sigchld, reaping, table, child, copies>>
        /\ state[h] = "parser" /\ pc[h] = "read"
        /\ RestTypeOK /\ buffer' \in [Pids -> Commands \cup {"none"}]
    BY <1>7, <2>0, ObeysTypeOK
  <2>2. CASE Reply(h, 1) /\ UNCHANGED cursor
    <3>1. Passes(h)
      BY <2>1, <2>2 DEF Passes
    <3> QED  BY <1>0, <2>2, <3>1, ReplyTypeOK
  <2>3. CASE C # {} /\ Goto(h, command) /\ cursor' = [cursor EXCEPT ![h] = C]
               /\ UNCHANGED pieces
    <3>1. pieces' = [pieces EXCEPT ![h] = 0]
      BY <2>1, <2>3 DEF TypeInv, TypeOK, Phases
    <3>2. Moves(h, command, 0, C)
      BY <2>1, <2>3, <3>1 DEF Moves, Goto
    <3>3. command # "wait" /\ command # "answer" /\ command \in {"kill", "kill all"}
      OBVIOUS
    <3> QED  BY <2>0, <2>1, <2>3, <3>2, <3>3, MovesTypeOK
  <2> QED  BY <1>7, <2>2, <2>3
<1>8. ASSUME NEW p \in Pids, KillPid(h, p)
      PROVE  TypeInv' /\ Phases'
  <2> DEFINE i == Position(table[h], p)
  <2>1. i # NULL => i \in DOMAIN table[h]
    BY Tables, SearchPidResult DEF Position, IsNewest
  <2>2. /\ Obeys(h, "kill") /\ UNCHANGED <<sigterm, table, child>>
        /\ \/ i # NULL /\ Goto(h, "kill") /\ cursor' = [cursor EXCEPT ![h] = {i}]
                /\ UNCHANGED pieces
           \/ Reply(h, 1) /\ UNCHANGED cursor
    BY <1>8 DEF KillPid
  <2> HIDE DEF i
  <2>3. CASE Reply(h, 1) /\ UNCHANGED cursor
    BY <1>7, <2>2, <2>3
  <2>4. CASE i # NULL /\ Goto(h, "kill") /\ cursor' = [cursor EXCEPT ![h] = {i}]
               /\ UNCHANGED pieces
    <3>1. {i} \in SUBSET DOMAIN table[h] /\ {i} # {}
      BY <2>1, <2>4
    <3> QED  BY <1>7, <2>2, <2>4, <3>1
  <2> QED  BY <2>2, <2>3, <2>4
<1>9. ASSUME NEW same \in Namesakes(table[h]), KillName(h, same) \/ KillAll(h, same)
      PROVE  TypeInv' /\ Phases'
  <2>1. same \in SUBSET DOMAIN table[h]
    BY DEF Namesakes
  <2>2. ASSUME same # {}
        PROVE  {First(same)} \in SUBSET DOMAIN table[h] /\ {First(same)} # {}
    <3>1. same \in SUBSET Nat
      <4>1. DOMAIN table[h] \subseteq Nat
        BY Tables, SequenceDomain
      <4> QED  BY <2>1, <4>1
    <3> QED  BY <2>1, <2>2, <3>1, FirstIsLeast
  <2>3. CASE KillName(h, same)
    <3>1. /\ Obeys(h, "kill") /\ UNCHANGED <<sigterm, table, child>> /\ same # {}
          /\ \/ /\ Goto(h, "kill") /\ cursor' = [cursor EXCEPT ![h] = {First(same)}]
                /\ UNCHANGED pieces
             \/ Reply(h, 1) /\ UNCHANGED cursor
      BY <2>3 DEF KillName
    <3> QED  BY <1>7, <2>2, <3>1
  <2>4. CASE KillAll(h, same)
    <3>1. /\ Obeys(h, "kill all") /\ UNCHANGED <<sigterm, table, child>>
          /\ \/ /\ same # {} /\ Goto(h, "kill all")
                /\ cursor' = [cursor EXCEPT ![h] = same] /\ UNCHANGED pieces
             \/ Reply(h, 1) /\ UNCHANGED cursor
      BY <2>4 DEF KillAll
    <3> QED  BY <1>7, <2>1, <3>1
  <2> QED  BY <1>9, <2>3, <2>4
<1>10. CASE KillSends(h)
  <2> DEFINE C == cursor[h] \ {First(cursor[h])}
  <2>1. pc[h] \in {"kill", "kill all"} /\ state[h] = "parser"
    BY <1>10 DEF KillSends, At
  <2>2. /\ cursor[h] \in SUBSET (1 .. Len(table[h])) /\ cursor[h] # {}
        /\ Len(table[h]) \in Nat /\ C \in SUBSET DOMAIN table[h]
    <3>1. DOMAIN table[h] = 1 .. Len(table[h])
      BY Tables, SequenceDomain
    <3> QED  BY <2>1, <3>1, Tables
  <2>3. Cardinality(cursor[h]) = 1 <=> C = {}
    BY <2>2, LastVictim
  <2>4. RestTypeOK
    <3>1. Victim(h) \in Pids
      BY <2>1, VictimTypeOK
    <3> QED  BY <1>10, <3>1 DEF TypeInv, TypeOK, KillSends, Signal, RestTypeOK, pipes
  <2>5. /\ UNCHANGED <<state, parent, sigchld, reaping, table, buffer, child, copies>>
        /\ cursor' = [cursor EXCEPT ![h] = C]
    BY <1>10 DEF KillSends
  <2>6. buffer' \in [Pids -> Commands \cup {"none"}]
    BY <2>5 DEF TypeInv, TypeOK
  <2>7. CASE Cardinality(cursor[h]) = 1
    <3>1. pc' = [pc EXCEPT ![h] = "answer"] /\ pieces' = [pieces EXCEPT ![h] = 1]
      BY <1>10, <2>7 DEF KillSends, Reply, Goto
    <3> HIDE DEF C
    <3>2. Moves(h, "answer", 1, C)
      BY <2>5, <2>6, <3>1 DEF Moves
    <3>3. "answer" \in Labels /\ "answer" \notin {"kill", "kill all"} /\ C = {}
      BY <2>3, <2>7 DEF Labels
    <3> QED  BY <1>0, <2>1, <2>2, <2>4, <3>2, <3>3, MovesTypeOK
  <2>8. CASE Cardinality(cursor[h]) # 1
    <3>1. pc' = [pc EXCEPT ![h] = pc[h]] /\ pieces' = [pieces EXCEPT ![h] = 0]
      BY <1>10, <2>1, <2>8 DEF KillSends, TypeInv, TypeOK, Phases
    <3> HIDE DEF C
    <3>2. Moves(h, pc[h], 0, C)
      BY <2>5, <2>6, <3>1 DEF Moves
    <3>3. pc[h] \in Labels /\ C # {}
      BY <2>1, <2>3, <2>8 DEF Labels
    <3> QED  BY <2>1, <2>2, <2>4, <3>2, <3>3, MovesTypeOK
  <2> QED  BY <2>7, <2>8
<1>11. CASE KillErrors(h) \/ BrokenPipe(h) \/ NoWord(h) \/ RunsAgainFails(h)
  BY <1>11, EndsTypeOK DEF KillErrors, BrokenPipe, NoWord, RunsAgainFails
<1>12. CASE Answer(h) \/ ListStep(h)
  <2>1. Passes(h)
    <3>1. RestTypeOK
      BY <1>12 DEF TypeInv, TypeOK, Answer, ListStep, Write, RestTypeOK, kernel
    <3> QED
      BY <1>12, <3>1 DEF TypeInv, TypeOK, Answer, ListStep, At, Passes, kernel
  <2>3. CASE Answer(h)
    <3>1. /\ pieces[h] \in Nat /\ pieces[h] > 0 /\ pc[h] = "answer"
          /\ pieces' = [pieces EXCEPT ![h] = pieces[h] - 1]
      BY <2>3 DEF TypeInv, TypeOK, Phases, Answer, At
    <3>2. CASE pieces[h] = 1
      <4>1. pieces' = [pieces EXCEPT ![h] = 0] /\ Goto(h, "read")
        BY <2>3, <3>1, <3>2 DEF Answer
      <4> QED  BY <2>1, <4>1, GotoTypeOK
    <3>3. CASE pieces[h] # 1
      <4>1. Reply(h, pieces[h] - 1)
        <5>1. UNCHANGED pc
          BY <2>3, <3>3 DEF Answer
        <5>2. Goto(h, "answer")
          BY <3>1, <5>1 DEF Goto, TypeInv, TypeOK
        <5> QED  BY <3>1, <5>2 DEF Reply
      <4>2. pieces[h] - 1 \in Nat /\ pieces[h] - 1 > 0
        BY <3>1, <3>3
      <4> QED  BY <2>1, <4>1, <4>2, ReplyTypeOK
    <3> QED  BY <3>2, <3>3
  <2>4. CASE ListStep(h)
    <3>1. CASE Listing(h)
      <4>1. /\ pieces' = [pieces EXCEPT ![h] = pieces[h] + 1] /\ UNCHANGED pc
            /\ pc[h] = "list"
        BY <2>4, <3>1 DEF ListStep, At
      <4>2. pieces[h] \in Nat /\ Goto(h, "list")
        BY <4>1 DEF Goto, TypeInv, TypeOK
      <4>3. pieces[h] + 1 \in Nat
        BY <4>2
      <4> QED  BY <2>1, <4>1, <4>2, <4>3, GotoTypeOK
    <3>2. CASE ~Listing(h)
      <4>1. pieces' = [pieces EXCEPT ![h] = 0] /\ Goto(h, "read")
        BY <2>4, <3>2 DEF ListStep
      <4> QED  BY <2>1, <4>1, GotoTypeOK
    <3> QED  BY <3>1, <3>2
  <2> QED  BY <1>12, <2>3, <2>4
<1>13. CASE RunReturns(h)
  <2>1. /\ state[h] = "parser" /\ pc[h] = "wait" /\ child[h] \in Pids
        /\ table[h] \in Seq(Entry(Pids, {"name"})) /\ cursor[h] = {}
    BY <1>13, Tables DEF RunReturns, At, Phases
  <2>2. Recorded(table[h], child[h]) \in Seq(Entry(Pids, {"name"}))
    BY <2>1, InsertFirstEntries DEF Recorded
  <2>3. /\ table' \in [Pids -> Seq(Entry(Pids, {"name"}))]
        /\ child' \in [Pids -> Pids \cup {Outside}]
        /\ pc' \in [Pids -> Labels] /\ pieces' \in [Pids -> Nat]
    BY <1>13, <2>2 DEF RunReturns, Reply, Goto, TypeInv, TypeOK, Labels
  <2>4. \A q \in Pids : /\ pc'[q] = IF q = h THEN "answer" ELSE pc[q]
                        /\ pieces'[q] = IF q = h THEN 1 ELSE pieces[q]
                        /\ q # h => child'[q] = child[q] /\ table'[q] = table[q]
    BY <1>13 DEF RunReturns, Reply, Goto, TypeInv, TypeOK
  <2>5. Phases'
    <3>1. UNCHANGED <<state, reaping>> /\ 1 > 0
      BY <1>13 DEF RunReturns, kernel
    <3> QED  BY <2>1, <2>4, <3>1 DEF Phases
  <2>6. ASSUME NEW q \in Pids
        PROVE  /\ cursor[q] \subseteq DOMAIN table'[q]
               /\ cursor[q] # {} <=> pc'[q] \in {"kill", "kill all"}
    BY <2>1, <2>4 DEF TypeInv, TypeOK
  <2> QED
    BY <1>13, <2>3, <2>5, <2>6 DEF RunReturns, TypeInv, TypeOK, kernel, pipes
<1>14. CASE AnswersAgain(h)
  <2>1. Passes(h)
    <3>1. RestTypeOK
      BY <1>14 DEF TypeInv, TypeOK, AnswersAgain, RestTypeOK, kernel, pipes
    <3> QED
      BY <1>14, <3>1 DEF TypeInv, TypeOK, AnswersAgain, EndOfFile, At, Passes, kernel
  <2> QED  BY <1>0, <1>14, <2>1, ReplyTypeOK DEF AnswersAgain
<1>15. ASSUME NEW c \in Pids, RunsAgain(h, c)
      PROVE  TypeInv' /\ Phases'
  <2>1. At(h, "read") /\ Forks(h, c, "bare run") /\ UNCHANGED <<pipes, copies>>
    BY <1>15 DEF RunsAgain, EndOfFile
  <2>2. lines' \in Seq(Commands) /\ "bare run" \in Commands
    BY <2>1 DEF TypeInv, pipes, Commands
  <2> QED  BY <2>1, <2>2, ForksTypeOK DEF pipes
<1> QED
  BY <1>1, <1>2, <1>3, <1>4, <1>5, <1>6, <1>8, <1>9, <1>10, <1>11, <1>12, <1>13,
     <1>14, <1>15 DEF Turn

\* Every step keeps types and phases.
LEMMA TypeStep ==
    ASSUME TypeInv, Phases, [Next]_vars
    PROVE  TypeInv' /\ Phases'
<1> USE ShellAssumption
<1>1. CASE UNCHANGED vars
  BY <1>1 DEF TypeInv, TypeOK, Phases, vars, kernel, memory, pipes
<1>2. ASSUME NEW p \in Pids, Turn(p)
      PROVE  TypeInv' /\ Phases'
  BY <1>2, TurnTypeOK
<1>3. ASSUME NEW h \in Pids, Interrupt(h)
      PROVE  TypeInv' /\ Phases'
  <2>1. CASE SigchldArrives(h) \/ ReapReturns(h)
    <3>1. UNCHANGED <<state, parent, sigterm, copies, memory, pipes>>
      BY <2>1 DEF SigchldArrives, ReapReturns
    <3>2. reaping' \in [Pids -> BOOLEAN] /\ sigchld' \in [Pids -> BOOLEAN]
      <4>1. CASE SigchldArrives(h)
        BY <4>1 DEF SigchldArrives, TypeInv, TypeOK
      <4>2. CASE ReapReturns(h)
        BY <4>2 DEF ReapReturns, TypeInv, TypeOK
      <4> QED  BY <2>1, <4>1, <4>2
    <3>3. state[h] = "parser"
      BY <2>1 DEF SigchldArrives, ReapReturns, Phases
    <3>4. \A q \in Pids : q # h => reaping'[q] = reaping[q]
      BY <2>1 DEF SigchldArrives, ReapReturns, TypeInv, TypeOK
    <3>5. UNCHANGED <<table, buffer, pc, child, cursor, pieces, client, lines, unread,
                      typed, many>>
      BY <3>1 DEF memory, pipes
    <3>6. Phases'
      BY <3>1, <3>3, <3>4, <3>5 DEF Phases
    <3>7. TypeInv'
      BY <3>1, <3>2, <3>5 DEF TypeInv, TypeOK
    <3> QED  BY <3>6, <3>7
  <2>2. ASSUME NEW c \in Pids, Reap(h, c)
        PROVE  TypeInv' /\ Phases'
    <3>1. /\ table[h] \in Seq(Entry(Pids, {"name"}))
          /\ SearchPid(table[h], c) # NULL
      BY <2>2, Tables DEF Reap, Position
    <3>2. /\ Marked(table[h], c) \in Seq(Entry(Pids, {"name"}))
          /\ DOMAIN Marked(table[h], c) = DOMAIN table[h]
      BY <3>1, MarkedTypeOK
    <3>3. /\ state' \in [Pids -> States]
          /\ parent' \in [Pids -> Pids \cup {Outside}]
          /\ table' \in [Pids -> Seq(Entry(Pids, {"name"}))]
          /\ \A q \in Pids : DOMAIN table'[q] = DOMAIN table[q]
      BY <2>2, <3>2 DEF Reap, TypeInv, TypeOK, States
    <3>4. /\ state'[c] # "parser" /\ state[c] # "parser"
          /\ \A q \in Pids : q # c => state'[q] = state[q]
      BY <2>2 DEF Reap, Zombies, TypeInv, TypeOK
    <3>5. Phases'
      BY <2>2, <3>4 DEF Reap, Phases
    <3> QED  BY <2>2, <3>3, <3>5 DEF Reap, TypeInv, TypeOK, pipes
  <2>3. ASSUME NEW c \in Pids, ReapCrashes(h, c)
        PROVE  TypeInv' /\ Phases'
    BY <2>3, EndsTypeOK DEF ReapCrashes
  <2> QED  BY <1>3, <2>1, <2>2, <2>3 DEF Interrupt
<1>4. ASSUME NEW c \in Pids, Exec(c)
      PROVE  TypeInv' /\ Phases'
  <2>1. CASE ExecSucceeds(c)
    <3>1. /\ state' \in [Pids -> States]
          /\ table' \in [Pids -> Seq(Entry(Pids, {"name"}))]
      BY <2>1, EmptySequence DEF ExecSucceeds, TypeInv, TypeOK, States
    <3>2. pc[c] = "none" /\ ~reaping[c] /\ cursor[c] = {}
      BY <2>1, Tables DEF ExecSucceeds, Phases
    <3>3. \A q \in Pids : q # c => state'[q] = state[q] /\ table'[q] = table[q]
      BY <2>1 DEF ExecSucceeds, TypeInv, TypeOK
    <3>4. Phases'
      BY <2>1, <3>2, <3>3 DEF ExecSucceeds, Phases
    <3>5. \A q \in Pids : cursor[q] \subseteq DOMAIN table'[q]
      BY <3>2, <3>3 DEF TypeInv, TypeOK
    <3> QED  BY <2>1, <3>1, <3>4, <3>5 DEF ExecSucceeds, TypeInv, TypeOK, pipes
  <2>2. CASE ExecFails(c)
    <3>1. /\ state' \in [Pids -> States] /\ copies' \in SUBSET Pids
          /\ pc' \in [Pids -> Labels] /\ pieces' \in [Pids -> Nat]
      BY <2>2 DEF ExecFails, Reply, Goto, TypeInv, TypeOK, States, Labels
    <3>2. pc[c] = "none" /\ cursor[c] = {}
      BY <2>2, Tables DEF ExecFails, Phases
    <3>3. \A q \in Pids : /\ state'[q] = IF q = c THEN "parser" ELSE state[q]
                          /\ pc'[q] = IF q = c THEN "answer" ELSE pc[q]
                          /\ pieces'[q] = IF q = c THEN 1 ELSE pieces[q]
      BY <2>2 DEF ExecFails, Reply, Goto, TypeInv, TypeOK
    <3>4. Phases'
      BY <2>2, <3>3 DEF ExecFails, Phases
    <3>5. \A q \in Pids : cursor[q] # {} <=> pc'[q] \in {"kill", "kill all"}
      BY <3>2, <3>3 DEF TypeInv, TypeOK
    <3> QED  BY <2>2, <3>1, <3>4, <3>5 DEF ExecFails, TypeInv, TypeOK, pipes
  <2>3. CASE NoArgument(c)
    BY <2>3, EndsTypeOK DEF NoArgument
  <2> QED  BY <1>4, <2>1, <2>2, <2>3 DEF Exec
<1>5. ASSUME NEW p \in Pids, ProgramEnds(p) \/ WindowEnds
      PROVE  TypeInv' /\ Phases'
  BY <1>5, EndsTypeOK DEF ProgramEnds, WindowEnds
<1>6. CASE TypesNothing \/ ClientReads \/ ClientEnds
  BY <1>6 DEF TypeInv, TypeOK, Phases, TypesNothing, ClientReads, ClientEnds, kernel,
              memory
<1>7. ASSUME NEW command \in Commands, Types(command)
      PROVE  TypeInv' /\ Phases'
  <2>1. /\ lines' \in Seq(Commands) /\ client' \in {"prompt", "wait", "idle", "gone"}
        /\ typed' \in 0 .. MaxLines
    <3>1. Append(lines, command) \in Seq(Commands)
      BY DEF TypeInv
    <3>2. typed' \in 0 .. MaxLines
      <4>1. typed \in 0 .. MaxLines /\ typed < MaxLines /\ typed' = typed + 1
        BY <1>7 DEF Types, TypeInv, TypeOK
      <4> QED  BY <4>1
    <3> QED  BY <1>7, <3>1, <3>2 DEF Types, TypeInv
  <2>2. \A i \in DOMAIN lines' : lines'[i] \in Commands
    BY <2>1, SequenceDomain
  <2> QED
    BY <1>7, <2>1, <2>2 DEF Types, TypeInv, TypeOK, Phases, kernel, memory
<1> QED
  BY <1>1, <1>2, <1>3, <1>4, <1>5, <1>6, <1>7 DEF Next, Spins, Stopped

-----------------------------------------------------------------------------
(* The kinds of steps.                                                     *)

\* A step that starts, ends and reaps nobody and keeps out of run().
Calm ==
    /\ UNCHANGED <<state, parent, table, child, copies>>
    /\ \A p \in Pids : pc'[p] = "wait" <=> pc[p] = "wait"

\* The end of a process; it does not leave another one alone that it waited
\* for, unless it is the parser that was started.
Dies(p) ==
    /\ Exit(p)
    /\ state[p] \in {"parser", "child", "program", "window"}
    /\ pc[p] = "wait" => p = Root \/ ~Serves(child[p])

\* Moving a program counter, other than from run(), is calm.
LEMMA GotoCalm ==
    ASSUME TypeInv, NEW h \in Pids, NEW l, Goto(h, l), pc[h] # "wait", l # "wait",
           UNCHANGED <<state, parent, table, child, copies>>
    PROVE  Calm
BY DEF TypeInv, TypeOK, Goto, Calm

\* Most steps are calm.
LEMMA CalmSteps ==
    ASSUME TypeInv, NEW h \in Pids,
           \/ OtherCommand(h) \/ ListAll(h) \/ List(h)
           \/ \E p \in Pids : KillPid(h, p)
           \/ \E same \in Namesakes(table[h]) : KillName(h, same) \/ KillAll(h, same)
           \/ KillSends(h) \/ Answer(h) \/ ListStep(h) \/ AnswersAgain(h)
    PROVE  Calm
<1>1. CASE OtherCommand(h) \/ ListAll(h) \/ List(h)
  <2>1. /\ UNCHANGED <<state, parent, table, child, copies>> /\ pc[h] = "read"
        /\ Goto(h, "answer") \/ Goto(h, "list") \/ UNCHANGED pc
    BY <1>1 DEF OtherCommand, Other, OneWrite, ListAll, List, Obeys, At, Reply
  <2> QED  BY <2>1, GotoCalm DEF Calm
<1>2. CASE \/ \E p \in Pids : KillPid(h, p)
           \/ \E same \in Namesakes(table[h]) : KillName(h, same) \/ KillAll(h, same)
  <2>1. /\ UNCHANGED <<state, parent, table, child, copies>> /\ pc[h] = "read"
        /\ Goto(h, "answer") \/ Goto(h, "kill") \/ Goto(h, "kill all")
    BY <1>2 DEF KillPid, KillName, KillAll, Obeys, At, Reply
  <2> QED  BY <2>1, GotoCalm
<1>3. CASE KillSends(h)
  <2>1. /\ UNCHANGED <<state, parent, table, child, copies>>
        /\ pc[h] \in {"kill", "kill all"}
        /\ Goto(h, "answer") \/ UNCHANGED pc
    BY <1>3 DEF KillSends, At, Reply
  <2> QED  BY <2>1, GotoCalm DEF Calm
<1>4. CASE Answer(h) \/ ListStep(h) \/ AnswersAgain(h)
  <2>1. /\ UNCHANGED <<state, parent, table, child, copies>>
        /\ pc[h] \in {"answer", "list", "read"}
        /\ Goto(h, "read") \/ Goto(h, "answer") \/ UNCHANGED pc
    BY <1>4 DEF Answer, ListStep, AnswersAgain, EndOfFile, At, Reply, kernel
  <2> QED  BY <2>1, GotoCalm DEF Calm
<1> QED  BY <1>1, <1>2, <1>3, <1>4

\* Every step is calm or one of six others.
LEMMA StepKinds ==
    ASSUME TypeInv, Phases, Family, ReaperKnows, [Next]_vars
    PROVE  \/ Calm
           \/ \E p \in Pids : Dies(p)
           \/ \E h, c \in Pids, command \in Commands :
                At(h, "read") /\ Forks(h, c, command) /\ UNCHANGED copies
           \/ \E h \in Pids : RunReturns(h)
           \/ \E c \in Pids : ExecSucceeds(c)
           \/ \E c \in Pids : ExecFails(c)
           \/ \E h, c \in Pids : Reap(h, c)
<1> USE ShellAssumption
<1>1. CASE UNCHANGED vars
  BY <1>1 DEF Calm, vars, kernel, memory
<1>2. ASSUME NEW h \in Pids, Turn(h)
      PROVE  \/ Calm \/ Dies(h) \/ RunReturns(h)
             \/ \E c \in Pids, command \in Commands :
                  At(h, "read") /\ Forks(h, c, command) /\ UNCHANGED copies
  <2>1. CASE ExitCommand(h) \/ RunFails(h) \/ KillCrashes(h)
    BY <2>1 DEF ExitCommand, RunFails, KillCrashes, At, Dies
  <2>2. CASE KillErrors(h) \/ BrokenPipe(h) \/ NoWord(h) \/ RunsAgainFails(h)
    BY <2>2 DEF KillErrors, BrokenPipe, NoWord, RunsAgainFails, Listing, EndOfFile, Ends,
                At, Dies
  <2>3. ASSUME NEW c \in Pids, NEW command \in Commands, RunForks(h, c, command)
        PROVE  At(h, "read") /\ Forks(h, c, command) /\ UNCHANGED copies
    BY <2>3 DEF RunForks
  <2>4. ASSUME NEW c \in Pids, RunsAgain(h, c)
        PROVE  At(h, "read") /\ Forks(h, c, "bare run") /\ UNCHANGED copies
    BY <2>4 DEF RunsAgain, EndOfFile
  <2>5. "bare run" \in Commands
    BY DEF Commands
  <2>6. CASE RunReturns(h)
    BY <2>6
  <2> QED  BY <1>2, <2>1, <2>2, <2>3, <2>4, <2>5, <2>6, CalmSteps DEF Turn
<1>3. ASSUME NEW h \in Pids, Interrupt(h)
      PROVE  Calm \/ Dies(h) \/ \E c \in Pids : Reap(h, c)
  <2>1. CASE SigchldArrives(h) \/ ReapReturns(h)
    BY <2>1 DEF SigchldArrives, ReapReturns, Calm, memory
  <2>2. ASSUME NEW c \in Pids, ReapCrashes(h, c)
        PROVE  Dies(h)
    <3>1. /\ Exit(h) /\ state[h] = "parser" /\ Position(table[h], c) = NULL
          /\ state[c] = "zombie" /\ parent[c] = h
      BY <2>2 DEF ReapCrashes, Ends, Zombies, Phases
    <3>2. CASE c = Window
      BY <3>1, <3>2 DEF Family, Dies
    <3>3. CASE c # Window
      <4>1. child[h] = c
        BY <3>1, <3>3 DEF ReaperKnows
      <4> QED  BY <3>1, <4>1 DEF Dies, Serves
    <3> QED  BY <3>2, <3>3
  <2> QED  BY <1>3, <2>1, <2>2 DEF Interrupt
<1>4. ASSUME NEW c \in Pids, Exec(c)
      PROVE  ExecSucceeds(c) \/ ExecFails(c) \/ Dies(c)
  BY <1>4 DEF Exec, NoArgument, Ends, Phases, Dies
<1>5. ASSUME NEW p \in Pids, ProgramEnds(p)
      PROVE  Dies(p)
  BY <1>5 DEF ProgramEnds, Ends, Phases, Dies
<1>6. CASE WindowEnds
  BY <1>6 DEF WindowEnds, Ends, Phases, Dies
<1>7. CASE TypesNothing \/ ClientReads \/ ClientEnds
  BY <1>7 DEF TypesNothing, ClientReads, ClientEnds, Calm, kernel, memory
<1>8. ASSUME NEW command \in Commands, Types(command)
      PROVE  Calm
  BY <1>8 DEF Types, Calm, kernel, memory
<1> QED
  BY <1>1, <1>2, <1>3, <1>4, <1>5, <1>6, <1>7, <1>8 DEF Next, Spins, Stopped

-----------------------------------------------------------------------------
(* What recording and marking a child do to a parser's table.              *)

\* insertfirst() adds a pid that runs and keeps what is known of the others.
LEMMA RecordedEntries ==
    ASSUME NEW Names, NEW t \in Seq(Entry(Pids, Names)), "name" \in Names, NEW c \in Pids
    PROVE  /\ Jobs(Recorded(t, c)) = Jobs(t) \cup {c}
           /\ SearchPid(Recorded(t, c), c) = 1 /\ Recorded(t, c)[1].isrunning
           /\ \A q \in Pids : q # c /\ SearchPid(t, q) # NULL
                => /\ SearchPid(Recorded(t, c), q) = SearchPid(t, q) + 1
                   /\ Recorded(t, c)[SearchPid(t, q) + 1] = t[SearchPid(t, q)]
<1>1. PICK name \in Names : name = "name"
  OBVIOUS
<1>2. Jobs(InsertFirst(t, c, name)) = Jobs(t) \cup {c}
  BY InsertFirstJobs
<1>3. SearchPid(InsertFirst(t, c, name), c) = 1
  BY InsertFirstSearch
<1>4. InsertFirst(t, c, name)[1].isrunning
  BY InsertFirstEntries
<1>5. ASSUME NEW q \in Pids, q # c, SearchPid(t, q) # NULL
      PROVE  /\ SearchPid(InsertFirst(t, c, name), q) = SearchPid(t, q) + 1
             /\ InsertFirst(t, c, name)[SearchPid(t, q) + 1] = t[SearchPid(t, q)]
  BY <1>5, InsertFirstSearchOther
<1> QED  BY <1>1, <1>2, <1>3, <1>4, <1>5 DEF Recorded

\* insertendtime() changes what is known of one pid only.
LEMMA MarkedEntries ==
    ASSUME NEW Names, NEW t \in Seq(Entry(Pids, Names)), NEW c \in Pids,
           SearchPid(t, c) # NULL
    PROVE  /\ Jobs(Marked(t, c)) = Jobs(t)
           /\ \A q \in Pids : q # c /\ SearchPid(t, q) # NULL
                => /\ SearchPid(Marked(t, c), q) = SearchPid(t, q)
                   /\ Marked(t, c)[SearchPid(t, q)] = t[SearchPid(t, q)]
<1>2. Jobs(InsertEndTime(t, c)) = Jobs(t)
  BY InsertEndTimeJobs
<1>3. ASSUME NEW q \in Pids, q # c, SearchPid(t, q) # NULL
      PROVE  /\ SearchPid(InsertEndTime(t, c), q) = SearchPid(t, q)
             /\ InsertEndTime(t, c)[SearchPid(t, q)] = t[SearchPid(t, q)]
  BY <1>3, InsertEndTimeSearch
<1> QED  BY <1>2, <1>3 DEF Marked

-----------------------------------------------------------------------------
(* What the steps change.                                                  *)

\* The end of a process.
LEMMA ExitEffect ==
    ASSUME TypeInv, NEW p \in Pids, Exit(p)
    PROVE  /\ state'[p] \in {"zombie", "gone"} /\ pc'[p] = "none" /\ table'[p] = <<>>
           /\ parent[p] = Outside => state'[p] = "gone"
           /\ parent[p] # Outside => state'[p] = "zombie"
           /\ \A q \in Pids : /\ parent'[q] = IF parent[q] = p THEN Outside ELSE parent[q]
                              /\ state'[q] = "parser" <=> state[q] = "parser" /\ q # p
                              /\ state'[q] = "child" <=> state[q] = "child" /\ q # p
                              /\ state'[q] = "free" <=> state[q] = "free" /\ q # p
                              /\ state'[q] \in {state[q], "zombie", "gone"}
           /\ \A q \in Pids \ {p} :
                /\ state'[q] = IF state[q] = "zombie" /\ parent[q] = p THEN "gone"
                               ELSE state[q]
                /\ UNCHANGED <<pc[q], child[q], table[q], buffer[q], pieces[q]>>
           /\ UNCHANGED copies
BY DEF TypeInv, TypeOK, Exit, Zombies

\* fork() in a parser.
LEMMA ForksEffect ==
    ASSUME TypeInv, Phases, NEW h \in Pids, NEW c \in Pids, NEW command, At(h, "read"),
           Forks(h, c, command)
    PROVE  /\ state[h] = "parser" /\ pc[h] = "read"
           /\ state[c] = "free" /\ pc[c] = "none" /\ h # c
           /\ \A q \in Pids : /\ state'[q] = IF q = c THEN "child" ELSE state[q]
                              /\ parent'[q] = IF q = c THEN h ELSE parent[q]
                              /\ pc'[q] = IF q = h THEN "wait" ELSE pc[q]
                              /\ child'[q] = IF q = h THEN c ELSE child[q]
                              /\ table'[q] = IF q = c THEN table[h] ELSE table[q]
                              /\ q \notin {h, c} => buffer'[q] = buffer[q]
           /\ UNCHANGED pieces
BY DEF TypeInv, TypeOK, Phases, Forks, Goto, At

\* run() returns in the parser.
LEMMA RunReturnsEffect ==
    ASSUME TypeInv, NEW h \in Pids, RunReturns(h)
    PROVE  /\ state[h] = "parser" /\ pc[h] = "wait" /\ ~Serves(child[h])
           /\ table'[h] = Recorded(table[h], child[h]) /\ pc'[h] = "answer"
           /\ \A q \in Pids \ {h} : /\ UNCHANGED <<pc[q], child[q], table[q], pieces[q]>>
           /\ UNCHANGED <<state, parent, buffer, copies>>
BY DEF TypeInv, TypeOK, RunReturns, Reply, Goto, At, Serves, kernel

\* The child executes a program.
LEMMA ExecSucceedsEffect ==
    ASSUME TypeInv, Phases, NEW c \in Pids, ExecSucceeds(c)
    PROVE  /\ state[c] = "child" /\ pc[c] = "none"
           /\ \A q \in Pids : /\ state'[q] = IF q = c THEN "program" ELSE state[q]
                              /\ table'[q] = IF q = c THEN <<>> ELSE table[q]
           /\ UNCHANGED <<parent, pc, child, buffer, pieces, copies>>
BY DEF TypeInv, TypeOK, Phases, ExecSucceeds

\* The child becomes a parser.
LEMMA ExecFailsEffect ==
    ASSUME TypeInv, Phases, NEW c \in Pids, ExecFails(c)
    PROVE  /\ state[c] = "child" /\ pc[c] = "none"
           /\ \A q \in Pids : /\ state'[q] = IF q = c THEN "parser" ELSE state[q]
                              /\ pc'[q] = IF q = c THEN "answer" ELSE pc[q]
                              /\ q # c => pieces'[q] = pieces[q]
           /\ UNCHANGED <<parent, child, table, buffer>>
           /\ copies' = copies \cup {c}
BY DEF TypeInv, TypeOK, Phases, ExecFails, Reply, Goto

\* A parser reaps a child.
LEMMA ReapEffect ==
    ASSUME TypeInv, Phases, NEW h \in Pids, NEW c \in Pids, Reap(h, c)
    PROVE  /\ state[h] = "parser" /\ state[c] = "zombie" /\ parent[c] = h /\ h # c
           /\ SearchPid(table[h], c) # NULL
           /\ \A q \in Pids : /\ state'[q] = IF q = c THEN "gone" ELSE state[q]
                              /\ parent'[q] = IF q = c THEN Outside ELSE parent[q]
                              /\ table'[q] = IF q = h THEN Marked(table[h], c) ELSE table[q]
           /\ UNCHANGED <<pc, child, buffer, pieces, copies>>
BY DEF TypeInv, TypeOK, Phases, Reap, Zombies, Position

-----------------------------------------------------------------------------
(* Every step preserves every part of the invariant.                       *)

\* Which pids the variables and constants name.
LEMMA Kin ==
    ASSUME TypeInv
    PROVE  /\ \A q \in Pids : parent[q] \in Pids \cup {Outside}
           /\ copies \subseteq Pids
           /\ Root \in Pids /\ Window \in Pids /\ Root # Window /\ Outside \notin Pids
BY ShellAssumption DEF TypeInv, TypeOK

\* Every step keeps Family: parents are parsers that live.
LEMMA FamilyStep ==
    ASSUME TypeInv, Phases, Family, ReaperKnows, [Next]_vars
    PROVE  Family'
<1>1. CASE Calm
  BY <1>1 DEF Calm, Family
<1>2. ASSUME NEW p \in Pids, Dies(p)
      PROVE  Family'
  <2>1. /\ \A q \in Pids :
             /\ parent'[q] = IF parent[q] = p THEN Outside ELSE parent[q]
             /\ state'[q] = "parser" <=> state[q] = "parser" /\ q # p
             /\ state'[q] \in {state[q], "zombie", "gone"}
        /\ UNCHANGED copies
    BY <1>2, ExitEffect DEF Dies
  <2>2. parent'[Root] = Outside /\ parent'[Window] \in {Root, Outside}
    BY <2>1, Kin DEF Family
  <2>3. ASSUME NEW q \in Pids
        PROVE  /\ parent'[q] # Outside => state'[parent'[q]] = "parser"
               /\ state'[q] = "parser" => q = Root \/ q \in copies'
    <3>1. CASE parent'[q] # Outside
      <4>1. parent'[q] = parent[q] /\ parent[q] # p /\ parent[q] \in Pids
        BY <2>1, <3>1, Kin
      <4> QED  BY <2>1, <3>1, <4>1 DEF Family
    <3> QED  BY <2>1, <3>1 DEF Family
  <2>4. /\ state'[Root] \in {"parser", "zombie", "gone"}
        /\ state'[Window] \in {"window", "zombie", "gone"}
    BY <2>1, Kin DEF Family
  <2>5. \A q \in copies' : state'[q] \in {"parser", "zombie", "gone"}
    <3>1. \A q \in copies : q \in Pids /\ state[q] \in {"parser", "zombie", "gone"}
      BY Kin DEF Family
    <3> QED  BY <2>1, <3>1
  <2> QED  BY <2>2, <2>3, <2>4, <2>5 DEF Family
<1>3. ASSUME NEW h \in Pids, NEW c \in Pids, NEW command,
             At(h, "read"), Forks(h, c, command), UNCHANGED copies
      PROVE  Family'
  <2>1. /\ state[h] = "parser" /\ state[c] = "free" /\ h # c
        /\ \A q \in Pids : /\ state'[q] = IF q = c THEN "child" ELSE state[q]
                           /\ parent'[q] = IF q = c THEN h ELSE parent[q]
    BY <1>3, ForksEffect
  <2>2. c # Root /\ c # Window /\ c \notin copies
    BY <2>1 DEF Family
  <2>3. ASSUME NEW q \in Pids, parent'[q] # Outside
        PROVE  state'[parent'[q]] = "parser"
    <3>1. CASE q = c
      BY <2>1, <3>1
    <3>2. CASE q # c
      <4>1. parent'[q] = parent[q] /\ parent[q] \in Pids /\ state[parent[q]] = "parser"
        BY <2>1, <2>3, <3>2, Kin DEF Family
      <4> QED  BY <2>1, <4>1
    <3> QED  BY <3>1, <3>2
  <2>4. ASSUME NEW q \in Pids
        PROVE  /\ state'[q] = "parser" => q = Root \/ q \in copies'
               /\ q \in copies' => state'[q] \in {"parser", "zombie", "gone"}
    BY <1>3, <2>1, <2>2 DEF Family
  <2> QED  BY <1>3, <2>1, <2>2, <2>3, <2>4, Kin DEF Family
<1>4. ASSUME NEW h \in Pids, RunReturns(h)
      PROVE  Family'
  BY <1>4, RunReturnsEffect DEF Family
<1>5. ASSUME NEW c \in Pids, ExecSucceeds(c) \/ ExecFails(c)
      PROVE  Family'
  <2>1. /\ state[c] = "child" /\ UNCHANGED parent
        /\ \A q \in Pids : q # c => state'[q] = state[q]
        /\ \/ state'[c] = "program" /\ UNCHANGED copies
           \/ state'[c] = "parser" /\ copies' = copies \cup {c}
    BY <1>5, ExecSucceedsEffect, ExecFailsEffect
  <2>2. c # Root /\ c # Window /\ c \notin copies
    BY <2>1 DEF Family
  <2>3. ASSUME NEW q \in Pids, parent'[q] # Outside
        PROVE  state'[parent'[q]] = "parser"
    <3>1. parent'[q] = parent[q] /\ parent[q] \in Pids /\ state[parent[q]] = "parser"
      BY <2>1, <2>3, Kin DEF Family
    <3> QED  BY <2>1, <3>1
  <2>4. ASSUME NEW q \in Pids
        PROVE  /\ state'[q] = "parser" => q = Root \/ q \in copies'
               /\ q \in copies' => state'[q] \in {"parser", "zombie", "gone"}
    BY <2>1, <2>2 DEF Family
  <2>5. copies' \subseteq Pids
    BY <2>1, Kin
  <2> QED  BY <2>1, <2>2, <2>3, <2>4, <2>5, Kin DEF Family
<1>6. ASSUME NEW h \in Pids, NEW c \in Pids, Reap(h, c)
      PROVE  Family'
  <2>1. /\ state[c] = "zombie" /\ UNCHANGED copies
        /\ \A q \in Pids : /\ state'[q] = IF q = c THEN "gone" ELSE state[q]
                           /\ parent'[q] = IF q = c THEN Outside ELSE parent[q]
    BY <1>6, ReapEffect
  <2>2. ASSUME NEW q \in Pids, parent'[q] # Outside
        PROVE  state'[parent'[q]] = "parser"
    <3>1. parent'[q] = parent[q] /\ parent[q] \in Pids /\ state[parent[q]] = "parser"
      BY <2>1, <2>2, Kin DEF Family
    <3> QED  BY <2>1, <3>1
  <2>3. ASSUME NEW q \in Pids
        PROVE  /\ state'[q] = "parser" => q = Root \/ q \in copies'
               /\ q \in copies' => state'[q] \in {"parser", "zombie", "gone"}
    BY <2>1 DEF Family
  <2> QED  BY <2>1, <2>2, <2>3, Kin DEF Family
<1> QED  BY <1>1, <1>2, <1>3, <1>4, <1>5, <1>6, StepKinds

\* Every step leaves only pids that were started in the tables.
LEMMA StartedStep ==
    ASSUME TypeInv, Phases, Family, Started, InFlight, ReaperKnows, [Next]_vars
    PROVE  Started'
<1>1. CASE Calm
  BY <1>1 DEF Calm, Started
<1>0. Jobs(<<>>) = {}
  BY DEF Jobs
<1>2. ASSUME NEW p \in Pids, Dies(p)
      PROVE  Started'
  <2>1. ASSUME NEW h \in Pids, NEW c \in Pids, c \in Jobs(table'[h])
        PROVE  state'[c] # "free"
    <3>1. h # p
      BY <1>0, <1>2, <2>1, ExitEffect DEF Dies
    <3>2. table'[h] = table[h]
      BY <1>2, <3>1, ExitEffect DEF Dies
    <3> QED  BY <1>2, <2>1, <3>2, ExitEffect DEF Dies, Started
  <2> QED  BY <2>1 DEF Started
<1>3. ASSUME NEW h \in Pids, NEW c \in Pids, NEW command,
             At(h, "read"), Forks(h, c, command), UNCHANGED copies
      PROVE  Started'
  BY <1>3, ForksEffect DEF Started
<1>4. ASSUME NEW h \in Pids, RunReturns(h)
      PROVE  Started'
  <2>1. Jobs(table'[h]) = Jobs(table[h]) \cup {child[h]}
    <3>1. child[h] \in Pids /\ table[h] \in Seq(Entry(Pids, {"name"}))
      BY <1>4, RunReturnsEffect, Tables DEF Phases
    <3>2. Jobs(Recorded(table[h], child[h])) = Jobs(table[h]) \cup {child[h]}
      BY <3>1, RecordedEntries
    <3> QED  BY <1>4, <3>2, RunReturnsEffect
  <2>2. state[child[h]] # "free"
    BY <1>4, RunReturnsEffect DEF InFlight
  <2> QED  BY <1>4, <2>1, <2>2, RunReturnsEffect DEF Started
<1>5. ASSUME NEW c \in Pids, ExecSucceeds(c) \/ ExecFails(c)
      PROVE  Started'
  <2>1. CASE ExecSucceeds(c)
    BY <1>0, <2>1, ExecSucceedsEffect DEF Started
  <2>2. CASE ExecFails(c)
    BY <2>2, ExecFailsEffect DEF Started
  <2> QED  BY <1>5, <2>1, <2>2
<1>6. ASSUME NEW h \in Pids, NEW c \in Pids, Reap(h, c)
      PROVE  Started'
  <2>1. Jobs(table'[h]) = Jobs(table[h])
    <3>1. table[h] \in Seq(Entry(Pids, {"name"})) /\ SearchPid(table[h], c) # NULL
      BY <1>6, ReapEffect, Tables
    <3>2. Jobs(Marked(table[h], c)) = Jobs(table[h])
      BY <3>1, MarkedEntries
    <3> QED  BY <1>6, <3>2, ReapEffect
  <2> QED  BY <1>6, <2>1, ReapEffect DEF Started
<1> QED  BY <1>1, <1>2, <1>3, <1>4, <1>5, <1>6, StepKinds

\* A parser that goes on waiting for the same child, which is still its child
\* and runs or is a zombie, with the same pids in its table, is as before.
LEMMA InFlightKept ==
    ASSUME TypeInv, Phases, InFlight, NEW h \in Pids, pc'[h] = "wait", pc[h] = "wait",
           child'[h] = child[h], Jobs(table'[h]) = Jobs(table[h]),
           parent'[child[h]] = parent[child[h]],
           state'[child[h]] \in {"child", "parser", "program", "zombie"}
    PROVE  /\ parent'[child'[h]] = h
           /\ state'[child'[h]] \in {"child", "parser", "program", "zombie"}
           /\ child'[h] \notin Jobs(table'[h])
BY DEF InFlight

\* Every step keeps the pid run() waits for that of an unrecorded child.
LEMMA InFlightStep ==
    ASSUME TypeInv, Phases, Family, Started, InFlight, ReaperKnows, [Next]_vars
    PROVE  InFlight'
<1>1. CASE Calm
  BY <1>1 DEF Calm, InFlight
<1>2. ASSUME NEW p \in Pids, Dies(p)
      PROVE  InFlight'
  <2>1. ASSUME NEW h \in Pids, pc'[h] = "wait"
        PROVE  /\ parent'[child'[h]] = h
               /\ state'[child'[h]] \in {"child", "parser", "program", "zombie"}
               /\ child'[h] \notin Jobs(table'[h])
    <3>1. h # p /\ UNCHANGED <<pc[h], child[h], table[h]>>
      BY <1>2, <2>1, ExitEffect DEF Dies
    <3>2. child[h] \in Pids /\ parent[child[h]] = h
          /\ state[child[h]] \in {"child", "parser", "program", "zombie"}
      BY <2>1, <3>1 DEF Phases, InFlight
    <3>3. parent'[child[h]] = parent[child[h]]
      BY <1>2, <3>1, <3>2, ExitEffect DEF Dies
    <3>4. state'[child[h]] \in {"child", "parser", "program", "zombie"}
      BY <1>2, <3>1, <3>2, ExitEffect, Kin DEF Dies
    <3> QED  BY <2>1, <3>1, <3>3, <3>4, InFlightKept
  <2> QED  BY <2>1 DEF InFlight
<1>3. ASSUME NEW h \in Pids, NEW c \in Pids, NEW command,
             At(h, "read"), Forks(h, c, command), UNCHANGED copies
      PROVE  InFlight'
  <2>1. /\ state[c] = "free" /\ pc[c] = "none" /\ h # c
        /\ \A q \in Pids : /\ state'[q] = IF q = c THEN "child" ELSE state[q]
                           /\ parent'[q] = IF q = c THEN h ELSE parent[q]
                           /\ pc'[q] = IF q = h THEN "wait" ELSE pc[q]
                           /\ child'[q] = IF q = h THEN c ELSE child[q]
                           /\ table'[q] = IF q = c THEN table[h] ELSE table[q]
    BY <1>3, ForksEffect
  <2>2. c \notin Jobs(table[h])
    BY <2>1 DEF Started
  <2>3. ASSUME NEW q \in Pids, pc'[q] = "wait"
        PROVE  /\ parent'[child'[q]] = q
               /\ state'[child'[q]] \in {"child", "parser", "program", "zombie"}
               /\ child'[q] \notin Jobs(table'[q])
    <3>1. CASE q = h
      BY <2>1, <2>2, <3>1
    <3>2. CASE q # h
      <4>1. q # c /\ UNCHANGED <<pc[q], child[q], table[q]>>
        BY <2>1, <2>3, <3>2
      <4>2. child[q] \in Pids /\ child[q] # c
            /\ state[child[q]] \in {"child", "parser", "program", "zombie"}
        BY <2>1, <2>3, <4>1 DEF Phases, InFlight
      <4>3. parent'[child[q]] = parent[child[q]] /\ state'[child[q]] = state[child[q]]
        BY <2>1, <4>2
      <4> QED  BY <2>3, <4>1, <4>2, <4>3, InFlightKept
    <3> QED  BY <3>1, <3>2
  <2> QED  BY <2>3 DEF InFlight
<1>4. ASSUME NEW h \in Pids, RunReturns(h)
      PROVE  InFlight'
  BY <1>4, RunReturnsEffect DEF InFlight
<1>5. ASSUME NEW c \in Pids, ExecSucceeds(c) \/ ExecFails(c)
      PROVE  InFlight'
  <2>1. ASSUME NEW h \in Pids, pc'[h] = "wait"
        PROVE  /\ parent'[child'[h]] = h
               /\ state'[child'[h]] \in {"child", "parser", "program", "zombie"}
               /\ child'[h] \notin Jobs(table'[h])
    <3>1. h # c /\ UNCHANGED <<pc[h], child[h], table[h], parent>>
      BY <1>5, <2>1, ExecSucceedsEffect, ExecFailsEffect
    <3>2. child[h] \in Pids
          /\ state[child[h]] \in {"child", "parser", "program", "zombie"}
      BY <2>1, <3>1 DEF Phases, InFlight
    <3>3. state'[child[h]] \in {state[child[h]], "program", "parser"}
      BY <1>5, <3>2, ExecSucceedsEffect, ExecFailsEffect
    <3> QED  BY <2>1, <3>1, <3>2, <3>3, InFlightKept
  <2> QED  BY <2>1 DEF InFlight
<1>6. ASSUME NEW h \in Pids, NEW c \in Pids, Reap(h, c)
      PROVE  InFlight'
  <2>1. /\ parent[c] = h /\ SearchPid(table[h], c) # NULL
        /\ \A q \in Pids :
             /\ state'[q] = IF q = c THEN "gone" ELSE state[q]
             /\ parent'[q] = IF q = c THEN Outside ELSE parent[q]
             /\ table'[q] = IF q = h THEN Marked(table[h], c) ELSE table[q]
        /\ UNCHANGED <<pc, child>>
    BY <1>6, ReapEffect
  <2>2. table[h] \in Seq(Entry(Pids, {"name"}))
    BY Tables
  <2>3. c \in Jobs(table[h]) /\ Jobs(Marked(table[h], c)) = Jobs(table[h])
    BY <2>1, <2>2, SearchPidJobs, MarkedEntries
  <2>4. ASSUME NEW q \in Pids, pc'[q] = "wait"
        PROVE  /\ parent'[child'[q]] = q
               /\ state'[child'[q]] \in {"child", "parser", "program", "zombie"}
               /\ child'[q] \notin Jobs(table'[q])
    <3>1. /\ pc[q] = "wait" /\ child[q] \in Pids /\ parent[child[q]] = q
          /\ child[q] \notin Jobs(table[q])
          /\ state[child[q]] \in {"child", "parser", "program", "zombie"}
      BY <2>1, <2>4 DEF Phases, InFlight
    <3>2. child[q] # c
      BY <2>1, <2>3, <3>1
    <3>3. Jobs(table'[q]) = Jobs(table[q])
      BY <2>1, <2>3
    <3> QED  BY <2>1, <2>4, <3>1, <3>2, <3>3, InFlightKept
  <2> QED  BY <2>4 DEF InFlight
<1> QED  BY <1>1, <1>2, <1>3, <1>4, <1>5, <1>6, StepKinds

\* Of a child of h that is known to its reaper.
Knows(h, c) ==
    \/ pc[h] = "wait" /\ child[h] = c
    \/ LET i == Position(table[h], c) IN i # NULL /\ table[h][i].isrunning

\* Every step leaves what sigcld_handler() has to find in the table.
LEMMA ReaperKnowsStep ==
    ASSUME TypeInv, Phases, Family, InFlight, ReaperKnows, [Next]_vars
    PROVE  ReaperKnows'
<1>0. ReaperKnows <=> \A h, c \in Pids : parent[c] = h /\ c # Window => Knows(h, c)
  BY DEF ReaperKnows, Knows
<1>1. CASE Calm
  BY <1>1 DEF Calm, ReaperKnows, Position
<1> SUFFICES ASSUME NEW h \in Pids, NEW c \in Pids, parent'[c] = h, c # Window, ~Calm
             PROVE  Knows(h, c)'
  BY <1>1 DEF ReaperKnows, Knows
<1>2. ASSUME parent[c] = h, UNCHANGED <<pc[h], child[h], table[h]>>
      PROVE  Knows(h, c)'
  BY <1>0, <1>2 DEF Knows, Position
<1>3. ASSUME NEW p \in Pids, Dies(p)
      PROVE  Knows(h, c)'
  <2>1. parent[c] = h /\ h # p
    BY <1>3, ExitEffect, Kin DEF Dies
  <2> QED  BY <1>2, <1>3, <2>1, ExitEffect DEF Dies
<1>4. ASSUME NEW g \in Pids, NEW d \in Pids, NEW command,
             At(g, "read"), Forks(g, d, command), UNCHANGED copies
      PROVE  Knows(h, c)'
  <2>1. /\ state[d] = "free" /\ pc[g] = "read" /\ g # d
        /\ \A q \in Pids : /\ parent'[q] = IF q = d THEN g ELSE parent[q]
                           /\ pc'[q] = IF q = g THEN "wait" ELSE pc[q]
                           /\ child'[q] = IF q = g THEN d ELSE child[q]
                           /\ table'[q] = IF q = d THEN table[g] ELSE table[q]
    BY <1>4, ForksEffect
  <2>2. CASE c = d
    BY <2>1, <2>2 DEF Knows
  <2>3. CASE c # d
    <3>1. parent[c] = h /\ h # d
      BY <2>1, <2>3, Kin DEF Family
    <3>2. CASE h # g
      BY <1>2, <2>1, <3>1, <3>2
    <3>3. CASE h = g
      BY <1>0, <2>1, <3>1, <3>3 DEF Knows, Position
    <3> QED  BY <3>2, <3>3
  <2> QED  BY <2>2, <2>3
<1>5. ASSUME NEW g \in Pids, RunReturns(g)
      PROVE  Knows(h, c)'
  <2>1. parent[c] = h
    BY <1>5, RunReturnsEffect
  <2>2. CASE h # g
    BY <1>2, <1>5, <2>1, <2>2, RunReturnsEffect
  <2>3. CASE h = g
    <3>1. /\ pc[h] = "wait" /\ child[h] \in Pids
          /\ table[h] \in Seq(Entry(Pids, {"name"}))
          /\ table'[h] = Recorded(table[h], child[h])
      BY <1>5, <2>3, RunReturnsEffect, Tables DEF Phases
    <3> PICK t, u, k : t = table[h] /\ u = table'[h] /\ k = child[h]
      OBVIOUS
    <3>2. t \in Seq(Entry(Pids, {"name"})) /\ u = Recorded(t, k) /\ k \in Pids
      BY <3>1
    <3>3. SearchPid(u, c) # NULL /\ u[SearchPid(u, c)].isrunning
      <4>1. CASE c = k
        BY <3>2, <4>1, RecordedEntries DEF NULL
      <4>2. CASE c # k
        <5>1. SearchPid(t, c) # NULL /\ t[SearchPid(t, c)].isrunning
          BY <1>0, <2>1, <4>2 DEF Knows, Position
        <5>2. SearchPid(t, c) \in Nat
          BY <3>2, SearchPidResult
        <5>3. /\ SearchPid(u, c) = SearchPid(t, c) + 1
              /\ u[SearchPid(t, c) + 1] = t[SearchPid(t, c)]
          BY <3>2, <4>2, <5>1, RecordedEntries
        <5>4. SearchPid(u, c) # NULL
          BY <5>2, <5>3 DEF NULL
        <5> QED  BY <5>1, <5>3, <5>4
      <4> QED  BY <4>1, <4>2
    <3> QED  BY <3>3 DEF Knows, Position
  <2> QED  BY <2>2, <2>3
<1>6. ASSUME NEW d \in Pids, ExecSucceeds(d) \/ ExecFails(d)
      PROVE  Knows(h, c)'
  <2>1. parent[c] = h
    BY <1>6, ExecSucceedsEffect, ExecFailsEffect
  <2>2. h # d
    <3>1. state[d] = "child" /\ state[h] = "parser"
      BY <1>6, <2>1, Kin, ExecSucceedsEffect, ExecFailsEffect DEF Family
    <3> QED  BY <3>1
  <2>3. UNCHANGED <<pc[h], child[h], table[h]>>
    BY <1>6, <2>2, ExecSucceedsEffect, ExecFailsEffect
  <2> QED  BY <1>2, <2>1, <2>3
<1>7. ASSUME NEW g \in Pids, NEW d \in Pids, Reap(g, d)
      PROVE  Knows(h, c)'
  <2>1. c # d /\ parent[c] = h /\ UNCHANGED <<pc, child>>
    BY <1>7, Kin, ReapEffect
  <2>2. CASE h # g
    <3>1. UNCHANGED table[h]
      BY <1>7, <2>2, ReapEffect
    <3> QED  BY <1>2, <2>1, <3>1
  <2>3. CASE h = g
    <3>1. /\ table[h] \in Seq(Entry(Pids, {"name"})) /\ SearchPid(table[h], d) # NULL
          /\ table'[h] = Marked(table[h], d)
      <4>1. SearchPid(table[h], d) # NULL /\ table'[h] = Marked(table[h], d)
        BY <1>7, <2>3, ReapEffect
      <4> QED  BY <4>1, Tables
    <3>2. CASE pc[h] = "wait" /\ child[h] = c
      BY <2>1, <3>2 DEF Knows
    <3>3. CASE ~(pc[h] = "wait" /\ child[h] = c)
      <4> PICK t, u : t = table[h] /\ u = table'[h]
        OBVIOUS
      <4>1. /\ t \in Seq(Entry(Pids, {"name"})) /\ SearchPid(t, d) # NULL
            /\ u = Marked(t, d)
        BY <3>1
      <4>2. SearchPid(t, c) # NULL /\ t[SearchPid(t, c)].isrunning
        BY <1>0, <2>1, <3>3 DEF Knows, Position
      <4>3. SearchPid(u, c) = SearchPid(t, c) /\ u[SearchPid(t, c)] = t[SearchPid(t, c)]
        BY <2>1, <4>1, <4>2, MarkedEntries
      <4> QED  BY <4>2, <4>3 DEF Knows, Position
    <3> QED  BY <3>2, <3>3
  <2> QED  BY <2>2, <2>3
<1> QED  BY <1>3, <1>4, <1>5, <1>6, <1>7, StepKinds

\* A process that is not held stops to serve: the others stay in a chain.
LEMMA ChainedWithout ==
    ASSUME Phases, Family, InFlight, Chained, NEW p \in Pids,
           Held(p) => p = Root,
           \A q \in Pids : Serves(q)' => q # p /\ Serves(q),
           \A q \in Pids \ {p} : /\ Serves(q) => Serves(q)'
                                 /\ pc'[q] = pc[q] /\ child'[q] = child[q]
    PROVE  Chained'
<1>1. ASSUME NEW h \in Pids, h # p, Held(h), ~Held(h)'
      PROVE  child[h] = p
  <2>1. pc'[h] = "wait" /\ child[h] \in Pids /\ Serves(child[h]) /\ child'[h] = child[h]
    BY <1>1 DEF Held, Phases
  <2>2. child[h] # p => Serves(child[h])'
    BY <1>1, <2>1 DEF Serves
  <2> QED  BY <1>1, <2>1, <2>2 DEF Held, Serves
<1>2. ASSUME NEW h1 \in Pids, NEW h2 \in Pids, Serves(h1)', Serves(h2)', h1 # h2,
             Held(h1), ~Held(h1)'
      PROVE  Held(h2)'
  <2>1. /\ Serves(h2) /\ h1 # p /\ h2 # p /\ child[h1] = p
    BY <1>1, <1>2
  <2>2. parent[p] = h1 /\ Serves(p)
    BY <1>2, <2>1 DEF InFlight, Held
  <2>3. ~Held(p)
    BY <1>2, <2>2, ShellAssumption DEF Family
  <2>4. Held(h2)
    BY <2>1, <2>2, <2>3 DEF Chained
  <2>5. child[h2] # p
    BY <1>2, <2>2, <2>4 DEF InFlight, Held
  <2> QED  BY <1>1, <2>1, <2>4, <2>5
<1>3. ASSUME NEW h1 \in Pids, NEW h2 \in Pids, Serves(h1)', Serves(h2)', h1 # h2
      PROVE  Held(h1)' \/ Held(h2)'
  <2>1. Held(h1) \/ Held(h2)
    BY <1>3 DEF Chained
  <2> QED  BY <1>2, <1>3, <2>1
<1> QED  BY <1>3 DEF Chained

\* Every step keeps all but one of those that serve waiting.
LEMMA ChainedStep ==
    ASSUME TypeInv, Phases, Family, InFlight, ReaperKnows, Chained, [Next]_vars
    PROVE  Chained'
<1>1. CASE Calm
  BY <1>1 DEF Calm, Chained, Held, Serves
<1>2. ASSUME NEW p \in Pids, Dies(p)
      PROVE  Chained'
  <2>1. Held(p) => p = Root
    BY <1>2 DEF Dies, Held
  <2>2. /\ \A q \in Pids : Serves(q)' => q # p /\ Serves(q)
        /\ \A q \in Pids \ {p} : /\ Serves(q) => Serves(q)'
                                 /\ pc'[q] = pc[q] /\ child'[q] = child[q]
    BY <1>2, ExitEffect DEF Dies, Serves
  <2> QED  BY <2>1, <2>2, ChainedWithout
<1>3. ASSUME NEW h \in Pids, NEW c \in Pids, NEW command,
             At(h, "read"), Forks(h, c, command), UNCHANGED copies
      PROVE  Chained'
  <2>1. /\ state[h] = "parser" /\ state[c] = "free" /\ pc[c] = "none" /\ h # c
        /\ pc[h] = "read"
        /\ \A q \in Pids : /\ state'[q] = IF q = c THEN "child" ELSE state[q]
                           /\ pc'[q] = IF q = h THEN "wait" ELSE pc[q]
                           /\ child'[q] = IF q = h THEN c ELSE child[q]
    BY <1>3, ForksEffect
  <2>2. \A q \in Pids : Serves(q)' <=> Serves(q) \/ q = c
    BY <2>1 DEF Serves
  <2>3. ASSUME NEW q \in Pids, Serves(q), q # h
        PROVE  Held(q)'
    <3>1. Serves(h) /\ ~Held(h)
      BY <2>1 DEF Serves, Held
    <3>2. pc[q] = "wait" /\ Serves(child[q]) /\ child[q] \in Pids
      BY <2>3, <3>1 DEF Chained, Held, Phases
    <3>3. pc'[q] = "wait" /\ child'[q] = child[q]
      BY <2>1, <2>3, <3>2
    <3>4. state'[child[q]] \in {"child", "parser"}
      BY <2>1, <3>2 DEF Serves
    <3> QED  BY <3>3, <3>4 DEF Held, Serves
  <2>4. Held(h)'
    BY <2>1 DEF Held, Serves
  <2>5. \A q \in Pids : Serves(q)' => q = c \/ Held(q)'
    BY <2>2, <2>3, <2>4
  <2> QED  BY <2>5 DEF Chained
<1>4. ASSUME NEW h \in Pids, RunReturns(h)
      PROVE  Chained'
  <2>1. /\ ~Held(h) /\ UNCHANGED state
        /\ \A q \in Pids \ {h} : pc'[q] = pc[q] /\ child'[q] = child[q]
    BY <1>4, RunReturnsEffect DEF Held
  <2>2. \A q \in Pids : Serves(q)' <=> Serves(q)
    BY <2>1 DEF Serves
  <2>3. \A q \in Pids : Held(q) => Held(q)'
    BY <2>1 DEF Held, Serves
  <2> QED  BY <2>2, <2>3 DEF Chained
<1>5. ASSUME NEW c \in Pids, ExecSucceeds(c)
      PROVE  Chained'
  <2>1. /\ \A q \in Pids : Serves(q)' => q # c /\ Serves(q)
        /\ \A q \in Pids \ {c} : /\ Serves(q) => Serves(q)'
                                 /\ pc'[q] = pc[q] /\ child'[q] = child[q]
    BY <1>5, ExecSucceedsEffect DEF Serves
  <2>2. ~Held(c)
    BY <1>5, ExecSucceedsEffect DEF Held
  <2> QED  BY <2>1, <2>2, ChainedWithout
<1>6. ASSUME NEW c \in Pids, ExecFails(c)
      PROVE  Chained'
  <2>1. /\ state[c] = "child" /\ pc[c] = "none" /\ UNCHANGED child
        /\ \A q \in Pids : /\ state'[q] = IF q = c THEN "parser" ELSE state[q]
                           /\ pc'[q] = IF q = c THEN "answer" ELSE pc[q]
    BY <1>6, ExecFailsEffect
  <2>2. \A q \in Pids : Serves(q)' <=> Serves(q)
    BY <2>1 DEF Serves
  <2>3. ASSUME NEW q \in Pids, Held(q)
        PROVE  Held(q)'
    <3>1. pc[q] = "wait" /\ child[q] \in Pids /\ Serves(child[q])
      BY <2>3 DEF Held, Phases
    <3>2. pc'[q] = "wait" /\ child'[q] = child[q] /\ q # c
      BY <2>1, <3>1
    <3>3. state'[child[q]] \in {"child", "parser"}
      BY <2>1, <3>1 DEF Serves
    <3> QED  BY <3>2, <3>3 DEF Held, Serves
  <2> QED  BY <2>2, <2>3 DEF Chained
<1>7. ASSUME NEW h \in Pids, NEW c \in Pids, Reap(h, c)
      PROVE  Chained'
  <2>1. /\ state[c] = "zombie" /\ UNCHANGED <<pc, child>>
        /\ \A q \in Pids : state'[q] = IF q = c THEN "gone" ELSE state[q]
    BY <1>7, ReapEffect
  <2>2. \A q \in Pids : Serves(q)' <=> Serves(q)
    BY <2>1 DEF Serves
  <2>3. ASSUME NEW q \in Pids, Held(q)
        PROVE  Held(q)'
    <3>1. child[q] \in Pids /\ Serves(child[q])
      BY <2>3 DEF Held, Phases
    <3>2. state'[child[q]] \in {"child", "parser"}
      BY <2>1, <3>1 DEF Serves
    <3> QED  BY <2>1, <2>3, <3>2 DEF Held, Serves
  <2> QED  BY <2>2, <2>3 DEF Chained
<1> QED  BY <1>1, <1>2, <1>3, <1>4, <1>5, <1>6, <1>7, StepKinds

\* While a process serves and is not held, no other is anywhere but in run(),
\* and none owes an answer.
LEMMA OthersHeld ==
    ASSUME Phases, Chained, NEW h \in Pids, Serves(h), ~Held(h), NEW q \in Pids, q # h
    PROVE  /\ pc[q] \in {"none", "wait"} /\ state[q] # "child" /\ ~Owes(q)
<1>1. CASE Serves(q)
  <2>1. Held(q)
    BY <1>1 DEF Chained
  <2>2. pc[q] = "wait" /\ state[q] = "parser"
    BY <2>1 DEF Held, Phases
  <2> QED  BY <2>1, <2>2 DEF Held, Owes
<1>2. CASE ~Serves(q)
  <2>1. pc[q] = "none" /\ state[q] # "child"
    BY <1>2 DEF Serves, Phases
  <2> QED  BY <2>1 DEF Owes
<1> QED  BY <1>1, <1>2

\* Every step that lets the client wait with empty pipes leaves no parser to
\* wait for it, but after a blank line.
LEMMA HangStep ==
    ASSUME TypeInv, Phases, Chained, Hang, [Next]_vars
    PROVE  Hang'
<1> SUFFICES ASSUME Waiting', NEW q \in Pids
             PROVE  Fine(q)'
  BY DEF Hang
<1>0. ASSUME NEW h \in Pids, state[h] = "parser", pc[h] # "wait", q # h, pc'[q] = pc[q]
      PROVE  Fine(q)'
  BY <1>0, OthersHeld DEF Fine, Serves, Held
<1>1. ASSUME UNCHANGED <<client, unread, lines, pc[q], buffer[q], pieces[q]>>
      PROVE  Fine(q)'
  BY <1>1 DEF Hang, Waiting, Fine
<1>2. ASSUME NEW p \in Pids, Ends(p)
      PROVE  Fine(q)'
  <2>1. CASE q = p
    BY <1>2, <2>1, ExitEffect DEF Ends, Fine
  <2>2. CASE q # p
    <3>1. UNCHANGED <<pc[q], buffer[q], pieces[q]>>
      BY <1>2, <2>2, ExitEffect DEF Ends
    <3> QED  BY <1>1, <1>2, <3>1 DEF Ends, pipes
  <2> QED  BY <2>1, <2>2
<1>3. CASE UNCHANGED vars
  BY <1>1, <1>3 DEF vars, memory, pipes
<1>4. ASSUME NEW h \in Pids, Turn(h)
      PROVE  Fine(q)'
  <2>1. ASSUME state[h] = "parser", pc[h] # "wait", NEW l \in Labels, Goto(h, l),
               l # "read" \/ buffer'[h] = "blank", l # "list" \/ pieces'[h] = 0
        PROVE  Fine(q)'
    <3>1. \A r \in Pids : pc'[r] = IF r = h THEN l ELSE pc[r]
      BY <2>1 DEF TypeInv, TypeOK, Goto
    <3>2. CASE q = h
      BY <2>1, <3>1, <3>2 DEF Fine
    <3>3. CASE q # h
      BY <1>0, <2>1, <3>1, <3>3
    <3> QED  BY <3>2, <3>3
  <2>2. ASSUME state[h] = "parser", pc[h] # "wait", Exit(h)
        PROVE  Fine(q)'
    <3>1. CASE q = h
      BY <2>2, <3>1, ExitEffect DEF Fine
    <3>2. CASE q # h
      BY <1>0, <2>2, <3>2, ExitEffect
    <3> QED  BY <3>1, <3>2
  <2>3. CASE OtherCommand(h)
    <3>1. state[h] = "parser" /\ pc[h] = "read"
      BY <2>3 DEF OtherCommand, Other, OneWrite, Obeys, At
    <3>2. CASE Goto(h, "answer")
      BY <2>1, <3>1, <3>2 DEF Labels
    <3>3. CASE UNCHANGED pc /\ Obeys(h, "blank")
      <4>1. Goto(h, "read") /\ buffer'[h] = "blank"
        BY <3>1, <3>3 DEF Goto, Obeys, TypeInv, TypeOK
      <4> QED  BY <2>1, <3>1, <4>1 DEF Labels
    <3> QED  BY <2>3, <3>2, <3>3 DEF OtherCommand, Other, OneWrite, Reply
  <2>4. CASE ListAll(h)
    BY <2>1, <2>4 DEF ListAll, Obeys, At, Reply, Labels
  <2>5. CASE List(h)
    <3>1. state[h] = "parser" /\ pc[h] = "read" /\ Goto(h, "list") /\ UNCHANGED pieces
      BY <2>5 DEF List, Obeys, At
    <3>2. pieces'[h] = 0
      BY <3>1 DEF Phases
    <3> QED  BY <2>1, <3>1, <3>2 DEF Labels
  <2>6. CASE \/ \E p \in Pids : KillPid(h, p)
             \/ \E same \in Namesakes(table[h]) : KillName(h, same) \/ KillAll(h, same)
    <3>1. /\ state[h] = "parser" /\ pc[h] = "read"
          /\ Goto(h, "answer") \/ Goto(h, "kill") \/ Goto(h, "kill all")
      BY <2>6 DEF KillPid, KillName, KillAll, Obeys, At, Reply
    <3> QED  BY <2>1, <3>1 DEF Labels
  <2>7. CASE ExitCommand(h) \/ RunFails(h) \/ KillCrashes(h)
    BY <2>2, <2>7 DEF ExitCommand, RunFails, KillCrashes, At
  <2>8. ASSUME NEW c \in Pids, NEW command \in Commands,
               RunForks(h, c, command) \/ RunsAgain(h, c)
        PROVE  Fine(q)'
    <3>1. At(h, "read") /\ Goto(h, "wait")
      BY <2>8 DEF RunForks, RunsAgain, EndOfFile, Forks
    <3> QED  BY <2>1, <3>1 DEF At, Labels
  <2>9. CASE KillSends(h)
    <3>1. state[h] = "parser" /\ pc[h] \in {"kill", "kill all"}
      BY <2>9 DEF KillSends, At
    <3>2. CASE Goto(h, "answer")
      BY <2>1, <3>1, <3>2 DEF Labels
    <3>3. CASE UNCHANGED pc
      <4>1. Goto(h, pc[h])
        BY <3>1, <3>3 DEF Goto, TypeInv, TypeOK
      <4> QED  BY <2>1, <3>1, <4>1 DEF Labels
    <3> QED  BY <2>9, <3>2, <3>3 DEF KillSends, Reply
  <2>10. CASE Answer(h)
    BY <2>10 DEF Answer, Write, Waiting
  <2>11. CASE ListStep(h)
    <3>1. ~Listing(h)
      BY <2>11 DEF ListStep, Write, Waiting
    <3>2. pc[h] = "list" /\ pieces[h] # 0
      BY <2>11, <3>1 DEF ListStep, Listing, At
    <3>3. Waiting
      BY <2>11, <3>1 DEF ListStep, Waiting
    <3> QED  BY <3>2, <3>3 DEF Hang, Fine
  <2>12. CASE RunReturns(h)
    <3>1. CASE q = h
      BY <2>12, <3>1, RunReturnsEffect DEF Fine
    <3>2. CASE q # h
      <4>1. UNCHANGED <<pc[q], buffer[q], pieces[q]>>
        BY <2>12, <3>2, RunReturnsEffect
      <4> QED  BY <1>1, <2>12, <4>1 DEF RunReturns, pipes
    <3> QED  BY <3>1, <3>2
  <2>13. CASE KillErrors(h) \/ BrokenPipe(h) \/ NoWord(h) \/ RunsAgainFails(h)
    BY <1>2, <2>13 DEF KillErrors, BrokenPipe, NoWord, RunsAgainFails
  <2>14. CASE AnswersAgain(h)
    BY <2>1, <2>14 DEF AnswersAgain, EndOfFile, At, Reply, Labels
  <2>15. "bare run" \in Commands
    BY DEF Commands
  <2> QED
    BY <1>4, <2>3, <2>4, <2>5, <2>6, <2>7, <2>8, <2>9, <2>10, <2>11, <2>12, <2>13,
       <2>14, <2>15 DEF Turn
<1>5. ASSUME NEW h \in Pids, Interrupt(h)
      PROVE  Fine(q)'
  <2>1. CASE SigchldArrives(h) \/ ReapReturns(h)
    BY <1>1, <2>1 DEF SigchldArrives, ReapReturns, memory, pipes
  <2>2. ASSUME NEW c \in Pids, Reap(h, c)
        PROVE  Fine(q)'
    BY <1>1, <2>2 DEF Reap, pipes
  <2>3. ASSUME NEW c \in Pids, ReapCrashes(h, c)
        PROVE  Fine(q)'
    BY <1>2, <2>3 DEF ReapCrashes
  <2> QED  BY <1>5, <2>1, <2>2, <2>3 DEF Interrupt
<1>6. ASSUME NEW c \in Pids, Exec(c)
      PROVE  Fine(q)'
  <2>1. CASE ExecSucceeds(c)
    BY <1>1, <2>1 DEF ExecSucceeds, pipes
  <2>2. CASE ExecFails(c)
    <3>1. CASE q = c
      BY <2>2, <3>1, ExecFailsEffect DEF Fine
    <3>2. CASE q # c
      <4>1. UNCHANGED <<pc[q], buffer[q], pieces[q]>>
        BY <2>2, <3>2, ExecFailsEffect
      <4> QED  BY <1>1, <2>2, <4>1 DEF ExecFails, pipes
    <3> QED  BY <3>1, <3>2
  <2>3. CASE NoArgument(c)
    BY <1>2, <2>3 DEF NoArgument
  <2> QED  BY <1>6, <2>1, <2>2, <2>3 DEF Exec
<1>7. ASSUME NEW p \in Pids, ProgramEnds(p) \/ WindowEnds
      PROVE  Fine(q)'
  BY <1>2, <1>7, ShellAssumption DEF ProgramEnds, WindowEnds
<1>8. ASSUME NEW command \in Commands, Types(command)
      PROVE  Fine(q)'
  <2>1. Append(lines, command) # <<>>
    BY DEF TypeInv
  <2> QED  BY <1>8, <2>1 DEF Types, Waiting
<1>9. CASE TypesNothing \/ ClientReads \/ ClientEnds
  BY <1>9 DEF TypesNothing, ClientReads, ClientEnds, Waiting
<1> QED
  BY <1>3, <1>4, <1>5, <1>6, <1>7, <1>8, <1>9 DEF Next, Spins, Stopped

\* The client that is gone stays so, and a history of two writes is kept.
LEMMA HistoryKept ==
    ASSUME [Next]_vars
    PROVE  (client = "gone" => client' = "gone") /\ (many => many')
<1>1. CASE UNCHANGED vars
  BY <1>1 DEF vars, pipes
<1>2. ASSUME NEW p \in Pids, Ends(p)
      PROVE  UNCHANGED <<client, many>>
  BY <1>2 DEF Ends, pipes
<1>3. ASSUME NEW h \in Pids, Turn(h)
      PROVE  client' = client /\ (many' = many \/ many' = (many \/ pieces[h] > 1)
                                 \/ many' = (many \/ pieces[h] > 0))
  <2>1. CASE ExitCommand(h) \/ OtherCommand(h) \/ ListAll(h) \/ List(h) \/ RunFails(h)
             \/ KillCrashes(h) \/ KillSends(h)
    <3>1. UNCHANGED <<client, many>>
      BY <2>1 DEF ExitCommand, OtherCommand, Other, OneWrite, ListAll, List, RunFails,
                  KillCrashes, KillSends, Obeys, pipes
    <3> QED  BY <3>1
  <2>2. CASE \/ \E c \in Pids, command \in Commands : RunForks(h, c, command)
             \/ \E p \in Pids : KillPid(h, p)
             \/ \E same \in Namesakes(table[h]) : KillName(h, same) \/ KillAll(h, same)
             \/ \E c \in Pids : RunsAgain(h, c)
    <3>1. UNCHANGED <<client, many>>
      BY <2>2 DEF RunForks, KillPid, KillName, KillAll, RunsAgain, Obeys, pipes
    <3> QED  BY <3>1
  <2>3. CASE Answer(h) \/ ListStep(h)
    BY <2>3 DEF Answer, ListStep
  <2>4. CASE RunReturns(h) \/ AnswersAgain(h)
    <3>1. UNCHANGED <<client, many>>
      BY <2>4 DEF RunReturns, AnswersAgain, pipes
    <3> QED  BY <3>1
  <2>5. CASE KillErrors(h) \/ BrokenPipe(h) \/ NoWord(h) \/ RunsAgainFails(h)
    <3>1. UNCHANGED <<client, many>>
      BY <1>2, <2>5 DEF KillErrors, BrokenPipe, NoWord, RunsAgainFails
    <3> QED  BY <3>1
  <2> QED  BY <1>3, <2>1, <2>2, <2>3, <2>4, <2>5 DEF Turn
<1>4. ASSUME NEW h \in Pids, Interrupt(h)
      PROVE  UNCHANGED <<client, many>>
  BY <1>2, <1>4 DEF Interrupt, SigchldArrives, ReapReturns, Reap, ReapCrashes, pipes
<1>5. ASSUME NEW c \in Pids, Exec(c)
      PROVE  UNCHANGED <<client, many>>
  BY <1>2, <1>5 DEF Exec, ExecSucceeds, ExecFails, NoArgument, pipes
<1>6. ASSUME NEW p \in Pids, ProgramEnds(p)
      PROVE  UNCHANGED <<client, many>>
  BY <1>2, <1>6 DEF ProgramEnds
<1>7. CASE WindowEnds
  <2>1. UNCHANGED <<client, many>>
    BY <1>2, <1>7, ShellAssumption DEF WindowEnds
  <2> QED  BY <2>1
<1>8. CASE TypesNothing \/ ClientReads \/ ClientEnds
           \/ \E command \in Commands : Types(command)
  BY <1>8 DEF TypesNothing, ClientReads, ClientEnds, Types
<1>9. ASSUME NEW p \in Pids, Turn(p) \/ Spins(p) \/ Interrupt(p) \/ Exec(p) \/ ProgramEnds(p)
      PROVE  client' = client /\ (many => many')
  <2>1. CASE Turn(p)
    BY <1>3, <2>1
  <2>2. CASE Spins(p)
    BY <2>2 DEF Spins, vars, pipes
  <2>3. CASE Interrupt(p)
    BY <1>4, <2>3
  <2>4. CASE Exec(p)
    BY <1>5, <2>4
  <2>5. CASE ProgramEnds(p)
    BY <1>6, <2>5
  <2> QED  BY <1>9, <2>1, <2>2, <2>3, <2>4, <2>5
<1>10. CASE Stopped
  BY <1>1, <1>10 DEF Stopped
<1> QED
  BY <1>1, <1>7, <1>8, <1>9, <1>10 DEF Next

\* What is orderly has always been.
LEMMA OrderlyBefore ==
    ASSUME TypeInv, Phases, Family, ReaperKnows, [Next]_vars, Orderly'
    PROVE  Orderly
<1>1. client # "gone" /\ ~many
  BY HistoryKept DEF Orderly
<1>2. ASSUME /\ \A q \in copies : q \in copies'
             /\ \A q \in copies : state'[q] = "parser" => state[q] = "parser"
             /\ \A q \in Pids : Serves(q)' => \E r \in Pids : Serves(r)
      PROVE  Orderly
  BY <1>1, <1>2 DEF Orderly
<1>3. \A q \in copies : q \in Pids /\ state[q] # "child"
  BY Kin DEF Family
<1>4. CASE Calm
  BY <1>2, <1>4 DEF Calm, Serves
<1>5. ASSUME NEW p \in Pids, Dies(p)
      PROVE  Orderly
  BY <1>2, <1>3, <1>5, ExitEffect DEF Dies, Serves
<1>6. ASSUME NEW h \in Pids, NEW c \in Pids, NEW command,
             At(h, "read"), Forks(h, c, command), UNCHANGED copies
      PROVE  Orderly
  <2>1. Serves(h) /\ \A q \in Pids : state'[q] = "parser" => state[q] = "parser"
    BY <1>6, ForksEffect DEF Serves
  <2> QED  BY <1>2, <1>3, <1>6, <2>1
<1>7. ASSUME NEW h \in Pids, RunReturns(h)
      PROVE  Orderly
  BY <1>2, <1>7, RunReturnsEffect DEF Serves
<1>8. ASSUME NEW c \in Pids, ExecSucceeds(c)
      PROVE  Orderly
  BY <1>2, <1>3, <1>8, ExecSucceedsEffect DEF Serves
<1>9. ASSUME NEW c \in Pids, ExecFails(c)
      PROVE  Orderly
  <2>1. /\ state[c] = "child" /\ copies' = copies \cup {c}
        /\ \A q \in Pids : state'[q] = IF q = c THEN "parser" ELSE state[q]
    BY <1>9, ExecFailsEffect
  <2> QED  BY <1>2, <1>3, <2>1 DEF Serves
<1>10. ASSUME NEW h \in Pids, NEW c \in Pids, Reap(h, c)
      PROVE  Orderly
  BY <1>2, <1>3, <1>10, ReapEffect DEF Serves
<1> QED  BY <1>4, <1>5, <1>6, <1>7, <1>8, <1>9, <1>10, StepKinds

\* Every step keeps one thing at most under way for the client.
LEMMA TurnsStep ==
    ASSUME TypeInv, Phases, Family, InFlight, ReaperKnows, Chained, Turns, [Next]_vars
    PROVE  Turns'
<1> SUFFICES ASSUME Orderly'
             PROVE  OneUnderWay'
  BY DEF Turns
<1>1. Orderly /\ OneUnderWay
  BY OrderlyBefore DEF Turns
<1>2. ASSUME UNCHANGED <<client, unread, lines>>, Owing' => Owing
      PROVE  OneUnderWay'
  BY <1>1, <1>2 DEF OneUnderWay
<1>3. ASSUME lines # <<>>, lines' = <<>>, UNCHANGED <<client, unread>>
      PROVE  OneUnderWay'
  BY <1>1, <1>3 DEF OneUnderWay
<1>4. ASSUME UNCHANGED <<client, unread, lines>>,
             \A q \in Pids : /\ Serves(q)' <=> Serves(q)
                             /\ state'[q] = "child" => state[q] = "child",
             UNCHANGED <<pc, child, pieces>>
      PROVE  OneUnderWay'
  <2>1. ASSUME NEW q \in Pids, Owes(q)'
        PROVE  Owes(q)
    <3>1. CASE pc[q] = "wait"
      <4>1. child[q] \in Pids
        BY <3>1 DEF Phases
      <4> QED  BY <1>4, <2>1, <3>1, <4>1 DEF Owes, Serves
    <3>2. CASE pc[q] # "wait"
      BY <1>4, <2>1, <3>2 DEF Owes
    <3> QED  BY <3>1, <3>2
  <2> QED  BY <1>2, <1>4, <2>1 DEF Owing
<1>5. ASSUME NEW p \in Pids, Ends(p), state[p] \in {"parser", "child", "program", "window"}
      PROVE  OneUnderWay'
  <2>1. UNCHANGED <<client, unread, lines>>
    BY <1>5 DEF Ends, pipes
  <2>2. CASE state[p] = "child"
    BY <1>2, <2>1, <2>2 DEF Owing, Owes
  <2>3. CASE state[p] # "child"
    <3>1. /\ state'[p] \in {"zombie", "gone"} /\ pc'[p] = "none" /\ UNCHANGED copies
          /\ \A q \in Pids \ {p} : /\ pc'[q] = pc[q] /\ child'[q] = child[q]
                                   /\ pieces'[q] = pieces[q]
          /\ \A q \in Pids : /\ state'[q] = "parser" <=> state[q] = "parser" /\ q # p
                             /\ state'[q] = "child" <=> state[q] = "child" /\ q # p
      BY <1>5, ExitEffect DEF Ends
    <3>2. state[p] = "parser" => p = Root
      BY <3>1 DEF Family, Orderly
    <3>3. ASSUME NEW q \in Pids, Owes(q)'
          PROVE  Owes(q)
      <4>1. q # p
        BY <3>1, <3>3 DEF Owes
      <4>2. CASE pc[q] = "wait"
        <5>1. child[q] \in Pids /\ parent[child[q]] = q /\ ~Serves(child[q])'
          BY <3>1, <3>3, <4>1, <4>2 DEF Owes, Phases, InFlight, Serves
        <5>2. child[q] # p \/ ~Serves(p)
          BY <2>3, <3>2, <5>1, ShellAssumption DEF Family, Serves
        <5>3. ~Serves(child[q])
          <6>1. CASE child[q] = p
            BY <5>2, <6>1
          <6>2. CASE child[q] # p
            <7>1. state'[child'[q]] \notin {"child", "parser"}
              BY <5>1 DEF Serves
            <7>2. state'[child[q]] \notin {"child", "parser"}
              BY <3>1, <4>1, <7>1
            <7> QED  BY <3>1, <5>1, <6>2, <7>2 DEF Serves
          <6> QED  BY <6>1, <6>2
        <5> QED  BY <4>2, <5>3 DEF Owes
      <4>3. CASE pc[q] # "wait"
        BY <3>1, <3>3, <4>1, <4>3 DEF Owes
      <4> QED  BY <4>2, <4>3
    <3> QED  BY <1>2, <2>1, <3>3 DEF Owing
  <2> QED  BY <2>2, <2>3
<1>6. CASE UNCHANGED vars
  BY <1>4, <1>6 DEF vars, kernel, memory, pipes, Serves
<1>7. WindowOpen
  BY <1>1 DEF Orderly, WindowOpen
<1>8. ASSUME NEW h \in Pids, Turn(h)
      PROVE  OneUnderWay'
  <2>1. CASE \/ ExitCommand(h) \/ OtherCommand(h) \/ ListAll(h) \/ List(h) \/ RunFails(h)
             \/ KillCrashes(h)
    BY <1>3, <2>1 DEF ExitCommand, OtherCommand, Other, OneWrite, ListAll, List, RunFails,
                      KillCrashes, Obeys
  <2>2. CASE \/ \E c \in Pids, command \in Commands : RunForks(h, c, command)
             \/ \E p \in Pids : KillPid(h, p)
             \/ \E same \in Namesakes(table[h]) : KillName(h, same) \/ KillAll(h, same)
    BY <1>3, <2>2 DEF RunForks, KillPid, KillName, KillAll, Obeys
  <2>3. CASE KillSends(h)
    <3>1. Owes(h) /\ UNCHANGED <<client, unread, lines>>
      BY <2>3 DEF KillSends, At, Owes, pipes
    <3> QED  BY <1>2, <3>1 DEF Owing
  <2>4. CASE KillErrors(h)
    BY <1>5, <2>4 DEF KillErrors, At
  <2>5. ASSUME Serves(h), ~Held(h), UNCHANGED <<state, child>>,
               \A q \in Pids \ {h} : pc'[q] = pc[q] /\ pieces'[q] = pieces[q]
        PROVE  \A q \in Pids \ {h} : ~Owes(q)'
    <3> SUFFICES ASSUME NEW q \in Pids, q # h
                 PROVE  ~Owes(q)'
      OBVIOUS
    <3>1. ~Owes(q)
      BY <2>5, OthersHeld
    <3>2. /\ state'[q] = state[q] /\ pc'[q] = pc[q] /\ pieces'[q] = pieces[q]
          /\ child'[q] = child[q] /\ state'[child[q]] = state[child[q]]
      BY <2>5
    <3> QED  BY <3>1, <3>2 DEF Owes, Serves
  <2>6. CASE Answer(h)
    <3>1. state[h] = "parser" /\ pc[h] = "answer" /\ Owes(h) /\ Serves(h) /\ ~Held(h)
      BY <2>6 DEF Answer, At, Owes, Serves, Held
    <3>2. lines = <<>> /\ client \notin {"prompt", "idle"}
      BY <1>1, <3>1 DEF OneUnderWay, Owing
    <3>3. pieces[h] = 1
      <4>1. ~many'
        BY DEF Orderly
      <4>2. ~(pieces[h] > 1) /\ pieces[h] > 0 /\ pieces[h] \in Nat
        BY <2>6, <3>1, <4>1 DEF Answer, Phases, TypeInv, TypeOK
      <4> QED  BY <4>2
    <3>4. pc' = [pc EXCEPT ![h] = "read"]
      BY <2>6, <3>3 DEF Answer, Goto
    <3>5. /\ UNCHANGED <<state, child, client, lines>> /\ pc'[h] = "read"
          /\ \A q \in Pids \ {h} : pc'[q] = pc[q] /\ pieces'[q] = pieces[q]
      BY <2>6, <3>4 DEF Answer, TypeInv, TypeOK, kernel
    <3>6. ~Owes(h)'
      BY <3>1, <3>5 DEF Owes
    <3>7. ~Owing'
      BY <2>5, <3>1, <3>5, <3>6 DEF Owing
    <3> QED  BY <3>2, <3>5, <3>7 DEF OneUnderWay
  <2>7. CASE ListStep(h)
    <3>1. /\ state[h] = "parser" /\ pc[h] = "list" /\ Serves(h) /\ ~Held(h)
          /\ UNCHANGED <<state, child, client, lines>>
      BY <2>7 DEF ListStep, At, Serves, Held, kernel
    <3>2. CASE Listing(h)
      <4>1. /\ pieces' = [pieces EXCEPT ![h] = pieces[h] + 1] /\ UNCHANGED pc
            /\ pieces[h] \in Nat
        BY <2>7, <3>2 DEF ListStep, TypeInv, TypeOK
      <4>2. pieces[h] = 0
        <5>1. ~many' /\ many' = (many \/ pieces[h] > 0)
          BY <2>7, <3>2 DEF ListStep, Orderly
        <5>2. ~(pieces[h] > 0)
          BY <5>1
        <5> QED  BY <4>1, <5>2
      <4>3. Owes(h)
        BY <3>1, <4>2 DEF Owes
      <4>4. lines = <<>> /\ client \notin {"prompt", "idle"}
        BY <1>1, <4>3 DEF OneUnderWay, Owing
      <4>5. /\ pieces'[h] = 1
            /\ \A q \in Pids \ {h} : pc'[q] = pc[q] /\ pieces'[q] = pieces[q]
        <5>1. pieces'[h] = pieces[h] + 1
          BY <4>1 DEF TypeInv, TypeOK
        <5>2. \A q \in Pids \ {h} : pc'[q] = pc[q] /\ pieces'[q] = pieces[q]
          BY <4>1 DEF TypeInv, TypeOK
        <5> QED  BY <4>2, <5>1, <5>2
      <4>6. ~Owes(h)'
        <5>1. state'[h] = "parser" /\ pc'[h] = "list" /\ pieces'[h] # 0
          BY <3>1, <4>1, <4>5
        <5> QED  BY <5>1 DEF Owes
      <4>7. ~Owing'
        BY <2>5, <3>1, <4>5, <4>6 DEF Owing
      <4> QED  BY <3>1, <4>4, <4>7 DEF OneUnderWay
    <3>3. CASE ~Listing(h)
      <4>1. /\ UNCHANGED unread
            /\ pc' = [pc EXCEPT ![h] = "read"]
            /\ pieces' = [pieces EXCEPT ![h] = 0]
        BY <2>7, <3>3 DEF ListStep, Goto
      <4>2. /\ pc'[h] = "read"
            /\ \A q \in Pids \ {h} : pc'[q] = pc[q] /\ pieces'[q] = pieces[q]
        BY <4>1 DEF TypeInv, TypeOK
      <4>3. ~Owes(h)'
        BY <3>1, <4>2 DEF Owes
      <4>4. ~Owing'
        BY <2>5, <3>1, <4>2, <4>3 DEF Owing
      <4> QED  BY <1>2, <3>1, <4>1, <4>4
    <3> QED  BY <3>2, <3>3
  <2>8. CASE RunReturns(h)
    <3>1. Owes(h) /\ UNCHANGED <<client, unread, lines>>
      BY <2>8, RunReturnsEffect DEF RunReturns, Owes, pipes
    <3> QED  BY <1>2, <3>1 DEF Owing
  <2>9. ~BrokenPipe(h) /\ ~EndOfFile(h)
    BY <1>7 DEF BrokenPipe, EndOfFile
  <2>10. CASE NoWord(h) \/ RunsAgainFails(h) \/ AnswersAgain(h)
              \/ \E c \in Pids : RunsAgain(h, c)
    BY <2>9, <2>10 DEF NoWord, RunsAgainFails, AnswersAgain, RunsAgain
  <2> QED
    BY <1>8, <2>1, <2>2, <2>3, <2>4, <2>6, <2>7, <2>8, <2>9, <2>10 DEF Turn
<1>9. ASSUME NEW h \in Pids, Interrupt(h)
      PROVE  OneUnderWay'
  <2>1. CASE SigchldArrives(h) \/ ReapReturns(h)
    BY <1>4, <2>1 DEF SigchldArrives, ReapReturns, memory, pipes, Serves
  <2>2. ASSUME NEW c \in Pids, Reap(h, c)
        PROVE  OneUnderWay'
    <3>1. \A q \in Pids : /\ Serves(q)' <=> Serves(q)
                          /\ state'[q] = "child" => state[q] = "child"
      BY <2>2, ReapEffect DEF Serves
    <3>2. UNCHANGED <<client, unread, lines, pc, child, pieces>>
      BY <2>2 DEF Reap, pipes
    <3> QED  BY <1>4, <3>1, <3>2
  <2>3. ASSUME NEW c \in Pids, ReapCrashes(h, c)
        PROVE  OneUnderWay'
    <3>1. Ends(h) /\ state[h] = "parser"
      BY <2>3 DEF ReapCrashes, Phases
    <3> QED  BY <1>5, <3>1
  <2> QED  BY <1>9, <2>1, <2>2, <2>3 DEF Interrupt
<1>10. ASSUME NEW c \in Pids, Exec(c)
      PROVE  OneUnderWay'
  <2>1. Owes(c) /\ UNCHANGED <<client, unread, lines>>
    BY <1>10 DEF Exec, ExecSucceeds, ExecFails, NoArgument, Ends, Owes, pipes
  <2> QED  BY <1>2, <2>1 DEF Owing
<1>11. ASSUME NEW p \in Pids, ProgramEnds(p)
       PROVE  OneUnderWay'
  BY <1>5, <1>11 DEF ProgramEnds
<1>12. ASSUME UNCHANGED <<kernel, memory>>
       PROVE  Owing' = Owing
  BY <1>12 DEF kernel, memory, Owing, Owes, Serves
<1>13. ASSUME NEW command \in Commands, Types(command)
       PROVE  OneUnderWay'
  <2>1. client = "prompt" /\ ~unread /\ ~Owing /\ UNCHANGED <<kernel, memory, unread>>
    BY <1>1, <1>13 DEF Types, OneUnderWay
  <2>2. client' = "wait"
    BY <1>13 DEF Types, Orderly
  <2> QED  BY <1>12, <2>1, <2>2 DEF OneUnderWay
<1>14. CASE TypesNothing
  <2>1. /\ client = "prompt" /\ client' = "idle" /\ UNCHANGED <<kernel, memory>>
        /\ UNCHANGED <<lines, unread>>
    BY <1>14 DEF TypesNothing
  <2> QED  BY <1>1, <1>12, <2>1 DEF OneUnderWay
<1>15. CASE ClientReads
  <2>1. Inheritors # {}
    BY <1>1 DEF Orderly, Serves, Inheritors
  <2>2. unread /\ ~unread' /\ UNCHANGED <<kernel, memory, lines>>
    BY <1>15, <2>1 DEF ClientReads
  <2>3. lines = <<>> /\ ~Owing
    BY <1>1, <2>2 DEF OneUnderWay
  <2> QED  BY <1>12, <2>2, <2>3 DEF OneUnderWay
<1>16. CASE ClientEnds
  BY <1>16 DEF ClientEnds, Orderly
<1>17. CASE WindowEnds
  BY <1>5, <1>17, ShellAssumption DEF WindowEnds
<1> QED
  BY <1>6, <1>8, <1>9, <1>10, <1>11, <1>13, <1>14, <1>15, <1>16, <1>17
  DEF Next, Spins, Stopped

-----------------------------------------------------------------------------
(* The theorems.                                                           *)

\* The shell as the user starts it.
LEMMA IInvInit == Init => IInv
<1> SUFFICES ASSUME Init
             PROVE  IInv
  OBVIOUS
<1> USE ShellAssumption
<1>1. TypeInv
  <2>1. <<>> \in Seq(Entry(Pids, {"name"})) /\ <<>> \in Seq(Commands)
    BY EmptySequence
  <2>2. /\ state \in [Pids -> States] /\ parent \in [Pids -> Pids \cup {Outside}]
        /\ pc \in [Pids -> Labels] /\ child \in [Pids -> Pids \cup {Outside}]
    BY DEF Init, States, Labels
  <2>3. /\ sigchld \in [Pids -> BOOLEAN] /\ reaping \in [Pids -> BOOLEAN]
        /\ table \in [Pids -> Seq(Entry(Pids, {"name"}))]
        /\ buffer \in [Pids -> Commands \cup {"none"}]
        /\ pieces \in [Pids -> Nat] /\ cursor \in [Pids -> SUBSET Nat]
    BY <2>1 DEF Init
  <2>4. \A h \in Pids : cursor[h] = {} /\ pc[h] \notin {"kill", "kill all"}
    BY DEF Init
  <2>5. /\ client = "prompt" /\ lines = <<>> /\ unread = FALSE /\ typed = 0
        /\ copies = {} /\ sigterm = {} /\ many = FALSE
    BY DEF Init
  <2>6. \A i \in DOMAIN lines : lines[i] \in Commands
    BY <2>5
  <2>7. typed \in 0 .. MaxLines
    BY <2>5
  <2> QED  BY <2>1, <2>2, <2>3, <2>4, <2>5, <2>6, <2>7 DEF TypeInv, TypeOK
<1>2. \A p \in Pids : /\ state[p] = IF p = Root THEN "parser"
                                    ELSE IF p = Window THEN "window" ELSE "free"
                      /\ parent[p] = IF p = Window THEN Root ELSE Outside
                      /\ pc[p] = IF p = Root THEN "read" ELSE "none"
                      /\ ~reaping[p] /\ pieces[p] = 0
                      /\ table[p] = <<>>
  BY DEF Init
<1>3. client = "prompt" /\ lines = <<>> /\ ~unread /\ copies = {}
  BY DEF Init
<1>4. Phases
  BY <1>2 DEF Phases
<1>5. Family
  BY <1>2, <1>3 DEF Family
<1>6. Started
  BY <1>2 DEF Started, Jobs
<1>7. InFlight
  BY <1>2 DEF InFlight
<1>8. ReaperKnows
  BY <1>2 DEF ReaperKnows
<1>9. Chained
  BY <1>2 DEF Chained, Serves
<1>10. Hang
  BY <1>3 DEF Hang, Waiting
<1>11. Turns
  <2>1. ~Owing
    BY <1>2 DEF Owing, Owes
  <2> QED  BY <1>3, <2>1 DEF Turns, OneUnderWay
<1> QED  BY <1>1, <1>4, <1>5, <1>6, <1>7, <1>8, <1>9, <1>10, <1>11 DEF IInv

\* Every step keeps the inductive invariant.
LEMMA IInvStep ==
    ASSUME IInv, [Next]_vars
    PROVE  IInv'
<1>1. /\ TypeInv /\ Phases /\ Family /\ Started /\ InFlight /\ ReaperKnows
      /\ Chained /\ Hang /\ Turns
  BY DEF IInv
<1>2. TypeInv' /\ Phases'
  BY <1>1, TypeStep
<1>3. Family' /\ Started' /\ InFlight' /\ ReaperKnows'
  BY <1>1, FamilyStep, StartedStep, InFlightStep, ReaperKnowsStep
<1>4. Chained'
  BY <1>1, ChainedStep
<1>5. Hang'
  BY <1>1, HangStep
<1>6. Turns'
  BY <1>1, TurnsStep
<1> QED  BY <1>2, <1>3, <1>4, <1>5, <1>6 DEF IInv

\* The inductive invariant holds in every state of the shell.
THEOREM Invariance == Spec => []IInv
<1>1. IInv /\ [Next]_vars => IInv'
  BY IInvStep
<1> QED  BY IInvInit, <1>1, PTL DEF Spec

\* The shell's variables keep their types, and a kill loop of parser.c holds on
\* to entries of the table exactly while it runs.
THEOREM ShellTypeCorrect == Spec => []TypeOK
<1>1. IInv => TypeOK
  BY DEF IInv, TypeInv
<1> QED  BY Invariance, <1>1, PTL

\* However many parsers failed runs have left, one at most reads lines and
\* answers.
THEOREM OneParserActive == Spec => []OneActiveParser
<1>1. IInv => OneActiveParser
  BY DEF IInv, Chained, Serves, Held, OneActiveParser
<1> QED  BY Invariance, <1>1, PTL

\* sigcld_handler() finds every child it reaps in the table, but for the window
\* and the child that run() is starting.
THEOREM ReaperKnowsChildren == Spec => []ReaperKnows
<1>1. IInv => ReaperKnows
  BY DEF IInv
<1> QED  BY Invariance, <1>1, PTL

\* While parsers run and no answer took two writes, the client at its prompt
\* has left nothing in either pipe.
THEOREM AnswersInStep == Spec => []InStep
<1>1. IInv => InStep
  BY DEF IInv, Turns, Orderly, OneUnderWay, Serves, InStep
<1> QED  BY Invariance, <1>1, PTL

\* Client and parser wait for each other only after a blank line.
THEOREM HangsOnlyOnBlank == Spec => []OnlyBlankHangs
<1>1. IInv => OnlyBlankHangs
  BY DEF IInv, Hang, Waiting, Fine, MutualWait, At, OnlyBlankHangs
<1> QED  BY Invariance, <1>1, PTL
=============================================================================
