--------------------------- MODULE WorkersProofs ---------------------------
(***************************************************************************)
(* Theorems about Workers, for every set of lines and any number of them.  *)
(***************************************************************************)
EXTENDS Workers, Extremes, SequenceTheorems, FiniteSetTheorems, TLAPS

-----------------------------------------------------------------------------
(* The end of the connection.                                              *)

\* While killall() runs, the socket is closed or the client has reset the
\* connection: what a late write needs to end the process is a reset.
SweepInv ==
    /\ socket \in BOOLEAN
    /\ main = "sweep" => socket = FALSE \/ peer = "aborted"

\* A lost write does not undo that the client aborted the connection.
LEMMA LostKeepsAborted ==
    ASSUME Lost, peer = "aborted" PROVE peer' = "aborted"
BY Zenon DEF Lost

\* The socket is open and killall() does not run at the start.
LEMMA SweepInvInit == Init => SweepInv
BY DEF Init, SweepInv

\* Every step keeps SweepInv.
LEMMA SweepInvNext == SweepInv /\ [Next]_vars => SweepInv'
<1> SUFFICES ASSUME SweepInv, [Next]_vars PROVE SweepInv'
  OBVIOUS
<1> USE DEF SweepInv
<1>1. ASSUME NEW line \in Lines, Send(line) PROVE SweepInv'
  BY <1>1 DEF Send
<1>2. ASSUME NEW how \in {"closed", "reset"}, Close(how) PROVE SweepInv'
  BY <1>2 DEF Close
<1>3. ASSUME NEW n \in 1 .. Len(inbox), Read(n) PROVE SweepInv'
  BY <1>3 DEF Read
<1>4. CASE MainWrites
  BY <1>4 DEF MainWrites, Dies
<1>5. CASE Answered
  BY <1>5 DEF Answered
<1>6. CASE ReadEnds
  BY <1>6 DEF ReadEnds
<1>7. CASE CloseSocket
  BY <1>7 DEF CloseSocket
<1>8. CASE Sweep
  BY <1>8 DEF Sweep
<1>9. CASE Exit
  BY <1>9 DEF Exit
<1>10. ASSUME NEW no \in workers, WorkerWrites(no) PROVE SweepInv'
  <2>1. CASE Sigpipe
    BY <1>10, <2>1 DEF WorkerWrites, Dies
  <2>2. CASE ~Sigpipe /\ Lost
    BY <1>10, <2>2, LostKeepsAborted DEF WorkerWrites
  <2>3. CASE ~Sigpipe /\ peer' = peer
    BY <1>10, <2>3 DEF WorkerWrites
  <2> QED
    BY <1>10, <2>1, <2>2, <2>3 DEF WorkerWrites, Write
<1>11. CASE UNCHANGED vars
  BY <1>11 DEF vars
<1>12. ASSUME NEW n \in 1 .. Len(inbox), JoinFails(n) PROVE SweepInv'
  BY <1>12 DEF JoinFails, Fails
<1>13. CASE KillFails
  BY <1>13 DEF KillFails, Fails
<1>14. ASSUME NEW no \in workers, WorkerCrashes(no) PROVE SweepInv'
  BY <1>14 DEF WorkerCrashes, Fails
<1>15. ASSUME NEW p \in 1 .. MaxPrograms, ProgramReaped(p) PROVE SweepInv'
  BY <1>15 DEF ProgramReaped
<1> QED
  BY <1>1, <1>2, <1>3, <1>4, <1>5, <1>6, <1>7, <1>8, <1>9, <1>10, <1>11, <1>12,
     <1>13, <1>14, <1>15 DEF Next, Main, Over, Spins

\* killall() is cut short by a late answer only after a reset (server.c:93-108).
THEOREM SweepIsCompleted == Spec => SweepCompletes
<1>1. SweepInv /\ [Next]_vars => [SweepCutShort => peer = "aborted"]_vars
  <2> SUFFICES ASSUME SweepInv, Next, SweepCutShort PROVE peer = "aborted"
    OBVIOUS
  <2> USE DEF SweepCutShort
  <2>1. CASE \E no \in workers : WorkerWrites(no)
    BY <2>1 DEF WorkerWrites, Sigpipe, SweepInv
  <2>2. CASE Exit
    <3>1. unswept = 0 /\ unswept > 0
      BY <2>2 DEF Exit
    <3> QED
      BY <3>1
  <2> QED
    BY <2>1, <2>2 DEF Next, Main, Over, Spins, Send, Close, Read, JoinFails, MainWrites,
       KillFails, Answered, ReadEnds, CloseSocket, Sweep, WorkerCrashes, ProgramReaped, Fails, vars
<1> QED
  BY <1>1, SweepInvInit, SweepInvNext, PTL DEF Spec, SweepCompletes

-----------------------------------------------------------------------------
(* The order of the answers.                                               *)

IsSequence(s) == \E S : s \in Seq(S)

\* What Append does to a sequence of anything.
LEMMA AppendFacts ==
    ASSUME NEW s, IsSequence(s), NEW e
    PROVE  /\ IsSequence(Append(s, e))
           /\ Len(s) \in Nat
           /\ DOMAIN s = 1 .. Len(s)
           /\ Len(Append(s, e)) = Len(s) + 1
           /\ DOMAIN Append(s, e) = 1 .. Len(s) + 1
           /\ \A i \in 1 .. Len(s) : Append(s, e)[i] = s[i]
           /\ Append(s, e)[Len(s) + 1] = e
<1>1. PICK S : s \in Seq(S)
  BY DEF IsSequence
<1>2. s \in Seq(S \cup {e})
  BY <1>1, SeqMonotonic
<1>3. Append(s, e) \in Seq(S \cup {e})
  BY <1>2
<1>4. /\ Len(s) \in Nat
      /\ DOMAIN s = 1 .. Len(s)
      /\ Len(Append(s, e)) = Len(s) + 1
      /\ \A i \in 1 .. Len(s) : Append(s, e)[i] = s[i]
      /\ Append(s, e)[Len(s) + 1] = e
  BY <1>2
<1>5. DOMAIN Append(s, e) = 1 .. Len(s) + 1
  BY <1>3, <1>4, LenProperties
<1> QED
  BY <1>3, <1>4, <1>5 DEF IsSequence

Threads == {"add", "mul", "sub", "div"}
ManyWrites == {"print", "list", "kill"}

\* An answer belongs to a command; a thread that runs has an arithmetic command
\* and has not answered it; main's own command is not one of those, and is
\* answered in one write unless it is one of those that take several.
Sequences == IsSequence(obeyed) /\ IsSequence(outbox)
Known     == \A i \in DOMAIN outbox : outbox[i].no \in 0 .. Len(obeyed)
AtWork    == \A no \in workers : no \in 1 .. Len(obeyed) /\ obeyed[no].op \in Threads
NotYet    == \A no \in workers : \A i \in DOMAIN outbox : outbox[i].no # no
MainsOwn  == main = "answer" => Len(obeyed) \notin workers
OneWrite  == (main = "answer" /\ pieces > 0) =>
                 \/ Len(obeyed) > 0 /\ obeyed[Len(obeyed)].op \in ManyWrites
                 \/ pieces = 1 /\ \A i \in DOMAIN outbox : outbox[i].no # Len(obeyed)

OrderInv == Sequences /\ Known /\ AtWork /\ NotYet /\ MainsOwn /\ OneWrite /\ OnlyThreadsOvertaken

\* Nothing is answered at the start.
LEMMA OrderInvInit == Init => OrderInv
<1> SUFFICES ASSUME Init PROVE OrderInv
  OBVIOUS
<1>1. obeyed = <<>> /\ outbox = <<>> /\ workers = {} /\ pieces = 1
  BY DEF Init
<1>2. IsSequence(obeyed) /\ IsSequence(outbox)
  BY <1>1, EmptySeq DEF IsSequence
<1>3. DOMAIN outbox = {}
  BY <1>1
<1> QED
  BY <1>1, <1>2, <1>3 DEF OrderInv, Sequences, Known, AtWork, NotYet, MainsOwn, OneWrite,
     OnlyThreadsOvertaken

\* A step that neither takes a command nor answers one.
LEMMA QuietStep ==
    ASSUME OrderInv, obeyed' = obeyed, outbox' = outbox, workers' \subseteq workers,
           main' = "answer" =>
               main = "answer" /\ (pieces' = pieces \/ (pieces > 0 /\ pieces' = pieces - 1))
    PROVE  OrderInv'
<1> USE DEF OrderInv
<1>1. Sequences'
  BY DEF Sequences
<1>2. Known'
  BY DEF Known
<1>3. AtWork'
  BY DEF AtWork
<1>4. NotYet'
  BY DEF NotYet
<1>5. MainsOwn'
  BY DEF MainsOwn
<1>6. OneWrite'
  BY DEF OneWrite
<1>7. OnlyThreadsOvertaken'
  BY DEF OnlyThreadsOvertaken
<1> QED
  BY <1>1, <1>2, <1>3, <1>4, <1>5, <1>6, <1>7

\* A command is taken; nothing in the outbox is about it yet.
LEMMA ReadStep ==
    ASSUME OrderInv, NEW n \in 1 .. Len(inbox), Read(n)
    PROVE  OrderInv'
<1> DEFINE no == Len(obeyed) + 1
<1>1. PICK command \in Merged(SubSeq(inbox, 1, n)) :
         /\ main = "read"
         /\ obeyed' = Append(obeyed, command)
         /\ outbox' = outbox
         /\ \/ InThread(command.op) /\ workers' = workers \cup {no} /\ main' = main
            \/ ~InThread(command.op) /\ workers' = workers /\ pieces' \in Pieces(command)
  BY DEF Read
<1>2. /\ IsSequence(obeyed')
      /\ Len(obeyed) \in Nat
      /\ Len(obeyed') = no
      /\ \A k \in 1 .. Len(obeyed) : obeyed'[k] = obeyed[k]
      /\ obeyed'[no] = command
  BY <1>1, AppendFacts DEF OrderInv, Sequences
<1>3. Sequences'
  BY <1>1, <1>2 DEF OrderInv, Sequences, IsSequence
<1>4. Known'
  BY <1>1, <1>2 DEF OrderInv, Known
<1>5. \A i \in DOMAIN outbox' : outbox'[i].no # no
  BY <1>1, <1>2 DEF OrderInv, Known
<1>6. AtWork'
  BY <1>1, <1>2 DEF OrderInv, AtWork, InThread, Threads
<1>7. NotYet'
  BY <1>1, <1>5 DEF OrderInv, NotYet
<1>8. MainsOwn'
  BY <1>1, <1>2 DEF OrderInv, AtWork, MainsOwn
<1>9. OneWrite'
  <2>1. CASE main' = "answer" /\ command.op \notin ManyWrites /\ pieces' > 0
    <3>1. pieces' \in IF command.op = "blank" THEN {0} ELSE {1}
      BY <1>1, <2>1 DEF Pieces, ManyWrites
    <3>2. pieces' = 1
      BY <2>1, <3>1
    <3> QED
      BY <1>2, <1>5, <3>2 DEF OneWrite
  <2>2. CASE main' = "answer" /\ command.op \in ManyWrites
    BY <1>2, <2>2 DEF OneWrite
  <2> QED
    BY <2>1, <2>2 DEF OneWrite
<1>10. OnlyThreadsOvertaken'
  BY <1>1, <1>2 DEF OrderInv, Known, OnlyThreadsOvertaken
<1> QED
  BY <1>3, <1>4, <1>6, <1>7, <1>8, <1>9, <1>10 DEF OrderInv

\* What an answer adds to the outbox.
LEMMA Added ==
    ASSUME OrderInv, NEW no, NEW text, outbox' = Append(outbox, [no |-> no, text |-> text])
    PROVE  /\ IsSequence(outbox')
           /\ Len(outbox) \in Nat
           /\ DOMAIN outbox = 1 .. Len(outbox)
           /\ DOMAIN outbox' = 1 .. Len(outbox) + 1
           /\ \A i \in 1 .. Len(outbox) : outbox'[i] = outbox[i]
           /\ outbox'[Len(outbox) + 1].no = no
BY AppendFacts DEF OrderInv, Sequences

\* The last answer of the outbox overtakes none, or is a thread's or one of several writes.
LEMMA StillInOrder ==
    ASSUME OrderInv, obeyed' = obeyed, NEW no, NEW text,
           outbox' = Append(outbox, [no |-> no, text |-> text]),
           \A i \in DOMAIN outbox : outbox[i].no >= no =>
               /\ no > 0
               /\ IF outbox[i].no = no THEN obeyed[no].op \in ManyWrites
                                       ELSE obeyed[no].op \in Threads
    PROVE  OnlyThreadsOvertaken'
<1> SUFFICES ASSUME NEW i \in DOMAIN outbox', NEW j \in DOMAIN outbox',
                    i < j, outbox'[i].no >= outbox'[j].no
             PROVE  /\ outbox'[j].no > 0
                    /\ IF outbox'[i].no = outbox'[j].no
                       THEN obeyed[outbox'[j].no].op \in ManyWrites
                       ELSE obeyed[outbox'[j].no].op \in Threads
  BY DEF OnlyThreadsOvertaken, Threads, ManyWrites
<1>1. i \in 1 .. Len(outbox)
  BY Added
<1>2. CASE j \in 1 .. Len(outbox)
  BY <1>1, <1>2, Added DEF OrderInv, OnlyThreadsOvertaken, Threads, ManyWrites
<1>3. CASE j = Len(outbox) + 1
  BY <1>1, <1>3, Added
<1> QED
  BY <1>2, <1>3, Added

\* A write of the main thread keeps the order.
LEMMA MainAnswers ==
    ASSUME OrderInv, MainWrites PROVE OrderInv'
<1> DEFINE no == Len(obeyed)
<1>1. CASE outbox' = outbox
  <2>1. obeyed' = obeyed /\ workers' \subseteq workers
    BY DEF MainWrites, Dies
  <2>2. main' = "answer" => main = "answer" /\ pieces > 0 /\ pieces' = pieces - 1
    BY DEF MainWrites, Dies
  <2> QED
    BY <1>1, <2>1, <2>2, QuietStep
<1>2. CASE outbox' # outbox
  <2>1. /\ outbox' = Append(outbox, [no |-> no, text |-> Said])
        /\ obeyed' = obeyed /\ workers' = workers
        /\ main = "answer" /\ main' = main /\ pieces > 0 /\ pieces' = pieces - 1
    BY <1>2 DEF MainWrites, Dies, Write, Lost
  <2> HIDE DEF no
  <2>2. no \in Nat
    BY AppendFacts DEF no, OrderInv, Sequences
  <2>3. Sequences'
    BY <2>1, Added DEF OrderInv, Sequences, IsSequence
  <2>4. Known'
    BY <2>1, <2>2, Added DEF no, OrderInv, Known
  <2>5. AtWork'
    BY <2>1 DEF OrderInv, AtWork
  <2>6. NotYet'
    BY <2>1, Added DEF no, OrderInv, NotYet, MainsOwn
  <2>7. MainsOwn'
    BY <2>1 DEF OrderInv, MainsOwn
  <2>8. OneWrite'
    BY <2>1 DEF OrderInv, OneWrite
  <2>9. OnlyThreadsOvertaken'
    <3> SUFFICES ASSUME NEW i \in DOMAIN outbox, outbox[i].no >= no
                 PROVE  no > 0 /\ outbox[i].no = no /\ obeyed[no].op \in ManyWrites
      BY <2>1, StillInOrder
    <3>1. outbox[i].no = no
      BY <2>2 DEF no, OrderInv, Known
    <3> QED
      BY <2>1, <2>2, <3>1 DEF no, OrderInv, OneWrite
  <2> QED
    BY <2>3, <2>4, <2>5, <2>6, <2>7, <2>8, <2>9 DEF OrderInv
<1> QED
  BY <1>1, <1>2

\* A write of a thread keeps it.
LEMMA ThreadAnswers ==
    ASSUME OrderInv, NEW no \in workers, WorkerWrites(no) PROVE OrderInv'
<1>1. CASE outbox' = outbox
  <2>1. obeyed' = obeyed /\ workers' \subseteq workers
    BY DEF WorkerWrites, Dies
  <2>2. main' = "answer" => main = "answer" /\ pieces' = pieces
    BY DEF WorkerWrites, Dies
  <2> QED
    BY <1>1, <2>1, <2>2, QuietStep
<1>2. CASE outbox' # outbox
  <2>1. /\ outbox' = Append(outbox, [no |-> no, text |-> Result(no)])
        /\ obeyed' = obeyed /\ workers' = workers \ {no}
        /\ main' = main /\ pieces' = pieces
    BY <1>2 DEF WorkerWrites, Dies, Write, Lost
  <2>2. no \in 1 .. Len(obeyed) /\ obeyed[no].op \in Threads
    BY DEF OrderInv, AtWork
  <2>3. Sequences'
    BY <2>1, Added DEF OrderInv, Sequences, IsSequence
  <2>4. Len(obeyed) \in Nat
    BY AppendFacts DEF OrderInv, Sequences
  <2>5. Known'
    BY <2>1, <2>2, <2>4, Added DEF OrderInv, Known
  <2>6. AtWork'
    BY <2>1 DEF OrderInv, AtWork
  <2>7. NotYet'
    BY <2>1, Added DEF OrderInv, NotYet
  <2>8. MainsOwn'
    BY <2>1 DEF OrderInv, MainsOwn
  <2>9. OneWrite'
    BY <2>1, Added DEF OrderInv, MainsOwn, OneWrite
  <2>10. OnlyThreadsOvertaken'
    BY <2>1, <2>2, StillInOrder DEF OrderInv, NotYet
  <2> QED
    BY <2>3, <2>5, <2>6, <2>7, <2>8, <2>9, <2>10 DEF OrderInv
<1> QED
  BY <1>1, <1>2

\* Every step keeps it.
LEMMA OrderInvNext == OrderInv /\ [Next]_vars => OrderInv'
<1> SUFFICES ASSUME OrderInv, [Next]_vars PROVE OrderInv'
  OBVIOUS
<1>1. ASSUME NEW line \in Lines, Send(line) PROVE OrderInv'
  BY <1>1, QuietStep DEF Send
<1>2. ASSUME NEW how \in {"closed", "reset"}, Close(how) PROVE OrderInv'
  BY <1>2, QuietStep DEF Close
<1>3. ASSUME NEW n \in 1 .. Len(inbox), Read(n) PROVE OrderInv'
  BY <1>3, ReadStep
<1>4. CASE MainWrites
  BY <1>4, MainAnswers
<1>5. CASE Answered
  BY <1>5, QuietStep DEF Answered
<1>6. CASE ReadEnds
  BY <1>6, QuietStep DEF ReadEnds
<1>7. CASE CloseSocket
  BY <1>7, QuietStep DEF CloseSocket
<1>8. CASE Sweep
  BY <1>8, QuietStep DEF Sweep
<1>9. CASE Exit
  BY <1>9, QuietStep DEF Exit
<1>10. ASSUME NEW no \in workers, WorkerWrites(no) PROVE OrderInv'
  BY <1>10, ThreadAnswers
<1>11. CASE UNCHANGED vars
  BY <1>11, QuietStep DEF vars
<1>12. ASSUME NEW n \in 1 .. Len(inbox), JoinFails(n) PROVE OrderInv'
  BY <1>12, QuietStep DEF JoinFails, Fails
<1>13. CASE KillFails
  BY <1>13, QuietStep DEF KillFails, Fails
<1>14. ASSUME NEW no \in workers, WorkerCrashes(no) PROVE OrderInv'
  BY <1>14, QuietStep DEF WorkerCrashes, Fails
<1>15. ASSUME NEW p \in 1 .. MaxPrograms, ProgramReaped(p) PROVE OrderInv'
  BY <1>15, QuietStep DEF ProgramReaped
<1> QED
  BY <1>1, <1>2, <1>3, <1>4, <1>5, <1>6, <1>7, <1>8, <1>9, <1>10, <1>11, <1>12,
     <1>13, <1>14, <1>15 DEF Next, Main, Over, Spins

\* Only the answers of threads come late, for any lines and any number of them
\* in any interleaving (server.c:316-500).
THEOREM OrderIsKept == Spec => []OnlyThreadsOvertaken
<1>1. OrderInv => OnlyThreadsOvertaken
  BY DEF OrderInv
<1> QED
  BY <1>1, OrderInvInit, OrderInvNext, PTL DEF Spec

-----------------------------------------------------------------------------
(* Folds.                                                                  *)

\* A function such as FoldLeft chooses there is, for a loop over integers.
LEMMA FoldExists ==
    ASSUME NEW args \in Seq(Int), NEW base \in Int, NEW f \in [Int \X Int -> Int]
    PROVE  \E g \in [SUBSET DOMAIN args -> Int] :
               /\ g[{}] = base
               /\ \A s \in SUBSET DOMAIN args : s # {} =>
                    /\ Max(s) \in DOMAIN args /\ s \ {Max(s)} \in SUBSET DOMAIN args
                    /\ g[s] = f[<<g[s \ {Max(s)}], args[Max(s)]>>]
<1> DEFINE n == Len(args)
           Folds(g, k) ==
             /\ g \in [SUBSET (1 .. k) -> Int]
             /\ g[{}] = base
             /\ \A s \in SUBSET (1 .. k) :
                  s # {} => g[s] = f[<<g[s \ {Max(s)}], args[Max(s)]>>]
           S == {k \in 0 .. n : \E g : Folds(g, k)}
<1>1. n \in Nat /\ DOMAIN args = 1 .. n /\ \A i \in 1 .. n : args[i] \in Int
  OBVIOUS
<1> HIDE DEF n
<1>2. 0 \in S
  <2>1. Folds([s \in {{}} |-> base], 0)
    <3>1. SUBSET (1 .. 0) = {{}}
      OBVIOUS
    <3> QED
      BY <3>1
  <2> HIDE DEF Folds
  <2> QED
    BY <1>1, <2>1
<1>3. \A k \in Nat : \A s \in SUBSET (1 .. k) :
        s # {} => Max(s) \in s /\ Max(s) \in 1 .. k /\ \A i \in s : Max(s) >= i
  <2> TAKE k \in Nat
  <2> TAKE s \in SUBSET (1 .. k)
  <2> HAVE s # {}
  <2>1. s \in SUBSET (0 .. k)
    OBVIOUS
  <2> QED
    BY <2>1, MaxIsGreatest
<1>4. ASSUME NEW k \in 0 .. n - 1, NEW g, Folds(g, k)
      PROVE  \E h : Folds(h, k + 1)
  <2> DEFINE h == [s \in SUBSET (1 .. k + 1) |->
                     IF k + 1 \in s THEN f[<<g[s \ {k + 1}], args[k + 1]>>] ELSE g[s]]
  <2>1. \A s \in SUBSET (1 .. k + 1) :
          /\ s \ {k + 1} \in SUBSET (1 .. k)
          /\ k + 1 \notin s => s \in SUBSET (1 .. k)
    OBVIOUS
  <2>2. h \in [SUBSET (1 .. k + 1) -> Int]
    <3>1. \A s \in SUBSET (1 .. k) : g[s] \in Int
      BY <1>4
    <3>2. \A x \in Int : f[<<x, args[k + 1]>>] \in Int
      BY <1>1
    <3> QED
      BY <2>1, <3>1, <3>2
  <2>3. ASSUME NEW s \in SUBSET (1 .. k + 1), s # {}
        PROVE  h[s] = f[<<h[s \ {Max(s)}], args[Max(s)]>>]
    <3>1. Max(s) \in s /\ Max(s) \in 1 .. k + 1 /\ \A i \in s : Max(s) >= i
      <4>1. k + 1 \in Nat
        BY <1>1
      <4> QED
        BY <1>3, <2>3, <4>1
    <3>2. CASE k + 1 \in s
      <4>1. Max(s) = k + 1
        BY <3>1, <3>2
      <4>2. h[s \ {k + 1}] = g[s \ {k + 1}]
        BY <2>1
      <4> QED
        BY <3>2, <4>1, <4>2
    <3>3. CASE k + 1 \notin s
      <4>1. s \in SUBSET (1 .. k) /\ s \ {Max(s)} \in SUBSET (1 .. k)
        BY <2>1, <3>3
      <4>2. h[s] = g[s] /\ h[s \ {Max(s)}] = g[s \ {Max(s)}]
        BY <3>3, <4>1
      <4> QED
        BY <1>4, <2>3, <4>1, <4>2
    <3> QED
      BY <3>2, <3>3
  <2>4. h[{}] = base
    BY <1>4
  <2>5. Folds(h, k + 1)
    <3> HIDE DEF h
    <3> QED
      BY <2>2, <2>3, <2>4
  <2> QED
    BY <2>5
<1>5. \A k \in 0 .. n - 1 : k \in S => k + 1 \in S
  <2> HIDE DEF Folds
  <2>1. \A k \in 0 .. n - 1 : k + 1 \in 0 .. n
    BY <1>1
  <2> QED
    BY <1>4, <2>1
<1>6. n \in S
  <2> HIDE DEF S
  <2>1. n \in 0 .. n
    BY <1>1
  <2> QED
    BY <1>1, <1>2, <1>5, <2>1, UpTo
<1>7. PICK g : Folds(g, n)
  BY <1>6
<1>8. \A s \in SUBSET (1 .. n) : s # {} =>
        Max(s) \in 1 .. n /\ s \ {Max(s)} \in SUBSET (1 .. n)
  BY <1>1, <1>3
<1> QED
  BY <1>1, <1>7, <1>8

-----------------------------------------------------------------------------
(* Integers that wrap around.                                              *)

\* a and b differ by a multiple of m.  The name keeps products out of sight.
Congruent(a, b, m) == \E k \in Int : a = b + k * m

\* Congruence is kept by what both sides are added to or multiplied with.
LEMMA CongruentOps ==
    ASSUME NEW m \in Int, NEW a \in Int, NEW b \in Int, NEW c \in Int, Congruent(a, b, m)
    PROVE  Congruent(a + c, b + c, m) /\ Congruent(a * c, b * c, m)
<1>1. PICK k \in Int : a = b + k * m
  BY DEF Congruent
<1>2. a + c = (b + c) + k * m
  <2>1. k * m \in Int
    OBVIOUS
  <2> QED
    BY <1>1, <2>1
<1>3. a * c = b * c + (k * c) * m
  <2>1. (b + k * m) * c = b * c + (k * c) * m
    OBVIOUS
  <2> QED
    BY <1>1, <2>1
<1>4. k * c \in Int
  OBVIOUS
<1> QED
  BY <1>2, <1>3, <1>4 DEF Congruent

\* Numbers congruent to congruent numbers are congruent.
LEMMA CongruentTrans ==
    ASSUME NEW m \in Int, NEW a \in Int, NEW b \in Int, NEW x \in Int, NEW y \in Int,
           Congruent(a, x, m), Congruent(x, y, m), Congruent(b, y, m)
    PROVE  Congruent(a, b, m)
<1>1. PICK i \in Int, j \in Int, k \in Int : a = x + i * m /\ x = y + j * m /\ b = y + k * m
  BY DEF Congruent
<1>2. (i + j - k) * m = i * m + j * m - k * m /\ i * m \in Int /\ j * m \in Int /\ k * m \in Int
  OBVIOUS
<1>3. a = b + (i + j - k) * m
  BY <1>1, <1>2
<1>4. i + j - k \in Int
  OBVIOUS
<1> QED
  BY <1>3, <1>4 DEF Congruent

\* Two congruent numbers of a range of that width are one.
LEMMA OneInRange ==
    ASSUME NEW l \in Int, NEW g \in Int, NEW a \in l .. g, NEW b \in l .. g,
           Congruent(a, b, g - l + 1)
    PROVE  a = b
<1> DEFINE m == g - l + 1
<1>1. m \in Int /\ m > 0 /\ a - b < m /\ b - a < m /\ a \in Int /\ b \in Int
  OBVIOUS
<1>2. PICK k \in Int : a = b + k * m
  BY DEF Congruent
<1>3. k >= 1 => k * m >= m
  <2> HIDE DEF m
  <2> QED
    BY <1>1
<1>4. k <= -1 => k * m <= -m
  <2> HIDE DEF m
  <2> QED
    BY <1>1
<1> HIDE DEF m
<1> QED
  BY <1>1, <1>2, <1>3, <1>4

\* Wrapping ends in the range, at a number congruent to the first.
LEMMA WrapResult ==
    ASSUME NEW l \in Int, NEW g \in Int, l <= g, NEW n \in Int
    PROVE  Wrap(n, l, g) \in l .. g /\ Congruent(Wrap(n, l, g), n, g - l + 1)
<1> DEFINE m == g - l + 1
           q == (n - l) \div m
           r == (n - l) % m
<1>1. m \in Nat /\ m > 0 /\ n - l \in Int
  OBVIOUS
<1>2. q \in Int /\ r \in 0 .. m - 1 /\ n - l = m * q + r
  <2> HIDE DEF m
  <2>1. \A a \in Int : a \div m \in Int /\ a % m \in 0 .. m - 1 /\ a = m * (a \div m) + (a % m)
    BY <1>1
  <2> QED
    BY <1>1, <2>1
<1>3. Wrap(n, l, g) = l + r
  BY DEF Wrap
<1>4. l + r \in l .. g
  <2> HIDE DEF r
  <2> QED
    BY <1>2
<1>5. l + r = n + (-q) * m
  <2>1. (-q) * m = -(m * q) /\ m * q \in Int
    <3> HIDE DEF m, q
    <3> QED
      BY <1>1, <1>2
  <2> HIDE DEF m, q, r
  <2> QED
    BY <1>1, <1>2, <2>1
<1>6. -q \in Int
  BY <1>2
<1> HIDE DEF q, r
<1> QED
  BY <1>3, <1>4, <1>5, <1>6 DEF Congruent

\* Congruent numbers wrap to the same.
LEMMA WrapCongruent ==
    ASSUME NEW l \in Int, NEW g \in Int, l <= g,
           NEW x \in Int, NEW y \in Int, Congruent(x, y, g - l + 1)
    PROVE  Wrap(x, l, g) = Wrap(y, l, g)
<1> DEFINE a == Wrap(x, l, g)
           b == Wrap(y, l, g)
           m == g - l + 1
<1>1. /\ a \in l .. g /\ b \in l .. g /\ m \in Int
      /\ Congruent(a, x, m) /\ Congruent(b, y, m)
  <2>1. a \in l .. g /\ Congruent(a, x, g - l + 1)
    BY WrapResult
  <2>2. b \in l .. g /\ Congruent(b, y, g - l + 1)
    BY WrapResult
  <2>3. m \in Int
    OBVIOUS
  <2> HIDE DEF a, b
  <2> QED
    BY <2>1, <2>2, <2>3
<1>2. a \in Int /\ b \in Int
  <2> HIDE DEF a, b
  <2> QED
    BY <1>1
<1>3. Congruent(a, b, m)
  <2>1. Congruent(x, y, m)
    OBVIOUS
  <2> HIDE DEF a, b, m
  <2> QED
    BY <1>1, <1>2, <2>1, CongruentTrans
<1>4. a = b
  <2> HIDE DEF a, b
  <2> QED
    BY <1>1, <1>3, OneInRange
<1> QED
  BY <1>4

\* A number of the range wraps to itself.
LEMMA WrapStays ==
    ASSUME NEW l \in Int, NEW g \in Int, NEW n \in l .. g
    PROVE  Wrap(n, l, g) = n
<1>1. l <= g /\ n \in Int
  OBVIOUS
<1>2. Wrap(n, l, g) \in l .. g /\ Congruent(Wrap(n, l, g), n, g - l + 1)
  BY <1>1, WrapResult
<1> QED
  BY <1>2, OneInRange

\* What add() and multiply() wrap on the way makes no difference to what a
\* later overflow or the end of the loop leaves.
LEMMA LongResult ==
    ASSUME NEW n \in Int
    PROVE  /\ ToLong(n) \in Int /\ InLong(ToLong(n))
           /\ InLong(n) => ToLong(n) = n
           /\ \A a \in Int : /\ ToLong(ToLong(n) + a) = ToLong(n + a)
                             /\ ToLong(ToLong(n) * a) = ToLong(n * a)
<1> DEFINE m == LongMax - LongMin + 1
<1>1. LongMin \in Int /\ LongMax \in Int /\ LongMin <= LongMax /\ m \in Int
  BY ArithmeticAssumption
<1>2. InLong(ToLong(n)) /\ Congruent(ToLong(n), n, m)
  BY <1>1, WrapResult DEF ToLong, InLong
<1>3. ToLong(n) \in Int
  <2> HIDE DEF m
  <2> QED
    BY <1>1, <1>2 DEF InLong
<1>4. InLong(n) => ToLong(n) = n
  BY <1>1, WrapStays DEF ToLong, InLong
<1>5. ASSUME NEW a \in Int
      PROVE  /\ ToLong(ToLong(n) + a) = ToLong(n + a)
             /\ ToLong(ToLong(n) * a) = ToLong(n * a)
  <2>1. /\ Congruent(ToLong(n) + a, n + a, m)
        /\ Congruent(ToLong(n) * a, n * a, m)
    <3> HIDE DEF m
    <3> QED
      BY <1>1, <1>2, <1>3, CongruentOps
  <2>2. n + a \in Int /\ n * a \in Int /\ ToLong(n) + a \in Int /\ ToLong(n) * a \in Int
    BY <1>3
  <2>3. \A x, y \in Int : Congruent(x, y, m) => ToLong(x) = ToLong(y)
    BY <1>1, WrapCongruent DEF ToLong
  <2> HIDE DEF m
  <2> QED
    BY <2>1, <2>2, <2>3
<1> QED
  BY <1>2, <1>3, <1>4, <1>5

\* Nor does what subtract() wraps.
LEMMA IntResult ==
    ASSUME NEW n \in Int
    PROVE  /\ ToInt(n) \in Int
           /\ InInt(n) => ToInt(n) = n
           /\ \A a \in Int : ToInt(ToInt(n) - a) = ToInt(n - a)
<1> DEFINE m == IntMax - IntMin + 1
<1>1. IntMin \in Int /\ IntMax \in Int /\ IntMin <= IntMax /\ m \in Int
  BY ArithmeticAssumption
<1>2. ToInt(n) \in IntMin .. IntMax /\ Congruent(ToInt(n), n, m)
  BY <1>1, WrapResult DEF ToInt
<1>3. ToInt(n) \in Int
  <2> HIDE DEF m
  <2> QED
    BY <1>1, <1>2
<1>4. InInt(n) => ToInt(n) = n
  BY <1>1, WrapStays DEF ToInt, InInt
<1>5. ASSUME NEW a \in Int
      PROVE  ToInt(ToInt(n) - a) = ToInt(n - a)
  <2>1. Congruent(ToInt(n) + (-a), n + (-a), m)
    <3>1. -a \in Int
      OBVIOUS
    <3> HIDE DEF m
    <3> QED
      BY <1>1, <1>2, <1>3, <3>1, CongruentOps
  <2>2. /\ n + (-a) = n - a /\ ToInt(n) + (-a) = ToInt(n) - a
        /\ n - a \in Int /\ ToInt(n) - a \in Int
    BY <1>3
  <2>3. \A x, y \in Int : Congruent(x, y, m) => ToInt(x) = ToInt(y)
    BY <1>1, WrapCongruent DEF ToInt
  <2> HIDE DEF m
  <2> QED
    BY <2>1, <2>2, <2>3
<1> QED
  BY <1>3, <1>4, <1>5

-----------------------------------------------------------------------------
(* The loops of Arithmetic, argument by argument: v[k] is what a loop has   *)
(* after k arguments, so that its result is v[Len(args)].                   *)

\* What strtol() and the conversion to int return.
LEMMA StepTypes ==
    /\ \A arg \in Int : StrToL(arg) \in Int /\ StrToInt(arg) \in Int
    /\ \A arg \in Int : InLong(arg) => StrToL(arg) = arg
    /\ \A arg \in Int : InInt(arg) => StrToInt(arg) = arg
    /\ \A n \in Int : ToLong(n) \in Int /\ ToInt(n) \in Int
<1>1. \A n \in Int : ToLong(n) \in Int /\ ToInt(n) \in Int
  BY LongResult, IntResult
<1>2. LongMin \in Int /\ LongMax \in Int /\ IntMin \in Int
  BY ArithmeticAssumption
<1> QED
  BY <1>1, <1>2 DEF StrToL, StrToInt, InLong, InInt

\* The sum, which a plain loop computes.
LEMMA SumRuns ==
    ASSUME NEW args \in Seq(Int)
    PROVE  \E v : /\ v[0] = 0
                  /\ \A k \in 1 .. Len(args) : v[k] = v[k - 1] + args[k]
                  /\ Sum(args) = v[Len(args)]
<1> DEFINE Loop(h) == h = [s \in SUBSET DOMAIN args |->
                             IF s = {} THEN 0
                             ELSE h[s \ {Max(s)}] + args[Max(s)]]
           f == [p \in Int \X Int |-> p[1] + p[2]]
           v(h) == [k \in 0 .. Len(args) |-> h[1 .. k]]
<1>1. f \in [Int \X Int -> Int]
  <2>1. \A a, b \in Int : a + b \in Int
    BY StepTypes
  <2> QED
    BY <2>1
<1>2. \A a, b \in Int : f[<<a, b>>] = a + b
  OBVIOUS
<1>3. PICK g \in [SUBSET DOMAIN args -> Int] :
        /\ g[{}] = 0
        /\ \A s \in SUBSET DOMAIN args : s # {} =>
             /\ Max(s) \in DOMAIN args /\ s \ {Max(s)} \in SUBSET DOMAIN args
             /\ g[s] = f[<<g[s \ {Max(s)}], args[Max(s)]>>]
  <2>1. 0 \in Int
    OBVIOUS
  <2> HIDE DEF f
  <2> QED
    BY <1>1, <2>1, FoldExists
<1>4. Loop(g)
  <2>1. \A i \in DOMAIN args : args[i] \in Int
    OBVIOUS
  <2>2. ASSUME NEW s \in SUBSET DOMAIN args, s # {}
        PROVE  g[s] = g[s \ {Max(s)}] + args[Max(s)]
    <3>1. g[s \ {Max(s)}] \in Int /\ args[Max(s)] \in Int
      BY <1>3, <2>1, <2>2
    <3>2. g[s] = f[<<g[s \ {Max(s)}], args[Max(s)]>>]
      BY <1>3, <2>2
    <3> HIDE DEF f
    <3> QED
      BY <1>2, <3>1, <3>2
  <2> QED
    BY <1>3, <2>2
<1>5. PICK h : Loop(h) /\ Sum(args) = h[DOMAIN args]
  BY <1>4, Zenon DEF Sum, FoldLeft, MapThenFoldSet
<1>6. Len(args) \in Nat /\ DOMAIN args = 1 .. Len(args) /\ {} = 1 .. 0
  OBVIOUS
<1>7. h[{}] = 0
  BY <1>5
<1>8. ASSUME NEW k \in 1 .. Len(args)
      PROVE  h[1 .. k] = h[1 .. (k - 1)] + args[k]
  <2>1. /\ 1 .. k \in SUBSET DOMAIN args /\ 1 .. k # {}
        /\ Max(1 .. k) = k /\ (1 .. k) \ {k} = 1 .. (k - 1)
    BY <1>6, Segments
  <2>2. h[1 .. k] = h[(1 .. k) \ {Max(1 .. k)}] + args[Max(1 .. k)]
    BY <1>5, <2>1
  <2> QED
    BY <2>1, <2>2
<1>9. /\ v(h)[0] = 0 /\ v(h)[Len(args)] = h[DOMAIN args]
      /\ \A k \in 1 .. Len(args) : v(h)[k] = h[1 .. k] /\ v(h)[k - 1] = h[1 .. (k - 1)]
  BY <1>6, <1>7
<1> HIDE DEF v
<1> QED
  BY <1>5, <1>8, <1>9

\* The product, likewise.
LEMMA ProductRuns ==
    ASSUME NEW args \in Seq(Int)
    PROVE  \E v : /\ v[0] = 1
                  /\ \A k \in 1 .. Len(args) : v[k] = v[k - 1] * args[k]
                  /\ Product(args) = v[Len(args)]
<1> DEFINE Loop(h) == h = [s \in SUBSET DOMAIN args |->
                             IF s = {} THEN 1
                             ELSE h[s \ {Max(s)}] * args[Max(s)]]
           f == [p \in Int \X Int |-> p[1] * p[2]]
           v(h) == [k \in 0 .. Len(args) |-> h[1 .. k]]
<1>1. f \in [Int \X Int -> Int]
  <2>1. \A a, b \in Int : a * b \in Int
    BY StepTypes
  <2> QED
    BY <2>1
<1>2. \A a, b \in Int : f[<<a, b>>] = a * b
  OBVIOUS
<1>3. PICK g \in [SUBSET DOMAIN args -> Int] :
        /\ g[{}] = 1
        /\ \A s \in SUBSET DOMAIN args : s # {} =>
             /\ Max(s) \in DOMAIN args /\ s \ {Max(s)} \in SUBSET DOMAIN args
             /\ g[s] = f[<<g[s \ {Max(s)}], args[Max(s)]>>]
  <2>1. 1 \in Int
    OBVIOUS
  <2> HIDE DEF f
  <2> QED
    BY <1>1, <2>1, FoldExists
<1>4. Loop(g)
  <2>1. \A i \in DOMAIN args : args[i] \in Int
    OBVIOUS
  <2>2. ASSUME NEW s \in SUBSET DOMAIN args, s # {}
        PROVE  g[s] = g[s \ {Max(s)}] * args[Max(s)]
    <3>1. g[s \ {Max(s)}] \in Int /\ args[Max(s)] \in Int
      BY <1>3, <2>1, <2>2
    <3>2. g[s] = f[<<g[s \ {Max(s)}], args[Max(s)]>>]
      BY <1>3, <2>2
    <3> HIDE DEF f
    <3> QED
      BY <1>2, <3>1, <3>2
  <2> QED
    BY <1>3, <2>2
<1>5. PICK h : Loop(h) /\ Product(args) = h[DOMAIN args]
  BY <1>4, Zenon DEF Product, FoldLeft, MapThenFoldSet
<1>6. Len(args) \in Nat /\ DOMAIN args = 1 .. Len(args) /\ {} = 1 .. 0
  OBVIOUS
<1>7. h[{}] = 1
  BY <1>5
<1>8. ASSUME NEW k \in 1 .. Len(args)
      PROVE  h[1 .. k] = h[1 .. (k - 1)] * args[k]
  <2>1. /\ 1 .. k \in SUBSET DOMAIN args /\ 1 .. k # {}
        /\ Max(1 .. k) = k /\ (1 .. k) \ {k} = 1 .. (k - 1)
    BY <1>6, Segments
  <2>2. h[1 .. k] = h[(1 .. k) \ {Max(1 .. k)}] * args[Max(1 .. k)]
    BY <1>5, <2>1
  <2> QED
    BY <2>1, <2>2
<1>9. /\ v(h)[0] = 1 /\ v(h)[Len(args)] = h[DOMAIN args]
      /\ \A k \in 1 .. Len(args) : v(h)[k] = h[1 .. k] /\ v(h)[k - 1] = h[1 .. (k - 1)]
  BY <1>6, <1>7
<1> HIDE DEF v
<1> QED
  BY <1>5, <1>8, <1>9

\* The loop of add().
LEMMA AddRuns ==
    ASSUME NEW args \in Seq(Int)
    PROVE  \E v : /\ v[0] = 0
                  /\ \A k \in 1 .. Len(args) : v[k] = ToLong(v[k - 1] + StrToL(args[k]))
                  /\ FoldLeft(LAMBDA val, arg : ToLong(val + StrToL(arg)), 0, args) = v[Len(args)]
<1> DEFINE Loop(h) == h = [s \in SUBSET DOMAIN args |->
                             IF s = {} THEN 0
                             ELSE ToLong(h[s \ {Max(s)}] + StrToL(args[Max(s)]))]
           f == [p \in Int \X Int |-> ToLong(p[1] + StrToL(p[2]))]
           v(h) == [k \in 0 .. Len(args) |-> h[1 .. k]]
<1>1. f \in [Int \X Int -> Int]
  <2>1. \A a, b \in Int : ToLong(a + StrToL(b)) \in Int
    BY StepTypes
  <2> QED
    BY <2>1
<1>2. \A a, b \in Int : f[<<a, b>>] = ToLong(a + StrToL(b))
  OBVIOUS
<1>3. PICK g \in [SUBSET DOMAIN args -> Int] :
        /\ g[{}] = 0
        /\ \A s \in SUBSET DOMAIN args : s # {} =>
             /\ Max(s) \in DOMAIN args /\ s \ {Max(s)} \in SUBSET DOMAIN args
             /\ g[s] = f[<<g[s \ {Max(s)}], args[Max(s)]>>]
  <2>1. 0 \in Int
    OBVIOUS
  <2> HIDE DEF f
  <2> QED
    BY <1>1, <2>1, FoldExists
<1>4. Loop(g)
  <2>1. \A i \in DOMAIN args : args[i] \in Int
    OBVIOUS
  <2>2. ASSUME NEW s \in SUBSET DOMAIN args, s # {}
        PROVE  g[s] = ToLong(g[s \ {Max(s)}] + StrToL(args[Max(s)]))
    <3>1. g[s \ {Max(s)}] \in Int /\ args[Max(s)] \in Int
      BY <1>3, <2>1, <2>2
    <3>2. g[s] = f[<<g[s \ {Max(s)}], args[Max(s)]>>]
      BY <1>3, <2>2
    <3> HIDE DEF f
    <3> QED
      BY <1>2, <3>1, <3>2
  <2> QED
    BY <1>3, <2>2
<1>5. PICK h : Loop(h) /\ FoldLeft(LAMBDA val, arg : ToLong(val + StrToL(arg)), 0, args) = h[DOMAIN args]
  BY <1>4, Zenon DEF FoldLeft, MapThenFoldSet
<1>6. Len(args) \in Nat /\ DOMAIN args = 1 .. Len(args) /\ {} = 1 .. 0
  OBVIOUS
<1>7. h[{}] = 0
  BY <1>5
<1>8. ASSUME NEW k \in 1 .. Len(args)
      PROVE  h[1 .. k] = ToLong(h[1 .. (k - 1)] + StrToL(args[k]))
  <2>1. /\ 1 .. k \in SUBSET DOMAIN args /\ 1 .. k # {}
        /\ Max(1 .. k) = k /\ (1 .. k) \ {k} = 1 .. (k - 1)
    BY <1>6, Segments
  <2>2. h[1 .. k] = ToLong(h[(1 .. k) \ {Max(1 .. k)}] + StrToL(args[Max(1 .. k)]))
    BY <1>5, <2>1
  <2> QED
    BY <2>1, <2>2
<1>9. /\ v(h)[0] = 0 /\ v(h)[Len(args)] = h[DOMAIN args]
      /\ \A k \in 1 .. Len(args) : v(h)[k] = h[1 .. k] /\ v(h)[k - 1] = h[1 .. (k - 1)]
  BY <1>6, <1>7
<1> HIDE DEF v
<1> QED
  BY <1>5, <1>8, <1>9

\* The loop of multiply().
LEMMA MultiplyRuns ==
    ASSUME NEW args \in Seq(Int)
    PROVE  \E v : /\ v[0] = 1
                  /\ \A k \in 1 .. Len(args) : v[k] = ToLong(v[k - 1] * StrToL(args[k]))
                  /\ FoldLeft(LAMBDA val, arg : ToLong(val * StrToL(arg)), 1, args) = v[Len(args)]
<1> DEFINE Loop(h) == h = [s \in SUBSET DOMAIN args |->
                             IF s = {} THEN 1
                             ELSE ToLong(h[s \ {Max(s)}] * StrToL(args[Max(s)]))]
           f == [p \in Int \X Int |-> ToLong(p[1] * StrToL(p[2]))]
           v(h) == [k \in 0 .. Len(args) |-> h[1 .. k]]
<1>1. f \in [Int \X Int -> Int]
  <2>1. \A a, b \in Int : ToLong(a * StrToL(b)) \in Int
    BY StepTypes
  <2> QED
    BY <2>1
<1>2. \A a, b \in Int : f[<<a, b>>] = ToLong(a * StrToL(b))
  OBVIOUS
<1>3. PICK g \in [SUBSET DOMAIN args -> Int] :
        /\ g[{}] = 1
        /\ \A s \in SUBSET DOMAIN args : s # {} =>
             /\ Max(s) \in DOMAIN args /\ s \ {Max(s)} \in SUBSET DOMAIN args
             /\ g[s] = f[<<g[s \ {Max(s)}], args[Max(s)]>>]
  <2>1. 1 \in Int
    OBVIOUS
  <2> HIDE DEF f
  <2> QED
    BY <1>1, <2>1, FoldExists
<1>4. Loop(g)
  <2>1. \A i \in DOMAIN args : args[i] \in Int
    OBVIOUS
  <2>2. ASSUME NEW s \in SUBSET DOMAIN args, s # {}
        PROVE  g[s] = ToLong(g[s \ {Max(s)}] * StrToL(args[Max(s)]))
    <3>1. g[s \ {Max(s)}] \in Int /\ args[Max(s)] \in Int
      BY <1>3, <2>1, <2>2
    <3>2. g[s] = f[<<g[s \ {Max(s)}], args[Max(s)]>>]
      BY <1>3, <2>2
    <3> HIDE DEF f
    <3> QED
      BY <1>2, <3>1, <3>2
  <2> QED
    BY <1>3, <2>2
<1>5. PICK h : Loop(h) /\ FoldLeft(LAMBDA val, arg : ToLong(val * StrToL(arg)), 1, args) = h[DOMAIN args]
  BY <1>4, Zenon DEF FoldLeft, MapThenFoldSet
<1>6. Len(args) \in Nat /\ DOMAIN args = 1 .. Len(args) /\ {} = 1 .. 0
  OBVIOUS
<1>7. h[{}] = 1
  BY <1>5
<1>8. ASSUME NEW k \in 1 .. Len(args)
      PROVE  h[1 .. k] = ToLong(h[1 .. (k - 1)] * StrToL(args[k]))
  <2>1. /\ 1 .. k \in SUBSET DOMAIN args /\ 1 .. k # {}
        /\ Max(1 .. k) = k /\ (1 .. k) \ {k} = 1 .. (k - 1)
    BY <1>6, Segments
  <2>2. h[1 .. k] = ToLong(h[(1 .. k) \ {Max(1 .. k)}] * StrToL(args[Max(1 .. k)]))
    BY <1>5, <2>1
  <2> QED
    BY <2>1, <2>2
<1>9. /\ v(h)[0] = 1 /\ v(h)[Len(args)] = h[DOMAIN args]
      /\ \A k \in 1 .. Len(args) : v(h)[k] = h[1 .. k] /\ v(h)[k - 1] = h[1 .. (k - 1)]
  BY <1>6, <1>7
<1> HIDE DEF v
<1> QED
  BY <1>5, <1>8, <1>9

\* The loop of subtract().
LEMMA SubtractRuns ==
    ASSUME NEW args \in Seq(Int)
    PROVE  \E v : /\ v[0] = 0
                  /\ \A k \in 1 .. Len(args) : v[k] = ToInt(v[k - 1] - StrToInt(args[k]))
                  /\ FoldLeft(LAMBDA val, arg : ToInt(val - StrToInt(arg)), 0, args) = v[Len(args)]
<1> DEFINE Loop(h) == h = [s \in SUBSET DOMAIN args |->
                             IF s = {} THEN 0
                             ELSE ToInt(h[s \ {Max(s)}] - StrToInt(args[Max(s)]))]
           f == [p \in Int \X Int |-> ToInt(p[1] - StrToInt(p[2]))]
           v(h) == [k \in 0 .. Len(args) |-> h[1 .. k]]
<1>1. f \in [Int \X Int -> Int]
  <2>1. \A a, b \in Int : ToInt(a - StrToInt(b)) \in Int
    BY StepTypes
  <2> QED
    BY <2>1
<1>2. \A a, b \in Int : f[<<a, b>>] = ToInt(a - StrToInt(b))
  OBVIOUS
<1>3. PICK g \in [SUBSET DOMAIN args -> Int] :
        /\ g[{}] = 0
        /\ \A s \in SUBSET DOMAIN args : s # {} =>
             /\ Max(s) \in DOMAIN args /\ s \ {Max(s)} \in SUBSET DOMAIN args
             /\ g[s] = f[<<g[s \ {Max(s)}], args[Max(s)]>>]
  <2>1. 0 \in Int
    OBVIOUS
  <2> HIDE DEF f
  <2> QED
    BY <1>1, <2>1, FoldExists
<1>4. Loop(g)
  <2>1. \A i \in DOMAIN args : args[i] \in Int
    OBVIOUS
  <2>2. ASSUME NEW s \in SUBSET DOMAIN args, s # {}
        PROVE  g[s] = ToInt(g[s \ {Max(s)}] - StrToInt(args[Max(s)]))
    <3>1. g[s \ {Max(s)}] \in Int /\ args[Max(s)] \in Int
      BY <1>3, <2>1, <2>2
    <3>2. g[s] = f[<<g[s \ {Max(s)}], args[Max(s)]>>]
      BY <1>3, <2>2
    <3> HIDE DEF f
    <3> QED
      BY <1>2, <3>1, <3>2
  <2> QED
    BY <1>3, <2>2
<1>5. PICK h : Loop(h) /\ FoldLeft(LAMBDA val, arg : ToInt(val - StrToInt(arg)), 0, args) = h[DOMAIN args]
  BY <1>4, Zenon DEF FoldLeft, MapThenFoldSet
<1>6. Len(args) \in Nat /\ DOMAIN args = 1 .. Len(args) /\ {} = 1 .. 0
  OBVIOUS
<1>7. h[{}] = 0
  BY <1>5
<1>8. ASSUME NEW k \in 1 .. Len(args)
      PROVE  h[1 .. k] = ToInt(h[1 .. (k - 1)] - StrToInt(args[k]))
  <2>1. /\ 1 .. k \in SUBSET DOMAIN args /\ 1 .. k # {}
        /\ Max(1 .. k) = k /\ (1 .. k) \ {k} = 1 .. (k - 1)
    BY <1>6, Segments
  <2>2. h[1 .. k] = ToInt(h[(1 .. k) \ {Max(1 .. k)}] - StrToInt(args[Max(1 .. k)]))
    BY <1>5, <2>1
  <2> QED
    BY <2>1, <2>2
<1>9. /\ v(h)[0] = 0 /\ v(h)[Len(args)] = h[DOMAIN args]
      /\ \A k \in 1 .. Len(args) : v(h)[k] = h[1 .. k] /\ v(h)[k - 1] = h[1 .. (k - 1)]
  BY <1>6, <1>7
<1> HIDE DEF v
<1> QED
  BY <1>5, <1>8, <1>9

-----------------------------------------------------------------------------
(* The texts.                                                              *)

\* The length of a text is a natural number, and no long has one longer than
\* Room, which is that of the least long.
LEMMA NumCharsFacts ==
    ASSUME NEW n \in Int
    PROVE  /\ NumChars(n) \in Nat
           /\ InLong(n) => NumChars(n) <= Room
<1> DEFINE Powers(i) == {k \in 1 .. Digits - 1 : 10 ^ k <= Abs(i)}
<1>1. Digits - 1 \in Int /\ 1 \in Int
  BY ArithmeticAssumption
<1>2. ASSUME NEW i \in Int
      PROVE  IsFiniteSet(Powers(i)) /\ Cardinality(Powers(i)) \in Nat
  <2>1. IsFiniteSet(1 .. Digits - 1)
    BY <1>1, FS_Interval
  <2>2. Powers(i) \subseteq 1 .. Digits - 1
    OBVIOUS
  <2> HIDE DEF Powers
  <2> QED
    BY <2>1, <2>2, FS_Subset, FS_CardinalityType
<1>3. \A i \in Int : NumChars(i) = Cardinality(Powers(i)) + IF i < 0 THEN 2 ELSE 1
  BY DEF NumChars
<1>4. ASSUME InLong(n)
      PROVE  NumChars(n) <= NumChars(LongMin)
  <2>1. n \in Int /\ LongMin \in Int /\ LongMin < 0 /\ LongMin <= n /\ n <= -(LongMin + 1)
    BY <1>4, ArithmeticAssumption DEF InLong
  <2>2. Abs(n) <= Abs(LongMin) /\ Abs(n) \in Int /\ Abs(LongMin) \in Int
    BY <2>1 DEF Abs
  <2>3. Powers(n) \subseteq Powers(LongMin)
    <3> SUFFICES ASSUME NEW k \in 1 .. Digits - 1, 10 ^ k <= Abs(n)
                 PROVE  10 ^ k <= Abs(LongMin)
      OBVIOUS
    <3>1. 10 ^ k \in Int
      BY <1>1
    <3> QED
      BY <2>2, <3>1
  <2>4. Cardinality(Powers(n)) <= Cardinality(Powers(LongMin))
    <3> HIDE DEF Powers
    <3> QED
      BY <1>2, <2>1, <2>3, FS_Subset
  <2> HIDE DEF Powers
  <2> QED
    BY <1>2, <1>3, <2>1, <2>4
<1>5. NumChars(n) \in Nat
  <2> HIDE DEF Powers
  <2> QED
    BY <1>2, <1>3
<1> QED
  BY <1>4, <1>5, ArithmeticAssumption

\* A text that is not cut shows the number.
LEMMA LineShows ==
    ASSUME NEW n \in Int, NEW bytes \in Nat
    PROVE  Shows(Line(n, bytes), n, bytes)
<1>1. NumChars(n) \in Nat
  BY NumCharsFacts
<1>2. NumChars(n) <= bytes => Line(n, bytes).value = n
  <2> SUFFICES ASSUME NumChars(n) <= bytes
               PROVE  Line(n, bytes).value = n
    OBVIOUS
  <2>1. ~(NumChars(n) > bytes)
    BY <1>1
  <2>2. Abs(n) \in Nat
    BY DEF Abs
  <2>3. Abs(n) \div 10 ^ 0 = Abs(n)
    BY <2>2
  <2>4. Line(n, bytes).value = IF n < 0 THEN -Abs(n) ELSE Abs(n)
    BY <2>1, <2>3 DEF Line
  <2> QED
    BY <2>4 DEF Abs
<1> QED
  BY <1>2 DEF Shows, Line

-----------------------------------------------------------------------------
(* The commands.                                                           *)

\* Arguments none of which is a word.
LEMMA NoWords ==
    ASSUME NEW args \in Seq(Int \cup {Word}), ~Words(args)
    PROVE  args \in Seq(Int)
<1>1. \A i \in 1 .. Len(args) : args[i] \in Int
  BY DEF Words
<1> QED
  BY <1>1

\* add() computes the wrapped sum of what strtol() returns.
LEMMA AddIsSum ==
    ASSUME NEW args \in Seq(Int)
    PROVE  LET sum == Sum([k \in DOMAIN args |-> StrToL(args[k])])
           IN /\ sum \in Int
              /\ FoldLeft(LAMBDA val, arg : ToLong(val + StrToL(arg)), 0, args) = ToLong(sum)
<1> DEFINE n == Len(args)
           long == [k \in DOMAIN args |-> StrToL(args[k])]
<1>1. n \in Nat /\ DOMAIN args = 1 .. n /\ \A k \in 1 .. n : args[k] \in Int
  OBVIOUS
<1>2. \A k \in 1 .. n : long[k] = StrToL(args[k]) /\ long[k] \in Int
  BY <1>1, StepTypes
<1>3. long \in Seq(Int) /\ Len(long) = n
  BY <1>1, <1>2
<1> HIDE DEF n, long
<1>4. PICK u : /\ u[0] = 0 /\ \A k \in 1 .. n : u[k] = u[k - 1] + long[k]
               /\ Sum(long) = u[n]
  BY <1>3, SumRuns
<1>5. PICK v : /\ v[0] = 0 /\ \A k \in 1 .. n : v[k] = ToLong(v[k - 1] + StrToL(args[k]))
               /\ FoldLeft(LAMBDA val, arg : ToLong(val + StrToL(arg)), 0, args) = v[n]
  BY AddRuns DEF n
<1> DEFINE S == {k \in 0 .. n : u[k] \in Int /\ v[k] = ToLong(u[k])}
<1>6. 0 \in S
  <2>1. 0 \in Int /\ InLong(0)
    BY ArithmeticAssumption DEF InLong
  <2>2. ToLong(0) = 0
    BY <2>1, LongResult
  <2>3. u[0] \in Int /\ v[0] = ToLong(u[0])
    BY <1>4, <1>5, <2>1, <2>2
  <2> QED
    BY <1>1, <2>3
<1>7. ASSUME NEW k \in 0 .. n - 1, k \in S
      PROVE  k + 1 \in S
  <2>1. k + 1 \in 1 .. n /\ (k + 1) - 1 = k /\ k + 1 \in 0 .. n
    BY <1>1
  <2>2. /\ u[k] \in Int /\ v[k] = ToLong(u[k]) /\ long[k + 1] \in Int
        /\ u[k + 1] = u[k] + long[k + 1]
        /\ v[k + 1] = ToLong(v[k] + long[k + 1])
    BY <1>2, <1>4, <1>5, <1>7, <2>1
  <2>3. ToLong(ToLong(u[k]) + long[k + 1]) = ToLong(u[k] + long[k + 1])
    BY <2>2, LongResult
  <2> QED
    BY <2>1, <2>2, <2>3
<1>8. n \in S
  <2>1. n \in 0 .. n
    BY <1>1
  <2> HIDE DEF S
  <2> QED
    BY <1>1, <1>6, <1>7, <2>1, UpTo
<1> QED
  BY <1>4, <1>5, <1>8 DEF long

\* multiply() computes the wrapped product of what strtol() returns.
LEMMA MultiplyIsProduct ==
    ASSUME NEW args \in Seq(Int), \A i \in DOMAIN args : InLong(args[i])
    PROVE  /\ Product(args) \in Int
           /\ FoldLeft(LAMBDA val, arg : ToLong(val * StrToL(arg)), 1, args) = ToLong(Product(args))
<1> DEFINE n == Len(args)
<1>1. n \in Nat /\ DOMAIN args = 1 .. n /\ \A k \in 1 .. n : args[k] \in Int
  OBVIOUS
<1>2. \A k \in 1 .. n : StrToL(args[k]) = args[k]
  BY <1>1, StepTypes
<1>3. PICK u : /\ u[0] = 1 /\ \A k \in 1 .. n : u[k] = u[k - 1] * args[k]
               /\ Product(args) = u[n]
  BY ProductRuns
<1>4. PICK v : /\ v[0] = 1 /\ \A k \in 1 .. n : v[k] = ToLong(v[k - 1] * StrToL(args[k]))
               /\ FoldLeft(LAMBDA val, arg : ToLong(val * StrToL(arg)), 1, args) = v[n]
  BY MultiplyRuns
<1> HIDE DEF n
<1> DEFINE S == {k \in 0 .. n : u[k] \in Int /\ v[k] = ToLong(u[k])}
<1>5. 0 \in S
  <2>1. 1 \in Int /\ InLong(1)
    BY ArithmeticAssumption DEF InLong
  <2>2. ToLong(1) = 1
    BY <2>1, LongResult
  <2>3. u[0] \in Int /\ v[0] = ToLong(u[0])
    BY <1>3, <1>4, <2>1, <2>2
  <2> QED
    BY <1>1, <2>3
<1>6. ASSUME NEW k \in 0 .. n - 1, k \in S
      PROVE  k + 1 \in S
  <2>1. k + 1 \in 1 .. n /\ (k + 1) - 1 = k /\ k + 1 \in 0 .. n
    BY <1>1
  <2>2. /\ u[k] \in Int /\ v[k] = ToLong(u[k]) /\ args[k + 1] \in Int
        /\ u[k + 1] = u[k] * args[k + 1]
        /\ v[k + 1] = ToLong(v[k] * args[k + 1])
    BY <1>1, <1>2, <1>3, <1>4, <1>6, <2>1
  <2>3. ToLong(ToLong(u[k]) * args[k + 1]) = ToLong(u[k] * args[k + 1])
    BY <2>2, LongResult
  <2>4. u[k] * args[k + 1] \in Int
    BY <2>2
  <2> QED
    BY <2>1, <2>2, <2>3, <2>4
<1>7. n \in S
  <2>1. n \in 0 .. n
    BY <1>1
  <2> HIDE DEF S
  <2> QED
    BY <1>1, <1>5, <1>6, <2>1, UpTo
<1> QED
  BY <1>3, <1>4, <1>7

\* subtract() computes the wrapped negative of the sum.
LEMMA SubtractIsNegativeSum ==
    ASSUME NEW args \in Seq(Int), \A i \in DOMAIN args : InInt(args[i])
    PROVE  /\ Sum(args) \in Int
           /\ FoldLeft(LAMBDA val, arg : ToInt(val - StrToInt(arg)), 0, args) = ToInt(-Sum(args))
<1> DEFINE n == Len(args)
<1>1. n \in Nat /\ DOMAIN args = 1 .. n /\ \A k \in 1 .. n : args[k] \in Int
  OBVIOUS
<1>2. \A k \in 1 .. n : StrToInt(args[k]) = args[k]
  BY <1>1, StepTypes
<1>3. PICK u : /\ u[0] = 0 /\ \A k \in 1 .. n : u[k] = u[k - 1] + args[k]
               /\ Sum(args) = u[n]
  BY SumRuns
<1>4. PICK v : /\ v[0] = 0 /\ \A k \in 1 .. n : v[k] = ToInt(v[k - 1] - StrToInt(args[k]))
               /\ FoldLeft(LAMBDA val, arg : ToInt(val - StrToInt(arg)), 0, args) = v[n]
  BY SubtractRuns
<1> HIDE DEF n
<1> DEFINE S == {k \in 0 .. n : u[k] \in Int /\ v[k] = ToInt(0 - u[k])}
<1>5. 0 \in S
  <2>1. 0 \in Int /\ InInt(0)
    BY ArithmeticAssumption DEF InInt
  <2>2. ToInt(0) = 0
    BY <2>1, IntResult
  <2>3. u[0] \in Int /\ 0 - u[0] = 0
    BY <1>3
  <2>4. v[0] = ToInt(0 - u[0])
    BY <1>4, <2>2, <2>3
  <2> QED
    BY <1>1, <2>3, <2>4
<1>6. ASSUME NEW k \in 0 .. n - 1, k \in S
      PROVE  k + 1 \in S
  <2>1. k + 1 \in 1 .. n /\ (k + 1) - 1 = k /\ k + 1 \in 0 .. n
    BY <1>1
  <2>2. /\ u[k] \in Int /\ v[k] = ToInt(0 - u[k]) /\ args[k + 1] \in Int
        /\ u[k + 1] = u[k] + args[k + 1]
        /\ v[k + 1] = ToInt(v[k] - args[k + 1])
    BY <1>1, <1>2, <1>3, <1>4, <1>6, <2>1
  <2>3. 0 - u[k] \in Int /\ 0 - u[k] - args[k + 1] = 0 - (u[k] + args[k + 1])
    BY <2>2
  <2>4. ToInt(ToInt(0 - u[k]) - args[k + 1]) = ToInt(0 - u[k] - args[k + 1])
    BY <2>2, <2>3, IntResult
  <2> QED
    BY <2>1, <2>2, <2>3, <2>4
<1>7. n \in S
  <2>1. n \in 0 .. n
    BY <1>1
  <2> HIDE DEF S
  <2> QED
    BY <1>1, <1>5, <1>6, <2>1, UpTo
<1>8. \A i \in Int : 0 - i = -i
  OBVIOUS
<1> QED
  BY <1>3, <1>4, <1>7, <1>8

-----------------------------------------------------------------------------
(* Powers of two.                                                          *)

\* How many subsets a set of n elements has.
LEMMA Subsets ==
    ASSUME NEW n \in Nat
    PROVE  /\ IsFiniteSet(SUBSET (1 .. n))
           /\ Cardinality(SUBSET (1 .. n)) = 2 ^ n
           /\ Cardinality(SUBSET (1 .. n)) \in Nat
<1>1. IsFiniteSet(1 .. n) /\ Cardinality(1 .. n) = n
  BY FS_Interval
<1> QED
  BY <1>1, FS_SUBSET, FS_CardinalityType

\* A set with one element more has twice the subsets.
LEMMA PowerDoubles ==
    ASSUME NEW k \in Nat
    PROVE  2 ^ (k + 1) = 2 * 2 ^ k
<1> DEFINE S == SUBSET (1 .. k)
           T == {s \cup {k + 1} : s \in S}
           f == [s \in S |-> s \cup {k + 1}]
<1>1. IsFiniteSet(S) /\ Cardinality(S) = 2 ^ k /\ Cardinality(S) \in Nat
  BY Subsets
<1>2. k + 1 \notin 1 .. k
  OBVIOUS
<1>3. IsFiniteSet(T) /\ Cardinality(T) = Cardinality(S)
  <2>1. f \in Bijection(S, T)
    <3>1. \A s \in S : f[s] = s \cup {k + 1} /\ k + 1 \notin s
      BY <1>2
    <3>2. \A s, t \in S : s \cup {k + 1} = t \cup {k + 1} => s = t
      <4> TAKE s \in S, t \in S
      <4> HAVE s \cup {k + 1} = t \cup {k + 1}
      <4>1. s = (s \cup {k + 1}) \ {k + 1} /\ t = (t \cup {k + 1}) \ {k + 1}
        BY <3>1
      <4> QED
        BY <4>1
    <3>3. f \in [S -> T] /\ \A t \in T : \E s \in S : f[s] = t
      OBVIOUS
    <3> HIDE DEF f, S, T
    <3> QED
      BY <3>1, <3>2, <3>3 DEF Bijection, Injection, Surjection, IsInjective
  <2>2. ExistsBijection(S, T)
    BY <2>1 DEF ExistsBijection
  <2> QED
    BY <1>1, <2>2, FS_Bijection
<1>4. S \cap T = {}
  BY <1>2
<1>5. SUBSET (1 .. k + 1) = S \cup T
  <2>1. 1 .. k + 1 = (1 .. k) \cup {k + 1}
    OBVIOUS
  <2>2. ASSUME NEW s \in SUBSET (1 .. k + 1), k + 1 \in s
        PROVE  s \in T
    <3>1. s \ {k + 1} \in S
      BY <2>1
    <3>2. s = (s \ {k + 1}) \cup {k + 1}
      BY <2>2
    <3> QED
      BY <3>1, <3>2
  <2>3. ASSUME NEW s \in SUBSET (1 .. k + 1), k + 1 \notin s
        PROVE  s \in S
    BY <2>1, <2>3
  <2>4. S \cup T \subseteq SUBSET (1 .. k + 1)
    BY <2>1
  <2> HIDE DEF S, T
  <2> QED
    BY <2>2, <2>3, <2>4
<1>6. Cardinality(S \cup T) = Cardinality(S) + Cardinality(T) - Cardinality(S \cap T)
  <2> HIDE DEF S, T
  <2> QED
    BY <1>1, <1>3, FS_Union
<1>7. Cardinality(S \cup T) = 2 ^ (k + 1)
  <2>1. Cardinality(SUBSET (1 .. k + 1)) = 2 ^ (k + 1)
    BY Subsets
  <2> HIDE DEF S, T
  <2> QED
    BY <1>5, <2>1
<1> HIDE DEF S, T
<1> QED
  BY <1>1, <1>3, <1>4, <1>6, <1>7, FS_EmptySet

\* Powers of two are positive, and grow.
LEMMA PowersGrow ==
    ASSUME NEW k \in Nat, NEW n \in 0 .. k
    PROVE  /\ 2 ^ n \in Nat \ {0} /\ 2 ^ k \in Nat \ {0}
           /\ 2 ^ k >= 2 ^ n
<1> DEFINE S == {i \in 0 .. k : 2 ^ i \in Nat \ {0} /\ (i >= n => 2 ^ i >= 2 ^ n)}
           R == {i \in 0 .. k : 2 ^ i \in Nat \ {0}}
<1>1. 2 ^ 0 = 1
  OBVIOUS
<1>2. ASSUME NEW i \in 0 .. k - 1, i \in R PROVE i + 1 \in R
  BY <1>2, PowerDoubles
<1>3. \A i \in 0 .. k : i \in R
  <2>1. 0 \in R
    BY <1>1
  <2> HIDE DEF R
  <2> QED
    BY <1>2, <2>1, UpTo
<1>4. 2 ^ n \in Nat \ {0} /\ \A i \in 0 .. k : 2 ^ i \in Nat \ {0}
  BY <1>3
<1>5. 0 \in S
  <2>1. 0 >= n => 2 ^ n = 2 ^ 0
    <3>1. 0 >= n => n = 0
      OBVIOUS
    <3> QED
      BY <3>1, Zenon
  <2>2. 0 \in 0 .. k /\ \A x, y \in Int : x = y => x >= y
    OBVIOUS
  <2>3. 0 >= n => 2 ^ 0 >= 2 ^ n
    BY <1>4, <2>1, <2>2
  <2> QED
    BY <1>4, <2>2, <2>3
<1>6. ASSUME NEW i \in 0 .. k - 1, i \in S PROVE i + 1 \in S
  <2>1. 2 ^ (i + 1) = 2 * 2 ^ i /\ i + 1 \in 0 .. k
    BY PowerDoubles
  <2>2. 2 ^ i \in Nat \ {0} /\ 2 ^ (i + 1) \in Nat \ {0}
    BY <1>4, <2>1
  <2>3. CASE i + 1 = n
    BY <2>1, <2>2, <2>3
  <2>4. CASE i + 1 # n
    BY <1>4, <1>6, <2>1, <2>2, <2>4
  <2> QED
    BY <2>3, <2>4
<1>7. k \in S
  <2> HIDE DEF S
  <2> QED
    BY <1>5, <1>6, UpTo
<1> QED
  BY <1>4, <1>7

-----------------------------------------------------------------------------
(* Rounding.                                                               *)

\* The nearest integer is off by half at most.
LEMMA NearestFacts ==
    ASSUME NEW n \in Nat, NEW d \in Nat, d > 0
    PROVE  /\ Nearest[<<n, d>>] \in Nat
           /\ 2 * (Nearest[<<n, d>>] * d) - 2 * n \in -d .. d
           /\ d = 1 => Nearest[<<n, d>>] = n
<1> DEFINE q == n \div d
           r == n % d
           m == Nearest[<<n, d>>]
<1>1. q \in Nat /\ r \in 0 .. d - 1 /\ n = d * q + r
  OBVIOUS
<1>2. m = IF 2 * r > d \/ (2 * r = d /\ q % 2 = 1) THEN q + 1 ELSE q
  BY DEF Nearest
<1> HIDE DEF q, r, m
<1>3. CASE m = q /\ 2 * r <= d
  <2>1. m * d = n - r
    BY <1>1, <1>3
  <2>2. 2 * (m * d) - 2 * n \in -d .. d
    BY <1>1, <1>3, <2>1
  <2>3. d = 1 => m = n
    BY <1>1, <1>3
  <2> QED
    BY <1>1, <1>3, <2>2, <2>3 DEF m
<1>4. CASE m = q + 1 /\ 2 * r >= d
  <2>1. m * d = n - r + d
    BY <1>1, <1>4
  <2>2. 2 * (m * d) - 2 * n \in -d .. d
    BY <1>1, <1>4, <2>1
  <2>3. d # 1
    BY <1>1, <1>4
  <2> QED
    BY <1>1, <1>4, <2>2, <2>3 DEF m
<1> QED
  BY <1>1, <1>2, <1>3, <1>4

\* A float has Precision bits: half of what they count is a power of two too.
LEMMA Bits ==
    \E half \in Nat \ {0} : /\ 2 ^ Precision = 2 * half
                            /\ 2 ^ (Precision + 1) = 4 * half
                            /\ Power(-MinExp) >= half * (2 * half)
<1>1. Precision \in Nat \ {0} /\ MinExp \in Int /\ MinExp <= 1 - 2 * Precision
  BY ArithmeticAssumption
<1>2. PICK k \in Nat : Precision = k + 1
  BY <1>1
<1> DEFINE half == 2 ^ k
<1>3. half \in Nat \ {0}
  BY PowersGrow
<1>4. 2 ^ (k + 1) = 2 * half /\ 2 ^ ((k + 1) + 1) = 2 * 2 ^ (k + 1)
  BY PowerDoubles
<1> DEFINE S == {i \in 0 .. k : 2 ^ (k + i) = half * 2 ^ i}
<1>5. 0 \in S
  <2>1. k + 0 = k /\ 2 ^ 0 = 1
    OBVIOUS
  <2>2. 2 ^ (k + 0) = half
    BY <2>1, Zenon
  <2> QED
    BY <1>3, <2>1, <2>2
<1>6. ASSUME NEW i \in 0 .. k - 1, i \in S PROVE i + 1 \in S
  <2>1. 2 ^ (i + 1) = 2 * 2 ^ i /\ 2 ^ ((k + i) + 1) = 2 * 2 ^ (k + i) /\ 2 ^ i \in Nat
    BY PowerDoubles, PowersGrow
  <2>2. (k + i) + 1 = k + (i + 1) /\ i + 1 \in 0 .. k
    OBVIOUS
  <2>3. 2 ^ (k + (i + 1)) = 2 * 2 ^ (k + i)
    BY <2>1, <2>2, Zenon
  <2> QED
    BY <1>3, <1>6, <2>1, <2>2, <2>3
<1>7. 2 ^ (k + k) = half * half
  <2>1. \A i \in 0 .. k : i \in S
    <3> HIDE DEF S
    <3> QED
      BY <1>5, <1>6, UpTo
  <2> QED
    BY <2>1
<1>8. Power(-MinExp) >= 2 * (half * half)
  <2>1. -MinExp \in Nat /\ -MinExp > 0 /\ (k + k) + 1 \in 0 .. -MinExp
    BY <1>1, <1>2
  <2>2. 2 ^ (-MinExp) >= 2 ^ ((k + k) + 1)
    BY <2>1, PowersGrow
  <2>3. 2 ^ ((k + k) + 1) = 2 * 2 ^ (k + k)
    BY PowerDoubles
  <2>4. Power(-MinExp) = 2 ^ (-MinExp)
    BY <2>1 DEF Power
  <2> QED
    BY <1>7, <2>2, <2>3, <2>4
<1> HIDE DEF half
<1> QED
  BY <1>2, <1>3, <1>4, <1>8

\* A multiple of no fewer than `half' units, or next to it, is off by one part
\* in 2 * half at most.
LEMMA Relative ==
    ASSUME NEW n \in Nat, NEW d \in Nat \ {0}, NEW half \in Nat \ {0}, NEW m \in Nat,
           2 * (m * d) - 2 * n \in -d .. d,
           n = 0 \/ 4 * n >= 4 * (half * d) - d
    PROVE  (2 * half) * Abs(m * d - n) <= n
<1>1. /\ m * d \in Nat /\ half * d \in Nat
      /\ m >= half + 1 => m * d >= half * d + d
      /\ m <= half - 1 => m * d <= half * d - d
      /\ m >= 1 => m * d >= d
      /\ half * d >= d
  OBVIOUS
<1>2. CASE n = 0
  <2>1. m = 0
    BY <1>1, <1>2
  <2> QED
    BY <1>2, <2>1 DEF Abs
<1>3. CASE n >= half * d
  <2>1. 2 * Abs(m * d - n) <= d /\ Abs(m * d - n) \in Nat
    BY <1>1 DEF Abs
  <2>2. \A e \in Nat : 2 * e <= d => half * (2 * e) <= half * d
    OBVIOUS
  <2>3. half * (2 * Abs(m * d - n)) <= half * d
    BY <2>1, <2>2
  <2>4. \A e \in Nat : half * (2 * e) = (2 * half) * e
    OBVIOUS
  <2>5. (2 * half) * Abs(m * d - n) <= half * d
    BY <2>1, <2>3, <2>4
  <2> DEFINE x == (2 * half) * Abs(m * d - n)
  <2>6. x \in Int
    BY <2>1
  <2> HIDE DEF x
  <2>7. x <= half * d
    BY <2>5 DEF x
  <2>8. x <= n
    BY <1>1, <1>3, <2>6, <2>7
  <2> QED
    BY <2>8 DEF x
<1>4. CASE n # 0 /\ n < half * d
  <2>1. m = half
    BY <1>1, <1>4
  <2> DEFINE e == half * d - n
  <2>2. e \in Nat /\ 4 * e <= d /\ Abs(m * d - n) = e
    BY <1>1, <1>4, <2>1 DEF Abs
  <2> HIDE DEF e
  <2>3. half * (4 * e) <= half * d /\ half * (4 * e) = 2 * ((2 * half) * e)
    BY <2>2
  <2>4. (2 * half) * e \in Int
    BY <2>2
  <2>5. (2 * half) * e <= n
    BY <1>1, <1>4, <2>3, <2>4
  <2> QED
    BY <2>2, <2>5
<1> QED
  BY <1>1, <1>2, <1>3, <1>4

\* What the scales are multiplied with.
LEMMA PowerFacts ==
    ASSUME NEW i \in Int
    PROVE  /\ Power(i) \in Nat \ {0}
           /\ i <= 0 => Power(i) = 1 /\ Power(-(i - 1)) = 2 * Power(-i)
<1>1. ASSUME NEW j \in Int PROVE Power(j) \in Nat \ {0}
  <2>1. CASE j > 0
    <3>1. j \in Nat
      BY <2>1
    <3>2. 2 ^ j \in Nat \ {0}
      BY <3>1, PowersGrow
    <3> QED
      BY <2>1, <3>2 DEF Power
  <2>2. CASE ~(j > 0)
    BY <2>2 DEF Power
  <2> QED
    BY <2>1, <2>2
<1>2. ASSUME i <= 0 PROVE Power(i) = 1 /\ Power(-(i - 1)) = 2 * Power(-i)
  <2>1. Power(i) = 1
    BY <1>2 DEF Power
  <2>2. PICK k \in Nat : -i = k /\ -(i - 1) = k + 1
    BY <1>2
  <2>3. Power(k + 1) = 2 ^ (k + 1) /\ 2 ^ (k + 1) = 2 * 2 ^ k
    BY PowerDoubles DEF Power
  <2>4. Power(k) = 2 ^ k
    <3>1. CASE k = 0
      <4>1. 2 ^ 0 = 1
        OBVIOUS
      <4>2. 2 ^ k = 1
        BY <3>1, <4>1, Zenon
      <4> QED
        BY <3>1, <4>2 DEF Power
    <3>2. CASE k > 0
      BY <3>2 DEF Power
    <3> QED
      BY <3>1, <3>2
  <2> QED
    BY <2>1, <2>2, <2>3, <2>4
<1> QED
  BY <1>1, <1>2

\* A quotient below the largest float fits in its bits without its fraction.
LEMMA IntegersFit ==
    ASSUME NEW n \in Nat, NEW d \in Nat \ {0}, NEW half \in Nat \ {0},
           2 ^ Precision = 2 * half, n <= (2 * half - 1) * d, NEW i \in Nat
    PROVE  Fits(<<n, d>>, i)
<1> DEFINE v == Power(i)
           m == Nearest[<<n, d * v>>]
<1>1. Power(-i) = 1 /\ v \in Nat \ {0}
  BY PowerFacts DEF Power
<1>2. Multiple(<<n, d>>, i) = m
  <2>1. n * 1 = n
    OBVIOUS
  <2> QED
    BY <1>1, <2>1 DEF Multiple
<1> HIDE DEF v
<1> DEFINE e == d * v
<1>3. e \in Nat /\ e > 0 /\ d <= e
  BY <1>1
<1>4. n <= (2 * half - 1) * e
  <2>1. (2 * half - 1) * d <= (2 * half - 1) * e
    <3>1. 2 * half - 1 \in Nat
      OBVIOUS
    <3>2. \A k \in Nat : k * d <= k * e
      BY <1>3
    <3> QED
      BY <3>1, <3>2
  <2>2. (2 * half - 1) * d \in Int /\ (2 * half - 1) * e \in Int
    BY <1>3
  <2> QED
    BY <2>1, <2>2
<1> HIDE DEF e
<1>5. m \in Nat /\ 2 * (m * e) - 2 * n \in -e .. e
  BY <1>3, NearestFacts DEF e
<1> HIDE DEF m
<1>6. m < 2 * half
  <2>1. m >= 2 * half => m * e >= (2 * half) * e
    BY <1>3, <1>5
  <2>2. (2 * half) * e = (2 * half - 1) * e + e /\ (2 * half - 1) * e \in Int /\ m * e \in Int
    BY <1>3, <1>5
  <2> QED
    BY <1>3, <1>4, <1>5, <2>1, <2>2
<1> QED
  BY <1>2, <1>6 DEF Fits

\* There is a finest multiple, and it is 1 or a fraction of 1.
LEMMA StepFacts ==
    ASSUME NEW n \in Nat, NEW d \in Nat \ {0}, NEW half \in Nat \ {0},
           2 ^ Precision = 2 * half, n <= (2 * half - 1) * d
    PROVE  /\ Step(<<n, d>>) \in MinExp .. 0
           /\ Step(<<n, d>>) > MinExp => ~Fits(<<n, d>>, Step(<<n, d>>) - 1)
<1> DEFINE q == <<n, d>>
           Finest(i) == Fits(q, i) /\ (i > MinExp => ~Fits(q, i - 1))
           K == {k \in 0 .. -MinExp : Fits(q, 0 - k)}
<1>1. MinExp \in Int /\ MinExp <= 0 /\ MaxExp \in Nat
  BY ArithmeticAssumption
<1>2. \A i \in Nat : Fits(q, i)
  BY IntegersFit
<1> HIDE DEF q
<1>3. \E i \in MinExp .. MaxExp : Finest(i)
  <2>1. -MinExp \in Nat /\ K \in SUBSET (0 .. -MinExp)
    BY <1>1
  <2>2. 0 \in K
    <3>1. 0 \in 0 .. -MinExp
      BY <1>1
    <3>2. 0 - 0 = 0
      OBVIOUS
    <3> QED
      BY <1>2, <3>1, <3>2
  <2> DEFINE k == Max(K)
  <2>3. k \in K /\ \A j \in K : k >= j
    <3> HIDE DEF K
    <3> QED
      BY <2>1, <2>2, MaxIsGreatest
  <2>4. k \in 0 .. -MinExp /\ Fits(q, 0 - k)
    BY <2>3
  <2>5. 0 - k > MinExp => ~Fits(q, (0 - k) - 1)
    <3> SUFFICES ASSUME 0 - k > MinExp, Fits(q, (0 - k) - 1) PROVE FALSE
      OBVIOUS
    <3> HIDE DEF k
    <3>1. k + 1 \in 0 .. -MinExp /\ 0 - (k + 1) = (0 - k) - 1
      BY <1>1, <2>4
    <3>2. k + 1 \in K
      BY <3>1
    <3> QED
      BY <2>3, <2>4, <3>2
  <2> HIDE DEF k
  <2>6. 0 - k \in MinExp .. MaxExp
    BY <1>1, <2>4
  <2> QED
    BY <2>4, <2>5, <2>6
<1>4. Step(q) \in MinExp .. MaxExp /\ Finest(Step(q))
  <2>1. Step(q) = CHOOSE i \in MinExp .. MaxExp : Finest(i)
    BY DEF Step
  <2> HIDE DEF Finest
  <2> QED
    BY <1>3, <2>1
<1>5. Step(q) <= 0
  <2> SUFFICES ASSUME Step(q) > 0 PROVE FALSE
    BY <1>1, <1>4
  <2>1. Step(q) - 1 \in Nat /\ Step(q) > MinExp
    BY <1>1, <1>4
  <2> QED
    BY <1>2, <1>4, <2>1
<1> QED
  BY <1>1, <1>4, <1>5 DEF q

\* A float is off by half of the last of its bits at most, when it is neither
\* beyond the largest nor below the smallest that has all of them, and an
\* integer of so many bits is a float.
LEMMA FloatFacts ==
    ASSUME NEW n \in Nat, NEW d \in Nat \ {0}, NEW half \in Nat \ {0},
           2 ^ Precision = 2 * half, n <= (2 * half - 1) * d,
           n = 0 \/ n * Power(-MinExp) >= half * d
    PROVE  \E x \in Nat, y \in Nat \ {0} :
               /\ Float[<<n, d>>] = <<x, y>>
               /\ (2 * half) * Abs(x * d - n * y) <= n * y
               /\ d = 1 => x = n * y
<1> DEFINE q == <<n, d>>
           i == Step(q)
           w == Power(-i)
           x == Nearest[<<n * w, d>>]
<1>1. MinExp \in Int
  BY ArithmeticAssumption
<1>2. i \in Int /\ i <= 0 /\ i >= MinExp /\ (i > MinExp => ~Fits(q, i - 1))
  BY <1>1, StepFacts
<1> HIDE DEF i
<1>3. w \in Nat \ {0} /\ Power(i) = 1 /\ Power(i - 1) = 1 /\ Power(-(i - 1)) = 2 * w
  BY <1>2, PowerFacts DEF Power
<1>4. \A k \in Nat : k * 1 = k
  OBVIOUS
<1>5. Multiple(q, i) = x
  <2>1. d * Power(i) = d
    BY <1>3, <1>4
  <2> QED
    BY <2>1 DEF Multiple
<1> HIDE DEF w
<1>6. n * w \in Nat
  BY <1>3
<1>7. x \in Nat /\ 2 * (x * d) - 2 * (n * w) \in -d .. d /\ (d = 1 => x = n * w)
  BY <1>6, NearestFacts
<1>8. Float[q] = <<x, w>>
  <2>1. q \in Nat \X Nat /\ <<q, i>> \in (Nat \X Nat) \X Int
    BY <1>2
  <2>2. Float[q] = AtStep[<<q, i>>]
    BY <2>1 DEF Float, i
  <2>3. AtStep[<<q, i>>] = <<Multiple(q, i) * Power(i), Power(-i)>>
    <3> HIDE DEF q
    <3> QED
      BY <2>1 DEF AtStep
  <2>4. x * Power(i) = x
    BY <1>3, <1>4, <1>7
  <2> QED
    BY <1>5, <2>2, <2>3, <2>4 DEF w
<1>9. n * w = 0 \/ 4 * (n * w) >= 4 * (half * d) - d
  <2>1. CASE i = MinExp
    <3>1. n * w >= half * d \/ n = 0
      BY <2>1 DEF w
    <3>2. half * d \in Nat
      OBVIOUS
    <3> QED
      BY <1>3, <1>6, <3>1, <3>2
  <2>2. CASE i > MinExp
    <3> DEFINE m == Nearest[<<n * (2 * w), d>>]
    <3>1. Multiple(q, i - 1) = m
      <4>1. d * Power(i - 1) = d
        BY <1>3, <1>4
      <4> QED
        BY <1>3, <4>1 DEF Multiple
    <3>2. n * (2 * w) \in Nat /\ n * (2 * w) = 2 * (n * w)
      BY <1>3
    <3>3. m \in Nat /\ 2 * (m * d) - 2 * (n * (2 * w)) \in -d .. d
      BY <3>2, NearestFacts
    <3>4. m >= 2 * half
      BY <1>2, <2>2, <3>1, <3>3 DEF Fits
    <3> HIDE DEF m
    <3>5. m * d >= (2 * half) * d /\ (2 * half) * d = 2 * (half * d) /\ half * d \in Nat /\ m * d \in Nat
      BY <3>3, <3>4
    <3> QED
      BY <1>6, <3>2, <3>3, <3>5
  <2> QED
    BY <1>1, <1>2, <2>1, <2>2
<1> HIDE DEF x
<1>10. (2 * half) * Abs(x * d - n * w) <= n * w
  BY <1>6, <1>7, <1>9, Relative
<1> QED
  BY <1>3, <1>7, <1>8, <1>10

\* Rounding to hundredths what is off by one part in p.
LEMMA BothRoundings ==
    ASSUME NEW a \in Nat, NEW b \in Nat \ {0}, NEW p \in Nat \ {0},
           NEW x \in Nat, NEW y \in Nat \ {0}, NEW h \in Nat,
           p * Abs(x * b - a * y) <= a * y,
           2 * (h * y) - 2 * (100 * x) \in -y .. y
    PROVE  (2 * p) * Abs(h * b - 100 * a) <= p * b + 200 * a
<1> DEFINE u == h * y - 100 * x
           v == x * b - a * y
           e == h * b - 100 * a
<1>1. u \in Int /\ v \in Int /\ e \in Int
  OBVIOUS
<1>2. e * y = u * b + 100 * v
  OBVIOUS
<1>3. 2 * u <= y /\ 2 * u >= -y
  OBVIOUS
<1>4. p * v <= a * y /\ p * v >= -(a * y)
  <2>1. p * Abs(v) <= a * y /\ a * y \in Nat
    OBVIOUS
  <2> HIDE DEF v
  <2> QED
    BY <1>1, <2>1 DEF Abs
<1> HIDE DEF u, v, e
<1>5. p * (e * y) = p * (u * b) + 100 * (p * v)
  BY <1>1, <1>2
<1>6. 2 * (p * (u * b)) <= p * (b * y) /\ 2 * (p * (u * b)) >= -(p * (b * y))
  <2> DEFINE c == p * b
  <2>1. c \in Nat /\ p * (u * b) = c * u /\ p * (b * y) = c * y
    BY <1>1
  <2> HIDE DEF c
  <2>2. c * (2 * u) <= c * y /\ c * (2 * u) >= c * (-y)
    BY <1>1, <1>3, <2>1
  <2> QED
    BY <1>1, <2>1, <2>2
<1>7. 2 * (p * (e * y)) <= p * (b * y) + 200 * (a * y) /\ 2 * (p * (e * y)) >= -(p * (b * y) + 200 * (a * y))
  <2> DEFINE r == p * (u * b)
             s == p * v
             t == p * (b * y)
             z == a * y
             l == p * (e * y)
  <2>1. r \in Int /\ s \in Int /\ t \in Int /\ z \in Int /\ l \in Int
    BY <1>1
  <2>2. l = r + 100 * s /\ 2 * r <= t /\ 2 * r >= -t /\ s <= z /\ s >= -z
    BY <1>4, <1>5, <1>6
  <2> HIDE DEF r, s, t, z, l
  <2>3. 2 * l <= t + 200 * z /\ 2 * l >= -(t + 200 * z)
    BY <2>1, <2>2
  <2> QED
    BY <2>3 DEF l, t, z
<1> DEFINE f == (2 * p) * e
           g == p * b + 200 * a
<1>8. f \in Int /\ g \in Nat
  BY <1>1
<1>9. f * y = 2 * (p * (e * y)) /\ g * y = p * (b * y) + 200 * (a * y)
  BY <1>1
<1>10. (2 * p) * Abs(e) = Abs(f)
  BY <1>1 DEF Abs
<1> HIDE DEF f, g
<1>11. f * y <= g * y /\ f * y >= -(g * y)
  BY <1>7, <1>9
<1>12. f <= g /\ -f <= g
  BY <1>8, <1>11
<1>13. Abs(f) <= g
  BY <1>8, <1>12 DEF Abs
<1> QED
  BY <1>10, <1>13 DEF e, g

\* A quotient of two floats is shown in hundredths, off by half a hundredth and
\* half of the last bit at most.
LEMMA HundredthsFacts ==
    ASSUME NEW a \in Int, NEW b \in Int, b # 0,
           {Abs(a), Abs(b)} \subseteq 0 .. 2 ^ Precision - 1
    PROVE  /\ Hundredths(a, b) \in Nat
           /\ ~Infinite(a) /\ ~Infinite(b)
           /\ 2 ^ (Precision + 1) * Abs(Hundredths(a, b) * Abs(b) - 100 * Abs(a))
                 <= 2 ^ Precision * Abs(b) + 200 * Abs(a)
<1> DEFINE A == Abs(a)
           B == Abs(b)
           least == Power(-MinExp)
<1>1. PICK half \in Nat \ {0} : /\ 2 ^ Precision = 2 * half
                                /\ 2 ^ (Precision + 1) = 4 * half
                                /\ least >= half * (2 * half)
  BY Bits
<1>2. MaxExp \in Nat /\ -MinExp \in Int /\ 1 \in Nat \ {0}
  BY ArithmeticAssumption
<1>3. least \in Nat \ {0}
  BY <1>2, PowerFacts
<1>4. A \in 0 .. 2 * half - 1 /\ B \in 1 .. 2 * half - 1
  <2>1. Abs(b) # 0
    BY DEF Abs
  <2>2. Abs(a) \in 0 .. 2 ^ Precision - 1 /\ Abs(b) \in 0 .. 2 ^ Precision - 1
    OBVIOUS
  <2> QED
    BY <1>1, <2>1, <2>2
<1> HIDE DEF A, B, least
<1>5. ASSUME NEW k \in 0 .. 2 * half - 1
      PROVE  /\ Fits(<<k, 1>>, MaxExp)
             /\ \E w \in Nat \ {0} : Float[<<k, 1>>] = <<k * w, w>>
  <2>1. k \in Nat /\ k <= (2 * half - 1) * 1
    OBVIOUS
  <2>2. k = 0 \/ k * least >= half * 1
    <3>1. k # 0 => k * least >= least
      BY <1>3
    <3>2. half * (2 * half) >= half /\ half * (2 * half) \in Int /\ half * 1 = half
      OBVIOUS
    <3>3. k * least \in Int
      BY <1>3
    <3> QED
      BY <1>1, <1>3, <3>1, <3>2, <3>3
  <2>3. Fits(<<k, 1>>, MaxExp)
    BY <1>1, <1>2, <2>1, IntegersFit
  <2>4. PICK x \in Nat, w \in Nat \ {0} : Float[<<k, 1>>] = <<x, w>> /\ x = k * w
    <3> HIDE DEF least
    <3>1. \E x \in Nat, w \in Nat \ {0} :
              /\ Float[<<k, 1>>] = <<x, w>>
              /\ (2 * half) * Abs(x * 1 - k * w) <= k * w
              /\ 1 = 1 => x = k * w
      BY <1>1, <1>2, <2>1, <2>2, FloatFacts DEF least
    <3> QED
      BY <3>1
  <2> QED
    BY <2>3, <2>4
<1>6. ~Infinite(a) /\ ~Infinite(b)
  <2>1. B \in 0 .. 2 * half - 1
    BY <1>4
  <2>2. Fits(<<A, 1>>, MaxExp) /\ Fits(<<B, 1>>, MaxExp)
    BY <1>4, <1>5, <2>1
  <2> QED
    BY <2>2 DEF Infinite, A, B
<1>7. PICK v \in Nat \ {0} : Float[<<A, 1>>] = <<A * v, v>>
  BY <1>4, <1>5
<1>8. PICK w \in Nat \ {0} : Float[<<B, 1>>] = <<B * w, w>>
  <2>1. B \in 0 .. 2 * half - 1
    BY <1>4
  <2> QED
    BY <1>5, <2>1
<1> DEFINE n == (A * v) * w
           d == v * (B * w)
           c == v * w
<1>9. c \in Nat \ {0} /\ n = A * c /\ d = B * c /\ n \in Nat /\ d \in Nat \ {0}
  BY <1>4
<1>10. Hundredths(a, b) = InHundredths[Float[<<n, d>>]]
  <2>1. <<A * v, v>> \in Nat \X Nat /\ <<B * w, w>> \in Nat \X Nat
    BY <1>4
  <2>2. <<<<A * v, v>>, <<B * w, w>>>> \in (Nat \X Nat) \X (Nat \X Nat)
    BY <2>1
  <2>3. Divided[<<<<A * v, v>>, <<B * w, w>>>>] = InHundredths[Float[<<n, d>>]]
    BY <2>2 DEF Divided
  <2> HIDE DEF n, d
  <2> QED
    BY <1>6, <1>7, <1>8, <2>3 DEF Hundredths, A, B
<1> HIDE DEF n, d, c
<1>11. PICK x \in Nat, y \in Nat \ {0} : /\ Float[<<n, d>>] = <<x, y>>
                                         /\ (2 * half) * Abs(x * d - n * y) <= n * y
  <2>1. n <= (2 * half - 1) * d
    <3>1. A <= (2 * half - 1) * B
      BY <1>4
    <3>2. (2 * half - 1) * B \in Nat /\ ((2 * half - 1) * B) * c = (2 * half - 1) * d
      BY <1>4, <1>9
    <3>3. \A k \in Nat : A <= k => A * c <= k * c
      BY <1>4, <1>9
    <3> QED
      BY <1>9, <3>1, <3>2, <3>3
  <2>2. n = 0 \/ n * least >= half * d
    <3>1. CASE A = 0
      BY <1>9, <3>1
    <3>2. CASE A # 0
      <4>1. A * least >= least /\ A * least \in Nat
        BY <1>3, <1>4, <3>2
      <4>2. half * (2 * half) >= half * B /\ half * B \in Nat /\ half * (2 * half) \in Nat
        BY <1>4
      <4>3. A * least >= half * B
        BY <1>1, <1>3, <4>1, <4>2
      <4>4. (A * least) * c >= (half * B) * c
        BY <1>9, <4>1, <4>2, <4>3
      <4>5. (A * least) * c = n * least /\ (half * B) * c = half * d
        BY <1>3, <1>4, <1>9
      <4> QED
        BY <4>4, <4>5
    <3> QED
      BY <3>1, <3>2
  <2> QED
    BY <1>1, <1>9, <2>1, <2>2, FloatFacts DEF least
<1>12. (2 * half) * Abs(x * B - A * y) <= A * y
  <2> DEFINE r == x * B - A * y
             s == A * y
  <2>1. r \in Int /\ s \in Nat
    BY <1>4
  <2>2. x * d - n * y = r * c /\ n * y = s * c
    BY <1>4, <1>9
  <2> HIDE DEF r, s
  <2>3. Abs(r) \in Nat /\ Abs(r * c) = Abs(r) * c
    BY <1>9, <2>1 DEF Abs
  <2> DEFINE t == (2 * half) * Abs(r)
  <2>4. t \in Nat /\ (2 * half) * (Abs(r) * c) = t * c
    BY <1>9, <2>3
  <2> HIDE DEF t
  <2>5. t * c <= s * c
    BY <1>11, <2>2, <2>3, <2>4
  <2>6. t <= s
    BY <1>9, <2>1, <2>4, <2>5
  <2> QED
    BY <2>6 DEF r, s, t
<1> DEFINE h == Nearest[<<100 * x, y>>]
<1>13. 100 * x \in Nat /\ h \in Nat /\ 2 * (h * y) - 2 * (100 * x) \in -y .. y
  BY NearestFacts
<1>14. Hundredths(a, b) = h
  <2>1. InHundredths[<<x, y>>] = h
    BY DEF InHundredths
  <2> QED
    BY <1>10, <1>11, <2>1
<1> HIDE DEF h
<1>15. (2 * (2 * half)) * Abs(h * B - 100 * A) <= (2 * half) * B + 200 * A
  <2>1. A \in Nat /\ B \in Nat \ {0} /\ 2 * half \in Nat \ {0}
    BY <1>4
  <2> QED
    BY <1>12, <1>13, <2>1, BothRoundings
<1>16. 2 * (2 * half) = 4 * half
  OBVIOUS
<1> QED
  BY <1>1, <1>6, <1>13, <1>14, <1>15, <1>16 DEF A, B

\* What divide() shows of two integers that are floats is as exact as a float
\* and two decimals allow, when it is not cut.
LEMMA QuotientExact ==
    ASSUME NEW a \in Int, NEW b \in Int, b # 0,
           {Abs(a), Abs(b)} \subseteq 0 .. 2 ^ Precision - 1, Places(a, b) <= Cut
    PROVE  2 ^ (Precision + 1) * Abs(Quotient(a, b).value * b - 100 * a)
               <= 2 ^ Precision * Abs(b) + 200 * Abs(a)
<1> DEFINE h == Hundredths(a, b)
           value == Quotient(a, b).value
<1>1. /\ h \in Nat
      /\ 2 ^ (Precision + 1) * Abs(h * Abs(b) - 100 * Abs(a))
             <= 2 ^ Precision * Abs(b) + 200 * Abs(a)
  BY HundredthsFacts
<1>2. value = IF Negative(a, b) THEN -h ELSE h
  <2>1. Places(a, b) \in Int
    <3>1. h \div 100 \in Int
      BY <1>1
    <3> QED
      BY <3>1, NumCharsFacts DEF Places
  <2>2. ~(Places(a, b) > Cut)
    BY <2>1, ArithmeticAssumption
  <2>3. h - (h % 10 ^ 0) = h
    BY <1>1
  <2> HIDE DEF h
  <2> QED
    BY <2>2, <2>3 DEF Quotient, h
<1> HIDE DEF h, value
<1>3. value * b - 100 * a = h * Abs(b) - 100 * Abs(a) \/
      value * b - 100 * a = -(h * Abs(b) - 100 * Abs(a))
  <2>1. /\ (-h) * b = h * (-b) /\ h * (-b) = -(h * b) /\ h * b \in Int
    BY <1>1
  <2>2. CASE a < 0 /\ b < 0
    <3>1. value = h /\ Abs(a) = -a /\ Abs(b) = -b
      BY <1>2, <2>2 DEF Negative, Abs
    <3> QED
      BY <1>1, <2>1, <3>1
  <2>3. CASE a < 0 /\ ~(b < 0)
    <3>1. value = -h /\ Abs(a) = -a /\ Abs(b) = b
      BY <1>2, <2>3 DEF Negative, Abs
    <3> QED
      BY <1>1, <2>1, <3>1
  <2>4. CASE ~(a < 0) /\ b < 0
    <3>1. value = -h /\ Abs(a) = a /\ Abs(b) = -b
      BY <1>2, <2>4 DEF Negative, Abs
    <3> QED
      BY <1>1, <2>1, <3>1
  <2>5. CASE ~(a < 0) /\ ~(b < 0)
    <3>1. value = h /\ Abs(a) = a /\ Abs(b) = b
      BY <1>2, <2>5 DEF Negative, Abs
    <3> QED
      BY <1>1, <2>1, <3>1
  <2> QED
    BY <2>2, <2>3, <2>4, <2>5
<1>4. \A x, y \in Int : (y = x \/ y = -x) => Abs(y) = Abs(x)
  BY DEF Abs
<1>5. h * Abs(b) - 100 * Abs(a) \in Int
  <2>1. Abs(a) \in Nat /\ Abs(b) \in Nat
    BY DEF Abs
  <2> QED
    BY <1>1, <2>1
<1>6. value * b - 100 * a \in Int
  BY <1>3, <1>5
<1>7. Abs(value * b - 100 * a) = Abs(h * Abs(b) - 100 * Abs(a))
  BY <1>3, <1>4, <1>5, <1>6
<1> QED
  BY <1>1, <1>7 DEF value

\* A division is answered with a quotient only where it has one, and always
\* where both numbers are floats.
LEMMA DivideExact ==
    ASSUME NEW args \in Seq(Int \cup {Word}), NEW newline
    PROVE  DivisionExact(args, Divide(args, newline))
<1> DEFINE a == Number(args[1])
           b == args[2]
           text == Divide(args, newline)
<1>1. Len(args) = 2 => a \in Int /\ b \in Int \cup {Word}
  BY DEF Number
<1>2. ASSUME text.kind = "quotient"
      PROVE  Len(args) = 2 /\ b \notin {0, Word}
  BY <1>2 DEF Divide, Message
<1>3. ASSUME Len(args) = 2, b \notin {0, Word},
             {Abs(a), Abs(b)} \subseteq 0 .. 2 ^ Precision - 1
      PROVE  text = Quotient(a, b)
  <2> HIDE DEF a, b
  <2>1. a \in Int /\ b \in Int /\ b # 0
    BY <1>1, <1>3
  <2>2. ~Infinite(a) /\ ~Infinite(b)
    BY <1>3, <2>1, HundredthsFacts
  <2> QED
    BY <1>3, <2>1, <2>2 DEF Divide, a, b
<1>4. Quotient(a, b).kind = "quotient"
  BY DEF Quotient
<1>5. ASSUME Len(args) = 2, b \notin {0, Word},
             {Abs(a), Abs(b)} \subseteq 0 .. 2 ^ Precision - 1, Places(a, b) <= Cut
      PROVE  2 ^ (Precision + 1) * Abs(text.value * b - 100 * a)
                 <= 2 ^ Precision * Abs(b) + 200 * Abs(a)
  <2>1. text = Quotient(a, b)
    BY <1>3, <1>5
  <2>2. a \in Int /\ b \in Int /\ b # 0
    BY <1>1, <1>5
  <2> HIDE DEF a, b, text
  <2>3. 2 ^ (Precision + 1) * Abs(Quotient(a, b).value * b - 100 * a)
            <= 2 ^ Precision * Abs(b) + 200 * Abs(a)
    BY <1>5, <2>2, QuotientExact
  <2> QED
    BY <2>1, <2>3
<1> HIDE DEF a, b, text
<1>6. DivisionExact(args, text)
  BY <1>2, <1>3, <1>4, <1>5 DEF DivisionExact, a, b
<1> QED
  BY <1>6 DEF text

-----------------------------------------------------------------------------
(* The answers.                                                            *)

\* Every arithmetic command is answered exactly, where the width allows it.
LEMMA AnswerExact ==
    ASSUME NEW command, command.args \in Seq(Int \cup {Word}), InThread(command.op)
    PROVE  Exact(command, Answer(command.op, command.args, command.newline))
<1> DEFINE args == command.args
           text == Answer(command.op, command.args, command.newline)
<1>1. Cut \in Nat /\ Room \in Nat
  <2>1. LongMin \in Int
    BY ArithmeticAssumption
  <2> QED
    BY <2>1, NumCharsFacts, ArithmeticAssumption
<1>2. CASE command.op = "add"
  <2> SUFFICES ASSUME ~Words(args), \A i \in DOMAIN args : InLong(args[i]), InLong(Sum(args))
               PROVE  Shows(text, Sum(args), Room)
    BY <1>2 DEF Exact
  <2>1. args \in Seq(Int)
    BY NoWords
  <2>2. [k \in DOMAIN args |-> StrToL(args[k])] = args
    <3>1. \A k \in DOMAIN args : args[k] \in Int
      BY <2>1
    <3>2. \A k \in DOMAIN args : StrToL(args[k]) = args[k]
      BY <3>1, StepTypes
    <3>3. args = [k \in DOMAIN args |-> args[k]]
      BY <2>1
    <3> HIDE DEF args
    <3> QED
      BY <3>2, <3>3
  <2>3. /\ Sum(args) \in Int
        /\ FoldLeft(LAMBDA val, arg : ToLong(val + StrToL(arg)), 0, args) = ToLong(Sum(args))
    BY <2>1, <2>2, AddIsSum
  <2>4. ToLong(Sum(args)) = Sum(args)
    BY <2>3, LongResult
  <2>5. text = Line(Sum(args), Room)
    BY <1>2, <2>3, <2>4, Zenon DEF Answer, Add
  <2> QED
    BY <1>1, <2>3, <2>5, LineShows
<1>3. CASE command.op = "mul"
  <2> SUFFICES ASSUME ~Words(args), \A i \in DOMAIN args : InLong(args[i]), InLong(Product(args))
               PROVE  Shows(text, Product(args), Cut)
    BY <1>3 DEF Exact
  <2>1. args \in Seq(Int)
    BY NoWords
  <2>2. /\ Product(args) \in Int
        /\ FoldLeft(LAMBDA val, arg : ToLong(val * StrToL(arg)), 1, args) = ToLong(Product(args))
    BY <2>1, MultiplyIsProduct
  <2>3. ToLong(Product(args)) = Product(args)
    BY <2>2, LongResult
  <2>4. text = Line(Product(args), Cut)
    BY <1>3, <2>2, <2>3, Zenon DEF Answer, Multiply
  <2> QED
    BY <1>1, <2>2, <2>4, LineShows
<1>4. CASE command.op = "sub"
  <2> SUFFICES ASSUME ~Words(args), \A i \in DOMAIN args : InInt(args[i]), InInt(-Sum(args))
               PROVE  Shows(text, -Sum(args), Cut)
    BY <1>4 DEF Exact
  <2>1. args \in Seq(Int)
    BY NoWords
  <2>2. /\ Sum(args) \in Int
        /\ FoldLeft(LAMBDA val, arg : ToInt(val - StrToInt(arg)), 0, args) = ToInt(-Sum(args))
    BY <2>1, SubtractIsNegativeSum
  <2>3. -Sum(args) \in Int
    <3>1. \A i \in Int : -i \in Int
      OBVIOUS
    <3> QED
      BY <2>2, <3>1
  <2>4. ToInt(-Sum(args)) = -Sum(args)
    BY <2>3, IntResult
  <2>5. text = Line(-Sum(args), Cut)
    BY <1>4, <2>2, <2>4, Zenon DEF Answer, Subtract
  <2> QED
    BY <1>1, <2>3, <2>5, LineShows
<1>5. CASE command.op = "div"
  <2>1. text = Divide(args, command.newline)
    BY <1>5 DEF Answer
  <2>2. DivisionExact(args, text)
    BY <2>1, DivideExact
  <2> HIDE DEF text
  <2>3. Exact(command, text)
    BY <1>5, <2>2 DEF Exact
  <2> QED
    BY <2>3 DEF text
<1> QED
  BY <1>2, <1>3, <1>4, <1>5 DEF InThread

-----------------------------------------------------------------------------
(* What one read() finds.                                                  *)

\* FlattenSeq of sequences over T is one.
LEMMA FlattenType ==
    ASSUME NEW T, NEW seqs \in Seq(Seq(T))
    PROVE  FlattenSeq(seqs) \in Seq(T)
<1> DEFINE n == Len(seqs)
           Flat(g, k) == \A i \in 1 .. k : g[i] = IF i = 1 THEN seqs[i] ELSE g[i - 1] \o seqs[i]
           S == {k \in 0 .. n : \E g \in [1 .. n -> Seq(T)] : Flat(g, k)}
           Rec(g) == g = [i \in 1 .. n |-> IF i = 1 THEN seqs[i] ELSE g[i - 1] \o seqs[i]]
<1>1. n \in Nat /\ \A i \in 1 .. n : seqs[i] \in Seq(T)
  OBVIOUS
<1>2. 0 \in S
  <2>1. Flat(seqs, 0) /\ seqs \in [1 .. n -> Seq(T)]
    OBVIOUS
  <2> QED
    BY <1>1, <2>1
<1>3. ASSUME NEW k \in 0 .. n - 1, NEW g \in [1 .. n -> Seq(T)], Flat(g, k)
      PROVE  \E h \in [1 .. n -> Seq(T)] : Flat(h, k + 1)
  <2> HIDE DEF n
  <2> DEFINE h == [g EXCEPT ![k + 1] = IF k = 0 THEN seqs[1] ELSE g[k] \o seqs[k + 1]]
  <2>1. k + 1 \in 1 .. n /\ (k # 0 => k \in 1 .. n) /\ (k + 1) - 1 = k /\ (k + 1 = 1 <=> k = 0)
    BY <1>1
  <2>2. h \in [1 .. n -> Seq(T)]
    <3>1. k # 0 => g[k] \o seqs[k + 1] \in Seq(T)
      BY <1>1, <2>1
    <3>2. k = 0 => seqs[1] \in Seq(T)
      BY <1>1, <2>1
    <3> QED
      BY <3>1, <3>2
  <2>3. ASSUME NEW i \in 1 .. k + 1
        PROVE  h[i] = IF i = 1 THEN seqs[i] ELSE h[i - 1] \o seqs[i]
    <3>1. CASE i = k + 1
      <4>1. k # 0 => h[k] = g[k]
        BY <2>1
      <4> QED
        BY <2>1, <3>1, <4>1
    <3>2. CASE i # k + 1
      <4>1. i \in 1 .. k /\ i \in 1 .. n /\ (i # 1 => i - 1 \in 1 .. n /\ i - 1 # k + 1)
        BY <1>1, <3>2
      <4>2. h[i] = g[i] /\ (i # 1 => h[i - 1] = g[i - 1])
        BY <3>2, <4>1
      <4> QED
        BY <1>3, <4>1, <4>2
    <3> QED
      BY <3>1, <3>2
  <2> HIDE DEF h
  <2> QED
    BY <2>2, <2>3
<1>4. \A k \in 0 .. n - 1 : k \in S => k + 1 \in S
  <2> HIDE DEF Flat, n
  <2>1. \A k \in 0 .. n - 1 : k + 1 \in 0 .. n
    BY <1>1
  <2> QED
    BY <1>3, <2>1
<1>5. n \in S
  <2>1. n \in 0 .. n
    BY <1>1
  <2> HIDE DEF S, n
  <2> QED
    BY <1>1, <1>2, <1>4, <2>1, UpTo
<1>6. \E g : Rec(g)
  <2>1. PICK g \in [1 .. n -> Seq(T)] : Flat(g, n)
    BY <1>5
  <2>2. Rec(g)
    <3> HIDE DEF n
    <3> QED
      BY <2>1
  <2> QED
    BY <2>2
<1>7. CASE n = 0
  <2>1. FlattenSeq(seqs) = seqs
    BY <1>7 DEF FlattenSeq
  <2> QED
    BY <1>7, <2>1
<1>8. CASE n # 0
  <2>1. PICK h : Rec(h) /\ FlattenSeq(seqs) = h[n]
    BY <1>6, <1>8, Zenon DEF FlattenSeq
  <2> DEFINE U == {k \in 0 .. n : k = 0 \/ h[k] \in Seq(T)}
  <2>2. ASSUME NEW k \in 0 .. n - 1, k \in U
        PROVE  k + 1 \in U
    <3> HIDE DEF n
    <3>1. k + 1 \in 1 .. n /\ (k + 1) - 1 = k /\ (k + 1 = 1 <=> k = 0) /\ k + 1 \in 0 .. n
      BY <1>1
    <3>2. h[k + 1] = IF k = 0 THEN seqs[k + 1] ELSE h[k] \o seqs[k + 1]
      BY <2>1, <3>1
    <3>3. h[k + 1] \in Seq(T)
      BY <1>1, <2>2, <3>1, <3>2
    <3> QED
      BY <3>1, <3>3
  <2>3. 0 \in U /\ n \in 0 .. n
    BY <1>1
  <2>4. n \in U
    <3> HIDE DEF U, n
    <3> QED
      BY <1>1, <2>2, <2>3, UpTo
  <2> QED
    BY <1>8, <2>1, <2>4
<1> QED
  BY <1>7, <1>8

\* Whatever command lines are merged to has the type of one.
LEMMA MergedType ==
    ASSUME NEW lines \in Seq(Lines), lines # <<>>
    PROVE  Merged(lines) \subseteq Commands
<1> DEFINE args == [i \in DOMAIN lines |-> lines[i].args]
<1>1. Len(lines) \in 1 .. Len(lines) /\ DOMAIN lines = 1 .. Len(lines)
  OBVIOUS
<1>2. \A i \in DOMAIN lines : /\ lines[i].op \in Ops
                              /\ lines[i].args \in Seq(Int \cup {Word})
                              /\ lines[i].newline \in BOOLEAN
  BY WorkersAssumption DEF Commands
<1>3. FlattenSeq(args) \in Seq(Int \cup {Word})
  <2>1. args \in Seq(Seq(Int \cup {Word}))
    BY <1>1, <1>2
  <2> HIDE DEF args
  <2> QED
    BY <2>1, FlattenType
<1>4. Last(lines).newline \in BOOLEAN
  BY <1>1, <1>2 DEF Last
<1>5. Names(lines) \subseteq Ops
  <2> DEFINE named == {i \in DOMAIN lines : lines[i].op # "blank"}
             first == IF named = {} THEN Len(lines) + 1 ELSE Min(named)
  <2>1. named \in SUBSET Nat
    BY <1>1
  <2>2. named # {} => Min(named) \in named
    <3> HIDE DEF named
    <3> QED
      BY <2>1, MinIsLeast
  <2>3. named # {} => lines[first].op \in Ops
    BY <1>2, <2>2
  <2>4. "blank" \in Ops /\ "other" \in Ops
    BY DEF Ops
  <2>5. Names(lines) = (IF named = {} THEN {} ELSE {lines[first].op})
                           \cup (IF first > 1 THEN {"blank"} ELSE {})
                           \cup (IF first > 2 THEN {"other"} ELSE {})
    BY DEF Names
  <2> HIDE DEF named, first
  <2> QED
    BY <2>3, <2>4, <2>5
<1>6. Merged(lines) = [op : Names(lines), args : {FlattenSeq(args)}, newline : {Last(lines).newline}]
  BY DEF Merged
<1> HIDE DEF args
<1> QED
  BY <1>3, <1>4, <1>5, <1>6 DEF Commands

-----------------------------------------------------------------------------
(* The types.                                                              *)

\* TypeOK with sequences for the inbox; OrderInv has the rest of it.
Typed ==
    /\ peer \in {"open", "closed", "broken", "reset", "aborted"}
    /\ sent \in 0 .. MaxLines
    /\ inbox \in Seq(Lines)
    /\ obeyed \in Seq(Commands)
    /\ Len(inbox) + Len(obeyed) <= sent
    /\ main \in MainLabels
    /\ pieces \in Nat
    /\ socket \in BOOLEAN
    /\ unswept \in 0 .. MaxPrograms
    /\ reaped \subseteq 1 .. MaxPrograms

\* The types hold at the start.
LEMMA TypedInit == Init => Typed
<1> SUFFICES ASSUME Init PROVE Typed
  OBVIOUS
<1>1. /\ inbox = <<>> /\ obeyed = <<>>
      /\ <<>> \in Seq(Lines) /\ <<>> \in Seq(Commands) /\ Len(<<>>) = 0
  BY EmptySeq DEF Init
<1> QED
  BY <1>1, WorkersAssumption DEF Init, Typed, MainLabels

\* A command that is read has its type, and what is left of the inbox too.
LEMMA ReadTypes ==
    ASSUME Typed, NEW n \in 1 .. Len(inbox), Read(n)
    PROVE  Typed'
<1>1. /\ inbox \in Seq(Lines) /\ obeyed \in Seq(Commands)
      /\ n \in Int /\ Len(inbox) \in Nat /\ n <= Len(inbox) /\ 1 <= n
      /\ \A i \in 1 .. Len(inbox) : inbox[i] \in Lines
  BY DEF Typed
<1>2. Merged(SubSeq(inbox, 1, n)) \subseteq Commands
  <2>1. \A i \in 1 .. n : inbox[i] \in Lines
    BY <1>1
  <2>2. SubSeq(inbox, 1, n) \in Seq(Lines) /\ Len(SubSeq(inbox, 1, n)) = n
    BY <1>1, <2>1, SubSeqProperties
  <2>3. SubSeq(inbox, 1, n) # <<>>
    BY <1>1, <2>2
  <2> QED
    BY <2>2, <2>3, MergedType
<1> DEFINE Taken(command) ==
             /\ obeyed' = Append(obeyed, command)
             /\ IF InThread(command.op)
                THEN workers' = workers \cup {Len(obeyed) + 1} /\ UNCHANGED <<main, pieces>>
                ELSE main' = "answer" /\ pieces' \in Pieces(command) /\ UNCHANGED workers
<1>3. PICK command \in Commands : Taken(command)
  <2>1. \E command \in Merged(SubSeq(inbox, 1, n)) : Taken(command)
    BY DEF Read
  <2> HIDE DEF Taken
  <2> QED
    BY <1>2, <2>1
<1>4. inbox' \in Seq(Lines) /\ Len(inbox') = Len(inbox) - n
  <2>1. \A i \in n + 1 .. Len(inbox) : inbox[i] \in Lines
    BY <1>1
  <2>2. /\ SubSeq(inbox, n + 1, Len(inbox)) \in Seq(Lines)
        /\ Len(SubSeq(inbox, n + 1, Len(inbox))) = Len(inbox) - n
    BY <1>1, <2>1, SubSeqProperties
  <2> QED
    BY <2>2 DEF Read
<1>5. obeyed' \in Seq(Commands) /\ Len(obeyed') = Len(obeyed) + 1 /\ Len(obeyed) \in Nat
  BY <1>1, <1>3
<1>6. Len(inbox') + Len(obeyed') <= sent'
  <2>1. sent' = sent /\ sent \in Int /\ Len(inbox) + Len(obeyed) <= sent
    BY DEF Typed, Read
  <2> QED
    BY <1>1, <1>4, <1>5, <2>1
<1>7. pieces' \in Nat
  <2>1. Pieces(command) \subseteq Nat
    <3>1. Len(command.args) \in Nat /\ MaxPrograms \in Nat
      BY WorkersAssumption DEF Commands
    <3> QED
      BY <3>1 DEF Pieces
  <2> QED
    BY <1>3, <2>1 DEF Typed
<1>8. main' \in MainLabels
  BY <1>3 DEF Typed, MainLabels
<1>9. reaped' = reaped
  BY DEF Read
<1> HIDE DEF Taken
<1> QED
  BY <1>4, <1>5, <1>6, <1>7, <1>8, <1>9 DEF Typed, Read

\* A write leaves the client in one of its states.
LEMMA LostTypes ==
    ASSUME Typed, Lost PROVE peer' \in {"open", "closed", "broken", "reset", "aborted"}
BY Zenon DEF Lost, Typed

\* Every step keeps the types.
LEMMA TypedNext == Typed /\ [Next]_vars => Typed'
<1> SUFFICES ASSUME Typed, [Next]_vars PROVE Typed'
  OBVIOUS
<1> USE DEF Typed
<1>1. ASSUME NEW line \in Lines, Send(line) PROVE Typed'
  BY <1>1, WorkersAssumption DEF Send
<1>2. ASSUME NEW how \in {"closed", "reset"}, Close(how) PROVE Typed'
  BY <1>2 DEF Close
<1>3. ASSUME NEW n \in 1 .. Len(inbox), Read(n) PROVE Typed'
  BY <1>3, ReadTypes
<1>4. CASE MainWrites
  <2>1. peer' \in {"open", "closed", "broken", "reset", "aborted"}
    BY <1>4, LostTypes DEF MainWrites, Dies, Write
  <2> QED
    BY <1>4, <2>1 DEF MainWrites, Dies, MainLabels
<1>5. CASE Answered
  BY <1>5 DEF Answered, MainLabels
<1>6. CASE ReadEnds
  BY <1>6 DEF ReadEnds, MainLabels
<1>7. CASE CloseSocket
  BY <1>7 DEF CloseSocket, MainLabels
<1>8. CASE Sweep
  <2>1. unswept \in 0 .. MaxPrograms /\ unswept > 0 /\ unswept' = unswept - 1
    BY <1>8 DEF Sweep
  <2>2. unswept' \in 0 .. MaxPrograms
    BY <2>1, WorkersAssumption
  <2> QED
    BY <1>8, <2>2 DEF Sweep
<1>9. CASE Exit
  BY <1>9 DEF Exit, MainLabels
<1>10. ASSUME NEW no \in workers, WorkerWrites(no) PROVE Typed'
  <2>1. peer' \in {"open", "closed", "broken", "reset", "aborted"}
    BY <1>10, LostTypes DEF WorkerWrites, Dies, Write
  <2> QED
    BY <1>10, <2>1 DEF WorkerWrites, Dies, MainLabels
<1>11. CASE UNCHANGED vars
  BY <1>11 DEF vars
<1>12. ASSUME NEW n \in 1 .. Len(inbox), JoinFails(n) PROVE Typed'
  BY <1>12 DEF JoinFails, Fails, MainLabels
<1>13. CASE KillFails
  BY <1>13 DEF KillFails, Fails, MainLabels
<1>14. ASSUME NEW no \in workers, WorkerCrashes(no) PROVE Typed'
  BY <1>14 DEF WorkerCrashes, Fails, MainLabels
<1>15. ASSUME NEW p \in 1 .. MaxPrograms, ProgramReaped(p) PROVE Typed'
  BY <1>15 DEF ProgramReaped
<1> QED
  BY <1>1, <1>2, <1>3, <1>4, <1>5, <1>6, <1>7, <1>8, <1>9, <1>10, <1>11, <1>12,
     <1>13, <1>14, <1>15 DEF Next, Main, Over, Spins

\* Every thread is at a place of its code, and the threads that run are those
\* of arithmetic commands (server.c:316-500).
THEOREM WorkersTypeCorrect == Spec => []TypeOK
<1>1. Typed /\ OrderInv => TypeOK
  <2> SUFFICES ASSUME Typed, OrderInv PROVE TypeOK
    OBVIOUS
  <2>1. \A i \in DOMAIN inbox : inbox[i] \in Lines
    BY DEF Typed
  <2>2. workers \subseteq {no \in DOMAIN obeyed : InThread(obeyed[no].op)}
    BY DEF Typed, OrderInv, AtWork, InThread, Threads
  <2>3. \A i \in DOMAIN outbox : outbox[i].no \in 0 .. Len(obeyed)
    BY DEF OrderInv, Known
  <2> QED
    BY <2>1, <2>2, <2>3 DEF Typed, TypeOK
<1> QED
  BY <1>1, TypedInit, TypedNext, OrderInvInit, OrderInvNext, PTL DEF Spec

-----------------------------------------------------------------------------
(* What the answers say.                                                   *)

\* What is to be answered to a command.
Reply(command) ==
    IF InThread(command.op) THEN Answer(command.op, command.args, command.newline) ELSE Said

\* What has been written is the reply to its command, and what main answers is
\* no command of a thread.
Replies    == \A i \in DOMAIN outbox :
                  outbox[i].no > 0 => outbox[i].text = Reply(obeyed[outbox[i].no])
NotThreads == (main = "answer" /\ Len(obeyed) > 0) => ~InThread(obeyed[Len(obeyed)].op)

TextInv == Replies /\ NotThreads

\* Nothing is written at the start.
LEMMA TextInvInit == Init => TextInv
<1> SUFFICES ASSUME Init PROVE TextInv
  OBVIOUS
<1>1. obeyed = <<>> /\ outbox = <<>> /\ DOMAIN outbox = {} /\ ~(Len(obeyed) > 0)
  BY DEF Init
<1> QED
  BY <1>1 DEF TextInv, Replies, NotThreads

\* A step that neither takes a command nor answers one.
LEMMA QuietText ==
    ASSUME TextInv, obeyed' = obeyed, outbox' = outbox, main' = "answer" => main = "answer"
    PROVE  TextInv'
BY DEF TextInv, Replies, NotThreads

\* A step that writes the reply to a command.
LEMMA TextWritten ==
    ASSUME OrderInv, TextInv, NEW no \in 0 .. Len(obeyed), NEW text,
           outbox' = Append(outbox, [no |-> no, text |-> text]),
           no > 0 => text = Reply(obeyed[no]),
           obeyed' = obeyed, main' = "answer" => main = "answer"
    PROVE  TextInv'
<1>1. /\ DOMAIN outbox = 1 .. Len(outbox) /\ Len(outbox) \in Nat
      /\ DOMAIN outbox' = 1 .. Len(outbox) + 1
      /\ \A i \in 1 .. Len(outbox) : outbox'[i] = outbox[i]
      /\ outbox'[Len(outbox) + 1] = [no |-> no, text |-> text]
  BY AppendFacts DEF OrderInv, Sequences
<1>2. Replies'
  <2> SUFFICES ASSUME NEW i \in DOMAIN outbox', outbox'[i].no > 0
               PROVE  outbox'[i].text = Reply(obeyed[outbox'[i].no])
    BY DEF Replies, Reply
  <2>1. CASE i \in 1 .. Len(outbox)
    BY <1>1, <2>1 DEF TextInv, Replies
  <2>2. CASE i = Len(outbox) + 1
    BY <1>1, <2>2
  <2> QED
    BY <1>1, <2>1, <2>2
<1>3. NotThreads'
  BY DEF TextInv, NotThreads
<1> QED
  BY <1>2, <1>3 DEF TextInv

\* Every step keeps the texts.
LEMMA TextInvNext == OrderInv /\ TextInv /\ [Next]_vars => TextInv'
<1> SUFFICES ASSUME OrderInv, TextInv, [Next]_vars PROVE TextInv'
  OBVIOUS
<1>1. ASSUME NEW line \in Lines, Send(line) PROVE TextInv'
  BY <1>1, QuietText DEF Send
<1>2. ASSUME NEW how \in {"closed", "reset"}, Close(how) PROVE TextInv'
  BY <1>2, QuietText DEF Close
<1>3. ASSUME NEW n \in 1 .. Len(inbox), Read(n) PROVE TextInv'
  <2>1. PICK command \in Merged(SubSeq(inbox, 1, n)) :
           /\ main = "read" /\ outbox' = outbox
           /\ obeyed' = Append(obeyed, command)
           /\ InThread(command.op) => main' = main
    BY <1>3 DEF Read
  <2>2. /\ Len(obeyed) \in Nat /\ Len(obeyed') = Len(obeyed) + 1
        /\ \A k \in 1 .. Len(obeyed) : obeyed'[k] = obeyed[k]
        /\ obeyed'[Len(obeyed) + 1] = command
    BY <2>1, AppendFacts DEF OrderInv, Sequences
  <2>3. Replies'
    <3> SUFFICES ASSUME NEW i \in DOMAIN outbox, outbox[i].no > 0
                 PROVE  outbox[i].text = Reply(obeyed'[outbox[i].no])
      BY <2>1 DEF Replies, Reply
    <3>1. outbox[i].no \in 1 .. Len(obeyed)
      BY <2>2 DEF OrderInv, Known
    <3> QED
      BY <2>2, <3>1 DEF TextInv, Replies
  <2>4. NotThreads'
    BY <2>1, <2>2 DEF NotThreads
  <2> QED
    BY <2>3, <2>4 DEF TextInv
<1>4. CASE MainWrites
  <2>1. CASE outbox' = outbox
    BY <1>4, <2>1, QuietText DEF MainWrites, Dies
  <2>2. CASE outbox' # outbox
    <3>1. /\ outbox' = Append(outbox, [no |-> Len(obeyed), text |-> Said])
          /\ obeyed' = obeyed /\ main = "answer"
      BY <1>4, <2>2 DEF MainWrites, Dies, Write, Lost
    <3>2. Len(obeyed) \in 0 .. Len(obeyed)
      BY AppendFacts DEF OrderInv, Sequences
    <3>3. Len(obeyed) > 0 => Said = Reply(obeyed[Len(obeyed)])
      BY <3>1 DEF TextInv, NotThreads, Reply
    <3> QED
      BY <3>1, <3>2, <3>3, TextWritten
  <2> QED
    BY <2>1, <2>2
<1>5. CASE Answered
  BY <1>5, QuietText DEF Answered
<1>6. CASE ReadEnds
  BY <1>6, QuietText DEF ReadEnds
<1>7. CASE CloseSocket
  BY <1>7, QuietText DEF CloseSocket
<1>8. CASE Sweep
  BY <1>8, QuietText DEF Sweep
<1>9. CASE Exit
  BY <1>9, QuietText DEF Exit
<1>10. ASSUME NEW no \in workers, WorkerWrites(no) PROVE TextInv'
  <2>1. CASE outbox' = outbox
    BY <1>10, <2>1, QuietText DEF WorkerWrites, Dies
  <2>2. CASE outbox' # outbox
    <3>1. /\ outbox' = Append(outbox, [no |-> no, text |-> Result(no)])
          /\ obeyed' = obeyed /\ main' = main
      BY <1>10, <2>2 DEF WorkerWrites, Dies, Write, Lost
    <3>2. no \in 0 .. Len(obeyed) /\ obeyed[no].op \in Threads
      <4>1. no \in 1 .. Len(obeyed) /\ obeyed[no].op \in Threads
        BY DEF OrderInv, AtWork
      <4> QED
        BY <4>1
    <3>3. Result(no) = Reply(obeyed[no])
      BY <3>2 DEF Result, Reply, InThread, Threads
    <3> QED
      BY <3>1, <3>2, <3>3, TextWritten
  <2> QED
    BY <2>1, <2>2
<1>11. CASE UNCHANGED vars
  BY <1>11, QuietText DEF vars
<1>12. ASSUME NEW n \in 1 .. Len(inbox), JoinFails(n) PROVE TextInv'
  BY <1>12, QuietText DEF JoinFails, Fails
<1>13. CASE KillFails
  BY <1>13, QuietText DEF KillFails, Fails
<1>14. ASSUME NEW no \in workers, WorkerCrashes(no) PROVE TextInv'
  BY <1>14, QuietText DEF WorkerCrashes, Fails
<1>15. ASSUME NEW p \in 1 .. MaxPrograms, ProgramReaped(p) PROVE TextInv'
  BY <1>15, QuietText DEF ProgramReaped
<1> QED
  BY <1>1, <1>2, <1>3, <1>4, <1>5, <1>6, <1>7, <1>8, <1>9, <1>10, <1>11, <1>12,
     <1>13, <1>14, <1>15 DEF Next, Main, Over, Spins

\* Every answer in the outbox is the reply to a command that was taken.
LEMMA Replied ==
    ASSUME Typed, OrderInv, TextInv, NEW i \in DOMAIN outbox, outbox[i].no > 0
    PROVE  /\ obeyed[outbox[i].no] \in Commands
           /\ outbox[i].text = Reply(obeyed[outbox[i].no])
<1>1. outbox[i].no \in 1 .. Len(obeyed)
  BY DEF Typed, OrderInv, Known
<1> QED
  BY <1>1 DEF Typed, TextInv, Replies

\* The answer to an arithmetic command is computed from its own arguments and
\* is exact when they and the result have the width of the code's type, for
\* any width and any number of arguments (server.c:785-943).
THEOREM AnswersAreExact == Spec => []AnswersExact
<1>1. Typed /\ OrderInv /\ TextInv => AnswersExact
  <2> SUFFICES ASSUME Typed, OrderInv, TextInv,
                      NEW i \in DOMAIN outbox, outbox[i].no > 0
               PROVE  Exact(obeyed[outbox[i].no], outbox[i].text)
    BY DEF AnswersExact
  <2> DEFINE command == obeyed[outbox[i].no]
             text == outbox[i].text
  <2>1. command \in Commands /\ text = Reply(command)
    BY Replied
  <2> HIDE DEF command, text
  <2>2. CASE InThread(command.op)
    <3>1. command.args \in Seq(Int \cup {Word})
      BY <2>1 DEF Commands
    <3>2. Exact(command, Answer(command.op, command.args, command.newline))
      BY <2>2, <3>1, AnswerExact
    <3>3. text = Answer(command.op, command.args, command.newline)
      BY <2>1, <2>2 DEF Reply
    <3>4. Exact(command, text)
      BY <3>2, <3>3
    <3> QED
      BY <3>4 DEF command, text
  <2>3. CASE ~InThread(command.op)
    <3>1. Exact(command, text)
      BY <2>1, <2>3 DEF Reply, Exact, InThread
    <3> QED
      BY <3>1 DEF command, text
  <2> QED
    BY <2>2, <2>3
<1> QED
  BY <1>1, TypedInit, TypedNext, OrderInvInit, OrderInvNext, TextInvInit, TextInvNext, PTL DEF Spec

\* What add() shows is never cut, not even the sum that overflowed
\* (server.c:872).
THEOREM SumsAreWhole == Spec => []SumsWhole
<1>1. Typed /\ OrderInv /\ TextInv => SumsWhole
  <2> SUFFICES ASSUME Typed, OrderInv, TextInv, NEW i \in DOMAIN outbox, outbox[i].no > 0,
                      obeyed[outbox[i].no].op = "add", ~Words(obeyed[outbox[i].no].args)
               PROVE  LET args == obeyed[outbox[i].no].args
                      IN outbox[i].text.value =
                             ToLong(Sum([k \in DOMAIN args |-> StrToL(args[k])]))
    BY DEF SumsWhole
  <2> DEFINE command == obeyed[outbox[i].no]
             args == command.args
             sum == Sum([k \in DOMAIN args |-> StrToL(args[k])])
  <2>1. command \in Commands /\ outbox[i].text = Reply(command)
    BY Replied
  <2>2. args \in Seq(Int)
    BY <2>1, NoWords DEF Commands
  <2>3. /\ sum \in Int
        /\ FoldLeft(LAMBDA val, arg : ToLong(val + StrToL(arg)), 0, args) = ToLong(sum)
    BY <2>2, AddIsSum
  <2>4. Reply(command) = Line(ToLong(sum), Room)
    <3>1. Reply(command) = Add(args)
      BY DEF Reply, InThread, Answer
    <3> QED
      BY <2>3, <3>1, Zenon DEF Add
  <2>5. ToLong(sum) \in Int /\ NumChars(ToLong(sum)) <= Room /\ Room \in Nat
    <3>1. ToLong(sum) \in Int /\ InLong(ToLong(sum))
      BY <2>3, LongResult
    <3>2. LongMin \in Int
      BY ArithmeticAssumption
    <3> QED
      BY <3>1, <3>2, NumCharsFacts, ArithmeticAssumption
  <2>6. Line(ToLong(sum), Room).value = ToLong(sum)
    BY <2>5, LineShows DEF Shows
  <2> QED
    BY <2>1, <2>4, <2>6
<1> QED
  BY <1>1, TypedInit, TypedNext, OrderInvInit, OrderInvNext, TextInvInit, TextInvNext, PTL DEF Spec
=============================================================================
