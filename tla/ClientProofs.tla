---------------------------- MODULE ClientProofs ----------------------------
(***************************************************************************)
(* Theorems about Client for any number of descriptors and of attempts to  *)
(* connect.                                                                *)
(***************************************************************************)
EXTENDS Client, Extremes

-----------------------------------------------------------------------------
(* The inductive invariant.                                                *)

\* Which threads there are is a matter of where the main thread is.
ThreadsThere ==
    /\ reader = "none" <=> main \notin {"create writer", "join reader"}
    /\ writer = "none" <=> main \notin {"join reader", "cancel", "join writer"}
    /\ cancelled => main = "join writer"

\* serverstatus is reset by connect and tells the truth about the end.
StatusTrue ==
    main # "prompt" =>
        /\ serverstatus \in {0, 1}
        /\ serverstatus = 0 => asked \/ servergone
        /\ reader \in {"close", "done"} => serverstatus = 0
        /\ writer \in {"close", "done"} => serverstatus = 0
        /\ main \in {"cancel", "join writer", "close"} => serverstatus = 0

\* The threads close the descriptor of their own connection and no other.
OwnDescriptor ==
    main # "prompt" =>
        /\ tries > 0 /\ tries - 1 \notin failed
        /\ serverstatus = 1 => fdtable[sock] = tries - 1
        /\ fdtable[sock] \in {tries - 1, None}
        /\ reader = "done" \/ main \in {"cancel", "join writer", "close"}
               => fdtable[sock] = None

\* All other descriptors are those of failed attempts, of which none is lost.
Leaks ==
    /\ failed \subseteq 0 .. tries - 1
    /\ \A f \in Fds : (main = "prompt" \/ f # sock) => fdtable[f] \in failed \cup {None}
    /\ \A t \in failed : \E f \in Fds : fdtable[f] = t

IInv ==
    /\ TypeOK
    /\ Up => ThreadsThere /\ StatusTrue /\ OwnDescriptor /\ Leaks

-----------------------------------------------------------------------------
(* Lemmas.                                                                 *)

\* socket() returns a descriptor that is free.
LEMMA LeastFree ==
    ASSUME FreeFds # {}
    PROVE  Min(FreeFds) \in Fds /\ fdtable[Min(FreeFds)] = None
<1>1. FreeFds \in SUBSET Nat
  BY ClientAssumption DEF FreeFds
<1>2. Min(FreeFds) \in FreeFds
  BY <1>1, MinIsLeast
<1> QED  BY <1>2 DEF FreeFds

\* close(sock) frees the descriptor of the current connection and no other.
LEMMA CloseSockResult ==
    ASSUME TypeOK, sock \in Fds, CloseSock
    PROVE  /\ fdtable' \in [Fds -> 0 .. MaxConnects - 1 \cup {None}]
           /\ fdtable'[sock] = None
           /\ \A f \in Fds : f # sock => fdtable'[f] = fdtable[f]
BY ClientAssumption DEF TypeOK, CloseSock, Open, None

-----------------------------------------------------------------------------
(* Types.                                                                  *)

\* Every step keeps the types.
LEMMA TypeStep ==
    ASSUME IInv, [Next]_vars
    PROVE  TypeOK'
<1> USE ClientAssumption DEF None
<1>0. TypeOK
  BY DEF IInv
<1>1. CASE UNCHANGED vars
  BY <1>0, <1>1 DEF TypeOK, vars, threads, socket
<1>2. CASE MainThread
  <2>1. CASE CreateReader
    BY <1>0, <2>1
       DEF TypeOK, CreateReader, MainGoto, At, socket, MainLabels, ReaderLabels
  <2>2. CASE CreateWriter
    BY <1>0, <2>2
       DEF TypeOK, CreateWriter, MainGoto, At, socket, MainLabels, WriterLabels
  <2>3. CASE JoinReader
    BY <1>0, <2>3
       DEF TypeOK, JoinReader, MainGoto, At, socket, MainLabels, ReaderLabels
  <2>4. CASE Cancel
    BY <1>0, <2>4 DEF TypeOK, Cancel, MainGoto, At, socket, MainLabels
  <2>5. CASE JoinWriter
    BY <1>0, <2>5
       DEF TypeOK, JoinWriter, MainGoto, At, socket, MainLabels, WriterLabels
  <2>6. CASE Close
    BY <1>0, <2>6, CloseSockResult DEF TypeOK, Close, MainGoto, At, MainLabels
  <2> QED  BY <1>2, <2>1, <2>2, <2>3, <2>4, <2>5, <2>6 DEF MainThread
<1>3. CASE Reader
  <2>1. CASE ReaderChecks
    BY <1>0, <2>1 DEF TypeOK, ReaderChecks, ReaderGoto, socket, ReaderLabels
  <2>2. CASE ReaderCloses
    <3>1. sock \in Fds
      BY <1>0, <2>2 DEF TypeOK, ReaderCloses, Reads, IInv, ThreadsThere
    <3> QED  BY <1>0, <2>2, <3>1, CloseSockResult
       DEF TypeOK, ReaderCloses, ReaderGoto, ReaderLabels
  <2> QED  BY <1>3, <2>1, <2>2 DEF Reader
<1>4. CASE Writer
  <2>1. CASE WriterChecks
    BY <1>0, <2>1 DEF TypeOK, WriterChecks, WriterGoto, socket, WriterLabels
  <2>2. CASE WriterBlocks
    BY <1>0, <2>2 DEF TypeOK, WriterBlocks, WriterGoto, socket, WriterLabels
  <2>3. CASE ReadEnds
    BY <1>0, <2>3
       DEF TypeOK, ReadEnds, ReadFails, WriterGoto, socket, WriterLabels
  <2>4. CASE WriterCloses
    <3>1. sock \in Fds
      BY <1>0, <2>4 DEF TypeOK, WriterCloses, Writes, IInv, ThreadsThere
    <3> QED  BY <1>0, <2>4, <3>1, CloseSockResult
       DEF TypeOK, WriterCloses, WriterGoto, WriterLabels
  <2>5. CASE WriterCancelled
    BY <1>0, <2>5 DEF TypeOK, WriterCancelled, WriterGoto, socket, WriterLabels
  <2> QED  BY <1>4, <2>1, <2>2, <2>3, <2>4, <2>5 DEF Writer
<1>5. CASE User
  <2>1. CASE Connect
    <3> DEFINE m == Min(FreeFds)
    <3>1. tries \in 0 .. MaxConnects - 1 /\ m \in Fds
      <4>1. tries \in 0 .. MaxConnects /\ tries < MaxConnects
        BY <1>0, <2>1 DEF TypeOK, Connect, Opens, Starts
      <4>2. m \in Fds
        BY <2>1, LeastFree DEF Connect, Opens, Starts
      <4> QED  BY <4>1, <4>2
    <3>2. sock' = m /\ fdtable' = [fdtable EXCEPT ![m] = tries]
      BY <2>1 DEF Connect, Opens, Starts
    <3> HIDE DEF m
    <3>3. /\ sock' \in Fds
          /\ fdtable' \in [Fds -> 0 .. MaxConnects - 1 \cup {None}]
      BY <1>0, <3>1, <3>2 DEF TypeOK
    <3>4. sock' # None /\ tries' \in 0 .. MaxConnects
      <4>1. tries' = tries + 1
        BY <2>1 DEF Connect, Opens, Starts
      <4> QED  BY <3>3, <3>1, <4>1
    <3>5. /\ client' \in {"up", "socket", "sigpipe", "exit"}
          /\ reader' \in ReaderLabels /\ writer' \in WriterLabels
          /\ cancelled' \in BOOLEAN /\ serverstatus' \in {0, 1, 2}
          /\ failed' \in SUBSET (0 .. MaxConnects - 1)
          /\ servergone' \in BOOLEAN /\ asked' \in BOOLEAN
      BY <1>0, <2>1 DEF TypeOK, Connect, Opens, Starts
    <3>6. main' \in MainLabels
      BY <2>1 DEF Connect, Opens, Starts, MainLabels
    <3> QED  BY <3>3, <3>4, <3>5, <3>6 DEF TypeOK
  <2>2. CASE ConnectFails
    BY <1>0, <2>2, LeastFree DEF TypeOK, ConnectFails, Opens, At, threads
  <2>3. CASE NoSocket \/ SendBreaks \/ Exit
    BY <1>0, <2>3 DEF TypeOK, NoSocket, SendBreaks, Exit, Ends, threads
  <2>4. CASE Disconnect \/ Send
    BY <1>0, <2>4 DEF TypeOK, Disconnect, Send, ReaderGoto, socket, ReaderLabels
  <2> QED  BY <1>5, <2>1, <2>2, <2>3, <2>4 DEF User
<1>6. CASE WriterPrints
  BY <1>0, <1>6 DEF TypeOK, WriterPrints, WriterGoto, socket, WriterLabels
<1>7. CASE ServerCloses
  BY <1>0, <1>7 DEF TypeOK, ServerCloses, threads, socket
<1>8. CASE Stopped
  BY <1>0, <1>8 DEF TypeOK, Stopped, vars, threads, socket
<1> QED  BY <1>1, <1>2, <1>3, <1>4, <1>5, <1>6, <1>7, <1>8 DEF Next

-----------------------------------------------------------------------------
(* The threads.                                                            *)

\* A process that has ended does nothing; one that has not was there before.
LEMMA UpBefore ==
    ASSUME [Next]_vars, Up'
    PROVE  Up
BY DEF Next, vars, Up, MainThread, CreateReader, CreateWriter, JoinReader, Cancel,
   JoinWriter, Close, At, Reader, ReaderChecks, ReaderCloses, Reads, Writer,
   WriterChecks, WriterBlocks, ReadEnds, ReadFails, WriterCloses, WriterCancelled, Writes,
   User, Connect, ConnectFails, Opens, NoSocket, Disconnect, Send, SendBreaks, Exit, Ends,
   WriterPrints, ServerCloses, Stopped

\* Every step that the process survives is one of these.
LEMMA LiveSteps ==
    ASSUME [Next]_vars, Up'
    PROVE  \/ MainThread \/ Reader \/ Writer \/ Connect \/ ConnectFails
           \/ Disconnect \/ Send \/ WriterPrints \/ ServerCloses \/ UNCHANGED vars
<1>1. ~NoSocket /\ ~SendBreaks /\ ~Exit
  BY DEF Up, NoSocket, SendBreaks, Exit, Ends
<1> QED  BY <1>1 DEF Next, User, Stopped

\* Every step of a live client keeps which threads there are.
LEMMA ThreadsStep ==
    ASSUME IInv, Up, [Next]_vars, Up'
    PROVE  ThreadsThere'
<1>0. TypeOK /\ ThreadsThere
  BY DEF IInv
<1>1. CASE CreateReader
  BY <1>0, <1>1 DEF CreateReader, MainGoto, ThreadsThere, At
<1>2. CASE CreateWriter
  BY <1>0, <1>2 DEF CreateWriter, MainGoto, ThreadsThere, At
<1>3. CASE JoinReader
  BY <1>0, <1>3 DEF JoinReader, MainGoto, ThreadsThere, At
<1>4. CASE Cancel
  BY <1>0, <1>4 DEF Cancel, MainGoto, ThreadsThere, At
<1>5. CASE JoinWriter
  BY <1>0, <1>5 DEF JoinWriter, MainGoto, ThreadsThere, At
<1>6. CASE Close
  BY <1>0, <1>6 DEF Close, MainGoto, ThreadsThere, At
<1>7. CASE ReaderChecks
  BY <1>0, <1>7 DEF ReaderChecks, ThreadsThere, Reads, ReaderGoto
<1>8. CASE ReaderCloses
  BY <1>0, <1>8 DEF ReaderCloses, ThreadsThere, Reads, ReaderGoto
<1>9. CASE Disconnect
  BY <1>0, <1>9 DEF Disconnect, ThreadsThere, Reads, ReaderGoto
<1>10. CASE Send
  BY <1>0, <1>10 DEF Send, ThreadsThere, Reads, ReaderGoto
<1>11. CASE WriterChecks
  BY <1>0, <1>11 DEF WriterChecks, ThreadsThere, Writes, WriterGoto
<1>12. CASE WriterBlocks
  BY <1>0, <1>12 DEF WriterBlocks, ThreadsThere, Writes, WriterGoto
<1>13. CASE ReadEnds
  BY <1>0, <1>13 DEF ReadEnds, ReadFails, ThreadsThere, Writes, WriterGoto
<1>14. CASE WriterCloses
  BY <1>0, <1>14 DEF WriterCloses, ThreadsThere, Writes, WriterGoto
<1>15. CASE WriterPrints
  BY <1>0, <1>15 DEF WriterPrints, ThreadsThere, Writes, WriterGoto
<1>16. CASE WriterCancelled
  BY <1>0, <1>16 DEF WriterCancelled, ThreadsThere, WriterGoto
<1>17. CASE Connect
  BY <1>0, <1>17 DEF Connect, Opens, Starts, ThreadsThere, At
<1>18. CASE ConnectFails
  BY <1>0, <1>18 DEF ConnectFails, Opens, ThreadsThere, At, threads
<1>19. CASE ServerCloses
  BY <1>0, <1>19 DEF ServerCloses, ThreadsThere, threads
<1>20. CASE UNCHANGED vars
  BY <1>0, <1>20 DEF vars, ThreadsThere, threads
<1> QED  BY <1>1, <1>2, <1>3, <1>4, <1>5, <1>6, <1>7, <1>8, <1>9, <1>10, <1>11,
            <1>12, <1>13, <1>14, <1>15, <1>16, <1>17, <1>18, <1>19, <1>20, LiveSteps
            DEF MainThread, Reader, Writer

\* Every step of a live client keeps serverstatus true.
LEMMA StatusStep ==
    ASSUME IInv, Up, [Next]_vars, Up'
    PROVE  StatusTrue'
<1>0. TypeOK /\ ThreadsThere /\ StatusTrue /\ OwnDescriptor
  BY DEF IInv
<1>1. CASE CreateReader
  BY <1>0, <1>1 DEF CreateReader, MainGoto, StatusTrue, ThreadsThere, At
<1>2. CASE CreateWriter
  BY <1>0, <1>2 DEF CreateWriter, MainGoto, StatusTrue, ThreadsThere, At
<1>3. CASE JoinReader
  BY <1>0, <1>3 DEF JoinReader, MainGoto, StatusTrue, ThreadsThere, At
<1>4. CASE Cancel
  BY <1>0, <1>4 DEF Cancel, MainGoto, StatusTrue, ThreadsThere, At
<1>5. CASE JoinWriter
  BY <1>0, <1>5 DEF JoinWriter, MainGoto, StatusTrue, ThreadsThere, At
<1>6. CASE Close
  BY <1>0, <1>6 DEF Close, MainGoto, StatusTrue, ThreadsThere, At
<1>7. CASE ReaderChecks
  BY <1>0, <1>7 DEF ReaderChecks, StatusTrue, ThreadsThere, Reads, ReaderGoto
<1>8. CASE ReaderCloses
  BY <1>0, <1>8 DEF ReaderCloses, StatusTrue, ThreadsThere, Reads, ReaderGoto
<1>9. CASE Disconnect
  BY <1>0, <1>9 DEF Disconnect, StatusTrue, ThreadsThere, Reads, ReaderGoto
<1>10. CASE Send
  BY <1>0, <1>10 DEF Send, StatusTrue, ThreadsThere, Reads, ReaderGoto
<1>11. CASE WriterChecks
  BY <1>0, <1>11 DEF WriterChecks, StatusTrue, ThreadsThere, Writes, WriterGoto
<1>12. CASE WriterBlocks
  BY <1>0, <1>12 DEF WriterBlocks, StatusTrue, ThreadsThere, Writes, WriterGoto
<1>13. CASE ReadEnds
  <2>1. main # "prompt"
    BY <1>0, <1>13 DEF ThreadsThere, ReadEnds, ReadFails, Writes
  <2>2. asked \/ servergone
    <3>1. CASE servergone
      BY <3>1
    <3>2. CASE ~Open
      <4>1. fdtable[sock] = None /\ tries \in Nat
        BY <1>0, <2>1, <3>2 DEF Open, TypeOK
      <4>2. tries > 0 => fdtable[sock] # tries - 1
        BY <4>1 DEF None
      <4> QED  BY <1>0, <2>1, <4>2 DEF StatusTrue, OwnDescriptor
    <3> QED  BY <1>13, <3>1, <3>2 DEF ReadEnds, ReadFails
  <2>3. /\ serverstatus' = 0 /\ writer' = "close"
        /\ UNCHANGED <<main, reader, asked, servergone>>
    BY <1>13 DEF ReadEnds, ReadFails, WriterGoto
  <2> QED  BY <1>0, <2>2, <2>3 DEF StatusTrue
<1>14. CASE WriterCloses
  BY <1>0, <1>14 DEF WriterCloses, StatusTrue, ThreadsThere, Writes, WriterGoto
<1>15. CASE WriterPrints
  BY <1>0, <1>15 DEF WriterPrints, StatusTrue, ThreadsThere, Writes, WriterGoto
<1>16. CASE WriterCancelled
  BY <1>0, <1>16 DEF WriterCancelled, StatusTrue, ThreadsThere, WriterGoto
<1>17. CASE Connect
  <2>1. reader = "none" /\ writer = "none"
    BY <1>0, <1>17 DEF Connect, Opens, Starts, At, ThreadsThere
  <2>2. /\ main' = "create reader" /\ serverstatus' = 1
        /\ UNCHANGED <<reader, writer>>
    BY <1>17 DEF Connect, Opens, Starts
  <2>3. serverstatus' # 0 /\ serverstatus' \in {0, 1}
    <3>1. serverstatus' = 1
      BY <1>17 DEF Connect, Opens, Starts
    <3> QED  BY <3>1
  <2> QED  BY <2>1, <2>2, <2>3 DEF StatusTrue
<1>18. CASE ConnectFails
  BY <1>0, <1>18 DEF ConnectFails, Opens, StatusTrue, ThreadsThere, At, threads
<1>19. CASE ServerCloses
  BY <1>0, <1>19 DEF ServerCloses, StatusTrue, ThreadsThere, threads
<1>20. CASE UNCHANGED vars
  BY <1>0, <1>20 DEF vars, StatusTrue, ThreadsThere, threads
<1> QED  BY <1>1, <1>2, <1>3, <1>4, <1>5, <1>6, <1>7, <1>8, <1>9, <1>10, <1>11,
            <1>12, <1>13, <1>14, <1>15, <1>16, <1>17, <1>18, <1>19, <1>20, LiveSteps
            DEF MainThread, Reader, Writer

-----------------------------------------------------------------------------
(* The descriptors.                                                        *)

\* The three threads close the descriptor only when the connection is over.
LEMMA DescriptorStep ==
    ASSUME IInv, Up, [Next]_vars, Up'
    PROVE  OwnDescriptor' /\ Leaks'
<1> USE ClientAssumption
<1>0. TypeOK /\ ThreadsThere /\ StatusTrue /\ OwnDescriptor /\ Leaks
  BY DEF IInv
<1>1. CASE Close
  <2>1. sock \in Fds /\ fdtable[sock] = None
    BY <1>0, <1>1 DEF Close, MainGoto, At, TypeOK, OwnDescriptor
  <2>2. fdtable' = fdtable
    BY <1>1, <2>1 DEF Close, MainGoto, CloseSock, Open
  <2>3. main' = "prompt" /\ UNCHANGED <<failed, tries, sock>>
    BY <1>1 DEF Close, MainGoto
  <2> QED  BY <1>0, <2>1, <2>2, <2>3 DEF OwnDescriptor, Leaks
<1>2. CASE ReaderCloses \/ WriterCloses
  <2>1. CloseSock /\ UNCHANGED <<main, serverstatus, sock, tries, failed>>
    BY <1>2 DEF ReaderCloses, WriterCloses, ReaderGoto, WriterGoto
  <2>2. main # "prompt" /\ serverstatus = 0
    BY <1>0, <1>2
       DEF ReaderCloses, WriterCloses, Reads, Writes, ThreadsThere, StatusTrue
  <2>3. sock \in Fds
    BY <1>0, <2>2 DEF TypeOK
  <2>4. /\ fdtable'[sock] = None
        /\ \A f \in Fds : f # sock => fdtable'[f] = fdtable[f]
    BY <1>0, <2>1, <2>3, CloseSockResult
  <2>5. OwnDescriptor'
    <3>1. serverstatus' # 1 /\ tries' = tries /\ failed' = failed /\ sock' = sock
      BY <2>1, <2>2
    <3>2. tries > 0 /\ tries - 1 \notin failed
      BY <1>0, <2>2 DEF OwnDescriptor
    <3> QED  BY <2>4, <3>1, <3>2 DEF OwnDescriptor
  <2>6. Leaks'
    <3>1. \A t \in failed : \E f \in Fds : fdtable'[f] = t
      <4> SUFFICES ASSUME NEW t \in failed
                   PROVE  \E f \in Fds : fdtable'[f] = t
        OBVIOUS
      <4>1. PICK f \in Fds : fdtable[f] = t
        BY <1>0 DEF Leaks
      <4>2. t # tries - 1 /\ t # None
        <5>1. tries - 1 \notin failed /\ failed \subseteq 0 .. tries - 1
          BY <1>0, <2>2 DEF OwnDescriptor, Leaks
        <5> QED  BY <5>1 DEF None
      <4>3. f # sock
        BY <1>0, <2>2, <4>1, <4>2 DEF OwnDescriptor
      <4> QED  BY <2>4, <4>1, <4>3
    <3> QED  BY <1>0, <2>1, <2>2, <2>4, <3>1 DEF Leaks
  <2> QED  BY <2>5, <2>6
<1>3. CASE Connect
  <2> DEFINE m == Min(FreeFds)
  <2>1. m \in Fds /\ fdtable[m] = None
    BY <1>3, LeastFree DEF Connect, Opens, Starts
  <2>2. /\ sock' = m /\ serverstatus' = 1 /\ failed' = failed
        /\ tries' = tries + 1 /\ main' = "create reader"
        /\ fdtable' = [fdtable EXCEPT ![m] = tries]
    BY <1>3 DEF Connect, Opens, Starts
  <2>3. reader = "none"
    BY <1>0, <1>3 DEF Connect, Opens, Starts, At, ThreadsThere
  <2> HIDE DEF m
  <2>4. /\ fdtable \in [Fds -> 0 .. MaxConnects - 1 \cup {None}]
        /\ tries \in Nat /\ tries' - 1 = tries /\ tries' > 0
    <3>1. fdtable \in [Fds -> 0 .. MaxConnects - 1 \cup {None}] /\ tries \in Nat
      BY <1>0 DEF TypeOK
    <3>2. tries' = tries + 1
      BY <1>3 DEF Connect, Opens, Starts
    <3>3. tries' - 1 = tries /\ tries' > 0
      BY <3>1, <3>2
    <3> QED  BY <3>1, <3>3
  <2>5. fdtable'[m] = tries /\ \A f \in Fds : f # m => fdtable'[f] = fdtable[f]
    BY <2>1, <2>2, <2>4
  <2>6. main = "prompt" /\ reader' = reader
    BY <1>3 DEF Connect, Opens, Starts, At
  <2>7. OwnDescriptor'
    <3>1. fdtable'[sock'] = tries' - 1 /\ tries' > 0
      BY <2>2, <2>4, <2>5
    <3>2. tries' - 1 \notin failed'
      <4>1. failed \subseteq 0 .. tries - 1
        BY <1>0 DEF Leaks
      <4>2. failed' = failed /\ tries' = tries + 1
        BY <2>2
      <4> QED  BY <2>4, <4>1, <4>2
    <3> QED  BY <2>2, <2>3, <2>6, <3>1, <3>2 DEF OwnDescriptor
  <2>8. Leaks'
    <3>1. \A t \in failed : \E f \in Fds : fdtable'[f] = t
      <4> SUFFICES ASSUME NEW t \in failed
                   PROVE  \E f \in Fds : fdtable'[f] = t
        OBVIOUS
      <4>1. PICK f \in Fds : fdtable[f] = t
        BY <1>0 DEF Leaks
      <4>2. t # None
        BY <1>0, <2>4 DEF Leaks, None
      <4> QED  BY <2>1, <2>5, <4>1, <4>2
    <3>2. failed' \subseteq 0 .. tries' - 1
      <4>1. failed \subseteq 0 .. tries - 1
        BY <1>0 DEF Leaks
      <4>2. failed' = failed /\ tries' = tries + 1
        BY <2>2
      <4> QED  BY <2>4, <4>1, <4>2
    <3> QED  BY <1>0, <2>2, <2>5, <2>6, <3>1, <3>2 DEF Leaks
  <2> QED  BY <2>7, <2>8
<1>4. CASE ConnectFails
  <2> DEFINE m == Min(FreeFds)
  <2>1. m \in Fds /\ fdtable[m] = None
    BY <1>4, LeastFree DEF ConnectFails, Opens
  <2>2. /\ failed' = failed \cup {tries} /\ tries' = tries + 1
        /\ main = "prompt" /\ main' = main
        /\ fdtable' = [fdtable EXCEPT ![m] = tries]
    BY <1>4 DEF ConnectFails, Opens, At, threads
  <2> HIDE DEF m
  <2>3. tries \in Nat /\ fdtable \in [Fds -> 0 .. MaxConnects - 1 \cup {None}]
    BY <1>0 DEF TypeOK
  <2>4. fdtable'[m] = tries /\ \A f \in Fds : f # m => fdtable'[f] = fdtable[f]
    BY <2>1, <2>2, <2>3
  <2>5. \A t \in failed' : \E f \in Fds : fdtable'[f] = t
    <3> SUFFICES ASSUME NEW t \in failed', t # tries
                 PROVE  \E f \in Fds : fdtable'[f] = t
      BY <2>1, <2>4
    <3>1. PICK f \in Fds : fdtable[f] = t
      BY <1>0, <2>2 DEF Leaks
    <3>2. t # None
      BY <1>0, <2>2, <2>3 DEF Leaks, None
    <3> QED  BY <2>1, <2>4, <3>1, <3>2
  <2>6. failed' \subseteq 0 .. tries' - 1
    BY <1>0, <2>2, <2>3 DEF Leaks
  <2>7. \A f \in Fds : fdtable'[f] \in failed' \cup {None}
    BY <1>0, <2>2, <2>4 DEF Leaks
  <2> QED  BY <2>2, <2>5, <2>6, <2>7 DEF OwnDescriptor, Leaks
<1>5. ASSUME UNCHANGED <<sock, fdtable, tries, failed>>, main # "prompt",
                         main' # "prompt",
             serverstatus' = 1 => serverstatus = 1,
             reader' = "done" \/ main' \in {"cancel", "join writer", "close"}
                 => reader = "done" \/ main \in {"cancel", "join writer", "close"}
      PROVE  OwnDescriptor' /\ Leaks'
  BY <1>0, <1>5 DEF OwnDescriptor, Leaks
<1>6. CASE CreateReader \/ CreateWriter \/ JoinReader \/ Cancel \/ JoinWriter
  BY <1>5, <1>6
     DEF CreateReader, MainGoto, CreateWriter, JoinReader, Cancel, JoinWriter, At, socket
<1>7. CASE ReaderChecks
  <2>1. main # "prompt"
    BY <1>0, <1>7 DEF ReaderChecks, Reads, ThreadsThere
  <2> QED  BY <1>5, <1>7, <2>1 DEF ReaderChecks, ReaderGoto, socket
<1>8. CASE Disconnect
  <2>1. main # "prompt"
    BY <1>0, <1>8 DEF Disconnect, Reads, ThreadsThere
  <2>2. serverstatus' # 1 /\ UNCHANGED <<main, sock, fdtable, tries, failed>>
    BY <1>8 DEF Disconnect, ReaderGoto, socket
  <2>3. reader' = "done" => reader = "done"
    BY <1>8 DEF Disconnect, ReaderGoto
  <2> QED  BY <1>5, <2>1, <2>2, <2>3
<1>9. CASE Send
  <2>1. main # "prompt"
    BY <1>0, <1>9 DEF Send, Reads, ThreadsThere
  <2> QED  BY <1>5, <1>9, <2>1 DEF Send, ReaderGoto, socket
<1>10. CASE WriterChecks
  <2>1. main # "prompt"
    BY <1>0, <1>10 DEF WriterChecks, Writes, ThreadsThere
  <2> QED  BY <1>5, <1>10, <2>1 DEF WriterChecks, WriterGoto, socket
<1>11. CASE WriterBlocks
  <2>1. main # "prompt"
    BY <1>0, <1>11 DEF WriterBlocks, Writes, ThreadsThere
  <2> QED  BY <1>5, <1>11, <2>1 DEF WriterBlocks, WriterGoto, socket
<1>12. CASE ReadEnds
  <2>1. main # "prompt"
    BY <1>0, <1>12 DEF ReadEnds, ReadFails, Writes, ThreadsThere
  <2>2. serverstatus' # 1 /\ UNCHANGED <<main, sock, fdtable, tries, failed>>
    BY <1>12 DEF ReadEnds, ReadFails, WriterGoto, socket
  <2>3. reader' = "done" => reader = "done"
    BY <1>12 DEF ReadEnds, ReadFails, WriterGoto
  <2> QED  BY <1>5, <2>1, <2>2, <2>3
<1>13. CASE WriterCancelled
  <2>1. main # "prompt"
    BY <1>0, <1>13 DEF WriterCancelled, ThreadsThere
  <2> QED  BY <1>5, <1>13, <2>1 DEF WriterCancelled, WriterGoto, socket
<1>14. CASE WriterPrints
  <2>1. main # "prompt"
    BY <1>0, <1>14 DEF WriterPrints, Writes, ThreadsThere
  <2> QED  BY <1>5, <1>14, <2>1 DEF WriterPrints, WriterGoto, socket
<1>15. CASE ServerCloses \/ UNCHANGED vars
  BY <1>0, <1>15 DEF ServerCloses, vars, threads, socket, OwnDescriptor, Leaks
<1> QED  BY <1>1, <1>2, <1>3, <1>4, <1>6, <1>7, <1>8, <1>9, <1>10, <1>11, <1>12,
            <1>13, <1>14, <1>15, LiveSteps
            DEF MainThread, Reader, Writer

-----------------------------------------------------------------------------
(* The theorems.                                                           *)

\* The client as it is started.
LEMMA IInvInit == Init => IInv
<1> SUFFICES ASSUME Init
             PROVE  IInv
  OBVIOUS
<1>1. TypeOK
  <2>1. main \in MainLabels /\ reader \in ReaderLabels /\ writer \in WriterLabels
    BY DEF Init, MainLabels, ReaderLabels, WriterLabels
  <2>2. fdtable \in [Fds -> 0 .. MaxConnects - 1 \cup {None}] /\ sock \in Fds \cup {None}
    BY DEF Init
  <2>3. tries \in 0 .. MaxConnects /\ failed \in SUBSET (0 .. MaxConnects - 1)
    BY ClientAssumption DEF Init
  <2> QED  BY <2>1, <2>2, <2>3 DEF Init, TypeOK
<1>2. ThreadsThere /\ StatusTrue /\ OwnDescriptor /\ Leaks
  BY DEF Init, ThreadsThere, StatusTrue, OwnDescriptor, Leaks
<1> QED  BY <1>1, <1>2 DEF IInv

\* Every step keeps the inductive invariant.
LEMMA IInvStep == IInv /\ [Next]_vars => IInv'
<1> SUFFICES ASSUME IInv, [Next]_vars
             PROVE  IInv'
  OBVIOUS
<1>1. CASE Up'
  BY <1>1, TypeStep, UpBefore, ThreadsStep, StatusStep, DescriptorStep DEF IInv
<1>2. CASE ~Up'
  BY <1>2, TypeStep DEF IInv
<1> QED  BY <1>1, <1>2

\* The invariant holds in every state the client reaches.
THEOREM ClientInvariance == Spec => []IInv
BY IInvInit, IInvStep, PTL DEF Spec

\* Every variable keeps its type, and no thread is given a pointer to -1.
THEOREM ClientTypeCorrect == Spec => []TypeOK
<1>1. IInv => TypeOK
  BY DEF IInv
<1> QED  BY <1>1, ClientInvariance, PTL

\* At its prompt (client.c:187) the client has no thread left and exactly the
\* descriptors that failed attempts to connect have leaked.
THEOREM CleanAtPrompt == Spec => []PromptClean
<1>1. ASSUME IInv, At("prompt")
      PROVE  /\ reader = "none" /\ writer = "none"
             /\ {fdtable[f] : f \in Fds \ FreeFds} = failed
  <2>1. Up /\ main = "prompt" /\ ThreadsThere /\ Leaks
    BY <1>1 DEF IInv, At
  <2>2. reader = "none" /\ writer = "none"
    BY <2>1 DEF ThreadsThere
  <2>3. None \notin failed
    BY <1>1, <2>1 DEF Leaks, None, IInv, TypeOK
  <2>4. {fdtable[f] : f \in Fds \ FreeFds} \subseteq failed
    BY <2>1 DEF Leaks, FreeFds
  <2>5. failed \subseteq {fdtable[f] : f \in Fds \ FreeFds}
    BY <2>1, <2>3 DEF Leaks, FreeFds
  <2> QED  BY <2>2, <2>4, <2>5
<1>2. IInv => PromptClean
  BY <1>1 DEF PromptClean
<1> QED  BY <1>2, ClientInvariance, PTL

\* A thread that ends has set serverstatus to 0 (client.c:35, 42, 90).
THEOREM EndIsTold == Spec => []StatusTells
<1>1. IInv => StatusTells
  BY DEF IInv, StatusTells, StatusTrue, ThreadsThere
<1> QED  BY <1>1, ClientInvariance, PTL

\* No interleaving of the three threads makes the client hang up by itself.
THEOREM NoHangUp == Spec => []ConnectionKept
<1>1. ASSUME IInv, Up, main # "prompt", ~asked, ~servergone
      PROVE  Open /\ fdtable[sock] = tries - 1
  <2>1. TypeOK /\ StatusTrue /\ OwnDescriptor
    BY <1>1 DEF IInv
  <2>2. serverstatus = 1
    BY <1>1, <2>1 DEF StatusTrue
  <2>3. fdtable[sock] = tries - 1 /\ tries > 0
    BY <1>1, <2>1, <2>2 DEF OwnDescriptor
  <2>4. tries \in Nat /\ sock # None
    BY <1>1, <2>1 DEF TypeOK
  <2> QED  BY <2>3, <2>4 DEF Open, None
<1>2. IInv => ConnectionKept
  BY <1>1 DEF ConnectionKept
<1> QED  BY <1>2, ClientInvariance, PTL
=============================================================================
