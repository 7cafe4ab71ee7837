------------------------- MODULE ProcessTableProofs -------------------------
(***************************************************************************)
(* What the searches of ProcessTable return, and what inserting and ending *)
(* an entry do to them, for tables of any length.                          *)
(***************************************************************************)
EXTENDS ProcessTable, Extremes

\* i is the position of the newest entry of pid.
IsNewest(table, pid, i) ==
    /\ i \in DOMAIN table
    /\ table[i].pid = pid
    /\ \A j \in DOMAIN table : j < i => table[j].pid # pid

\* The pids that a table has entries of.
Jobs(table) == {table[i].pid : i \in DOMAIN table}

-----------------------------------------------------------------------------
\* The search for a pid returns the position of its newest entry, or NULL
\* when the table has no entry of it.
LEMMA SearchPidResult ==
    ASSUME NEW T, NEW table \in Seq(T), NEW pid
    PROVE  /\ SearchPid(table, pid) \in Nat
           /\ SearchPid(table, pid) = NULL
                <=> \A i \in DOMAIN table : table[i].pid # pid
           /\ SearchPid(table, pid) # NULL
                => IsNewest(table, pid, SearchPid(table, pid))
<1> DEFINE I == {i \in 1 .. Len(table) : table[i].pid = pid}
           s == SearchPid(table, pid)
<1>1. s = IF I # {} THEN Min(I) ELSE 0
  BY DEF SearchPid, SelectInSeq
<1>3. I \in SUBSET Nat /\ 0 \notin I /\ DOMAIN table = 1 .. Len(table)
  OBVIOUS
<1>4. CASE I = {}
  BY <1>1, <1>3, <1>4 DEF NULL
<1>5. CASE I # {}
  <2>2. s \in I /\ \A y \in I : s <= y
    <3> HIDE DEF I, s
    <3> QED  BY <1>1, <1>3, <1>5, MinIsLeast
  <2> HIDE DEF s
  <2>3. s \in Nat /\ s # NULL /\ s \in DOMAIN table /\ table[s].pid = pid
    BY <1>3, <2>2 DEF NULL
  <2>4. \A j \in DOMAIN table : j < s => table[j].pid # pid
    BY <1>3, <2>2, <2>3
  <2> QED  BY <2>3, <2>4 DEF IsNewest, s
<1> QED  BY <1>4, <1>5

\* The position of the newest entry is unique.
LEMMA NewestUnique ==
    ASSUME NEW T, NEW table \in Seq(T), NEW pid, NEW i, IsNewest(table, pid, i)
    PROVE  SearchPid(table, pid) = i
<1> DEFINE s == SearchPid(table, pid)
<1>1. s # NULL /\ s \in Nat /\ IsNewest(table, pid, s)
  BY SearchPidResult DEF IsNewest
<1> HIDE DEF s
<1>2. i \in Nat
  BY DEF IsNewest
<1> QED  BY <1>1, <1>2 DEF IsNewest, s

\* A search by name returns the first position of that name at or after ptr,
\* or NULL when there is none.
LEMMA SearchPNameResult ==
    ASSUME NEW T, NEW table \in Seq(T), NEW name, NEW ptr \in Nat \ {0}
    PROVE  /\ SearchPName(table, name, ptr) \in Nat
           /\ SearchPName(table, name, ptr) # NULL
                => /\ SearchPName(table, name, ptr) \in DOMAIN table
                   /\ ptr <= SearchPName(table, name, ptr)
                   /\ table[SearchPName(table, name, ptr)].processname = name
           /\ \A j \in DOMAIN table :
                (/\ ptr <= j
                 /\ \/ SearchPName(table, name, ptr) = NULL
                    \/ j < SearchPName(table, name, ptr))
                => table[j].processname # name
<1> DEFINE I == {i \in ptr .. Len(table) : table[i].processname = name}
           s == SearchPName(table, name, ptr)
<1>1. s = IF I # {} THEN Min(I) ELSE 0
  BY DEF SearchPName, SelectInSubSeq
<1>2. /\ I \in SUBSET Nat /\ I \subseteq DOMAIN table
      /\ \A i \in I : ptr <= i /\ table[i].processname = name
      /\ \A j \in DOMAIN table : ptr <= j /\ j \notin I
                                   => table[j].processname # name
  OBVIOUS
<1>3. I # {} => s \in I /\ \A y \in I : s <= y
  <2> HIDE DEF I, s
  <2> QED  BY <1>1, <1>2, MinIsLeast
<1>4. I = {} => s = 0
  BY <1>1
<1>5. I # {} => s # NULL
  <2> HIDE DEF s
  <2> QED  BY <1>3 DEF NULL
<1> HIDE DEF I, s
<1>6. CASE I = {}
  BY <1>2, <1>4, <1>6 DEF NULL, s
<1>7. CASE I # {}
  <2>1. s \in Nat /\ s \in DOMAIN table /\ ptr <= s /\ table[s].processname = name
    BY <1>2, <1>3, <1>7
  <2>2. ASSUME NEW j \in DOMAIN table, ptr <= j, j < s
        PROVE  table[j].processname # name
    <3>1. j \in Nat
      OBVIOUS
    <3>2. j \notin I
      BY <1>3, <1>7, <2>1, <2>2, <3>1
    <3> QED  BY <1>2, <2>2, <3>2
  <2> QED  BY <1>5, <1>7, <2>1, <2>2 DEF s
<1> QED  BY <1>6, <1>7

\* An inserted entry is the first one; all others move by one.
LEMMA InsertFirstEntries ==
    ASSUME NEW Pids, NEW Names, NEW table \in Seq(Entry(Pids, Names)),
           NEW pid \in Pids, NEW name \in Names
    PROVE  /\ InsertFirst(table, pid, name) \in Seq(Entry(Pids, Names))
           /\ Len(InsertFirst(table, pid, name)) = Len(table) + 1
           /\ InsertFirst(table, pid, name)[1].pid = pid
           /\ InsertFirst(table, pid, name)[1].isrunning
           /\ \A i \in DOMAIN table :
                InsertFirst(table, pid, name)[i + 1] = table[i]
<1> DEFINE e == [pid |-> pid, processname |-> name, isrunning |-> TRUE]
           t == InsertFirst(table, pid, name)
<1>1. t = <<e>> \o table
  BY DEF InsertFirst
<1>2. e \in Entry(Pids, Names)
  BY DEF Entry
<1> HIDE DEF e, t
<1>3. /\ t \in Seq(Entry(Pids, Names))
      /\ Len(t) = Len(table) + 1
      /\ t[1] = e
      /\ \A i \in DOMAIN table : t[i + 1] = table[i]
  BY <1>1, <1>2
<1> QED  BY <1>3 DEF e, t

\* An insertion makes the list one entry longer.
LEMMA InsertFirstLen ==
    ASSUME NEW Pids, NEW Names, NEW table \in Seq(Entry(Pids, Names)),
           NEW pid \in Pids, NEW name \in Names
    PROVE  Len(InsertFirst(table, pid, name)) = Len(table) + 1
BY InsertFirstEntries

\* The search for its pid finds the inserted entry.
LEMMA InsertFirstSearch ==
    ASSUME NEW Pids, NEW Names, NEW table \in Seq(Entry(Pids, Names)),
           NEW pid \in Pids, NEW name \in Names
    PROVE  SearchPid(InsertFirst(table, pid, name), pid) = 1
<1> DEFINE t == InsertFirst(table, pid, name)
<1>1. t \in Seq(Entry(Pids, Names)) /\ Len(t) = Len(table) + 1 /\ t[1].pid = pid
  BY InsertFirstEntries
<1> HIDE DEF t
<1>2. IsNewest(t, pid, 1)
  BY <1>1 DEF IsNewest
<1>3. SearchPid(t, pid) = 1
  BY <1>1, <1>2, NewestUnique
<1> QED  BY <1>3 DEF t

\* The search for any other pid finds what it found before, one further on.
LEMMA InsertFirstSearchOther ==
    ASSUME NEW Pids, NEW Names, NEW table \in Seq(Entry(Pids, Names)),
           NEW pid \in Pids, NEW name \in Names,
           NEW q, q # pid, SearchPid(table, q) # NULL
    PROVE  /\ SearchPid(InsertFirst(table, pid, name), q)
                = SearchPid(table, q) + 1
           /\ InsertFirst(table, pid, name)[SearchPid(table, q) + 1]
                = table[SearchPid(table, q)]
<1> DEFINE t == InsertFirst(table, pid, name)
           s == SearchPid(table, q)
<1>1. /\ t \in Seq(Entry(Pids, Names))
      /\ Len(t) = Len(table) + 1
      /\ t[1].pid = pid
      /\ \A i \in DOMAIN table : t[i + 1] = table[i]
  BY InsertFirstEntries
<1>2. s \in Nat /\ IsNewest(table, q, s)
  BY SearchPidResult
<1> HIDE DEF s, t
<1>3. /\ DOMAIN table = 1 .. Len(table)
      /\ Len(table) \in Nat
  OBVIOUS
<1>4. s + 1 \in DOMAIN t /\ t[s + 1] = table[s] /\ table[s].pid = q
  BY <1>1, <1>2, <1>3 DEF IsNewest
<1>5. ASSUME NEW j \in DOMAIN t, j < s + 1
      PROVE  t[j].pid # q
  <2>1. CASE j = 1
    BY <1>1, <2>1
  <2>2. CASE j # 1
    <3>1. j - 1 \in DOMAIN table /\ j - 1 < s /\ (j - 1) + 1 = j
      BY <1>1, <1>2, <1>3, <1>5, <2>2
    <3> QED  BY <1>1, <1>2, <3>1 DEF IsNewest
  <2> QED  BY <2>1, <2>2
<1>6. IsNewest(t, q, s + 1)
  BY <1>4, <1>5 DEF IsNewest
<1>7. SearchPid(t, q) = s + 1
  BY <1>1, <1>6, NewestUnique
<1> QED  BY <1>4, <1>7 DEF s, t

\* Marking the newest entry of a pid as ended moves nothing, changes no pid
\* and no name, and leaves every other entry as it is.
LEMMA InsertEndTimeEntries ==
    ASSUME NEW Pids, NEW Names, NEW table \in Seq(Entry(Pids, Names)),
           NEW pid, SearchPid(table, pid) # NULL
    PROVE  /\ InsertEndTime(table, pid) \in Seq(Entry(Pids, Names))
           /\ Len(InsertEndTime(table, pid)) = Len(table)
           /\ DOMAIN InsertEndTime(table, pid) = DOMAIN table
           /\ ~InsertEndTime(table, pid)[SearchPid(table, pid)].isrunning
           /\ \A j \in DOMAIN table :
                /\ InsertEndTime(table, pid)[j].pid = table[j].pid
                /\ InsertEndTime(table, pid)[j].processname = table[j].processname
                /\ j # SearchPid(table, pid)
                     => InsertEndTime(table, pid)[j] = table[j]
                /\ table[j].pid # pid
                     => InsertEndTime(table, pid)[j] = table[j]
<1> DEFINE t == InsertEndTime(table, pid)
           i == SearchPid(table, pid)
<1>1. i \in DOMAIN table /\ table[i].pid = pid
  BY SearchPidResult DEF IsNewest
<1>2. t = [table EXCEPT ![i].isrunning = FALSE]
  BY DEF InsertEndTime
<1> HIDE DEF i, t
<1>3. table[i] \in Entry(Pids, Names)
  BY <1>1
<1>4. /\ [table[i] EXCEPT !.isrunning = FALSE] \in Entry(Pids, Names)
      /\ [table[i] EXCEPT !.isrunning = FALSE].pid = table[i].pid
      /\ [table[i] EXCEPT !.isrunning = FALSE].processname
           = table[i].processname
      /\ ~[table[i] EXCEPT !.isrunning = FALSE].isrunning
  BY <1>3 DEF Entry
<1>5. t = [table EXCEPT ![i] = [table[i] EXCEPT !.isrunning = FALSE]]
  BY <1>2
<1>6. /\ t \in Seq(Entry(Pids, Names))
      /\ Len(t) = Len(table)
      /\ DOMAIN t = DOMAIN table
  BY <1>1, <1>4, <1>5
<1>7. \A j \in DOMAIN table : j # i => t[j] = table[j]
  BY <1>5
<1>8. /\ t[i].pid = table[i].pid
      /\ t[i].processname = table[i].processname
      /\ ~t[i].isrunning
  BY <1>1, <1>4, <1>5
<1> QED  BY <1>1, <1>6, <1>7, <1>8 DEF t, i

\* The search for any other pid finds what it found before.
LEMMA InsertEndTimeSearch ==
    ASSUME NEW Pids, NEW Names, NEW table \in Seq(Entry(Pids, Names)),
           NEW pid, SearchPid(table, pid) # NULL,
           NEW q, q # pid, SearchPid(table, q) # NULL
    PROVE  /\ SearchPid(InsertEndTime(table, pid), q) = SearchPid(table, q)
           /\ InsertEndTime(table, pid)[SearchPid(table, q)]
                = table[SearchPid(table, q)]
<1> DEFINE t == InsertEndTime(table, pid)
           s == SearchPid(table, q)
<1>1. /\ t \in Seq(Entry(Pids, Names))
      /\ DOMAIN t = DOMAIN table
      /\ \A j \in DOMAIN table : /\ t[j].pid = table[j].pid
                                 /\ table[j].pid # pid => t[j] = table[j]
  BY InsertEndTimeEntries
<1>2. IsNewest(table, q, s)
  BY SearchPidResult
<1> HIDE DEF s, t
<1>3. t[s] = table[s]
  BY <1>1, <1>2 DEF IsNewest
<1>4. IsNewest(t, q, s)
  BY <1>1, <1>2 DEF IsNewest
<1>5. SearchPid(t, q) = s
  BY <1>1, <1>4, NewestUnique
<1> QED  BY <1>3, <1>5 DEF s, t

\* The search for a pid tells whether the table has an entry of it.
LEMMA SearchPidJobs ==
    ASSUME NEW T, NEW table \in Seq(T), NEW pid
    PROVE  SearchPid(table, pid) # NULL <=> pid \in Jobs(table)
BY SearchPidResult DEF Jobs

\* The pids of a table are pids.
LEMMA JobsTypeOK ==
    ASSUME NEW Pids, NEW Names, NEW table \in Seq(Entry(Pids, Names))
    PROVE  Jobs(table) \subseteq Pids
<1>1. ASSUME NEW i \in DOMAIN table
      PROVE  table[i].pid \in Pids
  <2>1. table[i] \in Entry(Pids, Names)
    OBVIOUS
  <2> QED  BY <2>1 DEF Entry
<1> QED  BY <1>1 DEF Jobs

\* An insertion adds one pid, a mark none.
LEMMA InsertFirstJobs ==
    ASSUME NEW Pids, NEW Names, NEW table \in Seq(Entry(Pids, Names)),
           NEW pid \in Pids, NEW name \in Names
    PROVE  Jobs(InsertFirst(table, pid, name)) = Jobs(table) \cup {pid}
<1> DEFINE t == InsertFirst(table, pid, name)
<1>1. /\ t \in Seq(Entry(Pids, Names))
      /\ Len(t) = Len(table) + 1
      /\ t[1].pid = pid
      /\ \A i \in DOMAIN table : t[i + 1] = table[i]
  BY InsertFirstEntries
<1> HIDE DEF t
<1>2. /\ DOMAIN table = 1 .. Len(table)
      /\ DOMAIN t = 1 .. Len(table) + 1
      /\ Len(table) \in Nat
  BY <1>1
<1>3. \A i \in DOMAIN table : i + 1 \in DOMAIN t /\ t[i + 1].pid = table[i].pid
  BY <1>1, <1>2
<1>4. ASSUME NEW j \in DOMAIN t
      PROVE  t[j].pid = pid \/ \E i \in DOMAIN table : t[j].pid = table[i].pid
  <2>1. CASE j = 1
    BY <1>1, <2>1
  <2>2. CASE j # 1
    <3>1. j - 1 \in DOMAIN table /\ (j - 1) + 1 = j
      BY <1>2, <2>2
    <3> QED  BY <1>1, <3>1
  <2> QED  BY <2>1, <2>2
<1>5. 1 \in DOMAIN t
  BY <1>2
<1> QED  BY <1>1, <1>3, <1>4, <1>5 DEF Jobs, t

\* To mark an entry as ended neither adds a pid nor takes one away.
LEMMA InsertEndTimeJobs ==
    ASSUME NEW Pids, NEW Names, NEW table \in Seq(Entry(Pids, Names)),
           NEW pid, SearchPid(table, pid) # NULL
    PROVE  Jobs(InsertEndTime(table, pid)) = Jobs(table)
BY InsertEndTimeEntries DEF Jobs
=============================================================================
