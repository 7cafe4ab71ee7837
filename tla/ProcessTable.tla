---------------------------- MODULE ProcessTable ----------------------------
(***************************************************************************)
(* The process table of one handler process: the singly linked list of     *)
(* sockets/processlist.h, newest entry first.  A table is a sequence whose *)
(* first element is the node `head' points to.  The start and end times    *)
(* are left out: no decision of the program reads them.                    *)
(*                                                                         *)
(* Pointers are positions: NULL is position 0.                             *)
(***************************************************************************)
EXTENDS Integers, SequencesExt

NULL == 0

(* One node of the list (struct process). *)
Entry(Pids, Names) == [pid : Pids, processname : Names, isrunning : BOOLEAN]

-----------------------------------------------------------------------------
(* Mutants: the node is not marked as running; the search starts behind    *)
(* the node it is given; the newest node is marked, whatever the pid.      *)
InsertFirst_NotRunning(table, pid, name) ==
    <<[pid |-> pid, processname |-> name, isrunning |-> FALSE]>> \o table

SearchPName_SkipsFirst(table, name, ptr) ==
    SelectInSubSeq(table, ptr + 1, Len(table), LAMBDA e : e.processname = name)

InsertEndTime_Newest(table, pid) ==
    [table EXCEPT ![1].isrunning = FALSE]

(* insertfirst: the new node becomes the head and is marked as running. *)
InsertFirst(table, pid, name) ==
    <<[pid |-> pid, processname |-> name, isrunning |-> TRUE]>> \o table

(* searchpid: the newest node with this pid, or NULL. *)
SearchPid(table, pid) ==
    SelectInSeq(table, LAMBDA e : e.pid = pid)

(* searchpname: the first node with this name at or after the node `ptr'   *)
(* points to, or NULL.  A `ptr' one past the last node is the NULL pointer *)
(* that ends the list.                                                     *)
SearchPName(table, name, ptr) ==
    SelectInSubSeq(table, ptr, Len(table), LAMBDA e : e.processname = name)

(* insertendtime, for a pid that is in the table: its newest node is       *)
(* marked as ended.  For a pid that is not, the code writes through the    *)
(* NULL that searchpid returned; the caller's action models that crash.    *)
InsertEndTime(table, pid) ==
    [table EXCEPT ![SearchPid(table, pid)].isrunning = FALSE]

-----------------------------------------------------------------------------
(* What killoneprocess says about a name it is given: only the newest node *)
(* of that name is looked at.                                              *)
NameVerdict(table, name) ==
    LET ptr == SearchPName(table, name, 1) IN
    IF ptr = NULL THEN "unknown"
    ELSE IF table[ptr].isrunning THEN "terminate" ELSE "already killed"

(* What killoneprocess says about a pid it is given. *)
PidVerdict(table, pid) ==
    LET ptr == SearchPid(table, pid) IN
    IF ptr # NULL /\ table[ptr].isrunning THEN "terminate" ELSE "unknown"
=============================================================================
