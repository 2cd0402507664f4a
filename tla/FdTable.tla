------------------------------ MODULE FdTable -------------------------------
(***************************************************************************)
(* The descriptor table of dfs.c and the calls of dfs_posix.c that use it. *)
(* The table is locked only inside fd_new, fd_get and fd_put: between them *)
(* threads interleave freely, and a descriptor may be closed by one thread *)
(* while others are reading from it.  A thread passes a descriptor that is *)
(* open and that nobody else is closing.                                   *)
(***************************************************************************)
EXTENDS Integers, FiniteSets, FiniteSetsExt

CONSTANTS
  Users,    \* the threads
  FdMax     \* DFS_FD_MAX

Fd == 0 .. FdMax - 1

ConstantsOK == FdMax \in Nat \ {0}

VARIABLES
  table,     \* fd_table: ref_count, and whether magic and path are set
  step,      \* where each thread is
  using,     \* the descriptor each thread is using
  opened     \* history: the descriptors open has returned and nobody has closed

vars == <<table, step, using, opened>>

Cleared == [ref |-> 0, magic |-> FALSE, path |-> FALSE]

\* dfs_init.
Init ==
  /\ table = [d \in Fd |-> Cleared]
  /\ step = [t \in Users |-> "run"]
  /\ using = [t \in Users |-> 0]
  /\ opened = {}

-----------------------------------------------------------------------------
Goto(t, label) == step' = [step EXCEPT ![t] = label]

Empty == {d \in Fd : table[d].ref = 0}

fd_new(d) == table' = [table EXCEPT ![d].ref = 1, ![d].magic = TRUE]

fd_get(d) == table[d].magic /\ table' = [table EXCEPT ![d].ref = @ + 1]

\* (defect) the last but one reference clears the entry
PutEarly(d) ==
  table' = [table EXCEPT ![d] = IF @.ref <= 2 THEN Cleared ELSE [@ EXCEPT !.ref = @ - 1]]

fd_put(d) ==
  table' = [table EXCEPT ![d] = IF @.ref = 1 THEN Cleared ELSE [@ EXCEPT !.ref = @ - 1]]

-----------------------------------------------------------------------------
\* open, opendir and mkdir: a descriptor, a reference to it, and the file; without a
\* free entry -1.
open(t) ==
  /\ step[t] = "run"
  /\ Empty # {}
  /\ fd_new(Min(Empty))
  /\ using' = [using EXCEPT ![t] = Min(Empty)]
  /\ Goto(t, "open_get")
  /\ UNCHANGED opened

OpenGet(t) ==
  /\ step[t] = "open_get"
  /\ fd_get(using[t])
  /\ Goto(t, "open_file")
  /\ UNCHANGED <<using, opened>>

\* dfs_file_open, which fails where the path or the file system does.  mkdir, and
\* opendir without memory, go on to close the file.
dfs_file_open(t) ==
  /\ step[t] = "open_file"
  /\ \/ table' = [table EXCEPT ![using[t]].path = TRUE]
          /\ (Goto(t, "open_put") \/ Goto(t, "undo_file"))
     \/ UNCHANGED table /\ Goto(t, "first_put")
  /\ UNCHANGED <<using, opened>>

OpenPut(t) ==
  /\ step[t] = "open_put"
  /\ fd_put(using[t])
  /\ opened' = opened \cup {using[t]}
  /\ Goto(t, "run")
  /\ UNCHANGED using

\* A file that was not opened, or is closed: both references are dropped.
FirstPut(t) ==
  /\ step[t] = "first_put"
  /\ fd_put(using[t])
  /\ Goto(t, "last_put")
  /\ UNCHANGED <<using, opened>>

\* The reference of fd_new is dropped.
LastPut(t) ==
  /\ step[t] = "last_put"
  /\ fd_put(using[t])
  /\ Goto(t, "run")
  /\ UNCHANGED <<using, opened>>

\* read, write, lseek, fstat, fsync, ioctl, readdir, telldir, seekdir and rewinddir up
\* to where the file system is called ...
Use(t, d) ==
  /\ step[t] = "run"
  /\ fd_get(d)
  /\ using' = [using EXCEPT ![t] = d]
  /\ Goto(t, "use_put")
  /\ UNCHANGED opened

\* ... and from there on, with or without an error.
UseEnds(t) ==
  /\ step[t] = "use_put"
  /\ fd_put(using[t])
  /\ Goto(t, "run")
  /\ UNCHANGED <<using, opened>>

\* close and closedir.
close(t, d) ==
  /\ step[t] = "run"
  /\ fd_get(d)
  /\ opened' = opened \ {d}
  /\ using' = [using EXCEPT ![t] = d]
  /\ Goto(t, "close_file")

\* dfs_file_close: if the file system fails, close leaves the descriptor open; closedir,
\* mkdir and opendir do not look at the result.
dfs_file_close(t) ==
  /\ step[t] \in {"close_file", "undo_file"}
  /\ \/ table' = [table EXCEPT ![using[t]].path = FALSE] /\ Goto(t, "first_put")
     \/ UNCHANGED table /\ Goto(t, "first_put")
     \/ step[t] = "close_file" /\ UNCHANGED table /\ Goto(t, "open_put")
  /\ UNCHANGED <<using, opened>>

Next ==
  \E t \in Users :
    \/ open(t) \/ OpenGet(t) \/ dfs_file_open(t) \/ OpenPut(t) \/ FirstPut(t) \/ LastPut(t)
    \/ UseEnds(t) \/ dfs_file_close(t)
    \/ \E d \in opened : Use(t, d) \/ close(t, d)

Spec == Init /\ [][Next]_vars

-----------------------------------------------------------------------------
\* The references a thread in a call holds to descriptor d: those of its fd_get, and
\* that of fd_new while nobody else knows the descriptor or after it was given up.
Holds(t, d) ==
  IF step[t] = "run" \/ using[t] # d THEN 0
  ELSE IF step[t] \in {"open_file", "open_put", "undo_file", "close_file", "first_put"} THEN 2
  ELSE 1

\* ref_count is the number of those who use a descriptor: one for a descriptor that is
\* open, and those of the calls in progress.  So an entry is cleared and given out
\* again only when the last call on it has ended, also if it was closed long before.
RefsExact ==
  \A d \in Fd :
    /\ table[d].ref = (IF d \in opened THEN 1 ELSE 0) + MapThenSumSet(LAMBDA t : Holds(t, d), Users)
    /\ table[d].magic <=> table[d].ref > 0
    /\ d \in opened => table[d].path
=============================================================================
