------------------------------ MODULE LogFile ------------------------------
(***************************************************************************)
(* A log file and the LogNode of log_watcher.py that follows it by name: a *)
(* writer appends, and logrotate renames or truncates the file between any *)
(* two steps of the node.                                                  *)
(*                                                                         *)
(* Lines are numbered in the order they are written.  A file is an inode;  *)
(* text[i] is the sequence of lines in inode i.                            *)
(***************************************************************************)
EXTENDS Integers, Sequences, SequencesExt

CONSTANTS
    MaxLines,        \* bound: lines ever written
    MaxInodes,       \* bound: incarnations of the log file
    MaxTruncations   \* bound on truncations in place (copytruncate)

Lines == 1 .. MaxLines
Inodes == 1 .. MaxInodes

ASSUME LogAssumption ==
    MaxLines \in Nat /\ MaxInodes \in Nat \ {0} /\ MaxTruncations \in Nat

VARIABLES
    text,        \* text[i]: the lines in inode i
    path,        \* the inode log_path names, 0 if there is none
    writer,      \* the inode the writer appends to
    lastLine,    \* the number of lines written
    truncations,
    fd,          \* log_file, an inode, or 0 for None
    pos          \* lines of fd already passed

log == <<text, path, writer, lastLine, truncations>>

LogTypeOK ==
    /\ text \in [Inodes -> Seq(Lines)] /\ path \in {0} \union Inodes /\ writer \in Inodes
    /\ lastLine \in 0 .. MaxLines /\ truncations \in 0 .. MaxTruncations
    /\ fd \in {0} \union Inodes /\ pos \in Nat

\* The node starts on an empty log file.
LogInit ==
    /\ text = [i \in Inodes |-> <<>>] /\ path = 1 /\ writer = 1
    /\ lastLine = 0 /\ truncations = 0 /\ fd = 1 /\ pos = 0

-----------------------------------------------------------------------------
(* The writer and logrotate.                                               *)

Write ==
    /\ lastLine < MaxLines
    /\ lastLine' = lastLine + 1
    /\ text' = [text EXCEPT ![writer] = Append(@, lastLine + 1)]
    /\ UNCHANGED <<path, writer, truncations>>

\* The file is renamed; the writer keeps appending to it until it reopens.
Rename ==
    /\ path # 0 /\ path < MaxInodes
    /\ path' = 0
    /\ UNCHANGED <<text, writer, lastLine, truncations>>

Reopen ==
    /\ path = 0
    /\ writer' = writer + 1 /\ path' = writer + 1
    /\ UNCHANGED <<text, lastLine, truncations>>

Truncate ==
    /\ path # 0 /\ truncations < MaxTruncations
    /\ truncations' = truncations + 1
    /\ text' = [text EXCEPT ![path] = <<>>]
    /\ UNCHANGED <<path, writer, lastLine>>

LogStep == Write \/ Rename \/ Reopen \/ Truncate

-----------------------------------------------------------------------------
(* The node's file object.                                                 *)

\* _set_fd(seek_to_end=False) when there is no open file.
SetFd == IF fd # 0 THEN UNCHANGED <<fd, pos>> ELSE fd' = path /\ pos' = 0

\* _set_fd(seek_to_end=True), and the lines it passes over.
PassedOver == IF path = 0 THEN {} ELSE Range(text[path])
SeekToEnd == fd' = path /\ pos' = IF path = 0 THEN 0 ELSE Len(text[path])

\* Lines of fd from pos on; a truncated file gives none until it outgrows pos.
Unread == IF fd = 0 THEN <<>> ELSE SubSeq(text[fd], pos + 1, Len(text[fd]))

\* The lines that will be read, unless the file is renamed or truncated before.
ToRead == Range(Unread) \union (IF path \in {0, fd} THEN {} ELSE Range(text[path]))

\* readlines
PassUnread == fd' = fd /\ pos' = pos + Len(Unread)

\* Mutant: the open file is kept when log_path is gone or names another inode.
KeepFd == UNCHANGED <<fd, pos>>

\* cleanup when log_path is gone or names another inode.
CheckInode == IF path = fd THEN UNCHANGED <<fd, pos>> ELSE fd' = 0 /\ pos' = 0
=============================================================================
