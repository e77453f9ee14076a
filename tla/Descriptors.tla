---------------------------- MODULE Descriptors -----------------------------
(* What the server assumes of the kernel about descriptors: a table of limited *)
(* size whose lowest free entry is handed out, open files that several entries *)
(* may share (dup), and an epoll set whose entries belong to the open file and *)
(* last until it is closed for the last time.                                  *)
EXTENDS Integers, FiniteSetsExt

CONSTANT MaxFds   \* RLIMIT_NOFILE, less what is never closed (stdio and the log)

ASSUME FdsAssumption == MaxFds \in Nat \ {0}

Fds == 1 .. MaxFds
NoFd == 0         \* the -1 of a call that failed
Free == 0         \* open files are numbered from 1

NoFds == [fd \in Fds |-> Free]
Used(table) == {fd \in Fds : table[fd] # Free}
Full(table) == Used(table) = Fds
NextFd(table) == Min(Fds \ Used(table))
NewFile(table) == Min({f \in Fds : \A fd \in Fds : table[fd] # f})

Open(table) == [table EXCEPT ![NextFd(table)] = NewFile(table)]
Dup(table, fd) == [table EXCEPT ![NextFd(table)] = table[fd]]
\* Closing what is not open (EBADF) changes nothing.
Close(table, closed) == [fd \in Fds |-> IF fd \in closed THEN Free ELSE table[fd]]

Watch(epoll, table, fd, app) == epoll \cup {[fd |-> fd, file |-> table[fd], app |-> app]}
Unwatch(epoll, table, fd) == {r \in epoll : r.fd # fd \/ r.file # table[fd]}
\* What a close leaves of an epoll set.
Remaining(epoll, table) == {r \in epoll : \E fd \in Fds : table[fd] = r.file}
=============================================================================
