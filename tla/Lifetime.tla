------------------------------ MODULE Lifetime ------------------------------
(* The server as a process (src/src/server.c; server_create, add_sockets,      *)
(* accept_socket, the accept handlers and server_destroy): it reads the next   *)
(* id from id_file, opens its listeners, accepts and ends connections until a  *)
(* signal jumps out of the loop, and writes the id back.  Its resources are    *)
(* the ids, unique over all runs, and the descriptors, of which it keeps one   *)
(* in reserve (dummyfd) for the time there are no others.                      *)
EXTENDS Descriptors, Functions, Sequences

CONSTANTS
  MaxId,       \* bound: ids handed out over all runs
  MaxWaiting,  \* bound: connections in one listen queue
  Backlog,     \* BACKLOG: connections accepted per event
  Kills,       \* the process may be killed: nothing of server_destroy runs
  IoFails,     \* id_file may be unreadable, a listener may fail, a write may
  AllocFails,  \* malloc, fcntl and epoll_ctl may fail in an accept handler
  SysLimit,    \* the system may run out of files at any call (ENFILE)
  Signals,     \* the signals main installs signal_handler for
  Anytime      \* a signal may come at any instruction, not only in epoll_wait

ASSUME LifetimeAssumption ==
  /\ MaxId \in Nat /\ MaxWaiting \in Nat
  /\ Backlog \in Nat \ {0}
  /\ MaxFds >= 3
  /\ {Kills, IoFails, AllocFails, SysLimit, Anytime} \subseteq BOOLEAN
  /\ Signals \subseteq {"SIGINT", "SIGTERM"}

NoFile == MaxId+1
NoApps == [i \in {} |-> 0]

\* main adds an HTTP and a local listener; one of each stands for all of them.
Listeners == <<"listen_http", "listen_local">>

VARIABLES
  stage,    \* down, setup, loop, destroy, or lost (undefined behaviour)
  file,     \* the id in id_file, NoFile if there is none
  id,       \* server->id
  given,    \* the ids handed out in this and in earlier runs, while all are clean
  sockets,  \* listeners main has tried to add
  blocked,  \* signals blocked because their handler was left by longjmp
  saved,    \* server_destroy has closed its descriptors and written the id
  clean,    \* every run so far read id_file and saved its id
  table,    \* the descriptors of the process
  epoll,    \* what its epoll descriptor watches
  own,      \* the descriptors in async_server_t: epfd, dummyfd, id_fd
  apps,     \* id_rbtree: kind and descriptor of each app
  pc,       \* where the loop is; once a signal left it, spare or wait
  call,     \* what is in hand: the listener, connections so far, a descriptor
  stray,    \* descriptors a signal left to nobody: only the code it ended knew them
  waiting   \* connections in the listen queues

idVars == <<file, id, given, clean>>
startVars == <<sockets, blocked, saved>>
fdVars == <<table, epoll, own, apps>>
loopVars == <<pc, call>>
vars == <<stage, idVars, startVars, fdVars, loopVars, stray, waiting>>

NoOwn == [epfd |-> NoFd, dummyfd |-> NoFd, id_fd |-> NoFd]
NoCall == [at |-> "none", i |-> 0, fd |-> NoFd]
Nobody == [l \in Range(Listeners) |-> 0]

Init ==
  /\ stage = "down"
  /\ file = NoFile /\ id = 0 /\ given = {} /\ clean = TRUE
  /\ sockets = 0 /\ blocked = {} /\ saved = FALSE
  /\ table = NoFds /\ epoll = {} /\ own = NoOwn /\ apps = NoApps
  /\ pc = "wait" /\ call = NoCall /\ stray = {}
  /\ waiting = Nobody

----------------------------------------------------------------------------
(* Start.                                                                   *)

\* Mutant: the id is reset after it was read.
CreateAtZero ==
  /\ stage = "down"
  /\ stage' = "setup"
  /\ table' = Open(Open(Open(NoFds)))
  /\ own' = [epfd |-> 1, dummyfd |-> 2, id_fd |-> 3]
  /\ UNCHANGED <<file, id, given, clean, startVars, epoll, apps, loopVars, stray, waiting>>

\* server_create: the reserve or id_file may fail to open, id_file to be read,
\* and none of that is an error; only a failing epoll_create is.
Create ==
  /\ stage = "down"
  /\ stage' = "setup"
  /\ \E spare, opened, read \in BOOLEAN :
       LET first == Open(NoFds)
           second == IF spare THEN Open(first) ELSE first
       IN /\ read => opened
          /\ ~(spare /\ read) => IoFails
          /\ table' = IF opened THEN Open(second) ELSE second
          /\ own' = [epfd |-> NextFd(NoFds),
                     dummyfd |-> IF spare THEN NextFd(first) ELSE NoFd,
                     id_fd |-> IF opened THEN NextFd(second) ELSE NoFd]
          /\ id' = IF read /\ file # NoFile THEN file ELSE 0
          /\ clean' = (clean /\ read)
  /\ given' = IF clean' THEN given ELSE {}
  /\ UNCHANGED <<file, startVars, epoll, apps, loopVars, stray, waiting>>

\* id_node.key = server->id++, n times.
GiveIds(n) ==
  /\ id + n <= MaxId
  /\ id' = id + n
  /\ given' = IF clean THEN given \cup (id .. id+n-1) ELSE {}

NewApp(i, kind, fd) == [j \in DOMAIN apps \cup {i} |->
                          IF j = i THEN [kind |-> kind, fd |-> fd] ELSE apps[j]]

\* add_sockets; it closes what it opened when it fails, and nobody looks at its
\* result.
AddSocket ==
  /\ stage = "setup"
  /\ sockets < Len(Listeners)
  /\ sockets' = sockets + 1
  /\ \/ /\ ~Full(table)
        /\ GiveIds(1)
        /\ table' = Open(table)
        /\ epoll' = Watch(epoll, table', NextFd(table), id)
        /\ apps' = NewApp(id, Listeners[sockets'], NextFd(table))
     \/ /\ IoFails \/ Full(table)
        /\ UNCHANGED <<id, given, table, epoll, apps>>
  /\ UNCHANGED <<stage, file, clean, blocked, saved, own, loopVars, stray, waiting>>

\* setjmp, then the loop.
SetJmp ==
  /\ stage = "setup"
  /\ sockets = Len(Listeners)
  /\ stage' = "loop"
  /\ UNCHANGED <<idVars, startVars, fdVars, loopVars, stray, waiting>>

\* The process ends: the kernel closes what it left open, and of its memory
\* nothing remains.
Gone ==
  /\ id' = 0 /\ sockets' = 0 /\ blocked' = {} /\ saved' = FALSE
  /\ table' = NoFds /\ epoll' = {} /\ own' = NoOwn /\ apps' = NoApps
  /\ pc' = "wait" /\ call' = NoCall /\ stray' = {}
  /\ waiting' = Nobody

Unclean == clean' = FALSE /\ given' = {}

\* server_start_loop cannot allocate its events: main returns, and server_destroy
\* does not run.
StartFails ==
  /\ IoFails
  /\ stage = "setup"
  /\ sockets = Len(Listeners)
  /\ stage' = "down"
  /\ Gone
  /\ Unclean
  /\ UNCHANGED file

----------------------------------------------------------------------------
(* accept_socket: one step for each of its system calls.                    *)

\* epoll_wait returns a listener: its handler starts to accept.
Readable(l) ==
  /\ stage = "loop" /\ pc = "wait"
  /\ waiting[l] > 0
  /\ pc' = "accept"
  /\ call' = [at |-> l, i |-> 0, fd |-> NoFd]
  /\ UNCHANGED <<stage, idVars, startVars, fdVars, stray, waiting>>

InLoop(at) == stage = "loop" /\ pc = at
Return == pc' = "wait" /\ call' = NoCall
NoneLeft == Full(table) \/ SysLimit

\* The next connection leaves the listen queue.
TakeOne ==
  /\ waiting[call.at] > 0
  /\ waiting' = [waiting EXCEPT ![call.at] = @ - 1]

\* A call has made the descriptor fd, which only a local variable holds as yet.
InHand(fd) == call' = [call EXCEPT !.fd = fd]

AcceptOne ==
  /\ InLoop("accept")
  /\ ~Full(table)
  /\ TakeOne
  /\ table' = Open(table)
  /\ InHand(NextFd(table))
  /\ pc' = "made"
  /\ UNCHANGED <<stage, idVars, startVars, epoll, own, apps, stray>>

\* Mutant: EAGAIN is tried again at once.
AcceptNoneRetries ==
  /\ InLoop("accept")
  /\ ~Full(table)
  /\ waiting[call.at] = 0
  /\ UNCHANGED vars

\* EAGAIN; EINTR is tried again, and leaves the state as it was.
AcceptNone ==
  /\ InLoop("accept")
  /\ ~Full(table)
  /\ waiting[call.at] = 0
  /\ Return
  /\ UNCHANGED <<stage, idVars, startVars, fdVars, stray, waiting>>

\* A connection that was reset before it was accepted, or any other error.
AcceptFails ==
  /\ InLoop("accept")
  /\ AllocFails
  /\ ~Full(table)
  /\ TakeOne
  /\ Return
  /\ UNCHANGED <<stage, idVars, startVars, fdVars, stray>>

\* EMFILE or ENFILE, which accept looks for before it looks for a connection:
\* the reserve is closed, ...
RunOut ==
  /\ InLoop("accept")
  /\ NoneLeft
  /\ table' = Close(table, {own.dummyfd})
  /\ pc' = "spare"
  /\ UNCHANGED <<stage, idVars, startVars, epoll, own, apps, call, stray, waiting>>

\* ... used to take a connection ...
Spare ==
  /\ InLoop("spare")
  /\ ~Full(table)
  /\ TakeOne
  /\ table' = Open(table)
  /\ InHand(NextFd(table))
  /\ pc' = "turned"
  /\ UNCHANGED <<stage, idVars, startVars, epoll, own, apps, stray>>

\* (unless there is none, it was reset, or another process was faster)
SpareFails ==
  /\ InLoop("spare")
  /\ \/ (waiting[call.at] = 0 \/ NoneLeft) /\ UNCHANGED waiting
     \/ AllocFails /\ TakeOne
  /\ pc' = "reopen"
  /\ UNCHANGED <<stage, idVars, startVars, fdVars, call, stray>>

\* ... and close it, ...
TurnAway ==
  /\ InLoop("turned")
  /\ table' = Close(table, {call.fd})
  /\ InHand(NoFd)
  /\ pc' = "reopen"
  /\ UNCHANGED <<stage, idVars, startVars, epoll, own, apps, stray, waiting>>

\* ... and opened again, or not, ...
Reopen ==
  /\ InLoop("reopen")
  /\ \/ /\ ~Full(table)
        /\ table' = Open(table)
        /\ InHand(NextFd(table))
     \/ /\ NoneLeft
        /\ UNCHANGED <<table, call>>
  /\ pc' = "reopened"
  /\ UNCHANGED <<stage, idVars, startVars, epoll, own, apps, stray, waiting>>

\* ... which server->dummyfd learns before the next accept.
Restore ==
  /\ InLoop("reopened")
  /\ own' = [own EXCEPT !.dummyfd = call.fd]
  /\ InHand(NoFd)
  /\ pc' = "accept"
  /\ UNCHANGED <<stage, idVars, startVars, table, epoll, apps, stray, waiting>>

----------------------------------------------------------------------------
(* The rest of the accept handlers.                                         *)

Made(kind) == InLoop("made") /\ call.at = kind

\* The loop of accept_http_cb goes on until BACKLOG.
NextAccept ==
  IF call.i + 1 < Backlog
    THEN pc' = "accept" /\ call' = [call EXCEPT !.i = @ + 1, !.fd = NoFd]
    ELSE Return

\* The app of the descriptor in hand: into epoll, an id, and into id_rbtree.
Adopt(kind) ==
  /\ GiveIds(1)
  /\ epoll' = Watch(epoll, table, call.fd, id)
  /\ apps' = NewApp(id, kind, call.fd)

HttpAccepted ==
  /\ Made("listen_http")
  /\ Adopt("http")
  /\ NextAccept
  /\ UNCHANGED <<stage, file, clean, startVars, table, own, stray, waiting>>

\* Mutant: the socket is left open.
RefusedLeaks ==
  /\ AllocFails
  /\ InLoop("made") \/ InLoop("copied")
  /\ UNCHANGED table
  /\ Return \/ (call.at = "listen_http" /\ NextAccept)
  /\ UNCHANGED <<stage, idVars, startVars, epoll, own, apps, stray, waiting>>

\* A call fails: the new descriptor is closed, and accept_http_cb may go on.
Refused ==
  /\ AllocFails
  /\ InLoop("made") \/ InLoop("copied")
  /\ table' = Close(table, {call.fd})
  /\ Return \/ (call.at = "listen_http" /\ NextAccept)
  /\ UNCHANGED <<stage, idVars, startVars, epoll, own, apps, stray, waiting>>

\* The receiving half of a worker, ...
LocalAccepted ==
  /\ Made("listen_local")
  /\ Adopt("local")
  /\ InHand(NoFd)
  /\ pc' = "dup"
  /\ UNCHANGED <<stage, file, clean, startVars, table, own, stray, waiting>>

\* ... a copy of its descriptor (id-1 is the half just made), ...
LocalCopied ==
  /\ InLoop("dup")
  /\ ~Full(table)
  /\ table' = Dup(table, apps[id-1].fd)
  /\ InHand(NextFd(table))
  /\ pc' = "copied"
  /\ UNCHANGED <<stage, idVars, startVars, epoll, own, apps, stray, waiting>>

\* (without one the calls after it fail, and there is only this half)
LocalHalf ==
  /\ InLoop("dup")
  /\ Full(table)
  /\ Return
  /\ UNCHANGED <<stage, idVars, startVars, fdVars, stray, waiting>>

\* ... and the sending half.
LocalBoth ==
  /\ InLoop("copied")
  /\ Adopt("local")
  /\ Return
  /\ UNCHANGED <<stage, file, clean, startVars, table, own, stray, waiting>>

----------------------------------------------------------------------------
(* The end of an app, in the loop and in server_destroy.                    *)

\* Mutant: EPOLL_CTL_DEL is left to close.
UnlistNot(i) ==
  /\ UNCHANGED epoll
  /\ apps' = Restrict(apps, DOMAIN apps \ {i})
  /\ call' = [NoCall EXCEPT !.fd = apps[i].fd]

\* Out of epoll and id_rbtree; the descriptor is in hand until it is closed.
Unlist(i) ==
  /\ epoll' = Unwatch(epoll, table, apps[i].fd)
  /\ apps' = Restrict(apps, DOMAIN apps \ {i})
  /\ call' = [NoCall EXCEPT !.fd = apps[i].fd]

\* A connection ends, by an event or a timer.
Teardown(i) ==
  /\ InLoop("wait")
  /\ apps[i].kind \in {"http", "local"}
  /\ Unlist(i)
  /\ pc' = "closing"
  /\ UNCHANGED <<stage, idVars, startVars, table, own, stray, waiting>>

Destroying == stage = "destroy" /\ ~saved

\* The walk over id_rbtree.
FreeApp(i) ==
  /\ Destroying
  /\ call = NoCall
  /\ \A j \in DOMAIN apps : i <= j
  /\ Unlist(i)
  /\ UNCHANGED <<stage, idVars, startVars, table, own, pc, stray, waiting>>

CloseApp ==
  /\ InLoop("closing") \/ (Destroying /\ call # NoCall)
  /\ table' = Close(table, {call.fd})
  /\ epoll' = Remaining(epoll, table')
  /\ call' = NoCall
  /\ pc' = IF stage = "loop" THEN "wait" ELSE pc
  /\ UNCHANGED <<stage, idVars, startVars, own, apps, stray, waiting>>

----------------------------------------------------------------------------
(* Signals, and server_destroy.                                             *)

\* Here server->dummyfd is a number that was closed, and may be another's.
ReserveInUse == {"spare", "turned", "reopen", "reopened"}

\* signal_handler leaves by longjmp, so its signal stays blocked.  It may do so
\* between any two system calls of a handler or of server_destroy, which then just
\* starts again (nothing opens a descriptor meanwhile, so closing its own twice does
\* no harm); a descriptor that only a local variable held is left to nobody.
\* Of where it came only matters whether the reserve was in use.
Signal(s) ==
  /\ s \notin blocked
  /\ blocked' = blocked \cup {s}
  /\ stage = "loop" \/ Destroying
  /\ Anytime \/ InLoop("wait")
  /\ stage' = "destroy"
  /\ stray' = stray \cup ({call.fd} \ {NoFd})
  /\ call' = NoCall
  /\ pc' = IF pc \in ReserveInUse THEN "spare" ELSE "wait"
  /\ waiting' = Nobody
  /\ UNCHANGED <<idVars, sockets, saved, fdVars>>

\* Before setjmp there is nowhere to jump to; out of the middle of an update of a
\* tree or a queue, of malloc or of stdio, server_destroy finds a broken structure
\* or a held lock; once the server is freed it finds freed memory.  What the process
\* does then is undefined, and nothing is said of its state.
SignalLost(s) ==
  /\ Anytime
  /\ s \notin blocked
  /\ stage \in {"setup", "loop", "destroy"}
  /\ stage' = "lost"
  /\ Gone
  /\ UNCHANGED <<file, given, clean>>

\* Mutant: id_file is left open.
CloseOwnButFile ==
  /\ table' = Close(table, {own.epfd, own.dummyfd})
  /\ own' = NoOwn
  /\ epoll' = {}

CloseOwn ==
  /\ table' = Close(table, Range(own))
  /\ own' = NoOwn
  /\ epoll' = {}

AllFreed == Destroying /\ DOMAIN apps = {} /\ call = NoCall

\* Mutant: the last id is saved instead of the next.
SaveLastId ==
  /\ AllFreed
  /\ saved' = TRUE
  /\ CloseOwn
  /\ file' = id - 1
  /\ UNCHANGED <<stage, id, given, clean, sockets, blocked, apps, loopVars, stray, waiting>>

\* The id is written over the old one ...
SaveId ==
  /\ AllFreed
  /\ saved' = TRUE
  /\ CloseOwn
  /\ file' = IF own.id_fd # NoFd THEN id ELSE file
  /\ UNCHANGED <<stage, id, given, clean, sockets, blocked, apps, loopVars, stray, waiting>>

\* ... and a failure to do so is ignored.
SaveFails ==
  /\ IoFails
  /\ AllFreed
  /\ saved' = TRUE
  /\ CloseOwn
  /\ Unclean
  /\ UNCHANGED <<stage, file, id, sockets, blocked, apps, loopVars, stray, waiting>>

Exit ==
  /\ stage = "destroy" /\ saved
  /\ stage' = "down"
  /\ Gone
  /\ UNCHANGED <<file, given, clean>>

Kill ==
  /\ Kills
  /\ stage # "down"
  /\ stage' = "down"
  /\ Gone
  /\ Unclean
  /\ UNCHANGED file

----------------------------------------------------------------------------
(* Other processes.                                                         *)

Ids(l) == IF l = "listen_local" THEN 2 ELSE 1

\* The ids that the connection in hand will still take.
IdsToCome ==
  CASE pc = "made" -> Ids(call.at)
    [] pc \in {"dup", "copied"} -> 1
    [] OTHER -> 0

\* The bound on ids is kept here, where it costs no step of the server.
Connect(l) ==
  /\ stage = "loop"
  /\ \E i \in DOMAIN apps : apps[i].kind = l
  /\ waiting[l] < MaxWaiting
  /\ id + waiting["listen_http"] + 2*waiting["listen_local"] + Ids(l) + IdsToCome <= MaxId
  /\ waiting' = [waiting EXCEPT ![l] = @ + 1]
  /\ UNCHANGED <<stage, idVars, startVars, fdVars, loopVars, stray>>

----------------------------------------------------------------------------
Accepting ==
  \/ AcceptOne \/ AcceptNone \/ AcceptFails
  \/ RunOut \/ Spare \/ SpareFails \/ TurnAway \/ Reopen \/ Restore
  \/ HttpAccepted \/ LocalAccepted \/ LocalCopied \/ LocalHalf \/ LocalBoth \/ Refused

Next ==
  \/ Create \/ AddSocket \/ SetJmp \/ StartFails
  \/ Accepting
  \/ \E l \in Range(Listeners) : Readable(l) \/ Connect(l)
  \/ \E i \in DOMAIN apps : Teardown(i) \/ FreeApp(i)
  \/ CloseApp
  \/ Kill
  \/ \E s \in Signals : Signal(s) \/ SignalLost(s)
  \/ SaveId \/ SaveFails \/ Exit

Spec == Init /\ [][Next]_vars

\* A handler that has been called runs on; that the system has no file left, or
\* that a call fails, is nothing to rely on.
RunsOn ==
  \/ AcceptOne \/ AcceptNone \/ (Full(table) /\ RunOut)
  \/ Spare \/ SpareFails \/ TurnAway \/ Reopen \/ Restore
  \/ HttpAccepted \/ LocalAccepted \/ LocalCopied \/ LocalHalf \/ LocalBoth

FairSpec == Spec /\ WF_vars(RunsOn)

----------------------------------------------------------------------------
(* Properties.                                                              *)

InHandlerAt ==
  {"accept", "spare", "turned", "reopen", "reopened", "made", "dup", "copied"}

TypeOK ==
  /\ stage \in {"down", "setup", "loop", "destroy", "lost"}
  /\ file \in 0 .. NoFile
  /\ id \in 0 .. MaxId
  /\ given \subseteq 0 .. MaxId
  /\ sockets \in 0 .. Len(Listeners)
  /\ blocked \subseteq Signals
  /\ saved \in BOOLEAN
  /\ table \in [Fds -> Fds \cup {Free}]
  /\ epoll \subseteq [fd : Fds, file : Fds, app : 0 .. MaxId]
  /\ Range(own) \subseteq Fds \cup {NoFd}
  /\ DOMAIN apps \subseteq 0 .. MaxId
  /\ pc \in {"wait", "closing"} \cup InHandlerAt
  /\ stray \subseteq Fds

\* While every run reads and saves id_file, no id is handed out twice, in one run
\* or over restarts, whichever listeners failed and wherever a signal came.
IdsUnique == [][clean /\ stage # "down" => (id .. id'-1) \cap given = {}]_vars

\* What such runs leave on disk is beyond every id handed out.
FileAhead == clean /\ stage = "down" /\ file # NoFile => \A i \in given : i < file

\* The descriptors the server believes it has: while the reserve is in use, or was
\* when a signal came, its number means nothing.
Reserve == IF pc \in ReserveInUse THEN {} ELSE {own.dummyfd}
Held == ({own.epfd, own.id_fd, call.fd} \cup Reserve \cup {apps[i].fd : i \in DOMAIN apps}) \ {NoFd}

\* No descriptor leaks and none is closed twice: whichever call of an accept
\* handler failed, with the table full or not, the open descriptors are those the
\* server still knows of and those a signal left to nobody, and no two apps share a
\* number.
DescriptorsOwned ==
  /\ ~saved => Used(table) = Held \cup stray
  /\ \A i, j \in DOMAIN apps : i # j => apps[i].fd # apps[j].fd
  /\ \A i \in DOMAIN apps :
       apps[i].fd \notin stray \cup {own.epfd, own.id_fd, call.fd} \cup Reserve

\* epoll hands the loop a pointer: it only knows apps that exist, even when half
\* of a worker connection is closed and the other half keeps the socket open.
RegistrationsLive ==
  stage = "loop" =>
    /\ \A r \in epoll : r.app \in DOMAIN apps /\ apps[r.app].fd = r.fd
    /\ \A i \in DOMAIN apps : \E r \in epoll : r.app = i /\ r.file = table[r.fd]

\* server_destroy closes every descriptor but one for each signal at most, and that
\* one only if the signal came while it was known to a local variable alone: after
\* accept, dup or open returned, or between the end of an app and its close.  (So
\* async_server.h:31, "close all fds", holds for signals taken in the wait.)
ClosesAllKnown ==
  saved => /\ Used(table) \subseteq stray
           /\ Cardinality(stray) <= Cardinality(blocked)

\* async_server.c:73, 132, 142: the reserve is there for running out of
\* descriptors, and accept_socket returns when no connection is ready: an accept
\* handler comes to its end (run under FairSpec).
InHandler == stage = "loop" /\ pc \in InHandlerAt
HandlerReturns == InHandler ~> ~InHandler

\* An accept handler comes to its end, whatever connects meanwhile and whichever
\* calls fail, unless it is told that no descriptor is left (run under FairSpec).
ReturnsWithRoom == InHandler ~> ~InHandler \/ pc = "spare"
=============================================================================
