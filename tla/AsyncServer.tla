---------------------------- MODULE AsyncServer ----------------------------
(* The event loop of src/src/async_server.c: one thread, one epoll set, every *)
(* connection an app_t with a handler and a status.  HTTP clients are read    *)
(* until their request is complete and wait in the task queue; every worker   *)
(* connection is two apps on one socket, a half that receives answers and a   *)
(* half that sends tasks; an answer is matched to its client by id.           *)
(*                                                                            *)
(* One event of the loop is two steps: the handler (Handle...), and what the  *)
(* loop does after it (Settle).  Kernel, clients and workers move in between. *)
EXTENDS Integers, FiniteSets, SequencesExt

CONSTANTS
  MaxApps,          \* bound: ids 0..MaxApps-1 are handed out
  MaxPending,       \* bound: connections waiting in one listen queue
  Backlog,          \* BACKLOG: connections accepted per event
  MaxSend,          \* LOCAL_MAX_SEND_COUNT: tasks sent per event
  MaxEvents,        \* maxapps: events returned by one epoll_wait
  ChanCap,          \* bound: frames a worker's socket buffer holds
  Timeout,          \* timeout of the HTTP listener in ticks, -1 for none
  AllocFails,       \* malloc, realloc, fcntl and epoll_ctl may fail
  OversizeAnswers,  \* workers may send a frame that recv_local cannot hold
  Closers           \* who may close a connection: "client", "worker"

ASSUME BoundsAssumption ==
  /\ MaxApps \in Nat /\ MaxApps >= 2
  /\ MaxPending \in Nat
  /\ Backlog \in Nat \ {0}
  /\ MaxSend \in Nat \ {0}
  /\ MaxEvents \in Nat \ {0}
  /\ ChanCap \in Nat \ {0}
  /\ Timeout \in Nat \cup {-1}
ASSUME SwitchAssumption ==
  /\ AllocFails \in BOOLEAN
  /\ OversizeAnswers \in BOOLEAN
  /\ Closers \subseteq {"client", "worker"}

Ids == 0 .. MaxApps-1
HttpListener == 0
LocalListener == 1
Listeners == {HttpListener, LocalListener}
NoApp == -1

Handlers == {"none", "accept_http", "accept_local", "recv_http", "send_http",
             "recv_local", "send_local"}
Statuses == {"none", "read", "write", "wait", "close"}
EventBits == {"IN", "OUT", "RDHUP", "HUP"}
Buffers == {"none", "request", "answer", "empty", "null"}

VARIABLES
  nextId,      \* server->id
  idTree,      \* id_rbtree
  handler,     \* app_handler, "none" for an id that has no app_t
  status,      \* app_status
  interest,    \* the events epoll watches for the app
  ttl,         \* ticks until the key in timer_rbtree, -1 when not in the tree
  buf,         \* what app_buf of an HTTP app holds
  aliveComm,   \* alive_comm
  task,        \* the task queue
  worker,      \* the worker queue
  pc,          \* where the loop is
  ready,       \* the events of this epoll_wait still to be handled
  cur,         \* the app whose handler has just run
  backlog,     \* connections in each listen queue
  peer,        \* the other end of a socket: none, open, shut (FIN), gone
  rx,          \* the client sent bytes that recv has not taken
  toWorker,    \* tasks in the socket buffer to a worker
  held,        \* ids a worker has taken and may answer
  fromWorker,  \* answers in the socket buffer from a worker
  resp         \* what has been sent on a client's socket: none, whole, part

appVars == <<handler, status, interest, ttl, buf>>
treeVars == <<nextId, idTree, aliveComm>>
queueVars == <<task, worker>>
loopVars == <<pc, ready, cur>>
chanVars == <<toWorker, held, fromWorker>>
netVars == <<backlog, peer, rx, chanVars, resp>>
vars == <<treeVars, appVars, queueVars, loopVars, netVars>>

----------------------------------------------------------------------------
(* Sockets, queues and what epoll reports.                                  *)

\* The two halves of a worker connection share the socket of the first.
Sock(i) == IF handler[i] = "send_local" THEN i-1 ELSE i

WorkerSocket(s) ==
  \/ handler[s] = "recv_local"
  \/ s+1 \in Ids /\ handler[s+1] = "send_local"

PeerClosed(s) == peer[s] \in {"shut", "gone"}

Room(s) == ChanCap - Len(toWorker[s])

Readable(i) ==
  \/ i \in Listeners /\ backlog[i] > 0
  \/ rx[i]
  \/ fromWorker[i] # <<>>
  \/ PeerClosed(Sock(i))

Writable(i) ==
  handler[i] = "send_local" => peer[Sock(i)] = "gone" \/ Room(Sock(i)) > 0

Events(i) ==
  {e \in interest[i] \cup {"HUP"} :
     \/ e = "IN" /\ Readable(i)
     \/ e = "OUT" /\ Writable(i)
     \/ e = "RDHUP" /\ PeerClosed(Sock(i))
     \/ e = "HUP" /\ peer[Sock(i)] = "gone"}

Pollable == {i \in idTree : Events(i) # {}}

\* queue_remove: a node that is in no queue stays in none.
Unlink(q, i) ==
  IF \E k \in DOMAIN q : q[k] = i
    THEN LET k == CHOOSE k \in DOMAIN q : q[k] = i
         IN  [j \in 1 .. Len(q)-1 |-> IF j < k THEN q[j] ELSE q[j+1]]
    ELSE q

AtMost(m, n) == IF m < n THEN m ELSE n

Init ==
  /\ nextId = 2
  /\ idTree = Listeners
  /\ handler = [i \in Ids |-> CASE i = HttpListener -> "accept_http"
                                [] i = LocalListener -> "accept_local"
                                [] OTHER -> "none"]
  /\ status = [i \in Ids |-> IF i \in Listeners THEN "read" ELSE "none"]
  /\ interest = [i \in Ids |-> IF i \in Listeners THEN {"IN"} ELSE {}]
  /\ ttl = [i \in Ids |-> -1]
  /\ buf = [i \in Ids |-> "none"]
  /\ aliveComm = 0
  /\ task = <<>>
  /\ worker = <<>>
  /\ pc = "top"
  /\ ready = [i \in Ids |-> {}]
  /\ cur = NoApp
  /\ backlog = [l \in Listeners |-> 0]
  /\ peer = [i \in Ids |-> "none"]
  /\ rx = [i \in Ids |-> FALSE]
  /\ toWorker = [i \in Ids |-> <<>>]
  /\ held = [i \in Ids |-> {}]
  /\ fromWorker = [i \in Ids |-> <<>>]
  /\ resp = [i \in Ids |-> "none"]

----------------------------------------------------------------------------
(* Teardown of an app: epoll, timer tree, id tree, queue, fd and memory.    *)

\* The other half of a worker connection, if it is still there, keeps the socket.
SharesSocket(i) ==
  \/ handler[i] = "recv_local" /\ i+1 \in Ids /\ handler[i+1] = "send_local"
  \/ handler[i] = "send_local" /\ handler[i-1] = "recv_local"

CloseFd(i) ==
  IF SharesSocket(i)
    THEN UNCHANGED <<peer, rx, chanVars, resp>>
    ELSE LET s == Sock(i) IN
         /\ peer' = [peer EXCEPT ![s] = "none"]
         /\ rx' = [rx EXCEPT ![s] = FALSE]
         /\ resp' = [resp EXCEPT ![s] = "none"]
         /\ toWorker' = [toWorker EXCEPT ![s] = <<>>]
         /\ held' = [held EXCEPT ![s] = {}]
         /\ fromWorker' = [fromWorker EXCEPT ![s] = <<>>]

\* Mutant: the node stays in timer_rbtree.
FreeAppKeepsTimer(i) ==
  /\ handler' = [handler EXCEPT ![i] = "none"]
  /\ status' = [status EXCEPT ![i] = "none"]
  /\ interest' = [interest EXCEPT ![i] = {}]
  /\ buf' = [buf EXCEPT ![i] = "none"]
  /\ UNCHANGED ttl

FreeApp(i) ==
  /\ handler' = [handler EXCEPT ![i] = "none"]
  /\ status' = [status EXCEPT ![i] = "none"]
  /\ interest' = [interest EXCEPT ![i] = {}]
  /\ ttl' = [ttl EXCEPT ![i] = -1]
  /\ buf' = [buf EXCEPT ![i] = "none"]

\* Mutant: a worker that ends stays in the worker queue.
DequeueTaskOnly(i) == task' = Unlink(task, i) /\ UNCHANGED worker

Dequeue(i) == task' = Unlink(task, i) /\ worker' = Unlink(worker, i)

\* Mutant: alive_comm is not decremented.
UncountNot(i) == idTree' = idTree \ {i} /\ UNCHANGED aliveComm

Uncount(i) == idTree' = idTree \ {i} /\ aliveComm' = aliveComm - 1

Teardown(i) ==
  /\ FreeApp(i)
  /\ Dequeue(i)
  /\ Uncount(i)
  /\ CloseFd(i)
  /\ UNCHANGED <<nextId, backlog>>

----------------------------------------------------------------------------
(* The loop.                                                                *)

\* The head of the loop frees every app whose timer is due ...
ExpireTimer(i) ==
  /\ pc = "top"
  /\ ttl[i] = 0
  /\ Teardown(i)
  /\ UNCHANGED loopVars

\* ... and goes to wait when there is none.
EnterWait ==
  /\ pc = "top"
  /\ \A i \in Ids : ttl[i] # 0
  /\ pc' = "wait"
  /\ UNCHANGED <<treeVars, appVars, queueVars, ready, cur, netVars>>

\* epoll_wait returns every ready app, or as many as it may.
PollReady ==
  /\ pc = "wait"
  /\ Pollable # {}
  /\ \E batch \in SUBSET Pollable :
       /\ Cardinality(batch) = AtMost(Cardinality(Pollable), MaxEvents)
       /\ ready' = [i \in Ids |-> IF i \in batch THEN Events(i) ELSE {}]
  /\ pc' = "events"
  /\ UNCHANGED <<treeVars, appVars, queueVars, cur, netVars>>

\* Mutant: epoll_wait has no timeout.
PollForever == FALSE

\* Nothing happened before the first timer.
PollTimeout ==
  /\ pc = "wait"
  /\ Pollable = {}
  /\ \E i \in Ids : ttl[i] = 0
  /\ pc' = "events"
  /\ UNCHANGED <<treeVars, appVars, queueVars, ready, cur, netVars>>

\* The loop calls the handler of i for a read or write event.
Handle(i, h) ==
  /\ pc = "events"
  /\ ready[i] \cap {"IN", "OUT"} # {}
  /\ handler[i] = h
  /\ pc' = "settle"
  /\ cur' = i
  /\ UNCHANGED ready

\* No handler for an event that is only a hang-up.
SkipHandler(i) ==
  /\ pc = "events"
  /\ ready[i] # {}
  /\ ready[i] \cap {"IN", "OUT"} = {}
  /\ pc' = "settle"
  /\ cur' = i
  /\ UNCHANGED <<treeVars, appVars, queueVars, ready, netVars>>

\* After the handler: a hang-up or the status close ends the app.
Settle ==
  /\ pc = "settle"
  /\ IF ready[cur] \cap {"HUP", "RDHUP"} # {} \/ status[cur] = "close"
       THEN Teardown(cur)
       ELSE UNCHANGED <<treeVars, appVars, queueVars, netVars>>
  /\ ready' = [ready EXCEPT ![cur] = {}]
  /\ pc' = "events"
  /\ cur' = NoApp

\* Mutant: only the first worker is woken.
FirstIdleWorker == {w \in ToSet(worker) : w = worker[1] /\ task # <<>> /\ status[w] # "write"}

\* Mutant: the wake-up walks the task queue.
IdleTasks == {w \in ToSet(task) : status[w] # "write"}

\* Mutant: only workers that were never armed are woken.
NewWorkers == {w \in ToSet(worker) : task # <<>> /\ status[w] = "read"}

\* Workers to arm for writing when tasks wait after the last event.
IdleWorkers == {w \in ToSet(worker) : task # <<>> /\ status[w] # "write"}

Wake ==
  /\ pc = "events"
  /\ \A i \in Ids : ready[i] = {}
  /\ interest' = [i \in Ids |-> IF i \in IdleWorkers THEN {"OUT", "RDHUP"}
                                                     ELSE interest[i]]
  /\ status' = [i \in Ids |-> IF i \in IdleWorkers THEN "write" ELSE status[i]]
  /\ pc' = "top"
  /\ UNCHANGED <<treeVars, handler, ttl, buf, queueVars, ready, cur, netVars>>

----------------------------------------------------------------------------
(* The handlers.                                                            *)

NewIds(n) == nextId .. nextId+n-1

\* server->id++ and rbtree_insert for n apps.
Register(n) ==
  /\ NewIds(n) \subseteq Ids
  /\ nextId' = nextId + n
  /\ idTree' = idTree \cup NewIds(n)
  /\ aliveComm' = aliveComm + n

\* n connections become apps, d are dropped; a failure may end the loop early.
AcceptHttp(i) ==
  /\ Handle(i, "accept_http")
  /\ \E n, d \in 0 .. MaxPending :
       LET quota == AtMost(backlog[i], Backlog) IN
       /\ n+d <= quota
       /\ n+d < quota => d > 0
       /\ d > 0 => AllocFails
       /\ Register(n)
       /\ handler' = [j \in Ids |-> IF j \in NewIds(n) THEN "recv_http" ELSE handler[j]]
       /\ status' = [j \in Ids |-> IF j \in NewIds(n) THEN "read" ELSE status[j]]
       /\ interest' = [j \in Ids |-> IF j \in NewIds(n) THEN {"IN"} ELSE interest[j]]
       /\ ttl' = [j \in Ids |-> IF j \in NewIds(n) THEN Timeout ELSE ttl[j]]
       /\ buf' = [j \in Ids |-> IF j \in NewIds(n) THEN "request" ELSE buf[j]]
       /\ peer' = [j \in Ids |-> IF j \in NewIds(n) THEN "open" ELSE peer[j]]
       /\ backlog' = [backlog EXCEPT ![i] = @ - n - d]
  /\ UNCHANGED <<queueVars, rx, chanVars, resp>>

\* One connection becomes two apps, or only the first, or none when a call fails.
AcceptLocal(i) ==
  /\ Handle(i, "accept_local")
  /\ backlog[i] > 0
  /\ backlog' = [backlog EXCEPT ![i] = @ - 1]
  /\ \E n \in 0 .. 2 :
       LET New(first, second, old) ==
             [j \in Ids |-> CASE j \in NewIds(n) /\ j = nextId -> first
                              [] j \in NewIds(n) /\ j # nextId -> second
                              [] OTHER -> old[j]]
       IN  /\ n < 2 => AllocFails
           /\ Register(n)
           /\ handler' = New("recv_local", "send_local", handler)
           /\ status' = New("read", "write", status)
           /\ interest' = New({"IN"}, {"OUT", "RDHUP"}, interest)
           /\ peer' = New("open", "none", peer)
           /\ worker' = IF n = 2 THEN Append(worker, nextId+1) ELSE worker
  /\ UNCHANGED <<ttl, buf, task, rx, chanVars, resp>>

SetClose(i) ==
  /\ status' = [status EXCEPT ![i] = "close"]
  /\ UNCHANGED <<treeVars, handler, interest, ttl, buf, queueVars, netVars>>

\* recv took bytes that do not complete the request, perhaps not all there are.
RecvMore(i) ==
  /\ rx[i]
  /\ \E left \in BOOLEAN : rx' = [rx EXCEPT ![i] = left]
  /\ UNCHANGED <<treeVars, appVars, queueVars, backlog, peer, chanVars, resp>>

\* Mutant: queue_insert_head.
EnqueueFirst(i) == task' = <<i>> \o task

Enqueue(i) == task' = Append(task, i)

\* The request is complete: from now on only a hang-up or an answer wakes the app.
RecvDone(i) ==
  /\ rx[i]
  /\ rx' = [rx EXCEPT ![i] = FALSE]
  /\ interest' = [interest EXCEPT ![i] = {"RDHUP"}]
  /\ status' = [status EXCEPT ![i] = "wait"]
  /\ handler' = [handler EXCEPT ![i] = "send_http"]
  /\ Enqueue(i)
  /\ UNCHANGED <<treeVars, ttl, buf, worker, backlog, peer, chanVars, resp>>

\* RecvHttp also covers a malformed or too long request, EOF, an error, EAGAIN.
RecvHttp(i) ==
  /\ Handle(i, "recv_http")
  /\ \/ RecvMore(i)
     \/ RecvDone(i)
     \/ SetClose(i)
     \/ UNCHANGED <<treeVars, appVars, queueVars, netVars>>

\* send took the answer, or the part of it that fits: both end the exchange.
AnswerSent(i) ==
  /\ buf[i] = "answer"
  /\ peer[i] # "gone"
  /\ \E r \in {"whole", "part"} : resp' = [resp EXCEPT ![i] = r]
  /\ status' = [status EXCEPT ![i] = "close"]
  /\ UNCHANGED <<treeVars, handler, interest, ttl, buf, queueVars,
                 backlog, peer, rx, chanVars>>

\* EAGAIN or EINTR, or an answer of no bytes while errno still says so.
AnswerRetry(i) ==
  /\ buf[i] # "null"
  /\ peer[i] # "gone"
  /\ UNCHANGED <<treeVars, appVars, queueVars, netVars>>

\* An error, also a lost buffer, or an answer of no bytes while errno holds one.
AnswerFailed(i) ==
  /\ buf[i] # "answer" \/ peer[i] = "gone"
  /\ SetClose(i)

SendHttp(i) ==
  /\ Handle(i, "send_http")
  /\ AnswerSent(i) \/ AnswerRetry(i) \/ AnswerFailed(i)

\* The live apps that the first k answers are for.
Matched(i, k) == {fromWorker[i][j] : j \in 1 .. k} \cap idTree

\* k whole frames arrive; those whose id is known become their client's answer.
\* A frame larger than the old buffer replaces it, and that malloc may fail; an
\* empty one fits any buffer, so it never brings back one that was lost.
FramesReceived(i) ==
  \E k \in 0 .. Len(fromWorker[i]) :
  \E b \in [Matched(i, k) -> {"answer", "empty", "null"}] :
    /\ \A j \in Matched(i, k) : /\ b[j] = "null" => AllocFails
                               /\ buf[j] = "null" => b[j] # "empty"
    /\ buf' = [j \in Ids |-> IF j \in Matched(i, k) THEN b[j] ELSE buf[j]]
    /\ interest' = [j \in Ids |-> IF j \in Matched(i, k) THEN {"OUT", "RDHUP"}
                                                        ELSE interest[j]]
    /\ status' = [j \in Ids |-> IF j \in Matched(i, k) THEN "write" ELSE status[j]]
    /\ fromWorker' = [fromWorker EXCEPT ![i] = SubSeq(@, k+1, Len(@))]
    /\ UNCHANGED <<treeVars, handler, ttl, queueVars, backlog, peer, rx,
                   toWorker, held, resp>>

\* Mutant: EAGAIN ends the connection too.
ReceiveEndsOnAny(i) == SetClose(i)

\* End of file, an error, or a frame that fills the buffer: recv is then asked
\* for no bytes and its 0 is taken for the end of the connection.
ReceiveEnds(i) ==
  /\ \/ PeerClosed(i) /\ fromWorker[i] = <<>>
     \/ peer[i] = "gone"
     \/ OversizeAnswers
  /\ SetClose(i)

RecvLocal(i) ==
  /\ Handle(i, "recv_local")
  /\ FramesReceived(i) \/ ReceiveEnds(i)

\* Nothing to do: the worker stops waiting for writes.
WorkerIdle(i) ==
  /\ task = <<>>
  /\ interest' = [interest EXCEPT ![i] = {"RDHUP"}]
  /\ status' = [status EXCEPT ![i] = "wait"]
  /\ UNCHANGED <<treeVars, handler, ttl, buf, queueVars, netVars>>

SendQuota == AtMost(Len(task), MaxSend)

\* Mutant: the task that was sent last stays in the queue.
TakeTasksButOne(n) == task' = IF n = 0 THEN task ELSE SubSeq(task, n, Len(task))

\* Mutant: tasks leave the queue before send has taken them.
TakeTasksTried(n) == task' = SubSeq(task, SendQuota+1, Len(task))

TakeTasks(n) == task' = SubSeq(task, n+1, Len(task))

\* n tasks go out; after all of them the worker moves to the tail of its queue,
\* after a full buffer (or a failed realloc) it stays where it is.
TasksSent(i) ==
  \E n \in 0 .. SendQuota :
    /\ task # <<>>
    /\ peer[Sock(i)] # "gone"
    /\ n <= Room(Sock(i))
    /\ TakeTasks(n)
    /\ toWorker' = [toWorker EXCEPT ![Sock(i)] = @ \o SubSeq(task, 1, n)]
    /\ IF n = SendQuota
         THEN worker' = Append(Unlink(worker, i), i)
         ELSE /\ n = Room(Sock(i)) \/ AllocFails
              /\ UNCHANGED worker
    /\ UNCHANGED <<treeVars, appVars, backlog, peer, rx, held, fromWorker, resp>>

\* Mutant: a full socket buffer is taken for an error as well.
TasksLostWhenFull(i) ==
  \E n \in 0 .. SendQuota-1 :
    /\ peer[Sock(i)] = "gone" \/ n = Room(Sock(i))
    /\ TakeTasks(n)
    /\ status' = [status EXCEPT ![i] = "close"]
    /\ UNCHANGED <<treeVars, handler, interest, ttl, buf, worker, netVars>>

\* The worker went away, at the latest after n sends: those tasks are lost.
TasksLost(i) ==
  \E n \in 0 .. SendQuota-1 :
    /\ peer[Sock(i)] = "gone"
    /\ TakeTasks(n)
    /\ status' = [status EXCEPT ![i] = "close"]
    /\ UNCHANGED <<treeVars, handler, interest, ttl, buf, worker, netVars>>

SendLocal(i) ==
  /\ Handle(i, "send_local")
  /\ WorkerIdle(i) \/ TasksSent(i) \/ TasksLost(i)

----------------------------------------------------------------------------
(* The other ends of the sockets, and time.                                 *)

\* The bound on ids is kept here, where it costs no step of the server.
Connect(l) ==
  /\ backlog[l] < MaxPending
  /\ nextId + backlog[HttpListener] + 2*backlog[LocalListener]
       + (IF l = LocalListener THEN 2 ELSE 1) <= MaxApps
  /\ backlog' = [backlog EXCEPT ![l] = @ + 1]
  /\ UNCHANGED <<treeVars, appVars, queueVars, loopVars, peer, rx, chanVars, resp>>

\* Bytes sent after the request is complete are never read and are left out.
ClientSend(i) ==
  /\ handler[i] = "recv_http"
  /\ peer[i] = "open"
  /\ ~rx[i]
  /\ rx' = [rx EXCEPT ![i] = TRUE]
  /\ UNCHANGED <<treeVars, appVars, queueVars, loopVars, backlog, peer, chanVars, resp>>

\* A shutdown (FIN) or a full close; the latter loses what a worker was given.
PeerCloses(s) ==
  /\ (IF WorkerSocket(s) THEN "worker" ELSE "client") \in Closers
  /\ \/ /\ peer[s] = "open"
        /\ peer' = [peer EXCEPT ![s] = "shut"]
        /\ UNCHANGED <<toWorker, held>>
     \/ /\ peer[s] \in {"open", "shut"}
        /\ peer' = [peer EXCEPT ![s] = "gone"]
        /\ toWorker' = [toWorker EXCEPT ![s] = <<>>]
        /\ held' = [held EXCEPT ![s] = {}]
  /\ UNCHANGED <<treeVars, appVars, queueVars, loopVars, backlog, rx, fromWorker, resp>>

WorkerTake(s) ==
  /\ toWorker[s] # <<>>
  /\ held' = [held EXCEPT ![s] = @ \cup {Head(toWorker[s])}]
  /\ toWorker' = [toWorker EXCEPT ![s] = Tail(@)]
  /\ UNCHANGED <<treeVars, appVars, queueVars, loopVars, backlog, peer, rx,
                 fromWorker, resp>>

\* A worker answers in any order, any number of times, but only what it was given.
WorkerAnswer(s) ==
  /\ peer[s] = "open"
  /\ Len(fromWorker[s]) < ChanCap
  /\ \E i \in held[s] : fromWorker' = [fromWorker EXCEPT ![s] = Append(@, i)]
  /\ UNCHANGED <<treeVars, appVars, queueVars, loopVars, backlog, peer, rx,
                 toWorker, held, resp>>

Tick ==
  /\ \E i \in Ids : ttl[i] > 0
  /\ ttl' = [i \in Ids |-> IF ttl[i] > 0 THEN ttl[i] - 1 ELSE ttl[i]]
  /\ UNCHANGED <<treeVars, handler, status, interest, buf, queueVars, loopVars, netVars>>

----------------------------------------------------------------------------
Handler(i) ==
  \/ AcceptHttp(i) \/ RecvHttp(i) \/ SendHttp(i)
  \/ AcceptLocal(i) \/ RecvLocal(i) \/ SendLocal(i)
  \/ SkipHandler(i)

Loop ==
  \/ \E i \in Ids : ExpireTimer(i) \/ Handler(i)
  \/ EnterWait \/ PollReady \/ PollTimeout \/ Settle \/ Wake

Environment ==
  \/ \E l \in Listeners : Connect(l)
  \/ \E i \in Ids : ClientSend(i) \/ PeerCloses(i) \/ WorkerTake(i) \/ WorkerAnswer(i)

Next == Loop \/ Environment \/ Tick

Spec == Init /\ [][Next]_vars

\* The loop thread is scheduled, clocks advance, and workers read their sockets;
\* nobody is assumed to connect, send, answer or close.
FairSpec ==
  /\ Spec
  /\ WF_vars(Loop)
  /\ WF_vars(Tick)
  /\ \A s \in Ids : WF_vars(WorkerTake(s))

----------------------------------------------------------------------------
(* Properties.                                                              *)

TypeOK ==
  /\ nextId \in 2 .. MaxApps
  /\ idTree \subseteq Ids
  /\ handler \in [Ids -> Handlers]
  /\ status \in [Ids -> Statuses]
  /\ interest \in [Ids -> SUBSET EventBits]
  /\ ttl \in [Ids -> Nat \cup {-1}]
  /\ buf \in [Ids -> Buffers]
  /\ aliveComm \in Int
  /\ task \in Seq(Ids)
  /\ worker \in Seq(Ids)
  /\ pc \in {"top", "wait", "events", "settle"}
  /\ ready \in [Ids -> SUBSET EventBits]
  /\ cur \in Ids \cup {NoApp}
  /\ backlog \in [Listeners -> Nat]
  /\ peer \in [Ids -> {"none", "open", "shut", "gone"}]
  /\ rx \in [Ids -> BOOLEAN]
  /\ toWorker \in [Ids -> Seq(Ids)]
  /\ held \in [Ids -> SUBSET Ids]
  /\ fromWorker \in [Ids -> Seq(Ids)]
  /\ resp \in [Ids -> {"none", "whole", "part"}]

\* No freed app_t is reachable: not from the id tree, the timer tree, the two
\* queues, the batch epoll_wait returned, or the handler that has just run.
NoDanglingReference ==
  /\ \A i \in idTree : handler[i] # "none"
  /\ ToSet(task) \cup ToSet(worker) \subseteq idTree
  /\ \A i \in Ids : ttl[i] # -1 \/ ready[i] # {} => i \in idTree
  /\ pc = "settle" => cur \in idTree

\* alive_comm counts the connections, whichever way each of them ended.
AliveCommCounts == aliveComm = Cardinality(idTree \ Listeners)

\* The loop never sleeps on a queued task while a worker could take it: after the
\* wake-up every worker in the queue watches for room in its socket.
NoLostWakeup ==
  pc \in {"top", "wait"} /\ task # <<>> =>
    \A w \in ToSet(worker) : "OUT" \in interest[w]

\* A request is in one place: the queue, or one worker connection, once.
DispatchedOnce ==
  LET given(s) == ToSet(toWorker[s]) \cup held[s] IN
  /\ IsInjective(task)
  /\ \A s \in Ids :
       /\ given(s) \cap ToSet(task) = {}
       /\ IsInjective(toWorker[s]) /\ ToSet(toWorker[s]) \cap held[s] = {}
       /\ \A t \in Ids \ {s} : given(s) \cap given(t) = {}

\* While workers stay, a client that waits is in the queue or with a worker.
NoRequestLost ==
  "worker" \notin Closers =>
    \A i \in idTree : handler[i] = "send_http" /\ status[i] = "wait" =>
      \/ i \in ToSet(task)
      \/ \E s \in Ids : i \in ToSet(toWorker[s]) \cup held[s]

\* send_http_cb sends whatever app_buf holds: it must never run while that is
\* still the request, nor for a client whose request no worker was given.
SendsOnlyAnswers ==
  \A i \in Ids :
    pc = "events" /\ handler[i] = "send_http" /\ ready[i] \cap {"IN", "OUT"} # {} =>
      buf[i] # "request" /\ i \notin ToSet(task)

\* A worker that is sent tasks can still be heard: its receiving half is there
\* unless the worker has gone and the hang-up of the sending half is due.
DuplexWorkers ==
  \A w \in ToSet(worker) : handler[w-1] = "recv_local" \/ PeerClosed(w-1)

\* With a timer, every client is let go in the end: whether it never completes its
\* request, is never answered, or its answer cannot be sent (run under FairSpec).
ClientReleased ==
  \A i \in Ids \ Listeners :
    handler[i] \in {"recv_http", "send_http"} ~> i \notin idTree

\* No queued request waits forever while there are workers, whichever of them
\* come and go: the wake-up after an idle worker stopped watching for writes is
\* never missed (run under FairSpec).
RequestDispatched ==
  \A i \in Ids \ Listeners :
    i \in ToSet(task) /\ worker # <<>> ~> i \notin ToSet(task) \/ worker = <<>>

\* async_server.c:190: when the write buffer is full the app waits for the next
\* write event, so no client is let go with a part of its answer.
NeverTruncated == \A i \in Ids : status[i] = "close" => resp[i] # "part"

----------------------------------------------------------------------------
(* What the server does for its clients, without sockets, workers and epoll. *)

Stage(i) ==
  CASE i >= nextId -> "unborn"
    [] i < nextId /\ handler[i] = "none" -> "released"
    [] handler[i] = "send_http" /\ i \in ToSet(task) -> "queued"
    [] handler[i] = "send_http" /\ i \notin ToSet(task) /\ buf[i] = "request" -> "dispatched"
    [] handler[i] = "send_http" /\ buf[i] # "request" /\ resp[i] = "none" -> "answered"
    [] handler[i] = "send_http" /\ resp[i] # "none" -> "responded"
    [] OTHER -> "connected"

D == INSTANCE Dispatcher WITH
       Clients <- Ids,
       stage <- [i \in Ids |-> Stage(i)],
       queue <- task

\* Every step of the server is a step of the dispatcher, or changes nothing there.
RefinesDispatcher == D!Spec
============================================================================
