-------------------------- MODULE AsyncServerInv ---------------------------
(* The inductive invariant of AsyncServer.  TLC checks it on the instances of *)
(* MCAsyncServer; AsyncServerProofs proves it and derives the safety          *)
(* properties of AsyncServer from it.                                         *)
EXTENDS AsyncServer

Receivers == {"accept_http", "accept_local", "recv_http", "recv_local"}
Senders == {"send_http", "send_local"}

\* An app exists exactly while its id is in the tree, and ids are never reused.
Registered ==
  /\ \A i \in Ids : i \in idTree <=> handler[i] # "none"
  /\ \A i \in idTree : i < nextId
  /\ \A i \in Ids : handler[i] = "none" => ttl[i] = -1

\* Status and interest of each kind of app.
Shape ==
  \A i \in Ids :
    /\ status[i] = "close" => pc = "settle" /\ cur = i
    /\ handler[i] \in Receivers => interest[i] = {"IN"}
    /\ handler[i] \in Senders => "IN" \notin interest[i]
    /\ handler[i] = "send_http" /\ "OUT" \in interest[i] => buf[i] # "request"
    /\ handler[i] = "send_local" /\ status[i] = "write" => "OUT" \in interest[i]
    /\ handler[i] = "recv_http" => buf[i] = "request"

\* The task queue holds waiting clients, the worker queue sending halves.
QueueShape ==
  /\ IsInjective(task)
  /\ IsInjective(worker)
  /\ \A k \in DOMAIN task : /\ handler[task[k]] = "send_http"
                            /\ "OUT" \notin interest[task[k]]
  /\ \A k \in DOMAIN worker : handler[worker[k]] = "send_local"

\* The batch of events matches the handlers it will be given to.
BatchShape ==
  /\ pc \in {"top", "wait"} => \A i \in Ids : ready[i] = {}
  /\ pc = "settle" => cur \in idTree
  /\ \A i \in Ids :
       /\ ready[i] # {} => i \in idTree
       /\ pc = "settle" /\ cur = i => ready[i] # {}
       /\ "IN" \in ready[i] => handler[i] \in Receivers \/ (pc = "settle" /\ cur = i)
       /\ "OUT" \in ready[i] =>
            /\ handler[i] \in Senders
            /\ handler[i] = "send_http" => "OUT" \in interest[i]

\* Only requests that left the task queue are with a worker or answered by one.
Given(i) ==
  /\ i < nextId
  /\ handler[i] \in {"none", "send_http"}
  /\ \A k \in DOMAIN task : task[k] # i

ChannelShape ==
  \A s \in Ids :
    /\ \A k \in DOMAIN toWorker[s] : Given(toWorker[s][k])
    /\ \A i \in held[s] : Given(i)
    /\ \A k \in DOMAIN fromWorker[s] : Given(fromWorker[s][k])

\* While a task waits and the loop is between events, every worker is armed.
Armed ==
  pc \in {"top", "wait"} /\ task # <<>> =>
    \A k \in DOMAIN worker : "OUT" \in interest[worker[k]]

IInv ==
  /\ TypeOK
  /\ Registered
  /\ Shape
  /\ QueueShape
  /\ BatchShape
  /\ ChannelShape
  /\ Armed

----------------------------------------------------------------------------
(* What is inductive next to IInv: how connections begin and end.           *)

\* The listeners are never torn down: no hang-up, error or timer reaches them.
ListenerKept(l) ==
  /\ handler[l] \in {"accept_http", "accept_local"}
  /\ status[l] = "read"
  /\ peer[l] = "none"
  /\ ready[l] \subseteq {"IN"}

ListenersKept == \A l \in Listeners : ListenerKept(l)

\* Only clients have timers, and below a sending half is its receiving half, or
\* nothing any more.
Half(i) ==
  /\ ttl[i] # -1 => handler[i] \in {"recv_http", "send_http"}
  /\ handler[i] = "send_local" => i-1 \in Ids /\ handler[i-1] \in {"recv_local", "none"}

Halves == \A i \in Ids : Half(i)

\* A worker that does not go away keeps its sending half, which alone fills its
\* channel.
Stays(i) ==
  /\ handler[i] = "send_local" =>
       /\ peer[i-1] = "open"
       /\ status[i] # "close"
       /\ ready[i] \cap {"HUP", "RDHUP"} = {}
  /\ toWorker[i] # <<>> \/ held[i] # {} => i+1 \in Ids /\ handler[i+1] = "send_local"

StayingWorkers == "worker" \notin Closers => \A i \in Ids : Stays(i)

\* A receiving half only ends after its worker has closed the connection.
Heard(i) ==
  /\ /\ handler[i] = "recv_local"
     /\ status[i] = "close" \/ ready[i] \cap {"HUP", "RDHUP"} # {}
     => PeerClosed(i)
  /\ handler[i] = "send_local" => handler[i-1] = "recv_local" \/ PeerClosed(i-1)

HeardWorkers == ~OversizeAnswers => \A i \in Ids : Heard(i)

\* A queued request is unanswered, and a client is torn down once it is answered.
Responses ==
  /\ \A k \in DOMAIN task : buf[task[k]] = "request"
  /\ \A i \in Ids :
       resp[i] # "none" => handler[i] = "send_http" /\ buf[i] = "answer" /\ status[i] = "close"

ConnInv ==
  /\ ListenersKept
  /\ Halves
  /\ StayingWorkers
  /\ HeardWorkers
  /\ Responses
============================================================================
