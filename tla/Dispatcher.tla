----------------------------- MODULE Dispatcher -----------------------------
(* What the server promises its clients: each connection has an id of its own, *)
(* its request is queued once, handed out in the order requests were completed, *)
(* answered only after that, and the client is sent one response at most.       *)
EXTENDS Naturals, SequencesExt

CONSTANT Clients   \* ids, in the order they are given out

VARIABLES
  stage,   \* unborn, connected, queued, dispatched, answered, responded, released
  queue    \* clients whose request waits for a worker

vars == <<stage, queue>>

Init ==
  /\ stage \in [Clients -> {"unborn", "connected"}]
  /\ queue = <<>>

Moved(S, to) == [c \in Clients |-> IF c \in S THEN to ELSE stage[c]]

\* Ids are never used again: only an unborn client arrives.
Arrive(S) ==
  /\ \A c \in S : stage[c] = "unborn"
  /\ stage' = Moved(S, "connected")
  /\ UNCHANGED queue

Submit(c) ==
  /\ stage[c] = "connected"
  /\ stage' = Moved({c}, "queued")
  /\ queue' = Append(queue, c)

\* A worker takes the n oldest requests.
Dispatch(n) ==
  /\ stage' = Moved({queue[k] : k \in 1 .. n}, "dispatched")
  /\ queue' = SubSeq(queue, n+1, Len(queue))

\* Answers to clients that are with a worker; a second answer replaces the first.
Answer(S) ==
  /\ \A c \in S : stage[c] \in {"dispatched", "answered"}
  /\ stage' = Moved(S, "answered")
  /\ UNCHANGED queue

Respond(c) ==
  /\ stage[c] = "answered"
  /\ stage' = Moved({c}, "responded")
  /\ UNCHANGED queue

\* The client ends, served or not, at any time: it leaves the queue as well.
Release(c) ==
  /\ stage[c] \notin {"unborn", "released"}
  /\ stage' = Moved({c}, "released")
  /\ queue' = IF \E k \in DOMAIN queue : queue[k] = c THEN RemoveFirst(queue, c) ELSE queue

Next ==
  \/ \E S \in SUBSET Clients : Arrive(S) \/ Answer(S)
  \/ \E n \in 1 .. Len(queue) : Dispatch(n)
  \/ \E c \in Clients : Submit(c) \/ Respond(c) \/ Release(c)

Spec == Init /\ [][Next]_vars
=============================================================================
