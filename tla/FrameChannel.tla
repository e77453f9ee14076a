---------------------------- MODULE FrameChannel ----------------------------
(* What the local protocol promises to the two ends of a worker connection:   *)
(* frames travel whole and in order, and the worker of src/src/echo.c answers *)
(* each request once, under its own id.  Bytes, buffers and the pieces recv    *)
(* returns do not appear; AsyncServer relies on this view of a connection.    *)
EXTENDS Naturals, Sequences

CONSTANTS
  Requests,     \* sequence of the payload sizes of the requests; the index is the id
  AnswerSizes   \* payload sizes of the answers

VARIABLES
  sent,         \* how many requests have been written
  toWorker,     \* frames under way to the worker, oldest first
  toServer,     \* frames under way to the server
  taken         \* frames the server has taken

vars == <<sent, toWorker, toServer, taken>>

Init ==
  /\ sent = 0
  /\ toWorker = <<>>
  /\ toServer = <<>>
  /\ taken = <<>>

Request ==
  /\ sent < Len(Requests)
  /\ sent' = sent + 1
  /\ toWorker' = Append(toWorker, [id |-> sent', size |-> Requests[sent']])
  /\ UNCHANGED <<toServer, taken>>

\* The worker takes a request and answers it.
Serve ==
  /\ toWorker # <<>>
  /\ toWorker' = Tail(toWorker)
  /\ \E size \in AnswerSizes :
       toServer' = Append(toServer, [id |-> Head(toWorker).id, size |-> size])
  /\ UNCHANGED <<sent, taken>>

Collect ==
  /\ toServer # <<>>
  /\ toServer' = Tail(toServer)
  /\ taken' = Append(taken, Head(toServer))
  /\ UNCHANGED <<sent, toWorker>>

Next == Request \/ Serve \/ Collect

Spec == Init /\ [][Next]_vars
=============================================================================
