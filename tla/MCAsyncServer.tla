--------------------------- MODULE MCAsyncServer ---------------------------
(* Instances of AsyncServer for TLC. *)
EXTENDS AsyncServerInv

NoTimeout == -1

Clients == {i \in idTree : handler[i] \in {"recv_http", "send_http"}}

\* At most two clients at a time, connected or waiting to be accepted.
TwoClients == Cardinality(Clients) + backlog[HttpListener] <= 2

\* One client at a time leaves room for two workers, and hang-ups of one peer.
OneClient ==
  /\ Cardinality(Clients) + backlog[HttpListener] <= 1
  /\ Cardinality({s \in Ids : PeerClosed(s)}) <= 1
============================================================================
