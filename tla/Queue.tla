------------------------------- MODULE Queue -------------------------------
(* The intrusive lists of src/include/queue.h, pointer by pointer: a head and *)
(* its nodes form a ring, a node that is in no list points at itself.  The    *)
(* server keeps its tasks and its workers in two of them and relies on three  *)
(* things: a list keeps its order, queue_remove finds no list to search in,   *)
(* and it may be applied to a node that is in no list.                        *)
(*                                                                            *)
(* list is what the lists are meant to hold.  Only the guards read it, to     *)
(* state what a caller of queue.h has to know; the pointers never depend on it.*)
EXTENDS Naturals, SequencesExt

CONSTANTS Heads, Nodes

ASSUME CellAssumption == Heads \cap Nodes = {}

Cells == Heads \cup Nodes

VARIABLES
  prev, next,   \* the two pointers of every queue_t
  live,         \* the heads in use: initialised and not moved into another list
  list          \* the nodes of each live head, in order

vars == <<prev, next, live, list>>

Init ==
  /\ prev = [c \in Cells |-> c]
  /\ next = [c \in Cells |-> c]
  /\ live \in SUBSET Heads
  /\ list = [h \in Heads |-> <<>>]

\* q without x.
Unlink(q, x) ==
  IF \E k \in DOMAIN q : q[k] = x
    THEN LET k == CHOOSE k \in DOMAIN q : q[k] = x
         IN  [j \in 1 .. Len(q)-1 |-> IF j < k THEN q[j] ELSE q[j+1]]
    ELSE q

InAnyList(x) == \E h \in live : x \in ToSet(list[h])

\* queue_init of a head.
InitHead(h) ==
  /\ h \notin live
  /\ prev' = [prev EXCEPT ![h] = h]
  /\ next' = [next EXCEPT ![h] = h]
  /\ live' = live \cup {h}
  /\ list' = [list EXCEPT ![h] = <<>>]

InsertHead(h, x) ==
  /\ h \in live /\ ~ InAnyList(x)
  /\ LET first == next[h] IN
     /\ prev' = [prev EXCEPT ![first] = x, ![x] = h]
     /\ next' = [next EXCEPT ![x] = first, ![h] = x]
  /\ list' = [list EXCEPT ![h] = <<x>> \o @]
  /\ UNCHANGED live

InsertTail(h, x) ==
  /\ h \in live /\ ~ InAnyList(x)
  /\ LET last == prev[h] IN
     /\ prev' = [prev EXCEPT ![x] = last, ![h] = x]
     /\ next' = [next EXCEPT ![last] = x, ![x] = h]
  /\ list' = [list EXCEPT ![h] = Append(@, x)]
  /\ UNCHANGED live

\* Mutants: the node behind is not linked back, and (as in nginx) the node that is
\* removed keeps its pointers.
RemoveForward(x) ==
  /\ prev' = [prev EXCEPT ![x] = x]
  /\ next' = [next EXCEPT ![prev[x]] = next[x], ![x] = x]
  /\ list' = [h \in Heads |-> Unlink(list[h], x)]
  /\ UNCHANGED live

RemoveKeepsPointers(x) ==
  /\ prev' = [prev EXCEPT ![next[x]] = prev[x]]
  /\ next' = [next EXCEPT ![prev[x]] = next[x]]
  /\ list' = [h \in Heads |-> Unlink(list[h], x)]
  /\ UNCHANGED live

\* queue_remove, of a node of any list or of none.
RemoveNode(x) ==
  /\ LET p == prev[x]
         n == next[x]
     IN  /\ prev' = [prev EXCEPT ![n] = p, ![x] = x]
         /\ next' = [next EXCEPT ![p] = n, ![x] = x]
  /\ list' = [h \in Heads |-> Unlink(list[h], x)]
  /\ UNCHANGED live

\* queue_split: from q on, the list of h becomes the list of n.
Split(h, q, n) ==
  /\ h \in live /\ n \in Heads \ live
  /\ \E k \in DOMAIN list[h] :
       /\ list[h][k] = q
       /\ list' = [list EXCEPT ![h] = SubSeq(@, 1, k-1),
                               ![n] = SubSeq(list[h], k, Len(list[h]))]
  /\ LET last == prev[h]
         before == prev[q]
     IN  /\ prev' = [prev EXCEPT ![n] = last, ![h] = before, ![q] = n]
         /\ next' = [next EXCEPT ![last] = n, ![n] = q, ![before] = h]
  /\ live' = live \cup {n}

\* queue_add: the list of n goes behind that of h; n is left as it was.
Add(h, n) ==
  /\ h \in live /\ n \in live /\ h # n
  /\ LET next1 == [next EXCEPT ![prev[h]] = next[n]]
         prev1 == [prev EXCEPT ![next1[n]] = prev[h]]
         prev2 == [prev1 EXCEPT ![h] = prev1[n]]
     IN  /\ prev' = prev2
         /\ next' = [next1 EXCEPT ![prev2[h]] = h]
  /\ list' = [list EXCEPT ![h] = @ \o list[n], ![n] = <<>>]
  /\ live' = live \ {n}

Next ==
  \/ \E h \in Heads : InitHead(h)
  \/ \E h \in Heads, x \in Nodes : InsertHead(h, x) \/ InsertTail(h, x)
  \/ \E x \in Nodes : RemoveNode(x)
  \/ \E h, n \in Heads : Add(h, n) \/ \E q \in Nodes : Split(h, q, n)

Spec == Init /\ [][Next]_vars
----------------------------------------------------------------------------
(* Properties.                                                              *)

TypeOK ==
  /\ prev \in [Cells -> Cells]
  /\ next \in [Cells -> Cells]
  /\ live \in SUBSET Heads
  /\ list \in [Heads -> Seq(Nodes)]

\* The ring of a head, starting at the head.
Ring(h) == <<h>> \o list[h]

\* Both ways around, the pointers of a live head spell out its list.
RingsLinked ==
  \A h \in live :
    LET ring == Ring(h) IN
    \A k \in DOMAIN ring :
      LET after == IF k = Len(ring) THEN h ELSE ring[k+1] IN
      next[ring[k]] = after /\ prev[after] = ring[k]

\* A node is in one list at most, once, and a node that is in none may be removed
\* again: rbtree and queue teardown in the event loop does so to every app.
OthersAlone ==
  \A x \in Nodes : ~ InAnyList(x) => prev[x] = x /\ next[x] = x
=============================================================================
