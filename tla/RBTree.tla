------------------------------- MODULE RBTree -------------------------------
(* src/src/rbtree.c, pointer by pointer: the tree of ids and the tree of timer *)
(* keys.  Nodes are embedded in the app_t they belong to, so deletion relinks  *)
(* nodes and never copies keys, and a node that is in no tree has null         *)
(* pointers.  The operators below map a tree to a tree the way the functions   *)
(* of the file do, with the sentinel's parent as scratch space.  What the file *)
(* says twice, once for each side, is said once, of a side.                    *)
EXTENDS Naturals, FiniteSets, SequencesExt

CONSTANTS
  Nodes,    \* the nodes there are
  KeysOf,   \* the keys each may get: distinct for ids, shared for deadlines
  Nil,      \* the sentinel
  Null      \* the null pointer

ASSUME NodeAssumption == IsFiniteSet(Nodes)
ASSUME KeyAssumption == KeysOf \in [Nodes -> SUBSET Nat]
ASSUME PointerAssumption == Nil # Null /\ {Nil, Null} \cap Nodes = {}

Keys == UNION {KeysOf[x] : x \in Nodes}
Cells == Nodes \cup {Nil}
Pointers == Cells \cup {Null}

VARIABLES
  tree,    \* root, left, right, parent, color and key of every cell
  members  \* the nodes inserted and not deleted since

vars == <<tree, members>>

Trees == [root : Cells, left : [Cells -> Pointers], right : [Cells -> Pointers],
          parent : [Cells -> Pointers], color : [Cells -> {"red", "black"}],
          key : [Cells -> Nat]]

Child(t, side, x) == t[side][x]
Parent(t, x) == t.parent[x]

\* A tree and the node a loop has come to.
Cursors == [tree : Trees, node : Pointers]
At(t, x) == [tree |-> t, node |-> x]

\* A loop, round by round, from x on.  A round changes nothing once the loop has
\* ended; no loop of the file takes more rounds than there are cells.
Repeat(round, x) ==
  LET run[k \in 0 .. Cardinality(Cells)] == IF k = 0 THEN x ELSE round[run[k-1]]
  IN  run[Cardinality(Cells)]

----------------------------------------------------------------------------
(* Rotations.                                                               *)

Other(side) == IF side = "left" THEN "right" ELSE "left"
Red(t, x) == t.color[x] = "red"
Paint(t, x, c) == [t EXCEPT !.color[x] = c]
SetRoot(t, x) == [t EXCEPT !.root = x]
SetChild(t, side, x, y) == [t EXCEPT ![side][x] = y]
SetParent(t, x, p) == [t EXCEPT !.parent[x] = p]

\* The side of p on which x hangs.
SideOf(t, p, x) == IF x = t.left[p] THEN "left" ELSE "right"

\* Puts y where x hangs: below x's parent or at the root.
Replace(t, x, y) ==
  IF x = t.root THEN SetRoot(t, y)
                ELSE SetChild(t, SideOf(t, Parent(t, x), x), Parent(t, x), y)

Reparent(t, x, p) == IF x = Nil THEN t ELSE SetParent(t, x, p)

\* y, which is below x, comes up to where x hangs, and x goes below it.  Their own
\* subtree b stays between them.
Lift(t, side, x, y, b) ==
  LET t1 == Reparent(SetChild(t, Other(side), x, b), b, x)
      t2 == Replace(SetParent(t1, y, Parent(t1, x)), x, y)
  IN  SetChild(SetParent(t2, x, y), side, y, x)

\* x goes down to a side.
Rotate(t, side, x) ==
  LET y == Child(t, Other(side), x)
  IN  IF x = Nil \/ y = Nil THEN t ELSE Lift(t, side, x, y, Child(t, side, y))

----------------------------------------------------------------------------
(* rbtree_insert.                                                           *)

\* The child of x below which a key is or goes; equal keys go to the right.
Below(t, key, x) == IF key < t.key[x] THEN t.left[x] ELSE t.right[x]

\* The node below which a key goes.
Descend(t, key) ==
  LET round == [s \in [at : Pointers, above : Pointers] |->
                  IF s.at = Nil THEN s ELSE [at |-> Below(t, key, s.at), above |-> s.at]]
  IN  Repeat(round, [at |-> t.root, above |-> Nil]).above

\* The parent of node comes up to where the grandparent is.
InsertTurn(t, side, node) ==
  LET p == Parent(t, node)
      g == Parent(t, p)
  IN  At(Rotate(Paint(Paint(t, p, "black"), g, "red"), side, g), node)

\* Red nodes above one another: both the parent and the uncle are painted and the
\* trouble climbs, or it ends with one or two rotations.
InsertRound(t, node) ==
  LET p == Parent(t, node)
      g == Parent(t, p)
      side == SideOf(t, g, p)
      uncle == Child(t, Other(side), g)
  IN  IF ~ Red(t, p) THEN At(t, node)
      ELSE IF Red(t, uncle)
        THEN At(Paint(Paint(Paint(t, p, "black"), uncle, "black"), g, "red"), g)
      ELSE IF node = Child(t, Other(side), p)
        THEN InsertTurn(Rotate(t, side, p), Other(side), p)
      ELSE InsertTurn(t, Other(side), node)

InsertFixup(t, node) ==
  LET end == Repeat([c \in Cursors |-> InsertRound(c.tree, c.node)], At(t, node)).tree
  IN  Paint(end, end.root, "black")

\* A red leaf below above.
Hang(t, node, key, above) ==
  LET leaf == [t EXCEPT !.key[node] = key, !.parent[node] = above, !.left[node] = Nil,
                        !.right[node] = Nil, !.color[node] = "red"]
  IN  IF t.root = Nil THEN SetRoot(leaf, node)
      ELSE SetChild(leaf, IF key < t.key[above] THEN "left" ELSE "right", above, node)

\* Mutant: the node is inserted before it is given its key.
InsertNodeUnkeyed(t, node, key) ==
  InsertFixup(Hang(t, node, t.key[node], Descend(t, t.key[node])), node)

InsertNode(t, node, key) == InsertFixup(Hang(t, node, key, Descend(t, key)), node)

----------------------------------------------------------------------------
(* rbtree_min, rbtree_next, rbtree_search.                                  *)

Leftmost(t, x) ==
  Repeat([c \in Pointers |-> IF t.left[c] = Nil THEN c ELSE t.left[c]], x)

\* A node that is in no tree has a null pointer.
InTree(t, x) == Null \notin {t.left[x], t.right[x], t.parent[x]}

MinOf(t, x) == IF x = Nil \/ ~ InTree(t, x) THEN Null ELSE Leftmost(t, x)

\* The first ancestor that x is to the left of.
Climb(t, x) ==
  LET top == Repeat([c \in Pointers |-> IF c = t.root \/ c = t.left[t.parent[c]]
                                        THEN c ELSE t.parent[c]], x)
  IN  IF top = t.root THEN Null ELSE t.parent[top]

NextOf(t, x) ==
  IF ~ InTree(t, x) THEN Null
  ELSE IF t.right[x] # Nil THEN MinOf(t, t.right[x]) ELSE Climb(t, x)

Search(t, key) ==
  LET found == Repeat([c \in Pointers |-> IF c = Nil \/ key = t.key[c] THEN c
                                          ELSE Below(t, key, c)], t.root)
  IN  IF found = Nil THEN Null ELSE found

----------------------------------------------------------------------------
(* rbtree_delete.                                                           *)

\* The sibling comes up with the colour of the parent, which goes down black.
Settle(t, side, temp) ==
  LET p == Parent(t, temp)
      w == Child(t, Other(side), p)
      far == Child(t, Other(side), w)
      u == Rotate(Paint(Paint(Paint(t, w, t.color[p]), p, "black"), far, "black"), side, p)
  IN  At(u, u.root)

\* The near child of the sibling comes up.
BringUp(t, side, w) ==
  Rotate(Paint(Paint(t, w, "red"), Child(t, side, w), "black"), Other(side), w)

\* Mutant: the sibling's near child is not looked at.
MendFar(t, side, temp) ==
  LET p == Parent(t, temp)
      w == Child(t, Other(side), p)
  IN  IF \A child \in {t.left[w], t.right[w]} : ~ Red(t, child)
        THEN At(Paint(t, w, "red"), p)
      ELSE Settle(t, side, temp)

\* The sibling w is black.  With black children it is painted and the trouble climbs.
Mend(t, side, temp) ==
  LET p == Parent(t, temp)
      w == Child(t, Other(side), p)
  IN  IF \A child \in {t.left[w], t.right[w]} : ~ Red(t, child)
        THEN At(Paint(t, w, "red"), p)
      ELSE Settle(IF Red(t, Child(t, side, w)) THEN BringUp(t, side, w) ELSE t, side, temp)

\* A black node is missing above temp.  A red sibling is brought up first.
DeleteRound(t, temp) ==
  LET p == Parent(t, temp)
      side == SideOf(t, p, temp)
      w == Child(t, Other(side), p)
  IN  IF temp = t.root \/ Red(t, temp) THEN At(t, temp)
      ELSE Mend(IF Red(t, w) THEN Rotate(Paint(Paint(t, w, "black"), p, "red"), side, p)
                             ELSE t, side, temp)

DeleteFixup(t, temp) ==
  LET end == Repeat([c \in Cursors |-> DeleteRound(c.tree, c.node)], At(t, temp))
  IN  Paint(end.tree, end.node, "black")

\* Mutant: the node keeps its pointers.
DetachNot(t, node) == t

\* The pointers of a node that leaves the tree are cleared, the sentinel's reset.
Detach(t, node) ==
  [t EXCEPT !.left[node] = Null, !.right[node] = Null, !.parent[node] = Null]

ResetSentinel(t) == SetParent(t, Nil, Nil)

\* Mutant: only the right child is handed over.
TakePlaceRight(t, node, subst) ==
  LET t1 == [t EXCEPT !.right[subst] = t.right[node], !.parent[subst] = t.parent[node],
                      !.color[subst] = t.color[node]]
      t2 == Replace(t1, node, subst)
  IN  Reparent(t2, t2.right[subst], subst)

\* subst takes the place of node, with its children, its parent and its colour.
TakePlace(t, node, subst) ==
  LET t1 == [t EXCEPT !.left[subst] = t.left[node], !.right[subst] = t.right[node],
                      !.parent[subst] = t.parent[node], !.color[subst] = t.color[node]]
      t2 == Replace(t1, node, subst)
  IN  Reparent(Reparent(t2, t2.left[subst], subst), t2.right[subst], subst)

\* temp, the only child of subst, takes its place.  Where node is to be above temp,
\* subst will be.
Bypass(t, node, subst, temp) ==
  LET above == t.parent[subst]
      t1 == SetChild(t, SideOf(t, above, subst), above, temp)
  IN  SetParent(t1, temp, IF above = node THEN subst ELSE above)

DeleteNode(t, node) ==
  LET subst == IF Nil \in {t.left[node], t.right[node]} THEN node
               ELSE Leftmost(t, t.right[node])
      temp == IF t.left[subst] = Nil THEN t.right[subst] ELSE t.left[subst]
      t1 == Bypass(t, node, subst, temp)
      t2 == IF subst = node THEN t1 ELSE TakePlace(t1, node, subst)
      t3 == Detach(t2, node)
  IN  IF ~ InTree(t, node) THEN t
      ELSE IF subst = t.root
        THEN ResetSentinel(Detach(SetParent(Paint(SetRoot(t, temp), temp, "black"),
                                            temp, Nil), node))
      ELSE ResetSentinel(IF Red(t, subst) THEN t3 ELSE DeleteFixup(t3, temp))

----------------------------------------------------------------------------
(* The walk of server_start_loop over the timers.                            *)

\* Mutant: the next node is looked up after the deletion.
DueRoundLate(t, node, now) ==
  IF node = Null \/ t.key[node] > now THEN At(t, node)
  ELSE LET left == DeleteNode(t, node) IN At(left, NextOf(left, node))

\* The next node is looked up before the one that is due is deleted.
DueRound(t, node, now) ==
  IF node = Null \/ t.key[node] > now THEN At(t, node)
  ELSE At(DeleteNode(t, node), NextOf(t, node))

\* From the least key on, every node that is due is deleted.
DeleteDue(t, now) ==
  Repeat([c \in Cursors |-> DueRound(c.tree, c.node, now)], At(t, MinOf(t, t.root))).tree

----------------------------------------------------------------------------
EmptyTree ==
  [root |-> Nil,
   left |-> [c \in Cells |-> IF c = Nil THEN Nil ELSE Null],
   right |-> [c \in Cells |-> IF c = Nil THEN Nil ELSE Null],
   parent |-> [c \in Cells |-> IF c = Nil THEN Nil ELSE Null],
   color |-> [c \in Cells |-> "black"],
   key |-> [c \in Cells |-> 0]]

Init ==
  /\ tree = EmptyTree
  /\ members = {}

Insert(x, key) ==
  /\ x \notin members
  /\ tree' = InsertNode(tree, x, key)
  /\ members' = members \cup {x}

\* Teardown deletes every app from both trees: one it is not in ignores it.
Delete(x) ==
  /\ tree' = DeleteNode(tree, x)
  /\ members' = members \ {x}

Expire(now) ==
  /\ tree' = DeleteDue(tree, now)
  /\ members' = {x \in members : tree.key[x] > now}

Next ==
  \/ \E x \in Nodes : \E key \in KeysOf[x] : Insert(x, key)
  \/ \E x \in Nodes : Delete(x)
  \/ \E now \in Keys : Expire(now)

Spec == Init /\ [][Next]_vars

----------------------------------------------------------------------------
(* Properties.                                                              *)

\* A tree has all its fields, and a member the key it was inserted with
\* (rbtree_insert, which never copies a key).
TypeOK ==
  /\ tree \in Trees
  /\ members \subseteq Nodes
  /\ \A x \in members : tree.key[x] \in KeysOf[x]

\* The nodes from the least on, by rbtree_next.
Walk ==
  LET round == [w \in [seen : Seq(Pointers), node : Pointers] |->
                  IF w.node = Null THEN w
                  ELSE [seen |-> Append(w.seen, w.node), node |-> NextOf(tree, w.node)]]
  IN  Repeat(round, [seen |-> <<>>, node |-> MinOf(tree, tree.root)]).seen

\* rbtree_min and rbtree_next visit the members and nothing else, once each and in
\* the order of their keys: the scan for due timers and server_destroy miss no app.
WalkVisitsAll ==
  /\ ToSet(Walk) = members /\ Len(Walk) = Cardinality(members)
  /\ \A k \in 1 .. Len(Walk)-1 : tree.key[Walk[k]] <= tree.key[Walk[k+1]]

\* rbtree_search finds the app of an id, and none for an id that was deleted: an
\* answer is never matched to a client that has gone.
SearchExact ==
  \A key \in Keys :
    LET x == Search(tree, key) IN
    IF \E m \in members : tree.key[m] = key
      THEN x \in members /\ tree.key[x] = key
      ELSE x = Null

\* The black nodes on the way down from x, when those below it are known.
BlackBelow(heights, x) ==
  LET l == heights[tree.left[x]]
      r == heights[tree.right[x]]
      redPair == Red(tree, x) /\ (Red(tree, tree.left[x]) \/ Red(tree, tree.right[x]))
  IN  IF l # r \/ l = 0 \/ redPair THEN 0 ELSE IF Red(tree, x) THEN l ELSE l + 1

\* The black nodes on the way down from each cell, 0 if two ways differ or a red
\* node has a red child, found from the leaves up.
BlackHeights ==
  LET round == [h \in [Cells -> Nat] |->
                  [x \in Cells |-> IF x = Nil THEN 1
                                   ELSE IF x \in members THEN BlackBelow(h, x) ELSE 0]]
  IN  Repeat(round, [x \in Cells |-> 0])

\* Rotations and recolouring keep the tree balanced, so a search stays logarithmic
\* and a deletion never finds a missing sibling.
Balanced == BlackHeights[tree.root] # 0 /\ ~ Red(tree, tree.root)

\* The pointers of members agree with each other, all others are null, and the
\* sentinel is left black and pointing at itself.
Linked ==
  /\ \A x \in members :
       /\ \A c \in {tree.left[x], tree.right[x]} \ {Nil} : tree.parent[c] = x
       /\ (tree.parent[x] = Nil) <=> (x = tree.root)
  /\ \A x \in Nodes \ members : {tree.left[x], tree.right[x], tree.parent[x]} = {Null}
  /\ {tree.left[Nil], tree.right[Nil], tree.parent[Nil]} = {Nil} /\ ~ Red(tree, Nil)
=============================================================================
