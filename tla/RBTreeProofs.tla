---------------------------- MODULE RBTreeProofs ----------------------------
(* Proofs about the red-black tree: for any nodes and keys, and any sequence  *)
(* of insertions, deletions and walks that delete what is due.                *)
EXTENDS RBTree, Integers, FiniteSetTheorems, WellFoundedInduction, TLAPS

Sides == {"left", "right"}

\* The fields of a tree, as operators: the provers see a record less well.
Root(t) == t.root
Key(t, x) == t.key[x]

----------------------------------------------------------------------------
(* What the assignments and the rotations change.                           *)

LEMMA OtherSide ==
  ASSUME NEW side,
         side \in Sides
  PROVE  /\ Other(side) \in Sides /\ Other(side) # side /\ Other(Other(side)) = side
         /\ \A d \in Sides : d = side \/ d = Other(side)
BY DEF Other, Sides

LEMMA TreeFields ==
  ASSUME NEW t, NEW z,
         t \in Trees, z \in Cells
  PROVE  /\ Root(t) \in Cells /\ Parent(t, z) \in Pointers /\ Key(t, z) \in Nat
         /\ \A d \in Sides : Child(t, d, z) \in Pointers
BY DEF Trees, Sides, Root, Parent, Key, Child

\* The keys and the colours are the same.
SameData(t, u) == \A z \in Cells : Key(u, z) = Key(t, z) /\ (Red(u, z) <=> Red(t, z))

LEMMA SameDataTrans ==
  ASSUME NEW t, NEW u, NEW v, SameData(t, u), SameData(u, v)
  PROVE  SameData(t, v)
BY DEF SameData

\* The pointers are the same.
SameShape(t, u) ==
  /\ Root(u) = Root(t)
  /\ \A z \in Cells : Parent(u, z) = Parent(t, z)
  /\ \A z \in Cells, d \in Sides : Child(u, d, z) = Child(t, d, z)

LEMMA PaintIs ==
  ASSUME NEW t, NEW x, NEW c,
         t \in Trees, x \in Cells, c \in {"red", "black"}
  PROVE  /\ Paint(t, x, c) \in Trees /\ SameShape(t, Paint(t, x, c))
         /\ \A z \in Cells : Key(Paint(t, x, c), z) = Key(t, z)
         /\ \A z \in Cells : Red(Paint(t, x, c), z) <=> IF z = x THEN c = "red" ELSE Red(t, z)
BY DEF Trees, Sides, Root, Parent, Key, Child, SameShape, Red, Paint

LEMMA SetRootIs ==
  ASSUME NEW t, NEW x,
         t \in Trees, x \in Cells
  PROVE  /\ SetRoot(t, x) \in Trees /\ Root(SetRoot(t, x)) = x
         /\ \A z \in Cells : Parent(SetRoot(t, x), z) = Parent(t, z)
         /\ \A z \in Cells, d \in Sides : Child(SetRoot(t, x), d, z) = Child(t, d, z)
         /\ SameData(t, SetRoot(t, x))
BY DEF Trees, Sides, Root, Parent, Key, Child, SameData, Red, SetRoot

LEMMA SetParentIs ==
  ASSUME NEW t, NEW x, NEW p,
         t \in Trees, x \in Cells, p \in Pointers
  PROVE  /\ SetParent(t, x, p) \in Trees /\ Root(SetParent(t, x, p)) = Root(t)
         /\ \A z \in Cells : Parent(SetParent(t, x, p), z) = IF z = x THEN p ELSE Parent(t, z)
         /\ \A z \in Cells, d \in Sides : Child(SetParent(t, x, p), d, z) = Child(t, d, z)
         /\ SameData(t, SetParent(t, x, p))
BY DEF Trees, Sides, Root, Parent, Key, Child, SameData, Red, SetParent

LEMMA SetChildIs ==
  ASSUME NEW t, NEW side, NEW x, NEW y,
         t \in Trees, side \in Sides, x \in Cells, y \in Pointers
  PROVE  /\ SetChild(t, side, x, y) \in Trees /\ Root(SetChild(t, side, x, y)) = Root(t)
         /\ \A z \in Cells : Parent(SetChild(t, side, x, y), z) = Parent(t, z)
         /\ \A z \in Cells, d \in Sides : Child(SetChild(t, side, x, y), d, z) =
              IF d = side /\ z = x THEN y ELSE Child(t, d, z)
         /\ SameData(t, SetChild(t, side, x, y))
<1>1. CASE side = "left"
  BY <1>1 DEF Trees, Sides, Root, Parent, Key, Child, SameData, Red, SetChild
<1>2. CASE side = "right"
  BY <1>2 DEF Trees, Sides, Root, Parent, Key, Child, SameData, Red, SetChild
<1> QED
  BY <1>1, <1>2 DEF Sides

LEMMA ReparentIs ==
  ASSUME NEW t, NEW x, NEW p,
         t \in Trees, x \in Cells, p \in Pointers
  PROVE  /\ Reparent(t, x, p) \in Trees /\ Root(Reparent(t, x, p)) = Root(t)
         /\ \A z \in Cells : Parent(Reparent(t, x, p), z) =
              IF z = x /\ x # Nil THEN p ELSE Parent(t, z)
         /\ \A z \in Cells, d \in Sides : Child(Reparent(t, x, p), d, z) = Child(t, d, z)
         /\ SameData(t, Reparent(t, x, p))
<1>1. CASE x = Nil
  <2>1. Reparent(t, x, p) = t
    BY <1>1 DEF Reparent
  <2> QED
    BY <1>1, <2>1 DEF SameData
<1>2. CASE x # Nil
  <2>1. Reparent(t, x, p) = SetParent(t, x, p)
    BY <1>2 DEF Reparent
  <2> QED
    BY <1>2, <2>1, SetParentIs
<1> QED
  BY <1>1, <1>2

LEMMA SideOfIs ==
  ASSUME NEW t, NEW p, NEW x, NEW d \in Sides, Child(t, d, p) = x
  PROVE  SideOf(t, p, x) \in Sides /\ Child(t, SideOf(t, p, x), p) = x
BY DEF SideOf, Sides, Child

LEMMA SideOfSide == ASSUME NEW t, NEW p, NEW x PROVE SideOf(t, p, x) \in Sides
BY DEF SideOf, Sides

LEMMA ReplaceIs ==
  ASSUME NEW t, NEW x, NEW y,
         t \in Trees, x \in Cells, y \in Cells,
         x # Root(t) => Parent(t, x) \in Cells
  PROVE  LET u == Replace(t, x, y) IN
         /\ u \in Trees /\ Root(u) = IF x = Root(t) THEN y ELSE Root(t)
         /\ \A z \in Cells : Parent(u, z) = Parent(t, z)
         /\ \A z \in Cells, d \in Sides : Child(u, d, z) =
              IF x # Root(t) /\ z = Parent(t, x) /\ d = SideOf(t, z, x)
                THEN y ELSE Child(t, d, z)
         /\ SameData(t, u)
<1>1. CASE x = Root(t)
  <2>1. Replace(t, x, y) = SetRoot(t, y)
    BY <1>1 DEF Replace, Root
  <2> QED
    BY <1>1, <2>1, SetRootIs
<1>2. CASE x # Root(t)
  <2>1. Replace(t, x, y) = SetChild(t, SideOf(t, Parent(t, x), x), Parent(t, x), y)
    BY <1>2 DEF Replace, Root, Parent
  <2>2. y \in Pointers /\ Parent(t, x) \in Cells
    BY <1>2 DEF Pointers
  <2> QED
    BY <1>2, <2>1, <2>2, SetChildIs, SideOfSide
<1> QED
  BY <1>1, <1>2

\* What a rotation changes.
LEMMA RotateIs ==
  ASSUME NEW t, NEW side, NEW x, NEW y, NEW b,
         t \in Trees, side \in Sides, x \in Cells, x # Nil,
         y \in Cells, y # Nil, y # x, y = Child(t, Other(side), x),
         b \in Cells, b # x, b # y, b = Child(t, side, y),
         x # Root(t) => Parent(t, x) \in Cells /\ Parent(t, x) # x
  PROVE  LET r == Rotate(t, side, x) IN
         /\ r \in Trees /\ Root(r) = IF x = Root(t) THEN y ELSE Root(t)
         /\ \A z \in Cells : Parent(r, z) = IF z = x THEN y ELSE IF z = y THEN Parent(t, x)
                                  ELSE IF z = b /\ b # Nil THEN x ELSE Parent(t, z)
         /\ \A z \in Cells, d \in Sides : Child(r, d, z) =
              IF z = y /\ d = side THEN x ELSE IF z = x /\ d = Other(side) THEN b
              ELSE IF x # Root(t) /\ z = Parent(t, x) /\ d = SideOf(t, z, x) THEN y
              ELSE Child(t, d, z)
         /\ SameData(t, r)
<1> DEFINE far == Other(side)
           p == Parent(t, x)
<1>a. far \in Sides /\ far # side
  BY OtherSide
<1>b. x \in Pointers /\ y \in Pointers /\ b \in Pointers
  BY DEF Pointers
<1>c. p \in Pointers
  BY TreeFields
<1> DEFINE t0 == SetChild(t, far, x, b)
           t1 == Reparent(t0, b, x)
           t2 == SetParent(t1, y, p)
           t3 == Replace(t2, x, y)
           t4 == SetParent(t3, x, y)
           t5 == SetChild(t4, side, y, x)
<1>1. Rotate(t, side, x) = Lift(t, side, x, y, b)
  BY DEF Rotate
<1>2. Lift(t, side, x, y, b) =
        SetChild(SetParent(Replace(SetParent(t1, y, Parent(t1, x)), x, y), x, y), side, y, x)
  BY DEF Lift
<1> HIDE DEF t0, t1, t2, t3, t4, t5, far, p
<1>3. /\ t0 \in Trees /\ Root(t0) = Root(t)
      /\ \A z \in Cells : Parent(t0, z) = Parent(t, z)
      /\ \A z \in Cells, d \in Sides : Child(t0, d, z) = IF d = far /\ z = x THEN b ELSE Child(t, d, z)
      /\ SameData(t, t0)
  BY <1>a, <1>b, SetChildIs DEF t0
<1>4. /\ t1 \in Trees /\ Root(t1) = Root(t0)
      /\ \A z \in Cells : Parent(t1, z) = IF z = b /\ b # Nil THEN x ELSE Parent(t0, z)
      /\ \A z \in Cells, d \in Sides : Child(t1, d, z) = Child(t0, d, z)
      /\ SameData(t0, t1)
  BY <1>b, <1>3, ReparentIs DEF t1
<1>5. Parent(t1, x) = p
  BY <1>3, <1>4 DEF p
<1>16. Rotate(t, side, x) = t5
  BY <1>1, <1>2, <1>5 DEF t2, t3, t4, t5
<1>6. /\ t2 \in Trees /\ Root(t2) = Root(t1)
      /\ \A z \in Cells : Parent(t2, z) = IF z = y THEN p ELSE Parent(t1, z)
      /\ \A z \in Cells, d \in Sides : Child(t2, d, z) = Child(t1, d, z)
      /\ SameData(t1, t2)
  BY <1>c, <1>4, SetParentIs DEF t2
<1>7. Parent(t2, x) = p /\ (x # Root(t2) => Parent(t2, x) \in Cells)
  BY <1>3, <1>4, <1>5, <1>6 DEF p
<1>8. /\ t3 \in Trees /\ Root(t3) = IF x = Root(t2) THEN y ELSE Root(t2)
      /\ \A z \in Cells : Parent(t3, z) = Parent(t2, z)
      /\ \A z \in Cells, d \in Sides : Child(t3, d, z) =
           IF x # Root(t2) /\ z = Parent(t2, x) /\ d = SideOf(t2, z, x) THEN y ELSE Child(t2, d, z)
      /\ SameData(t2, t3)
  BY <1>6, <1>7, ReplaceIs DEF t3
<1>9. /\ t4 \in Trees /\ Root(t4) = Root(t3)
      /\ \A z \in Cells : Parent(t4, z) = IF z = x THEN y ELSE Parent(t3, z)
      /\ \A z \in Cells, d \in Sides : Child(t4, d, z) = Child(t3, d, z)
      /\ SameData(t3, t4)
  BY <1>b, <1>8, SetParentIs DEF t4
<1>10. /\ t5 \in Trees /\ Root(t5) = Root(t4)
       /\ \A z \in Cells : Parent(t5, z) = Parent(t4, z)
       /\ \A z \in Cells, d \in Sides : Child(t5, d, z) = IF d = side /\ z = y THEN x ELSE Child(t4, d, z)
       /\ SameData(t4, t5)
  BY <1>a, <1>b, <1>9, SetChildIs DEF t5
<1>11. Root(t5) = IF x = Root(t) THEN y ELSE Root(t)
  BY <1>3, <1>4, <1>6, <1>8, <1>9, <1>10
<1>12. \A z \in Cells : Parent(t5, z) = IF z = x THEN y ELSE IF z = y THEN p
                                  ELSE IF z = b /\ b # Nil THEN x ELSE Parent(t, z)
  BY <1>3, <1>4, <1>6, <1>8, <1>9, <1>10
<1>13. \A z \in Cells : x # Root(t) /\ z = p => SideOf(t2, z, x) = SideOf(t, z, x)
  <2> SUFFICES ASSUME NEW z \in Cells, x # Root(t), z = p
               PROVE  SideOf(t2, z, x) = SideOf(t, z, x)
    OBVIOUS
  <2>1. Child(t2, "left", z) = Child(t, "left", z)
    BY <1>3, <1>4, <1>6 DEF Sides, p
  <2> QED
    BY <2>1 DEF SideOf, Child
<1>14. \A z \in Cells, d \in Sides : Child(t5, d, z) =
         IF z = y /\ d = side THEN x ELSE IF z = x /\ d = far THEN b
         ELSE IF x # Root(t) /\ z = p /\ d = SideOf(t, z, x) THEN y ELSE Child(t, d, z)
  <2> SUFFICES ASSUME NEW z \in Cells, NEW d \in Sides
               PROVE  Child(t5, d, z) =
         IF z = y /\ d = side THEN x ELSE IF z = x /\ d = far THEN b
         ELSE IF x # Root(t) /\ z = p /\ d = SideOf(t, z, x) THEN y ELSE Child(t, d, z)
    OBVIOUS
  <2>1. Root(t2) = Root(t) /\ (x # Root(t) => p # x)
    BY <1>3, <1>4, <1>6 DEF p
  <2>2. Child(t2, d, z) = IF d = far /\ z = x THEN b ELSE Child(t, d, z)
    BY <1>3, <1>4, <1>6
  <2>3. Child(t4, d, z) = IF x # Root(t) /\ z = p /\ d = SideOf(t2, z, x) THEN y ELSE Child(t2, d, z)
    BY <1>7, <1>8, <1>9, <2>1
  <2> QED
    BY <1>a, <1>10, <1>13, <2>1, <2>2, <2>3
<1>15. SameData(t, t5)
  BY <1>3, <1>4, <1>6, <1>8, <1>9, <1>10, SameDataTrans
<1> QED
  BY <1>16, <1>10, <1>11, <1>12, <1>14, <1>15 DEF p, far

----------------------------------------------------------------------------
(* Loops.                                                                   *)

LEMMA LeastNat ==
  ASSUME NEW T \in SUBSET Nat, T # {}
  PROVE  \E m \in T : \A k \in T : m <= k
<1> DEFINE R == OpToRel(<, Nat)
<1>1. R = {p \in Nat \X Nat : p[1] < p[2]}
  BY DEF OpToRel
<1>2. IsWellFoundedOn(R, Nat)
  BY NatLessThanWellFounded, Zenon
<1> HIDE DEF R
<1>3. PICK m \in T : \A k \in T : ~ (<<k, m>> \in R)
  BY <1>2, WFMin
<1>4. ASSUME NEW k \in T, ~ (m <= k) PROVE FALSE
  <2>1. k \in Nat /\ m \in Nat /\ k < m
    BY <1>4
  <2>2. <<k, m>> \in R
    BY <1>1, <2>1
  <2> QED
    BY <1>3, <2>2
<1> QED
  BY <1>4

LEMMA RunExists ==
  ASSUME NEW round, NEW x, NEW n \in Nat
  PROVE  \E run : run = [k \in 0 .. n |-> IF k = 0 THEN x ELSE round[run[k-1]]]
<1> DEFINE Runs(m) == \E run : run = [k \in 0 .. m |-> IF k = 0 THEN x ELSE round[run[k-1]]]
           Bad == {m \in Nat : ~ Runs(m)}
<1>1. Runs(0)
  <2> DEFINE g == [k \in 0 .. 0 |-> x]
  <2>1. g = [k \in 0 .. 0 |-> IF k = 0 THEN x ELSE round[g[k-1]]]
    OBVIOUS
  <2> QED
    BY <2>1
<1>2. ASSUME NEW m \in Nat, Runs(m) PROVE Runs(m+1)
  <2>1. PICK g : g = [k \in 0 .. m |-> IF k = 0 THEN x ELSE round[g[k-1]]]
    BY <1>2
  <2> DEFINE h == [k \in 0 .. m+1 |-> IF k <= m THEN g[k] ELSE round[g[m]]]
  <2>2. ASSUME NEW k \in 0 .. m+1
        PROVE  h[k] = IF k = 0 THEN x ELSE round[h[k-1]]
    <3>0. \A j \in 0 .. m : g[j] = IF j = 0 THEN x ELSE round[g[j-1]]
      BY <2>1
    <3>1. CASE k <= m
      <4>1. k \in 0 .. m /\ h[k] = g[k] /\ (k # 0 => k-1 \in 0 .. m /\ h[k-1] = g[k-1])
        BY <3>1
      <4> QED
        BY <3>0, <4>1
    <3>2. CASE k = m+1
      BY <3>2
    <3> QED
      BY <3>1, <3>2
  <2>3. h = [k \in 0 .. m+1 |-> IF k = 0 THEN x ELSE round[h[k-1]]]
    BY <2>2
  <2> QED
    BY <2>3
<1> HIDE DEF Runs
<1>3. ASSUME Bad # {} PROVE FALSE
  <2>0. Bad \in SUBSET Nat
    OBVIOUS
  <2>1. PICK m \in Bad : \A k \in Bad : m <= k
    BY <1>3, <2>0, LeastNat
  <2>2. m # 0 /\ m \in Nat
    BY <1>1, <2>1
  <2>3. m-1 \in Nat /\ m-1 \notin Bad
    <3>1. m-1 \in Nat /\ ~ (m <= m-1)
      BY <2>2
    <3> QED
      BY <2>1, <3>1
  <2>4. Runs(m-1)
    BY <2>3
  <2>5. Runs((m-1)+1)
    BY <1>2, <2>3, <2>4
  <2> QED
    BY <2>1, <2>2, <2>5
<1>4. Runs(n)
  BY <1>3
<1> QED
  BY <1>4 DEF Runs

\* A loop stays in a family of sets, one for each round.
LEMMA RepeatKeeps ==
  ASSUME NEW round, NEW x, NEW A, x \in A[0],
         \A k \in 0 .. Cardinality(Cells) - 1 : \A s \in A[k] : round[s] \in A[k+1]
  PROVE  Repeat(round, x) \in A[Cardinality(Cells)]
<1> DEFINE n == Cardinality(Cells)
           run == CHOOSE run : run = [k \in 0 .. n |-> IF k = 0 THEN x ELSE round[run[k-1]]]
           Bad == {k \in 0 .. n : run[k] \notin A[k]}
<1>1. n \in Nat
  BY NodeAssumption, FS_AddElement, FS_CardinalityType DEF Cells
<1>2. run = [k \in 0 .. n |-> IF k = 0 THEN x ELSE round[run[k-1]]]
  BY <1>1, RunExists
<1>3. Repeat(round, x) = run[n]
  BY DEF Repeat
<1> HIDE DEF run, n
<1>4. ASSUME Bad # {} PROVE FALSE
  <2>0. Bad \in SUBSET Nat
    BY <1>1
  <2>1. PICK k \in Bad : \A j \in Bad : k <= j
    BY <1>4, <2>0, LeastNat
  <2>2. k # 0 /\ k \in 0 .. n
    BY <1>1, <1>2, <2>1
  <2>3. k-1 \in 0 .. n-1 /\ k-1 \notin Bad
    <3>1. k-1 \in 0 .. n-1 /\ ~ (k <= k-1)
      BY <1>1, <2>2
    <3> QED
      BY <2>1, <3>1
  <2>4. run[k-1] \in A[k-1]
    BY <1>1, <2>3
  <2>5. round[run[k-1]] \in A[(k-1)+1]
    BY <2>3, <2>4 DEF n
  <2>6. run[k] = round[run[k-1]] /\ (k-1)+1 = k
    BY <1>1, <1>2, <2>2
  <2> QED
    BY <2>1, <2>5, <2>6
<1> QED
  BY <1>1, <1>3, <1>4 DEF n

LEMMA RepeatStays ==
  ASSUME NEW round, NEW x, NEW S, x \in S, \A s \in S : round[s] \in S
  PROVE  Repeat(round, x) \in S
<1> DEFINE n == Cardinality(Cells)
           A == [k \in 0 .. n |-> S]
<1>1. n \in Nat
  BY NodeAssumption, FS_AddElement, FS_CardinalityType DEF Cells
<1>2. \A k \in 0 .. n : A[k] = S
  OBVIOUS
<1> HIDE DEF A
<1>3. x \in A[0] /\ \A k \in 0 .. n - 1 : \A s \in A[k] : round[s] \in A[k+1]
  BY <1>1, <1>2
<1>4. Repeat(round, x) \in A[n]
  BY <1>3, RepeatKeeps
<1> QED
  BY <1>1, <1>2, <1>4

\* A loop comes to its end when every round before that lowers a measure that
\* starts no higher than the number of cells.
LEMMA RepeatEnds ==
  ASSUME NEW round, NEW x, NEW S, NEW Done, NEW m,
         m \in [S -> Nat], x \in S, m[x] <= Cardinality(Cells),
         \A s \in S \cap Done : round[s] \in S \cap Done,
         \A s \in S \ Done : round[s] \in S /\ (round[s] \in Done \/ m[round[s]] < m[s])
  PROVE  \/ Repeat(round, x) \in S \cap Done
         \/ Repeat(round, x) \in S /\ m[Repeat(round, x)] = 0
<1> DEFINE n == Cardinality(Cells)
           A == [k \in 0 .. n |-> {s \in S : s \in Done \/ m[s] + k <= n}]
<1>1. n \in Nat
  BY NodeAssumption, FS_AddElement, FS_CardinalityType DEF Cells
<1>2. \A s : \A k \in 0 .. n : s \in A[k] <=> s \in S /\ (s \in Done \/ m[s] + k <= n)
  OBVIOUS
<1> HIDE DEF A, n
<1>3. x \in A[0]
  BY <1>1, <1>2 DEF n
<1>4. ASSUME NEW k \in 0 .. n - 1, NEW s \in A[k] PROVE round[s] \in A[k+1]
  <2>1. k \in 0 .. n /\ k+1 \in 0 .. n /\ k \in Nat
    BY <1>1
  <2>2. s \in S /\ (s \in Done \/ m[s] + k <= n)
    BY <1>2, <2>1
  <2>3. CASE s \in Done
    BY <1>2, <2>1, <2>2, <2>3
  <2>4. CASE s \notin Done
    <3>1. round[s] \in S /\ (round[s] \in Done \/ m[round[s]] < m[s])
      BY <2>2, <2>4
    <3>2. m[s] \in Nat /\ m[round[s]] \in Nat /\ m[s] + k <= n
      BY <2>2, <2>4, <3>1
    <3>3. round[s] \in Done \/ m[round[s]] + (k+1) <= n
      BY <1>1, <2>1, <3>1, <3>2
    <3> QED
      BY <1>2, <2>1, <3>1, <3>3
  <2> QED
    BY <2>3, <2>4
<1>5. Repeat(round, x) \in A[n]
  BY <1>3, <1>4, RepeatKeeps DEF n
<1>6. /\ Repeat(round, x) \in S
      /\ Repeat(round, x) \in Done \/ m[Repeat(round, x)] + n <= n
  BY <1>1, <1>2, <1>5
<1>7. m[Repeat(round, x)] \in Nat
  BY <1>6
<1> QED
  BY <1>1, <1>6, <1>7

----------------------------------------------------------------------------
(* The shape of a tree: pointers that agree, and places in the order.       *)

\* Going to a side, a is passed before b.
Before(side, a, b) == IF side = "left" THEN a < b ELSE b < a

\* The pointers of the members agree with each other, and the others' are null.
Kin(t, M) ==
  /\ t \in Trees /\ M \subseteq Nodes
  /\ Root(t) \in M \cup {Nil} /\ (Root(t) = Nil => M = {})
  /\ \A x \in M : /\ Parent(t, x) \in M \cup {Nil}
                  /\ (Parent(t, x) = Nil) <=> (x = Root(t))
                  /\ Parent(t, x) # Nil => \E d \in Sides : Child(t, d, Parent(t, x)) = x
  /\ \A x \in M, d \in Sides :
       /\ Child(t, d, x) \in M \cup {Nil}
       /\ Child(t, d, x) # Nil => /\ Parent(t, Child(t, d, x)) = x
                                  /\ Child(t, Other(d), x) # Child(t, d, x)
  /\ \A x \in Nodes \ M : Parent(t, x) = Null /\ \A d \in Sides : Child(t, d, x) = Null
  /\ Parent(t, Nil) \in M \cup {Nil} /\ \A d \in Sides : Child(t, d, Nil) = Nil

\* Places: where a member comes in the walk, and between which places all that is
\* below it lies.  Between two neighbours in the walk there is room below one of them.
Pos(g, x) == g.pos[x]
Lim(g, side, x) == g[side][x]
Lies(g, side, x, m) == Before(side, Lim(g, side, x), Pos(g, m))

Typed(M, g) ==
  \A x \in M : Pos(g, x) \in Int /\ \A d \in Sides : Lim(g, d, x) \in Int

InOrder(t, M, g) ==
  /\ \A x \in M, y \in M : Pos(g, x) = Pos(g, y) => x = y
  /\ \A x \in M, y \in M : Pos(g, x) < Pos(g, y) => Key(t, x) <= Key(t, y)

Nested(t, M, g) ==
  /\ \A x \in M, d \in Sides :
       /\ Lies(g, d, x, x)
       /\ Child(t, d, x) # Nil => /\ Lim(g, d, Child(t, d, x)) = Lim(g, d, x)
                                  /\ Lim(g, Other(d), Child(t, d, x)) = Pos(g, x)
       /\ Child(t, d, x) = Nil =>
            \A m \in M : ~ (Lies(g, d, x, m) /\ Before(d, Pos(g, m), Pos(g, x)))
  /\ \A x \in M, y \in M, d \in Sides :
       Child(t, d, x) = Nil /\ Child(t, Other(d), y) = Nil => Lim(g, d, x) # Pos(g, y)
  /\ Root(t) # Nil => \A m \in M, d \in Sides : Lies(g, d, Root(t), m)

Placed(t, M, g) == Typed(M, g) /\ InOrder(t, M, g) /\ Nested(t, M, g)

Shaped(t, M) == Kin(t, M) /\ \E g : Placed(t, M, g)

\* Two members with nothing before them on a side up to the same place are the same.
LEMMA SameGap ==
  ASSUME NEW t, NEW M, NEW g, NEW d, NEW x, NEW y,
         Placed(t, M, g), d \in Sides, x \in M, y \in M,
         Child(t, d, x) = Nil, Child(t, d, y) = Nil, Lim(g, d, x) = Lim(g, d, y)
  PROVE  x = y
<1>1. /\ Before(d, Lim(g, d, x), Pos(g, x)) /\ Before(d, Lim(g, d, x), Pos(g, y))
      /\ ~ Before(d, Pos(g, y), Pos(g, x)) /\ ~ Before(d, Pos(g, x), Pos(g, y))
  BY DEF Placed, Nested, Lies
<1>2. Pos(g, x) \in Int /\ Pos(g, y) \in Int
  BY DEF Placed, Typed
<1>3. Pos(g, x) = Pos(g, y)
  BY <1>1, <1>2 DEF Before
<1> QED
  BY <1>3 DEF Placed, InOrder

LEMMA NilNull == Nil \notin Nodes /\ Null \notin Nodes /\ Nil # Null
BY PointerAssumption

LEMMA KinCells ==
  ASSUME NEW t, NEW M, Kin(t, M)
  PROVE  M \subseteq Cells /\ Nil \in Cells /\ Nil \notin M /\ Cells \subseteq Pointers
         /\ M \subseteq Nodes
BY NilNull DEF Kin, Cells, Pointers

LEMMA BeforeIs ==
  ASSUME NEW d, NEW a, NEW b, NEW c,
         d \in Sides, a \in Int, b \in Int, c \in Int
  PROVE  /\ Before(d, a, b) => a # b /\ ~ Before(d, b, a) /\ Before(Other(d), b, a)
         /\ Before(d, a, b) /\ Before(d, b, c) => Before(d, a, c)
         /\ a # b => Before(d, a, b) \/ Before(d, b, a)
         /\ Before(Other(d), b, a) => Before(d, a, b)
BY DEF Before, Other, Sides

\* What is below a member has less room than the member.
Span(g, x) == Lim(g, "right", x) - Lim(g, "left", x)

LEMMA Narrower ==
  ASSUME NEW t, NEW M, NEW g, NEW x, NEW d,
         Kin(t, M), Placed(t, M, g), x \in M, d \in Sides, Child(t, d, x) # Nil
  PROVE  /\ Span(g, x) \in Int /\ Span(g, Child(t, d, x)) \in Int
         /\ Span(g, Child(t, d, x)) < Span(g, x)
<1> DEFINE c == Child(t, d, x)
<1>1. c \in M
  BY DEF Kin
<1>2. \A z \in M : Pos(g, z) \in Int /\ Lim(g, "left", z) \in Int /\ Lim(g, "right", z) \in Int
  BY DEF Placed, Typed, Sides
<1>2a. /\ Pos(g, x) \in Int /\ Lim(g, "left", x) \in Int /\ Lim(g, "right", x) \in Int
       /\ Lim(g, "left", c) \in Int /\ Lim(g, "right", c) \in Int
  BY <1>1, <1>2
<1>3. /\ Lim(g, "left", x) < Pos(g, x) /\ Pos(g, x) < Lim(g, "right", x)
      /\ Lim(g, d, c) = Lim(g, d, x) /\ Lim(g, Other(d), c) = Pos(g, x)
  BY <1>1 DEF Placed, Nested, Lies, Before, Sides
<1> HIDE DEF c
<1>4. CASE d = "left"
  <2>1. Lim(g, "left", c) = Lim(g, "left", x) /\ Lim(g, "right", c) = Pos(g, x)
    BY <1>3, <1>4 DEF Other
  <2> QED
    BY <1>2a, <1>3, <2>1 DEF Span, c
<1>5. CASE d = "right"
  <2>1. Lim(g, "right", c) = Lim(g, "right", x) /\ Lim(g, "left", c) = Pos(g, x)
    BY <1>3, <1>5 DEF Other
  <2> QED
    BY <1>2a, <1>3, <2>1 DEF Span, c
<1> QED
  BY <1>4, <1>5 DEF Sides, c

\* A tree with the same pointers has the same shape.
LEMMA SameShaped ==
  ASSUME NEW t, NEW u, NEW M, Kin(t, M), u \in Trees, SameShape(t, u)
  PROVE  Kin(u, M)
<1>1. M \subseteq Cells /\ Nil \in Cells /\ \A x \in Nodes : x \in Cells
  BY KinCells DEF Cells
<1>2. /\ Root(u) = Root(t)
      /\ \A z \in Cells : Parent(u, z) = Parent(t, z)
                        /\ \A d \in Sides : Child(u, d, z) = Child(t, d, z)
  BY DEF SameShape
<1>3. \A x \in M : /\ Parent(u, x) \in M \cup {Nil}
                   /\ (Parent(u, x) = Nil) <=> (x = Root(u))
                   /\ Parent(u, x) # Nil => \E d \in Sides : Child(u, d, Parent(u, x)) = x
  BY <1>1, <1>2 DEF Kin
<1>4. \A x \in M, d \in Sides :
       /\ Child(u, d, x) \in M \cup {Nil}
       /\ Child(u, d, x) # Nil => /\ Parent(u, Child(u, d, x)) = x
                                  /\ Child(u, Other(d), x) # Child(u, d, x)
  BY <1>1, <1>2, OtherSide DEF Kin
<1> QED
  BY <1>1, <1>2, <1>3, <1>4 DEF Kin

LEMMA NestedSame ==
  ASSUME NEW t, NEW u, NEW M, NEW g, Nested(t, M, g), Root(u) = Root(t),
         \A z \in M, d \in Sides : Child(u, d, z) = Child(t, d, z)
  PROVE  Nested(u, M, g)
<1>1. ASSUME NEW x \in M, NEW y \in M, NEW d \in Sides,
             Child(u, d, x) = Nil, Child(u, Other(d), y) = Nil
      PROVE  Lim(g, d, x) # Pos(g, y)
  <2>1. Child(t, d, x) = Nil /\ Child(t, Other(d), y) = Nil
    BY <1>1, OtherSide
  <2> QED
    BY <2>1 DEF Nested
<1>2. ASSUME NEW x \in M, NEW d \in Sides
      PROVE  /\ Lies(g, d, x, x)
             /\ Child(u, d, x) # Nil => /\ Lim(g, d, Child(u, d, x)) = Lim(g, d, x)
                                        /\ Lim(g, Other(d), Child(u, d, x)) = Pos(g, x)
             /\ Child(u, d, x) = Nil =>
                  \A m \in M : ~ (Lies(g, d, x, m) /\ Before(d, Pos(g, m), Pos(g, x)))
  <2>1. Child(u, d, x) = Child(t, d, x)
    OBVIOUS
  <2> QED
    BY <2>1 DEF Nested
<1>3. Root(u) # Nil => \A m \in M, d \in Sides : Lies(g, d, Root(u), m)
  BY DEF Nested
<1> QED
  BY <1>1, <1>2, <1>3 DEF Nested

\* Each member of u is where g has it.
KeepPlaces(u, M, g) == \E h : Placed(u, M, h) /\ \A z \in M : Pos(h, z) = Pos(g, z)

\* The members of u, some of those of t, come in the same order.
Agrees(g, u, N) ==
  \E h : /\ Placed(u, N, h)
         /\ \A x \in N, y \in N : Pos(g, x) < Pos(g, y) => Pos(h, x) < Pos(h, y)

OrderKept(t, M, u, N) == \A g : Placed(t, M, g) => Agrees(g, u, N)

LEMMA PlacesOrder ==
  ASSUME NEW t, NEW u, NEW M, NEW N, \A g : Placed(t, M, g) => KeepPlaces(u, N, g)
  PROVE  OrderKept(t, M, u, N)
<1> SUFFICES ASSUME NEW g, Placed(t, M, g)
             PROVE  Agrees(g, u, N)
  BY DEF OrderKept
<1>1. PICK h : Placed(u, N, h) /\ \A z \in N : Pos(h, z) = Pos(g, z)
  BY DEF KeepPlaces
<1>2. \A x \in N, y \in N : Pos(g, x) < Pos(g, y) => Pos(h, x) < Pos(h, y)
  BY <1>1
<1> QED
  BY <1>1, <1>2 DEF Agrees

LEMMA OrderTrans ==
  ASSUME NEW t, NEW u, NEW v, NEW M, NEW N, NEW L,
         OrderKept(t, M, u, N), OrderKept(u, N, v, L), L \subseteq N
  PROVE  OrderKept(t, M, v, L)
<1> SUFFICES ASSUME NEW g, Placed(t, M, g)
             PROVE  Agrees(g, v, L)
  BY DEF OrderKept
<1>1. PICK h : /\ Placed(u, N, h)
               /\ \A x \in N, y \in N : Pos(g, x) < Pos(g, y) => Pos(h, x) < Pos(h, y)
  BY DEF OrderKept, Agrees
<1>2. PICK f : /\ Placed(v, L, f)
               /\ \A x \in L, y \in L : Pos(h, x) < Pos(h, y) => Pos(f, x) < Pos(f, y)
  BY <1>1 DEF OrderKept, Agrees
<1>3. \A x \in L, y \in L : Pos(g, x) < Pos(g, y) => Pos(f, x) < Pos(f, y)
  BY <1>1, <1>2
<1> QED
  BY <1>2, <1>3 DEF Agrees

\* A tree of the same members with the same keys, the sentinel's parent kept.
Rebuilt(t, u, M) ==
  /\ Shaped(u, M) /\ OrderKept(t, M, u, M) /\ Parent(u, Nil) = Parent(t, Nil)
  /\ \A z \in Cells : Key(u, z) = Key(t, z)

LEMMA RebuiltTrans ==
  ASSUME NEW t, NEW u, NEW v, NEW M, Rebuilt(t, u, M), Rebuilt(u, v, M)
  PROVE  Rebuilt(t, v, M)
<1>1. OrderKept(t, M, v, M)
  BY OrderTrans DEF Rebuilt
<1> QED
  BY <1>1 DEF Rebuilt

LEMMA ShapedRebuilt == ASSUME NEW t, NEW M, Shaped(t, M) PROVE Rebuilt(t, t, M)
<1>1. OrderKept(t, M, t, M)
  BY DEF OrderKept, Agrees
<1> QED
  BY <1>1 DEF Rebuilt

\* The neighbours of a member are members.
LEMMA ShapedStep ==
  ASSUME NEW t, NEW M, NEW x, Shaped(t, M), x \in M \cup {Nil}
  PROVE  /\ x \in Cells /\ Parent(t, x) \in M \cup {Nil} /\ Root(t) \in M \cup {Nil}
         /\ \A d \in Sides : Child(t, d, x) \in M \cup {Nil}
BY KinCells DEF Shaped, Kin

----------------------------------------------------------------------------
(* A rotation keeps the shape.                                              *)

\* A rotation of x and its child y, with b between them.
Turn(t, M, side, x, y, b) ==
  /\ Kin(t, M) /\ side \in Sides
  /\ x \in M /\ y = Child(t, Other(side), x) /\ y \in M /\ b = Child(t, side, y)

LEMMA TurnIs ==
  ASSUME NEW t, NEW M, NEW g, NEW side, NEW x, NEW y, NEW b,
         Turn(t, M, side, x, y, b), Placed(t, M, g)
  PROVE  /\ Other(side) \in Sides /\ Other(side) # side /\ Nil \notin M
         /\ b \in M \cup {Nil} /\ x # y /\ b # x /\ b # y
         /\ Parent(t, y) = x /\ (b # Nil => Parent(t, b) = y)
         /\ Parent(t, x) \in M \cup {Nil} /\ Parent(t, x) \notin {x, y}
         /\ (b # Nil => Parent(t, x) # b)
<1>1. /\ Other(side) \in Sides /\ Other(side) # side /\ Nil \notin M
      /\ b \in M \cup {Nil} /\ Parent(t, y) = x /\ (b # Nil => Parent(t, b) = y)
      /\ Parent(t, x) \in M \cup {Nil}
  BY OtherSide, KinCells DEF Turn, Kin
<1>2. Span(g, x) \in Int /\ Span(g, y) \in Int /\ Span(g, y) < Span(g, x)
  BY <1>1, Narrower DEF Turn
<1>3. b # Nil => Span(g, b) \in Int /\ Span(g, b) < Span(g, y)
  BY <1>1, Narrower DEF Turn
<1>4. Parent(t, x) # Nil => Span(g, Parent(t, x)) \in Int /\ Span(g, x) < Span(g, Parent(t, x))
  <2>1. ASSUME Parent(t, x) # Nil
        PROVE  \E d \in Sides : Child(t, d, Parent(t, x)) = x
    BY <2>1 DEF Turn, Kin
  <2> QED
    BY <1>1, <2>1, Narrower DEF Turn
<1> QED
  BY <1>1, <1>2, <1>3, <1>4 DEF Turn

LEMMA TurnChanges ==
  ASSUME NEW t, NEW M, NEW g, NEW side, NEW x, NEW y, NEW b, NEW r,
         Turn(t, M, side, x, y, b), Placed(t, M, g), r = Rotate(t, side, x)
  PROVE  /\ r \in Trees /\ Root(r) = IF x = Root(t) THEN y ELSE Root(t)
         /\ \A z \in Cells : Parent(r, z) = IF z = x THEN y ELSE IF z = y THEN Parent(t, x)
                                  ELSE IF z = b /\ b # Nil THEN x ELSE Parent(t, z)
         /\ \A z \in Cells, d \in Sides : Child(r, d, z) =
              IF z = y /\ d = side THEN x ELSE IF z = x /\ d = Other(side) THEN b
              ELSE IF Child(t, d, z) = x /\ z # Nil THEN y ELSE Child(t, d, z)
         /\ SameData(t, r)
<1>1. /\ x \in Cells /\ y \in Cells /\ b \in Cells /\ x # Nil /\ y # Nil /\ y # x
      /\ b # x /\ b # y /\ t \in Trees /\ side \in Sides
      /\ y = Child(t, Other(side), x) /\ b = Child(t, side, y)
  BY TurnIs, KinCells DEF Turn, Kin
<1>2. x # Root(t) => Parent(t, x) \in Cells /\ Parent(t, x) # x /\ Parent(t, x) # Nil
  BY TurnIs, KinCells DEF Turn, Kin
<1>3. \A z \in Cells, d \in Sides : Child(r, d, z) =
              IF z = y /\ d = side THEN x ELSE IF z = x /\ d = Other(side) THEN b
              ELSE IF x # Root(t) /\ z = Parent(t, x) /\ d = SideOf(t, z, x) THEN y
              ELSE Child(t, d, z)
  BY <1>1, <1>2, RotateIs
<1>4. \A z \in Cells, d \in Sides :
        (x # Root(t) /\ z = Parent(t, x) /\ d = SideOf(t, z, x)) <=> (Child(t, d, z) = x /\ z # Nil)
  <2> SUFFICES ASSUME NEW z \in Cells, NEW d \in Sides
               PROVE (x # Root(t) /\ z = Parent(t, x) /\ d = SideOf(t, z, x))
                       <=> (Child(t, d, z) = x /\ z # Nil)
    OBVIOUS
  <2>1. ASSUME x # Root(t), z = Parent(t, x), d = SideOf(t, z, x)
        PROVE  Child(t, d, z) = x /\ z # Nil
    <3>1. z # Nil /\ \E e \in Sides : Child(t, e, z) = x
      BY <1>2, <2>1 DEF Turn, Kin
    <3> QED
      BY <2>1, <3>1, SideOfIs
  <2>2. ASSUME Child(t, d, z) = x, z # Nil
        PROVE  x # Root(t) /\ z = Parent(t, x) /\ d = SideOf(t, z, x)
    <3>1. z \in M
      BY <1>1, <2>2, NilNull, KinCells DEF Turn, Kin, Cells
    <3>2. Parent(t, x) = z /\ Child(t, Other(d), z) # x
      BY <1>1, <2>2, <3>1 DEF Turn, Kin
    <3>3. x # Root(t)
      BY <2>2, <3>2 DEF Turn, Kin
    <3>4. SideOf(t, z, x) \in Sides /\ Child(t, SideOf(t, z, x), z) = x
      BY <2>2, SideOfIs
    <3> QED
      BY <3>2, <3>3, <3>4, OtherSide
  <2> QED
    BY <2>1, <2>2
<1>5. \A z \in Cells, d \in Sides : Child(r, d, z) =
              IF z = y /\ d = side THEN x ELSE IF z = x /\ d = Other(side) THEN b
              ELSE IF Child(t, d, z) = x /\ z # Nil THEN y ELSE Child(t, d, z)
  BY <1>3, <1>4
<1> QED
  BY <1>1, <1>2, <1>5, RotateIs

LEMMA TurnKin ==
  ASSUME NEW t, NEW M, NEW g, NEW side, NEW x, NEW y, NEW b, NEW r,
         Turn(t, M, side, x, y, b), Placed(t, M, g), r = Rotate(t, side, x)
  PROVE  Kin(r, M)
<1> DEFINE far == Other(side)
<1>1. M \subseteq Cells /\ Nil \in Cells /\ M \subseteq Nodes /\ \A z \in Nodes : z \in Cells
  BY KinCells DEF Turn, Cells
<1>2. /\ r \in Trees /\ Root(r) = IF x = Root(t) THEN y ELSE Root(t)
      /\ \A z \in Cells : Parent(r, z) = IF z = x THEN y ELSE IF z = y THEN Parent(t, x)
                               ELSE IF z = b /\ b # Nil THEN x ELSE Parent(t, z)
      /\ \A z \in Cells, d \in Sides : Child(r, d, z) =
           IF z = y /\ d = side THEN x ELSE IF z = x /\ d = far THEN b
           ELSE IF Child(t, d, z) = x /\ z # Nil THEN y ELSE Child(t, d, z)
  BY TurnChanges
<1>3. /\ far \in Sides /\ far # side /\ Nil \notin M
      /\ b \in M \cup {Nil} /\ x # y /\ b # x /\ b # y
      /\ Parent(t, y) = x /\ (b # Nil => Parent(t, b) = y)
      /\ Parent(t, x) \in M \cup {Nil} /\ Parent(t, x) \notin {x, y}
      /\ (b # Nil => Parent(t, x) # b)
  BY TurnIs
<1>4. /\ x \in M /\ y \in M /\ side \in Sides /\ y = Child(t, far, x) /\ b = Child(t, side, y)
      /\ \A d \in Sides : d = side \/ d = far
  BY OtherSide DEF Turn
<1>5. /\ Root(t) \in M \cup {Nil} /\ (Root(t) = Nil => M = {})
      /\ \A z \in M : /\ Parent(t, z) \in M \cup {Nil}
                      /\ (Parent(t, z) = Nil) <=> (z = Root(t))
                      /\ Parent(t, z) # Nil => \E d \in Sides : Child(t, d, Parent(t, z)) = z
      /\ \A z \in M, d \in Sides :
           /\ Child(t, d, z) \in M \cup {Nil}
           /\ Child(t, d, z) # Nil => /\ Parent(t, Child(t, d, z)) = z
                                      /\ Child(t, Other(d), z) # Child(t, d, z)
      /\ \A z \in Nodes \ M : Parent(t, z) = Null /\ \A d \in Sides : Child(t, d, z) = Null
      /\ Parent(t, Nil) \in M \cup {Nil} /\ \A d \in Sides : Child(t, d, Nil) = Nil
  BY DEF Turn, Kin
<1> HIDE DEF far
<1>6. Root(r) \in M \cup {Nil} /\ (Root(r) = Nil => M = {})
  BY <1>2, <1>3, <1>4, <1>5
<1>7. ASSUME NEW z \in M PROVE Parent(r, z) \in M \cup {Nil} /\ ((Parent(r, z) = Nil) <=> (z = Root(r)))
  BY <1>1, <1>2, <1>3, <1>4, <1>5
<1>8. ASSUME NEW z \in M, Parent(r, z) # Nil
      PROVE  \E d \in Sides : Child(r, d, Parent(r, z)) = z
  <2>1. CASE z = x
    BY <1>1, <1>2, <1>3, <1>4, <2>1
  <2>2. CASE z = y
    <3>1. Parent(r, z) = Parent(t, x) /\ Parent(t, x) \in M /\ Parent(t, x) # Nil
      BY <1>1, <1>2, <1>3, <1>4, <1>5, <1>8, <2>2
    <3>2. PICK d \in Sides : Child(t, d, Parent(t, x)) = x
      BY <1>4, <1>5, <3>1
    <3>3. Child(r, d, Parent(t, x)) = y
      BY <1>1, <1>2, <1>3, <1>4, <3>1, <3>2
    <3> QED
      BY <2>2, <3>1, <3>3
  <2>3. CASE z = b /\ b # Nil
    <3>1. Parent(r, z) = x /\ Child(r, far, x) = b
      BY <1>1, <1>2, <1>3, <1>4, <2>3
    <3> QED
      BY <1>3, <2>3, <3>1
  <2>4. CASE z \notin {x, y, b}
    <3>1. Parent(r, z) = Parent(t, z) /\ Parent(t, z) \in M /\ Parent(t, z) # Nil
      BY <1>1, <1>2, <1>5, <1>8, <2>4
    <3>2. PICK d \in Sides : Child(t, d, Parent(t, z)) = z
      BY <1>5, <3>1
    <3>3. Child(r, d, Parent(t, z)) = z
      BY <1>1, <1>2, <1>4, <3>1, <3>2, <2>4
    <3> QED
      BY <3>1, <3>3
  <2> QED
    BY <1>3, <2>1, <2>2, <2>3, <2>4
<1>9. ASSUME NEW z \in M, NEW d \in Sides
      PROVE  Child(r, d, z) \in M \cup {Nil}
  BY <1>1, <1>2, <1>3, <1>4, <1>5
<1>10. ASSUME NEW z \in M, NEW d \in Sides, Child(r, d, z) # Nil
       PROVE  Parent(r, Child(r, d, z)) = z
  <2>1. CASE z = y
    <3>1. CASE d = side
      BY <1>1, <1>2, <1>4, <2>1, <3>1
    <3>2. CASE d = far
      <4> DEFINE w == Child(t, far, y)
      <4>1. w \in M \cup {Nil} /\ (w # Nil => Parent(t, w) = y)
        BY <1>3, <1>4, <1>5
      <4>2. Child(r, d, z) = w /\ w # x
        BY <1>1, <1>2, <1>3, <1>4, <2>1, <3>2, <4>1
      <4>3. w # b /\ w # y
        BY <1>3, <1>4, <1>5, <1>10, <4>1, <4>2, OtherSide
      <4> QED
        BY <1>1, <1>2, <1>10, <2>1, <4>1, <4>2, <4>3
    <3> QED
      BY <1>4, <3>1, <3>2
  <2>2. CASE z = x
    <3>1. CASE d = far
      BY <1>1, <1>2, <1>3, <1>4, <1>10, <2>2, <3>1
    <3>2. CASE d = side
      <4> DEFINE w == Child(t, side, x)
      <4>1. w \in M \cup {Nil} /\ (w # Nil => Parent(t, w) = x)
        BY <1>3, <1>4, <1>5
      <4>2. Child(r, d, z) = w /\ w # x
        BY <1>1, <1>2, <1>3, <1>4, <1>5, <2>2, <3>2, <4>1
      <4>3. w # b /\ w # y
        BY <1>3, <1>4, <1>5, <1>10, <4>1, <4>2, OtherSide
      <4> QED
        BY <1>1, <1>2, <1>10, <2>2, <4>1, <4>2, <4>3
    <3> QED
      BY <1>4, <3>1, <3>2
  <2>3. CASE z # x /\ z # y
    <3>1. CASE Child(t, d, z) = x
      BY <1>1, <1>2, <1>3, <1>4, <1>5, <1>10, <2>3, <3>1
    <3>2. CASE Child(t, d, z) # x
      <4>1. Child(r, d, z) = Child(t, d, z) /\ Child(t, d, z) \in M /\ Parent(t, Child(t, d, z)) = z
        BY <1>1, <1>2, <1>5, <1>10, <2>3, <3>2
      <4> QED
        BY <1>1, <1>2, <1>3, <1>4, <2>3, <3>2, <4>1
    <3> QED
      BY <3>1, <3>2
  <2> QED
    BY <2>1, <2>2, <2>3
<1>11. ASSUME NEW z \in M, NEW d \in Sides, Child(r, d, z) # Nil
       PROVE  Child(r, Other(d), z) # Child(r, d, z)
  <2>0. Other(d) \in Sides /\ Other(d) # d
    BY OtherSide
  <2>1. Parent(r, Child(r, d, z)) = z
    BY <1>10, <1>11
  <2>2. ASSUME Child(r, Other(d), z) = Child(r, d, z) PROVE FALSE
    <3>1. CASE z = y
      BY <1>1, <1>2, <1>3, <1>4, <1>5, <1>11, <2>0, <2>1, <2>2, <3>1
    <3>2. CASE z = x
      BY <1>1, <1>2, <1>3, <1>4, <1>5, <1>11, <2>0, <2>1, <2>2, <3>2
    <3>3. CASE z # x /\ z # y
      BY <1>1, <1>2, <1>3, <1>4, <1>5, <1>11, <2>0, <2>1, <2>2, <3>3
    <3> QED
      BY <3>1, <3>2, <3>3
  <2> QED
    BY <2>2
<1>12. ASSUME NEW z \in Nodes \ M
       PROVE  Parent(r, z) = Null /\ \A d \in Sides : Child(r, d, z) = Null
  BY <1>1, <1>2, <1>3, <1>4, <1>5, NilNull
<1>13. Parent(r, Nil) \in M \cup {Nil} /\ \A d \in Sides : Child(r, d, Nil) = Nil
  BY <1>1, <1>2, <1>3, <1>4, <1>5
<1> QED
  BY <1>1, <1>2, <1>6, <1>7, <1>8, <1>9, <1>10, <1>11, <1>12, <1>13 DEF Kin


\* The places after a rotation: only two limits change.
LEMMA TurnPlaced ==
  ASSUME NEW t, NEW M, NEW g, NEW side, NEW x, NEW y, NEW b, NEW r,
         Turn(t, M, side, x, y, b), Placed(t, M, g), r = Rotate(t, side, x)
  PROVE  KeepPlaces(r, M, g)
<1> DEFINE far == Other(side)
<1>1. M \subseteq Cells /\ Nil \in Cells /\ Nil \notin M
  BY KinCells DEF Turn
<1>2. /\ Root(r) = IF x = Root(t) THEN y ELSE Root(t)
      /\ \A z \in M, d \in Sides : Child(r, d, z) =
           IF z = y /\ d = side THEN x ELSE IF z = x /\ d = far THEN b
           ELSE IF Child(t, d, z) = x THEN y ELSE Child(t, d, z)
      /\ \A z \in M : Key(r, z) = Key(t, z)
  BY <1>1, TurnChanges DEF SameData
<1>3. /\ far \in Sides /\ far # side /\ Other(far) = side /\ b \in M \cup {Nil}
      /\ x # y /\ b # x /\ b # y /\ Parent(t, y) = x /\ (b # Nil => Parent(t, b) = y)
      /\ x \in M /\ y \in M /\ side \in Sides /\ y = Child(t, far, x) /\ b = Child(t, side, y)
      /\ \A d \in Sides : d = side \/ d = far
  BY TurnIs, OtherSide DEF Turn
<1>4. \A z \in M, d \in Sides :
        /\ Child(t, d, z) \in M \cup {Nil} /\ Other(d) \in Sides
        /\ Child(t, d, z) # Nil => Parent(t, Child(t, d, z)) = z
  BY OtherSide DEF Turn, Kin
<1>5. PICK h : \A z \in M :
                 /\ Pos(h, z) = Pos(g, z)
                 /\ \A d \in Sides : Lim(h, d, z) = IF z = y /\ d = side THEN Lim(g, d, x)
                                                    ELSE IF z = x /\ d = far THEN Pos(g, y)
                                                    ELSE Lim(g, d, z)
  <2> DEFINE L(d, z) == IF z = y /\ d = side THEN Lim(g, d, x)
                        ELSE IF z = x /\ d = far THEN Pos(g, y) ELSE Lim(g, d, z)
             h == [pos |-> [z \in M |-> Pos(g, z)], left |-> [z \in M |-> L("left", z)],
                   right |-> [z \in M |-> L("right", z)]]
  <2> HIDE DEF L
  <2>1. \A z \in M : /\ Pos(h, z) = Pos(g, z)
                     /\ Lim(h, "left", z) = L("left", z) /\ Lim(h, "right", z) = L("right", z)
    BY DEF Pos, Lim
  <2> HIDE DEF h
  <2>2. \A z \in M, d \in Sides : Lim(h, d, z) = L(d, z)
    BY <2>1 DEF Sides
  <2> QED
    BY <2>1, <2>2 DEF L
<1>6. \A z \in M : Pos(g, z) \in Int /\ \A d \in Sides : Lim(g, d, z) \in Int
  BY DEF Placed, Typed
<1>7. Typed(M, h)
  BY <1>3, <1>5, <1>6 DEF Typed
<1>8. InOrder(r, M, h)
  BY <1>2, <1>5 DEF Placed, InOrder
<1>9. /\ \A z \in M, d \in Sides :
           /\ Lies(g, d, z, z)
           /\ Child(t, d, z) # Nil => /\ Lim(g, d, Child(t, d, z)) = Lim(g, d, z)
                                      /\ Lim(g, Other(d), Child(t, d, z)) = Pos(g, z)
           /\ Child(t, d, z) = Nil =>
                \A m \in M : ~ (Lies(g, d, z, m) /\ Before(d, Pos(g, m), Pos(g, z)))
      /\ \A z \in M, a \in M, d \in Sides :
           Child(t, d, z) = Nil /\ Child(t, Other(d), a) = Nil => Lim(g, d, z) # Pos(g, a)
      /\ Root(t) # Nil => \A m \in M, d \in Sides : Lies(g, d, Root(t), m)
  BY DEF Placed, Nested
<1>10. /\ Lim(g, far, y) = Lim(g, far, x) /\ Lim(g, side, y) = Pos(g, x)
       /\ b # Nil => Lim(g, side, b) = Pos(g, x) /\ Lim(g, far, b) = Pos(g, y)
       /\ b = Nil => \A m \in M : ~ (Before(side, Pos(g, x), Pos(g, m)) /\ Before(side, Pos(g, m), Pos(g, y)))
  <2>1. \A m \in M : Lies(g, side, y, m) <=> Before(side, Lim(g, side, y), Pos(g, m))
    BY DEF Lies
  <2> QED
    BY <1>1, <1>3, <1>9, <2>1
<1>11. /\ Before(side, Lim(g, side, x), Pos(g, x)) /\ Before(side, Pos(g, x), Pos(g, y))
       /\ Before(far, Pos(g, y), Pos(g, x)) /\ Before(far, Lim(g, far, x), Pos(g, y))
       /\ Before(side, Lim(g, side, x), Pos(g, y))
  <2>1. Before(side, Lim(g, side, x), Pos(g, x)) /\ Before(side, Pos(g, x), Pos(g, y))
        /\ Before(far, Lim(g, far, x), Pos(g, y))
    BY <1>3, <1>9, <1>10 DEF Lies
  <2> QED
    BY <1>3, <1>6, <2>1, BeforeIs
<1> HIDE DEF far
<1>12. ASSUME NEW z \in M, NEW d \in Sides PROVE Lies(h, d, z, z)
  <2>1. CASE z = y
    BY <1>3, <1>5, <1>9, <1>10, <1>11, <2>1 DEF Lies
  <2>2. CASE z = x
    BY <1>3, <1>5, <1>9, <1>11, <2>2 DEF Lies
  <2>3. CASE z # x /\ z # y
    BY <1>5, <1>9, <2>3 DEF Lies
  <2> QED
    BY <2>1, <2>2, <2>3
<1>13. ASSUME NEW z \in M, NEW d \in Sides, Child(r, d, z) # Nil
       PROVE  /\ Lim(h, d, Child(r, d, z)) = Lim(h, d, z)
              /\ Lim(h, Other(d), Child(r, d, z)) = Pos(h, z)
  <2>1. CASE z = y /\ d = side
    BY <1>2, <1>3, <1>5, <2>1 DEF far
  <2>2. CASE z = x /\ d = far
    BY <1>2, <1>3, <1>5, <1>10, <1>13, <2>2
  <2>3. CASE ~ (z = y /\ d = side) /\ ~ (z = x /\ d = far) /\ Child(t, d, z) = x
    <3>1. Parent(t, x) = z /\ z # x /\ z # y
      BY <1>1, <1>3, <1>4, <2>3, TurnIs
    <3>2. Child(r, d, z) = y /\ Lim(h, d, z) = Lim(g, d, z) /\ Pos(h, z) = Pos(g, z)
      BY <1>2, <1>5, <2>3, <3>1
    <3>3. Lim(g, d, x) = Lim(g, d, z) /\ Lim(g, Other(d), x) = Pos(g, z)
      BY <1>1, <1>3, <1>9, <2>3
    <3>4. CASE d = side
      BY <1>3, <1>5, <1>10, <3>2, <3>3, <3>4 DEF far
    <3>5. CASE d = far
      BY <1>3, <1>5, <1>10, <3>2, <3>3, <3>5
    <3> QED
      BY <1>3, <3>4, <3>5
  <2>4. CASE ~ (z = y /\ d = side) /\ ~ (z = x /\ d = far) /\ Child(t, d, z) # x
    BY <1>2, <1>3, <1>4, <1>5, <1>9, <1>10, <1>13, <2>4, OtherSide
  <2> QED
    BY <2>1, <2>2, <2>3, <2>4
<1>14. ASSUME NEW z \in M, NEW d \in Sides, Child(r, d, z) = Nil, NEW m \in M
       PROVE  ~ (Lies(h, d, z, m) /\ Before(d, Pos(h, m), Pos(h, z)))
  <2>1. CASE z = y /\ d = side
    BY <1>1, <1>2, <1>3, <1>14, <2>1
  <2>2. CASE z = x /\ d = far
    <3>1. b = Nil /\ Lim(h, d, z) = Pos(g, y) /\ Pos(h, z) = Pos(g, x) /\ Pos(h, m) = Pos(g, m)
      BY <1>2, <1>3, <1>5, <1>14, <2>2
    <3> QED
      BY <1>3, <1>6, <1>10, <2>2, <3>1, BeforeIs DEF Lies
  <2>3. CASE ~ (z = y /\ d = side) /\ ~ (z = x /\ d = far)
    <3>1. Child(t, d, z) = Nil
      BY <1>1, <1>2, <1>3, <1>4, <1>14, <2>3
    <3> QED
      BY <1>5, <1>9, <2>3, <3>1 DEF Lies
  <2> QED
    BY <2>1, <2>2, <2>3
<1>15. ASSUME Root(r) # Nil, NEW m \in M, NEW d \in Sides PROVE Lies(h, d, Root(r), m)
  <2>1. CASE x = Root(t)
    BY <1>1, <1>2, <1>3, <1>5, <1>9, <1>10, <2>1 DEF Lies
  <2>2. CASE x # Root(t)
    <3>1. Root(r) = Root(t) /\ Root(t) \in M /\ Parent(t, Root(t)) = Nil
      BY <1>2, <1>15, <2>2 DEF Turn, Kin
    <3> QED
      BY <1>1, <1>3, <1>5, <1>9, <2>2, <3>1 DEF Lies
  <2> QED
    BY <2>1, <2>2
<1>17. ASSUME NEW z \in M, NEW a \in M, NEW d \in Sides,
              Child(r, d, z) = Nil, Child(r, Other(d), a) = Nil, Lim(h, d, z) = Pos(h, a)
       PROVE  FALSE
  <2>0. Other(d) \in Sides /\ Other(d) # d
    BY OtherSide
  <2>1. CASE z = x /\ d = far
    <3>1. Lim(h, d, z) = Pos(g, y) /\ Pos(h, a) = Pos(g, a)
      BY <1>3, <1>5, <2>1
    <3>2. a = y
      BY <1>3, <1>17, <3>1 DEF Placed, InOrder
    <3>3. Child(r, side, y) = x
      BY <1>2, <1>3
    <3> QED
      BY <1>1, <1>3, <1>17, <2>1, <3>2, <3>3
  <2>2. CASE ~ (z = x /\ d = far)
    <3>2. Child(t, d, z) = Nil /\ Lim(h, d, z) = Lim(g, d, z) /\ Pos(h, a) = Pos(g, a)
      BY <1>1, <1>2, <1>3, <1>5, <1>17, <2>2
    <3>3. CASE a = x /\ Other(d) = far
      <4>1. d = side /\ b = Nil /\ Lim(g, side, z) = Lim(g, side, y)
        BY <1>2, <1>3, <1>10, <1>17, <2>0, <3>2, <3>3
      <4>2. z = y
        BY <1>3, <3>2, <4>1, SameGap
      <4> QED
        BY <1>1, <1>2, <1>3, <1>17, <4>1, <4>2
    <3>4. CASE ~ (a = x /\ Other(d) = far)
      <4>1. Child(t, Other(d), a) = Nil
        BY <1>1, <1>2, <1>3, <1>17, <2>0, <3>4
      <4>2. Lim(g, d, z) # Pos(g, a)
        BY <3>2, <4>1 DEF Placed, Nested
      <4> QED
        BY <1>17, <3>2, <4>2
    <3> QED
      BY <3>3, <3>4
  <2> QED
    BY <2>1, <2>2
<1>16. Nested(r, M, h)
  BY <1>12, <1>13, <1>14, <1>15, <1>17 DEF Nested
<1> QED
  BY <1>5, <1>7, <1>8, <1>16 DEF Placed, KeepPlaces

\* A rotation keeps the shape, whatever it is called with.
LEMMA RotateShaped ==
  ASSUME NEW t, NEW M, NEW side, NEW x, Shaped(t, M), side \in Sides, x \in M \cup {Nil}
  PROVE  Rebuilt(t, Rotate(t, side, x), M)
<1> DEFINE y == Child(t, Other(side), x)
<1>1. PICK g : Placed(t, M, g)
  BY DEF Shaped
<1>2. CASE x = Nil \/ y = Nil
  <2>1. Rotate(t, side, x) = t
    BY <1>2 DEF Rotate
  <2> QED
    BY <2>1, ShapedRebuilt
<1>3. CASE x # Nil /\ y # Nil
  <2>1. Turn(t, M, side, x, y, Child(t, side, y))
    BY <1>3, OtherSide DEF Shaped, Turn, Kin
  <2>2. Kin(Rotate(t, side, x), M)
    BY <1>1, <2>1, TurnKin
  <2>3. \A f : Placed(t, M, f) => KeepPlaces(Rotate(t, side, x), M, f)
    BY <2>1, TurnPlaced
  <2>5. OrderKept(t, M, Rotate(t, side, x), M) /\ \E h : Placed(Rotate(t, side, x), M, h)
    BY <1>1, <2>3, PlacesOrder DEF KeepPlaces
  <2>4. Parent(Rotate(t, side, x), Nil) = Parent(t, Nil)
        /\ \A z \in Cells : Key(Rotate(t, side, x), z) = Key(t, z)
    <3>1. x # Nil /\ y # Nil /\ Nil \in Cells
      BY <1>3 DEF Cells
    <3> QED
      BY <1>1, <2>1, <3>1, TurnChanges DEF SameData
  <2> QED
    BY <2>2, <2>4, <2>5 DEF Shaped, Rebuilt
<1> QED
  BY <1>2, <1>3

LEMMA PaintShaped ==
  ASSUME NEW t, NEW M, NEW x, NEW c, Shaped(t, M), x \in M \cup {Nil}, c \in {"red", "black"}
  PROVE  Rebuilt(t, Paint(t, x, c), M)
<1> DEFINE u == Paint(t, x, c)
<1>1. M \subseteq Cells /\ Nil \in Cells /\ t \in Trees
  BY KinCells DEF Shaped, Kin
<1>2. u \in Trees /\ SameShape(t, u) /\ \A z \in Cells : Key(u, z) = Key(t, z)
  BY <1>1, PaintIs
<1> HIDE DEF u
<1>3. Kin(u, M)
  BY <1>2, SameShaped DEF Shaped
<1>4. PICK g : Placed(t, M, g)
  BY DEF Shaped
<1>5. ASSUME NEW f, Placed(t, M, f) PROVE Placed(u, M, f)
  <2>1. InOrder(u, M, f)
    BY <1>1, <1>2, <1>5 DEF Placed, InOrder
  <2>2. Root(u) = Root(t) /\ \A z \in M, d \in Sides : Child(u, d, z) = Child(t, d, z)
    BY <1>1, <1>2 DEF SameShape
  <2>3. Nested(u, M, f)
    BY <1>5, <2>2, NestedSame DEF Placed
  <2> QED
    BY <1>5, <2>1, <2>3 DEF Placed
<1>6. OrderKept(t, M, u, M)
  BY <1>5 DEF OrderKept, Agrees
<1>7. Shaped(u, M) /\ OrderKept(t, M, u, M)
  BY <1>3, <1>4, <1>5, <1>6 DEF Shaped
<1> QED
  BY <1>1, <1>2, <1>7 DEF SameShape, Rebuilt, u

LEMMA PaintRebuilt ==
  ASSUME NEW t, NEW u, NEW M, NEW x, NEW c,
         Rebuilt(t, u, M), x \in M \cup {Nil}, c \in {"red", "black"}
  PROVE  Rebuilt(t, Paint(u, x, c), M)
<1>1. Shaped(u, M)
  BY DEF Rebuilt
<1>2. Rebuilt(u, Paint(u, x, c), M)
  BY <1>1, PaintShaped
<1> QED
  BY <1>2, RebuiltTrans

LEMMA RotateRebuilt ==
  ASSUME NEW t, NEW u, NEW M, NEW side, NEW x,
         Rebuilt(t, u, M), side \in Sides, x \in M \cup {Nil}
  PROVE  Rebuilt(t, Rotate(u, side, x), M)
<1>1. Shaped(u, M)
  BY DEF Rebuilt
<1>2. Rebuilt(u, Rotate(u, side, x), M)
  BY <1>1, RotateShaped
<1> QED
  BY <1>2, RebuiltTrans

----------------------------------------------------------------------------
(* The rounds of the fix-up loops keep the shape.                           *)

\* What a round returns: a tree of the same members, and one of them or the sentinel.
Keeps(t, c, M) ==
  Rebuilt(t, c.tree, M) /\ c.node \in M \cup {Nil} /\ c = At(c.tree, c.node)

LEMMA AtIs == ASSUME NEW t, NEW x PROVE At(t, x).tree = t /\ At(t, x).node = x
BY DEF At

LEMMA InsertTurnShaped ==
  ASSUME NEW t, NEW M, NEW side, NEW node, Shaped(t, M), side \in Sides, node \in M \cup {Nil}
  PROVE  Keeps(t, InsertTurn(t, side, node), M)
<1> DEFINE p == Parent(t, node)
           g == Parent(t, p)
           t1 == Paint(t, p, "black")
           t2 == Paint(t1, g, "red")
<1>1. p \in M \cup {Nil} /\ g \in M \cup {Nil}
  BY ShapedStep
<1>2. InsertTurn(t, side, node) = At(Rotate(t2, side, g), node)
  BY DEF InsertTurn
<1> HIDE DEF p, g, t1, t2
<1>3. Rebuilt(t, t1, M)
  BY <1>1, PaintShaped DEF t1
<1>4. Rebuilt(t, t2, M)
  BY <1>1, <1>3, PaintRebuilt DEF t2
<1>5. Rebuilt(t, Rotate(t2, side, g), M)
  BY <1>1, <1>4, RotateRebuilt
<1> QED
  BY <1>2, <1>5, AtIs DEF Keeps

LEMMA InsertRoundShaped ==
  ASSUME NEW t, NEW M, NEW node, Shaped(t, M), node \in M \cup {Nil}
  PROVE  Keeps(t, InsertRound(t, node), M)
<1> DEFINE p == Parent(t, node)
           g == Parent(t, p)
           side == SideOf(t, g, p)
           uncle == Child(t, Other(side), g)
           t1 == Paint(t, p, "black")
           t2 == Paint(t1, uncle, "black")
           t3 == Paint(t2, g, "red")
<1>1. side \in Sides /\ Other(side) \in Sides
  BY SideOfSide, OtherSide
<1>2. p \in M \cup {Nil} /\ g \in M \cup {Nil}
  BY ShapedStep
<1>3. uncle \in M \cup {Nil}
  BY <1>1, <1>2, ShapedStep
<1>4. InsertRound(t, node) = IF ~ Red(t, p) THEN At(t, node)
                             ELSE IF Red(t, uncle) THEN At(t3, g)
                             ELSE IF node = Child(t, Other(side), p)
                               THEN InsertTurn(Rotate(t, side, p), Other(side), p)
                             ELSE InsertTurn(t, Other(side), node)
  BY DEF InsertRound
<1> HIDE DEF p, g, side, uncle, t1, t2, t3
<1>5. Keeps(t, At(t, node), M)
  BY ShapedRebuilt, AtIs DEF Keeps
<1>6. Keeps(t, At(t3, g), M)
  <2>1. Rebuilt(t, t1, M)
    BY <1>2, PaintShaped DEF t1
  <2>2. Rebuilt(t, t2, M)
    BY <1>3, <2>1, PaintRebuilt DEF t2
  <2>3. Rebuilt(t, t3, M)
    BY <1>2, <2>2, PaintRebuilt DEF t3
  <2> QED
    BY <1>2, <2>3, AtIs DEF Keeps
<1>7. Keeps(t, InsertTurn(Rotate(t, side, p), Other(side), p), M)
  <2>1. Rebuilt(t, Rotate(t, side, p), M)
    BY <1>1, <1>2, RotateShaped
  <2>2. Shaped(Rotate(t, side, p), M)
    BY <2>1 DEF Rebuilt
  <2>3. Keeps(Rotate(t, side, p), InsertTurn(Rotate(t, side, p), Other(side), p), M)
    BY <1>1, <1>2, <2>2, InsertTurnShaped
  <2> QED
    BY <2>1, <2>3, RebuiltTrans DEF Keeps
<1>8. Keeps(t, InsertTurn(t, Other(side), node), M)
  BY <1>1, InsertTurnShaped
<1> QED
  BY <1>4, <1>5, <1>6, <1>7, <1>8

LEMMA KeepsTrans ==
  ASSUME NEW t, NEW u, NEW c, NEW M, Rebuilt(t, u, M), Keeps(u, c, M)
  PROVE  Keeps(t, c, M)
BY RebuiltTrans DEF Keeps

LEMMA SettleShaped ==
  ASSUME NEW t, NEW M, NEW side, NEW temp, Shaped(t, M), side \in Sides, temp \in M \cup {Nil}
  PROVE  Keeps(t, Settle(t, side, temp), M)
<1> DEFINE p == Parent(t, temp)
           w == Child(t, Other(side), p)
           far == Child(t, Other(side), w)
           t1 == Paint(t, w, t.color[p])
           t2 == Paint(t1, p, "black")
           t3 == Paint(t2, far, "black")
           u == Rotate(t3, side, p)
<1>1. p \in M \cup {Nil} /\ p \in Cells /\ Other(side) \in Sides
  BY ShapedStep, OtherSide
<1>2. w \in M \cup {Nil}
  BY <1>1, ShapedStep
<1>3. far \in M \cup {Nil}
  BY <1>1, <1>2, ShapedStep
<1>4. t.color[p] \in {"red", "black"}
  BY <1>1 DEF Shaped, Kin, Trees
<1>5. Settle(t, side, temp) = At(u, u.root)
  BY DEF Settle
<1> HIDE DEF p, w, far, t1, t2, t3, u
<1>6. Rebuilt(t, t1, M)
  BY <1>2, <1>4, PaintShaped DEF t1
<1>7. Rebuilt(t, t2, M)
  BY <1>1, <1>6, PaintRebuilt DEF t2
<1>8. Rebuilt(t, t3, M)
  BY <1>3, <1>7, PaintRebuilt DEF t3
<1>9. Rebuilt(t, u, M)
  BY <1>1, <1>8, RotateRebuilt DEF u
<1>10. u.root \in M \cup {Nil}
  BY <1>9 DEF Rebuilt, Shaped, Kin, Root
<1> QED
  BY <1>5, <1>9, <1>10, AtIs DEF Keeps

LEMMA BringUpShaped ==
  ASSUME NEW t, NEW M, NEW side, NEW w, Shaped(t, M), side \in Sides, w \in M \cup {Nil}
  PROVE  Rebuilt(t, BringUp(t, side, w), M)
<1> DEFINE t1 == Paint(t, w, "red")
           t2 == Paint(t1, Child(t, side, w), "black")
<1>1. Child(t, side, w) \in M \cup {Nil} /\ Other(side) \in Sides
  BY ShapedStep, OtherSide
<1>2. BringUp(t, side, w) = Rotate(t2, Other(side), w)
  BY DEF BringUp
<1> HIDE DEF t1, t2
<1>3. Rebuilt(t, t1, M)
  BY PaintShaped DEF t1
<1>4. Rebuilt(t, t2, M)
  BY <1>1, <1>3, PaintRebuilt DEF t2
<1> QED
  BY <1>1, <1>2, <1>4, RotateRebuilt

LEMMA MendShaped ==
  ASSUME NEW t, NEW M, NEW side, NEW temp, Shaped(t, M), side \in Sides, temp \in M \cup {Nil}
  PROVE  Keeps(t, Mend(t, side, temp), M)
<1> DEFINE p == Parent(t, temp)
           w == Child(t, Other(side), p)
           u == IF Red(t, Child(t, side, w)) THEN BringUp(t, side, w) ELSE t
<1>1. p \in M \cup {Nil} /\ Other(side) \in Sides
  BY ShapedStep, OtherSide
<1>2. w \in M \cup {Nil}
  BY <1>1, ShapedStep
<1>3. \/ Mend(t, side, temp) = At(Paint(t, w, "red"), p)
      \/ Mend(t, side, temp) = Settle(u, side, temp)
  BY DEF Mend
<1> HIDE DEF p, w
<1>4. Keeps(t, At(Paint(t, w, "red"), p), M)
  BY <1>1, <1>2, PaintShaped, AtIs DEF Keeps
<1>5. Rebuilt(t, u, M)
  BY <1>2, BringUpShaped, ShapedRebuilt
<1> HIDE DEF u
<1>6. Keeps(u, Settle(u, side, temp), M)
  BY <1>5, SettleShaped DEF Rebuilt
<1> QED
  BY <1>3, <1>4, <1>5, <1>6, KeepsTrans

LEMMA DeleteRoundShaped ==
  ASSUME NEW t, NEW M, NEW temp, Shaped(t, M), temp \in M \cup {Nil}
  PROVE  Keeps(t, DeleteRound(t, temp), M)
<1> DEFINE p == Parent(t, temp)
           side == SideOf(t, p, temp)
           w == Child(t, Other(side), p)
           t1 == Paint(t, w, "black")
           t2 == Paint(t1, p, "red")
           u == IF Red(t, w) THEN Rotate(t2, side, p) ELSE t
<1>1. p \in M \cup {Nil} /\ side \in Sides /\ Other(side) \in Sides
  BY ShapedStep, OtherSide, SideOfSide
<1>2. w \in M \cup {Nil}
  BY <1>1, ShapedStep
<1>3. DeleteRound(t, temp) = At(t, temp) \/ DeleteRound(t, temp) = Mend(u, side, temp)
  BY DEF DeleteRound
<1> HIDE DEF p, side, w, t1, t2
<1>4. Keeps(t, At(t, temp), M)
  BY ShapedRebuilt, AtIs DEF Keeps
<1>5. Rebuilt(t, u, M)
  <2>1. Rebuilt(t, t1, M)
    BY <1>2, PaintShaped DEF t1
  <2>2. Rebuilt(t, t2, M)
    BY <1>1, <2>1, PaintRebuilt DEF t2
  <2>3. Rebuilt(t, Rotate(t2, side, p), M)
    BY <1>1, <2>2, RotateRebuilt
  <2> QED
    BY <2>3, ShapedRebuilt
<1> HIDE DEF u
<1>6. Keeps(u, Mend(u, side, temp), M)
  BY <1>1, <1>5, MendShaped DEF Rebuilt
<1> QED
  BY <1>3, <1>4, <1>5, <1>6, KeepsTrans

LEMMA FixupsShaped ==
  ASSUME NEW t, NEW M, NEW x, Shaped(t, M), x \in M \cup {Nil}
  PROVE  Rebuilt(t, InsertFixup(t, x), M) /\ Rebuilt(t, DeleteFixup(t, x), M)
<1> DEFINE S == {c \in Cursors : Keeps(t, c, M)}
           inserting == [c \in Cursors |-> InsertRound(c.tree, c.node)]
           deleting == [c \in Cursors |-> DeleteRound(c.tree, c.node)]
<1>1. ASSUME NEW c, Keeps(t, c, M) PROVE c \in Cursors
  <2>1. c.tree \in Trees /\ c.node \in Pointers /\ c = At(c.tree, c.node)
    BY <1>1, KinCells DEF Keeps, Rebuilt, Shaped, Kin
  <2>2. At(c.tree, c.node) \in Cursors
    BY <2>1 DEF At, Cursors
  <2> QED
    BY <2>1, <2>2
<1>2. ASSUME NEW c \in S PROVE inserting[c] \in S /\ deleting[c] \in S
  <2> DEFINE u == c.tree
             y == c.node
  <2>1. c \in Cursors /\ Rebuilt(t, u, M) /\ y \in M \cup {Nil}
    BY DEF Keeps
  <2>2. inserting[c] = InsertRound(u, y) /\ deleting[c] = DeleteRound(u, y)
    BY <2>1
  <2> HIDE DEF u, y
  <2>3. Shaped(u, M)
    BY <2>1 DEF Rebuilt
  <2>4. Keeps(t, InsertRound(u, y), M) /\ Keeps(t, DeleteRound(u, y), M)
    BY <2>1, <2>3, InsertRoundShaped, DeleteRoundShaped, KeepsTrans
  <2>5. InsertRound(u, y) \in S /\ DeleteRound(u, y) \in S
    BY <1>1, <2>4
  <2> QED
    BY <2>2, <2>5
<1>3. At(t, x) \in S
  <2>1. Keeps(t, At(t, x), M)
    BY ShapedRebuilt, AtIs DEF Keeps
  <2> QED
    BY <1>1, <2>1
<1>4. \A c \in S : Rebuilt(t, c.tree, M) /\ c.node \in M \cup {Nil} /\ c.tree.root \in M \cup {Nil}
  BY DEF Keeps, Rebuilt, Shaped, Kin, Root
<1> HIDE DEF S, inserting, deleting
<1> DEFINE i == Repeat(inserting, At(t, x))
           d == Repeat(deleting, At(t, x))
<1>5. i \in S /\ d \in S
  BY <1>2, <1>3, RepeatStays
<1>6. InsertFixup(t, x) = Paint(i.tree, i.tree.root, "black")
      /\ DeleteFixup(t, x) = Paint(d.tree, d.node, "black")
  BY DEF InsertFixup, DeleteFixup, inserting, deleting
<1> HIDE DEF i, d
<1> QED
  BY <1>4, <1>5, <1>6, PaintRebuilt

----------------------------------------------------------------------------
(* The way down.                                                            *)

\* The members below x, and x.
Under(g, M, x) == {m \in M : \A d \in Sides : Lies(g, d, x, m)}
Size(g, M, x) == IF x = Nil THEN 0 ELSE Cardinality(Under(g, M, x))

LEMMA CellsFinite ==
  ASSUME NEW M, M \subseteq Nodes
  PROVE  /\ IsFiniteSet(M) /\ Cardinality(M) \in Nat /\ Cardinality(Cells) \in Nat
         /\ Cardinality(M) < Cardinality(Cells)
<1>1. IsFiniteSet(Nodes) /\ Cardinality(Nodes) \in Nat
  BY NodeAssumption, FS_CardinalityType
<1>2. IsFiniteSet(M) /\ Cardinality(M) <= Cardinality(Nodes)
  BY <1>1, FS_Subset
<1>3. Cells = Nodes \cup {Nil} /\ Nil \notin Nodes
  BY NilNull DEF Cells
<1>4. Cardinality(Cells) = Cardinality(Nodes) + 1
  BY <1>1, <1>3, FS_AddElement
<1>5. Cardinality(M) \in Nat
  BY <1>2, FS_CardinalityType
<1> QED
  BY <1>1, <1>2, <1>4, <1>5

LEMMA SizeIs ==
  ASSUME NEW t, NEW M, NEW g, NEW x, Kin(t, M), Placed(t, M, g), x \in M \cup {Nil}
  PROVE  /\ Size(g, M, x) \in Nat /\ Size(g, M, x) <= Cardinality(Cells)
         /\ x # Nil => Size(g, M, x) # 0
         /\ x # Nil => \A d \in Sides : Size(g, M, Child(t, d, x)) < Size(g, M, x)
<1>1. M \subseteq Nodes /\ Nil \notin M
  BY KinCells
<1>2. IsFiniteSet(M) /\ Cardinality(Cells) \in Nat /\ Cardinality(M) < Cardinality(Cells)
      /\ Cardinality(M) \in Nat
  BY <1>1, CellsFinite
<1>3. ASSUME NEW z
      PROVE  /\ IsFiniteSet(Under(g, M, z)) /\ Cardinality(Under(g, M, z)) \in Nat
             /\ Cardinality(Under(g, M, z)) <= Cardinality(M)
  <2>1. Under(g, M, z) \subseteq M
    BY DEF Under
  <2>2. IsFiniteSet(Under(g, M, z)) /\ Cardinality(Under(g, M, z)) <= Cardinality(M)
    BY <1>2, <2>1, FS_Subset
  <2> QED
    BY <2>2, FS_CardinalityType
<1>4. Size(g, M, x) \in Nat /\ Size(g, M, x) <= Cardinality(Cells)
  BY <1>2, <1>3 DEF Size
<1>5. ASSUME x # Nil PROVE x \in Under(g, M, x) /\ Size(g, M, x) # 0
  <2>1. x \in Under(g, M, x)
    BY <1>5 DEF Under, Placed, Nested
  <2>2. Cardinality(Under(g, M, x)) # 0
    BY <1>3, <2>1, FS_EmptySet
  <2> QED
    BY <1>5, <2>1, <2>2 DEF Size
<1>6. ASSUME x # Nil, NEW d \in Sides PROVE Size(g, M, Child(t, d, x)) < Size(g, M, x)
  <2> DEFINE c == Child(t, d, x)
  <2>1. CASE c = Nil
    BY <1>4, <1>5, <1>6, <2>1 DEF Size
  <2>2. CASE c # Nil
    <3>1. x \in M /\ c \in M /\ Other(d) \in Sides /\ (\A e \in Sides : e = d \/ e = Other(d))
          /\ Lim(g, d, c) = Lim(g, d, x) /\ Lim(g, Other(d), c) = Pos(g, x)
          /\ Lies(g, Other(d), x, x)
      BY <1>6, <2>2, OtherSide DEF Placed, Nested, Kin
    <3>2. \A z \in M : Pos(g, z) \in Int /\ \A e \in Sides : Lim(g, e, z) \in Int
      BY DEF Placed, Typed
    <3>3. ASSUME NEW m \in Under(g, M, c) PROVE m \in Under(g, M, x)
      <4>1. m \in M /\ Before(d, Lim(g, d, x), Pos(g, m)) /\ Before(Other(d), Pos(g, x), Pos(g, m))
        BY <3>1 DEF Under, Lies
      <4>2. Before(Other(d), Lim(g, Other(d), x), Pos(g, x))
        BY <3>1 DEF Lies
      <4>3. Before(Other(d), Lim(g, Other(d), x), Pos(g, m))
        BY <3>1, <3>2, <4>1, <4>2, BeforeIs
      <4> QED
        BY <3>1, <4>1, <4>3 DEF Under, Lies
    <3>4. x \notin Under(g, M, c)
      <4>1. ~ Before(Other(d), Pos(g, x), Pos(g, x))
        BY <3>1, <3>2, BeforeIs
      <4> QED
        BY <3>1, <4>1 DEF Under, Lies
    <3>5. Under(g, M, c) \subseteq Under(g, M, x) \ {x}
      BY <3>3, <3>4
    <3>6. Cardinality(Under(g, M, x) \ {x}) = Cardinality(Under(g, M, x)) - 1
          /\ IsFiniteSet(Under(g, M, x) \ {x})
      BY <1>3, <1>5, <1>6, FS_RemoveElement
    <3>7. Cardinality(Under(g, M, c)) <= Cardinality(Under(g, M, x) \ {x})
      BY <3>5, <3>6, FS_Subset
    <3> QED
      BY <1>3, <1>6, <2>2, <3>6, <3>7 DEF Size
  <2> QED
    BY <2>1, <2>2
<1> QED
  BY <1>4, <1>5, <1>6

\* The side of x on which a key is or goes.
SideFor(t, key, x) == IF key < Key(t, x) THEN "left" ELSE "right"

LEMMA BelowIs ==
  ASSUME NEW t, NEW key, NEW x
  PROVE  SideFor(t, key, x) \in Sides /\ Below(t, key, x) = Child(t, SideFor(t, key, x), x)
BY DEF SideFor, Below, Child, Key, Sides

\* The keys before all that is below x are not above key, those after not below it.
Brackets(t, M, g, key, x) ==
  \A m \in M : /\ Pos(g, m) <= Lim(g, "left", x) => Key(t, m) <= key
               /\ Lim(g, "right", x) <= Pos(g, m) => key <= Key(t, m)

\* The same of the place on a side of x.
Fits(t, M, g, key, side, x) ==
  \A m \in M : /\ Pos(g, m) <= (IF side = "left" THEN Lim(g, "left", x) ELSE Pos(g, x))
                    => Key(t, m) <= key
               /\ (IF side = "left" THEN Pos(g, x) ELSE Lim(g, "right", x)) <= Pos(g, m)
                    => key <= Key(t, m)

LEMMA BracketsFits ==
  ASSUME NEW t, NEW M, NEW g, NEW key, NEW x,
         Kin(t, M), Placed(t, M, g), key \in Nat, x \in M, Brackets(t, M, g, key, x)
  PROVE  Fits(t, M, g, key, SideFor(t, key, x), x)
<1>1. \A m \in M : Key(t, m) \in Nat /\ Pos(g, m) \in Int
  BY KinCells, TreeFields DEF Kin, Placed, Typed
<1>2. \A m \in M : (Pos(g, m) < Pos(g, x) => Key(t, m) <= Key(t, x))
                   /\ (Pos(g, x) < Pos(g, m) => Key(t, x) <= Key(t, m))
                   /\ (Pos(g, x) = Pos(g, m) => m = x)
  BY DEF Placed, InOrder
<1>3. CASE key < Key(t, x)
  <2>1. SideFor(t, key, x) = "left"
    BY <1>3 DEF SideFor
  <2>2. ASSUME NEW m \in M, Pos(g, x) <= Pos(g, m) PROVE key <= Key(t, m)
    BY <1>1, <1>2, <1>3, <2>2
  <2> QED
    BY <2>1, <2>2 DEF Fits, Brackets
<1>4. CASE ~ (key < Key(t, x))
  <2>1. SideFor(t, key, x) = "right"
    BY <1>4 DEF SideFor
  <2>2. ASSUME NEW m \in M, Pos(g, m) <= Pos(g, x) PROVE Key(t, m) <= key
    BY <1>1, <1>2, <1>4, <2>2
  <2> QED
    BY <2>1, <2>2 DEF Fits, Brackets
<1> QED
  BY <1>3, <1>4

LEMMA FitsBrackets ==
  ASSUME NEW t, NEW M, NEW g, NEW key, NEW x, NEW d,
         Kin(t, M), Placed(t, M, g), x \in M, d \in Sides, Child(t, d, x) # Nil,
         Fits(t, M, g, key, d, x)
  PROVE  Brackets(t, M, g, key, Child(t, d, x))
<1> DEFINE c == Child(t, d, x)
<1>1. Lim(g, d, c) = Lim(g, d, x) /\ Lim(g, Other(d), c) = Pos(g, x)
  BY DEF Placed, Nested
<1> HIDE DEF c
<1>2. CASE d = "left"
  <2>1. Lim(g, "left", c) = Lim(g, "left", x) /\ Lim(g, "right", c) = Pos(g, x)
    BY <1>1, <1>2 DEF Other
  <2> QED
    BY <1>2, <2>1 DEF Fits, Brackets, c
<1>3. CASE d = "right"
  <2>1. Lim(g, "right", c) = Lim(g, "right", x) /\ Lim(g, "left", c) = Pos(g, x)
    BY <1>1, <1>3 DEF Other
  <2> QED
    BY <1>3, <2>1 DEF Fits, Brackets, c
<1> QED
  BY <1>2, <1>3 DEF Sides

LEMMA RootBrackets ==
  ASSUME NEW t, NEW M, NEW g, NEW key, Kin(t, M), Placed(t, M, g), Root(t) # Nil
  PROVE  Brackets(t, M, g, key, Root(t))
<1>1. ASSUME NEW m \in M
      PROVE  Lim(g, "left", Root(t)) < Pos(g, m) /\ Pos(g, m) < Lim(g, "right", Root(t))
  BY DEF Placed, Nested, Lies, Before, Sides
<1>2. Root(t) \in M
  BY DEF Kin
<1>3. \A m \in M : Pos(g, m) \in Int /\ Lim(g, "left", m) \in Int /\ Lim(g, "right", m) \in Int
  BY DEF Placed, Typed, Sides
<1> QED
  BY <1>1, <1>2, <1>3 DEF Brackets

\* The node below which a key goes has room for it where it goes.
LEMMA DescendIs ==
  ASSUME NEW t, NEW M, NEW g, NEW key, Kin(t, M), Placed(t, M, g), key \in Nat
  PROVE  LET above == Descend(t, key) IN
         \/ M = {} /\ Root(t) = Nil /\ above = Nil
         \/ /\ above \in M /\ Root(t) # Nil
            /\ Child(t, SideFor(t, key, above), above) = Nil
            /\ Fits(t, M, g, key, SideFor(t, key, above), above)
<1> DEFINE D == [at : Pointers, above : Pointers]
           round == [s \in D |-> IF s.at = Nil THEN s
                                 ELSE [at |-> Below(t, key, s.at), above |-> s.at]]
           Good(at, above) ==
             /\ at \in M \cup {Nil} /\ above \in M \cup {Nil}
             /\ at # Nil => Brackets(t, M, g, key, at)
             /\ at = Nil => \/ M = {} /\ Root(t) = Nil /\ above = Nil
                            \/ /\ above \in M /\ Root(t) # Nil
                               /\ Child(t, SideFor(t, key, above), above) = Nil
                               /\ Fits(t, M, g, key, SideFor(t, key, above), above)
           S == {s \in D : Good(s.at, s.above)}
           Done == {s \in D : s.at = Nil}
           m == [s \in S |-> Size(g, M, s.at)]
           start == [at |-> Root(t), above |-> Nil]
<1>1. M \subseteq Pointers /\ Nil \in Pointers /\ Nil \notin M
      /\ Root(t) \in M \cup {Nil} /\ (Root(t) = Nil => M = {})
  BY KinCells DEF Kin
<1>2. Descend(t, key) = Repeat(round, start).above
  BY DEF Descend, Root
<1>3. start \in S
  <2>1. Good(Root(t), Nil)
    BY <1>1, RootBrackets
  <2> HIDE DEF Good
  <2> QED
    BY <1>1, <2>1
<1>4. ASSUME NEW at \in M, NEW above, Good(at, above) PROVE Good(Below(t, key, at), at)
  <2>1. Below(t, key, at) = Child(t, SideFor(t, key, at), at) /\ SideFor(t, key, at) \in Sides
    BY BelowIs
  <2>2. Child(t, SideFor(t, key, at), at) \in M \cup {Nil}
    BY <2>1 DEF Kin
  <2>3. Fits(t, M, g, key, SideFor(t, key, at), at)
    BY <1>1, <1>4, BracketsFits
  <2>4. Root(t) # Nil
    BY <1>1
  <2> QED
    BY <1>1, <2>1, <2>2, <2>3, <2>4, FitsBrackets
<1> HIDE DEF Good
<1>5. ASSUME NEW s \in S
      PROVE  s \in D /\ s.at \in M \cup {Nil} /\ Good(s.at, s.above)
  BY DEF Good
<1>6. \A s \in S \cap Done : round[s] \in S \cap Done
  BY <1>5
<1>7. ASSUME NEW s \in S \ Done PROVE round[s] \in S /\ m[round[s]] < m[s]
  <2>1. s \in D /\ s.at \in M /\ s.at # Nil /\ Good(s.at, s.above)
    BY <1>1, <1>5
  <2> DEFINE n == [at |-> Below(t, key, s.at), above |-> s.at]
  <2>2. round[s] = n
    BY <2>1
  <2>3. Good(n.at, n.above)
    BY <1>4, <2>1
  <2>4. n \in S
    <3>1. n.at \in M \cup {Nil}
      BY <2>3 DEF Good
    <3> QED
      BY <1>1, <2>1, <2>3, <3>1
  <2>5. Below(t, key, s.at) = Child(t, SideFor(t, key, s.at), s.at) /\ SideFor(t, key, s.at) \in Sides
    BY BelowIs
  <2>6. Size(g, M, n.at) < Size(g, M, s.at)
    BY <2>1, <2>5, SizeIs
  <2>7. m[n] = Size(g, M, n.at) /\ m[s] = Size(g, M, s.at)
    BY <2>4
  <2> QED
    BY <2>2, <2>4, <2>6, <2>7
<1>8. m \in [S -> Nat] /\ m[start] <= Cardinality(Cells)
  BY <1>3, <1>5, SizeIs
<1>9. \A s \in S : m[s] = 0 => s \in Done
  BY <1>5, SizeIs
<1> DEFINE e == Repeat(round, start)
<1> HIDE DEF round, S, Done, m, start
<1>10. e \in S \cap Done \/ (e \in S /\ m[e] = 0)
  BY <1>3, <1>6, <1>7, <1>8, RepeatEnds
<1>11. e \in S /\ e.at = Nil
  BY <1>9, <1>10 DEF Done
<1>12. Good(Nil, e.above)
  BY <1>5, <1>11
<1> HIDE DEF e
<1>13. Descend(t, key) = e.above
  BY <1>2 DEF e
<1> QED
  BY <1>12, <1>13 DEF Good

----------------------------------------------------------------------------
(* A node is hung below another.                                            *)

LEMMA HangIs ==
  ASSUME NEW t, NEW node, NEW key, NEW above,
         t \in Trees, node \in Nodes, key \in Nat, above \in Cells, above # node
  PROVE  LET u == Hang(t, node, key, above) IN
         /\ u \in Trees /\ Root(u) = IF Root(t) = Nil THEN node ELSE Root(t)
         /\ \A z \in Cells : Parent(u, z) = IF z = node THEN above ELSE Parent(t, z)
         /\ \A z \in Cells, d \in Sides : Child(u, d, z) =
              IF z = node THEN Nil
              ELSE IF Root(t) # Nil /\ z = above /\ d = SideFor(t, key, above) THEN node
              ELSE Child(t, d, z)
         /\ \A z \in Cells : Key(u, z) = IF z = node THEN key ELSE Key(t, z)
         /\ \A z \in Cells : Red(u, z) <=> z = node \/ Red(t, z)
<1> DEFINE leaf == [t EXCEPT !.key[node] = key, !.parent[node] = above, !.left[node] = Nil,
                             !.right[node] = Nil, !.color[node] = "red"]
           u == Hang(t, node, key, above)
<1>1. node \in Cells /\ Nil \in Pointers /\ node \in Pointers /\ above \in Pointers
  BY DEF Cells, Pointers
<1>2. /\ leaf \in Trees /\ Root(leaf) = Root(t)
      /\ \A z \in Cells : Parent(leaf, z) = IF z = node THEN above ELSE Parent(t, z)
      /\ \A z \in Cells : Key(leaf, z) = IF z = node THEN key ELSE Key(t, z)
      /\ \A z \in Cells : Red(leaf, z) <=> z = node \/ Red(t, z)
      /\ \A z \in Cells : /\ Child(leaf, "left", z) = IF z = node THEN Nil ELSE Child(t, "left", z)
                          /\ Child(leaf, "right", z) = IF z = node THEN Nil ELSE Child(t, "right", z)
  BY <1>1 DEF Trees, Root, Parent, Key, Child, Red
<1>3. u = IF Root(t) = Nil THEN SetRoot(leaf, node)
          ELSE SetChild(leaf, SideFor(t, key, above), above, node)
  BY DEF Hang, Root, SideFor, Key
<1> HIDE DEF leaf, u
<1>4. \A z \in Cells, d \in Sides : Child(leaf, d, z) = IF z = node THEN Nil ELSE Child(t, d, z)
  BY <1>2 DEF Sides
<1>5. SideFor(t, key, above) \in Sides
  BY BelowIs
<1>6. CASE Root(t) = Nil
  BY <1>1, <1>2, <1>3, <1>4, <1>6, SetRootIs DEF SameData, u
<1>7. CASE Root(t) # Nil
  <2>1. u = SetChild(leaf, SideFor(t, key, above), above, node)
    BY <1>3, <1>7
  <2>2. /\ u \in Trees /\ Root(u) = Root(leaf)
        /\ \A z \in Cells : Parent(u, z) = Parent(leaf, z)
        /\ \A z \in Cells, d \in Sides : Child(u, d, z) =
             IF d = SideFor(t, key, above) /\ z = above THEN node ELSE Child(leaf, d, z)
        /\ SameData(leaf, u)
    BY <1>1, <1>2, <1>5, <2>1, SetChildIs
  <2> QED
    BY <1>2, <1>4, <1>7, <2>2 DEF SameData, u
<1> QED
  BY <1>6, <1>7

LEMMA HangKin ==
  ASSUME NEW t, NEW u, NEW M, NEW node, NEW key, NEW above,
         Kin(t, M), node \in Nodes, node \notin M, key \in Nat, u = Hang(t, node, key, above),
         \/ M = {} /\ Root(t) = Nil /\ above = Nil
         \/ above \in M /\ Root(t) # Nil /\ Child(t, SideFor(t, key, above), above) = Nil
  PROVE  Kin(u, M \cup {node})
<1> DEFINE side == SideFor(t, key, above)
           N == M \cup {node}
<1>1. M \subseteq Cells /\ Nil \in Cells /\ Nil \notin M /\ M \subseteq Nodes
      /\ node \in Cells /\ node # Nil /\ \A z \in Nodes : z \in Cells
  BY KinCells, NilNull DEF Cells
<1>2. above \in Cells /\ above # node /\ (Root(t) = Nil => M = {} /\ above = Nil)
      /\ (Root(t) # Nil => above \in M /\ Child(t, side, above) = Nil)
  BY <1>1
<1>3. side \in Sides
  BY BelowIs
<1> HIDE DEF side
<1>4. /\ u \in Trees /\ Root(u) = IF Root(t) = Nil THEN node ELSE Root(t)
      /\ \A z \in Cells : Parent(u, z) = IF z = node THEN above ELSE Parent(t, z)
      /\ \A z \in Cells, d \in Sides : Child(u, d, z) =
           IF z = node THEN Nil
           ELSE IF Root(t) # Nil /\ z = above /\ d = side THEN node ELSE Child(t, d, z)
  BY <1>2, HangIs DEF Kin, side
<1>5. Root(t) \in M \cup {Nil}
  BY DEF Kin
<1>6. ASSUME NEW x \in N
      PROVE  /\ Parent(u, x) \in N \cup {Nil}
             /\ (Parent(u, x) = Nil) <=> (x = Root(u))
             /\ Parent(u, x) # Nil => \E d \in Sides : Child(u, d, Parent(u, x)) = x
  <2>1. CASE x = node
    BY <1>1, <1>2, <1>3, <1>4, <1>5, <2>1
  <2>2. CASE x \in M
    <3>1. /\ Parent(t, x) \in M \cup {Nil} /\ ((Parent(t, x) = Nil) <=> (x = Root(t)))
          /\ Parent(t, x) # Nil => \E d \in Sides : Child(t, d, Parent(t, x)) = x
      BY <2>2 DEF Kin
    <3>2. Parent(u, x) = Parent(t, x) /\ Root(u) = Root(t) /\ x # node /\ x # Nil
      BY <1>1, <1>2, <1>4, <2>2
    <3>3. ASSUME Parent(t, x) # Nil PROVE \E d \in Sides : Child(u, d, Parent(t, x)) = x
      <4>1. PICK d \in Sides : Child(t, d, Parent(t, x)) = x
        BY <3>1, <3>3
      <4>2. Child(u, d, Parent(t, x)) = x
        BY <1>1, <1>2, <1>4, <3>1, <3>2, <3>3, <4>1
      <4> QED
        BY <4>2
    <3> QED
      BY <3>1, <3>2, <3>3
  <2> QED
    BY <2>1, <2>2
<1>7. ASSUME NEW x \in N, NEW d \in Sides
      PROVE  /\ Child(u, d, x) \in N \cup {Nil}
             /\ Child(u, d, x) # Nil => /\ Parent(u, Child(u, d, x)) = x
                                        /\ Child(u, Other(d), x) # Child(u, d, x)
  <2>1. CASE x = node
    BY <1>1, <1>4, <2>1
  <2>2. CASE x \in M
    <3>1. Other(d) \in Sides /\ Other(d) # d /\ x \in Cells /\ x # node
      BY <1>1, <2>2, OtherSide
    <3>2. /\ Child(t, d, x) \in M \cup {Nil} /\ Child(t, Other(d), x) \in M \cup {Nil}
          /\ Child(t, d, x) # Nil => /\ Parent(t, Child(t, d, x)) = x
                                     /\ Child(t, Other(d), x) # Child(t, d, x)
      BY <2>2, <3>1 DEF Kin
    <3>3. CASE Root(t) # Nil /\ x = above /\ d = side
      <4>1. Child(u, d, x) = node /\ Child(u, Other(d), x) = Child(t, Other(d), x)
        BY <1>4, <3>1, <3>3
      <4> QED
        BY <1>1, <1>4, <3>2, <3>3, <4>1
    <3>4. CASE ~ (Root(t) # Nil /\ x = above /\ d = side)
      <4>1. Child(u, d, x) = Child(t, d, x) /\ Child(u, Other(d), x) \in {node, Child(t, Other(d), x)}
        BY <1>4, <3>1, <3>4
      <4> QED
        BY <1>1, <1>4, <3>2, <4>1
    <3> QED
      BY <3>3, <3>4
  <2> QED
    BY <2>1, <2>2
<1>8. ASSUME NEW x \in Nodes \ N
      PROVE  Parent(u, x) = Null /\ \A d \in Sides : Child(u, d, x) = Null
  <2>1. x \in Cells /\ x # node /\ x # above /\ x \in Nodes \ M
    BY <1>1, <1>2, NilNull
  <2> QED
    BY <1>4, <2>1 DEF Kin
<1>9. Parent(u, Nil) \in N \cup {Nil} /\ \A d \in Sides : Child(u, d, Nil) = Nil
  <2>1. Parent(t, Nil) \in M \cup {Nil} /\ \A d \in Sides : Child(t, d, Nil) = Nil
    BY DEF Kin
  <2> QED
    BY <1>1, <1>2, <1>4, <2>1
<1>10. Root(u) \in N \cup {Nil} /\ Root(u) # Nil
  BY <1>1, <1>4, <1>5
<1>11. u \in Trees /\ N \subseteq Nodes
  BY <1>1, <1>4
<1> HIDE DEF N
<1>12. Kin(u, N)
  BY <1>6, <1>7, <1>8, <1>9, <1>10, <1>11 DEF Kin
<1> QED
  BY <1>12 DEF N

\* Places are doubled to make room beside each.
Off(side) == IF side = "left" THEN 0-1 ELSE 1

LEMMA Doubled ==
  ASSUME NEW d, NEW a, NEW b, d \in Sides, a \in Int, b \in Int
  PROVE  /\ 2*a \in Int /\ (2*a = 2*b => a = b)
         /\ Before(d, 2*a, 2*b) <=> Before(d, a, b)
BY DEF Before, Sides

LEMMA Beside ==
  ASSUME NEW d, NEW s, NEW a, NEW b, d \in Sides, s \in Sides, a \in Int, b \in Int
  PROVE  /\ 2*b + Off(s) \in Int /\ 2*b + Off(s) # 2*a
         /\ Before(d, 2*a, 2*b + Off(s)) <=> Before(d, a, b) \/ (a = b /\ d # s)
         /\ Before(d, 2*b + Off(s), 2*a) <=> Before(d, b, a) \/ (a = b /\ d = s)
<1>1. CASE s = "left"
  BY <1>1 DEF Before, Sides, Off
<1>2. CASE s = "right"
  BY <1>2 DEF Before, Sides, Off
<1> QED
  BY <1>1, <1>2 DEF Sides

\* h has the places of g doubled, and node beside above.
Made(g, h, M, node, above, s) ==
  /\ \A z \in M : Pos(h, z) = 2 * Pos(g, z) /\ \A d \in Sides : Lim(h, d, z) = 2 * Lim(g, d, z)
  /\ Pos(h, node) = 2 * Pos(g, above) + Off(s)
  /\ Lim(h, s, node) = 2 * Lim(g, s, above) /\ Lim(h, Other(s), node) = 2 * Pos(g, above)

LEMMA MadeExists ==
  ASSUME NEW g, NEW M, NEW node, NEW above, NEW s, node \notin M, s \in Sides
  PROVE  \E h : Made(g, h, M, node, above, s)
<1> DEFINE L(d, z) == IF z # node THEN 2 * Lim(g, d, z)
                      ELSE IF d = s THEN 2 * Lim(g, s, above) ELSE 2 * Pos(g, above)
           P(z) == IF z # node THEN 2 * Pos(g, z) ELSE 2 * Pos(g, above) + Off(s)
           N == M \cup {node}
           h == [pos |-> [z \in N |-> P(z)], left |-> [z \in N |-> L("left", z)],
                 right |-> [z \in N |-> L("right", z)]]
<1> HIDE DEF L, P
<1>1. \A z \in N : /\ Pos(h, z) = P(z)
                   /\ Lim(h, "left", z) = L("left", z) /\ Lim(h, "right", z) = L("right", z)
  BY DEF Pos, Lim
<1> HIDE DEF h
<1>2. \A z \in N, d \in Sides : Lim(h, d, z) = L(d, z)
  BY <1>1 DEF Sides
<1>3. Other(s) \in Sides /\ Other(s) # s
  BY OtherSide
<1>4. Made(g, h, M, node, above, s)
  BY <1>1, <1>2, <1>3 DEF L, P, Made
<1> QED
  BY <1>4

LEMMA MadeInOrder ==
  ASSUME NEW t, NEW u, NEW M, NEW g, NEW h, NEW node, NEW key, NEW above, NEW s,
         Placed(t, M, g), node \notin M, above \in M, s \in Sides,
         Child(t, s, above) = Nil, Made(g, h, M, node, above, s),
         s = SideFor(t, key, above), Fits(t, M, g, key, s, above),
         Key(u, node) = key, \A z \in M : Key(u, z) = Key(t, z)
  PROVE  InOrder(u, M \cup {node}, h)
<1>1. \A z \in M : Pos(g, z) \in Int /\ \A d \in Sides : Lim(g, d, z) \in Int
  BY DEF Placed, Typed
<1>2. \A z \in M : Pos(h, z) = 2 * Pos(g, z)
  BY DEF Made
<1>3. Pos(h, node) = 2 * Pos(g, above) + Off(s)
  BY DEF Made
<1>4. /\ \A x \in M, y \in M : Pos(g, x) = Pos(g, y) => x = y
      /\ \A x \in M, y \in M : Pos(g, x) < Pos(g, y) => Key(t, x) <= Key(t, y)
  BY DEF Placed, InOrder
<1>5. ASSUME NEW x \in M, NEW y \in M
      PROVE  /\ Pos(h, x) = Pos(h, y) => x = y
             /\ Pos(h, x) < Pos(h, y) => Key(u, x) <= Key(u, y)
  BY <1>1, <1>2, <1>4
<1>6. ASSUME NEW m \in M
      PROVE  /\ Pos(h, m) # Pos(h, node)
             /\ Pos(h, m) < Pos(h, node) => Key(t, m) <= key
             /\ Pos(h, node) < Pos(h, m) => key <= Key(t, m)
  <2>1. /\ Pos(g, m) \in Int /\ Pos(g, above) \in Int
        /\ Lim(g, "left", above) \in Int /\ Lim(g, "right", above) \in Int
    BY <1>1 DEF Sides
  <2>2. ~ (Before(s, Lim(g, s, above), Pos(g, m)) /\ Before(s, Pos(g, m), Pos(g, above)))
    BY DEF Placed, Nested, Lies
  <2>3. Pos(h, m) = 2 * Pos(g, m)
    BY <1>2
  <2>4. CASE s = "left"
    <3>1. Pos(h, node) = 2 * Pos(g, above) - 1
      BY <1>3, <2>1, <2>4 DEF Off
    <3>2. ~ (Lim(g, "left", above) < Pos(g, m) /\ Pos(g, m) < Pos(g, above))
      BY <2>2, <2>4 DEF Before
    <3>3. /\ Pos(g, m) <= Lim(g, "left", above) => Key(t, m) <= key
          /\ Pos(g, above) <= Pos(g, m) => key <= Key(t, m)
      BY <2>4 DEF Fits
    <3>4. Pos(h, m) # Pos(h, node) /\ (Pos(h, m) < Pos(h, node) => Pos(g, m) <= Lim(g, "left", above))
          /\ (Pos(h, node) < Pos(h, m) => Pos(g, above) <= Pos(g, m))
      BY <2>1, <2>3, <3>1, <3>2
    <3> QED
      BY <3>3, <3>4
  <2>5. CASE s = "right"
    <3>1. Pos(h, node) = 2 * Pos(g, above) + 1
      BY <1>3, <2>1, <2>5 DEF Off
    <3>2. ~ (Pos(g, m) < Lim(g, "right", above) /\ Pos(g, above) < Pos(g, m))
      BY <2>2, <2>5 DEF Before
    <3>3. /\ Pos(g, m) <= Pos(g, above) => Key(t, m) <= key
          /\ Lim(g, "right", above) <= Pos(g, m) => key <= Key(t, m)
      BY <2>5 DEF Fits
    <3>4. Pos(h, m) # Pos(h, node) /\ (Pos(h, m) < Pos(h, node) => Pos(g, m) <= Pos(g, above))
          /\ (Pos(h, node) < Pos(h, m) => Lim(g, "right", above) <= Pos(g, m))
      BY <2>1, <2>3, <3>1, <3>2
    <3> QED
      BY <3>3, <3>4
  <2> QED
    BY <2>4, <2>5 DEF Sides
<1>7. ~ (Pos(h, node) < Pos(h, node))
  <2>1. Pos(g, above) \in Int /\ Pos(h, node) \in Int
    BY <1>1, <1>3 DEF Off
  <2> QED
    BY <2>1
<1> QED
  BY <1>5, <1>6, <1>7 DEF InOrder

LEMMA MadeNested ==
  ASSUME NEW t, NEW u, NEW M, NEW g, NEW h, NEW node, NEW above, NEW s,
         Kin(t, M), Placed(t, M, g), node \in Nodes, node \notin M, above \in M, s \in Sides,
         Child(t, s, above) = Nil, Made(g, h, M, node, above, s), Root(u) = Root(t),
         \A d \in Sides : Child(u, d, node) = Nil,
         \A z \in M, d \in Sides : Child(u, d, z) =
           IF z = above /\ d = s THEN node ELSE Child(t, d, z)
  PROVE  Typed(M \cup {node}, h) /\ Nested(u, M \cup {node}, h)
<1> DEFINE N == M \cup {node}
           o == Other(s)
<1>1. \A z \in M : Pos(g, z) \in Int /\ \A d \in Sides : Lim(g, d, z) \in Int
  BY DEF Placed, Typed
<1>2. /\ o \in Sides /\ o # s /\ Other(o) = s /\ node # Nil /\ Root(t) \in M \cup {Nil}
      /\ \A d \in Sides : (d = s \/ d = o) /\ Other(d) \in Sides
      /\ \A z \in M, d \in Sides : Child(t, d, z) \in M \cup {Nil}
      /\ Nil \notin M /\ node \notin M
  BY OtherSide, NilNull, KinCells DEF Kin
<1>3. /\ \A z \in M : Pos(h, z) = 2 * Pos(g, z) /\ \A d \in Sides : Lim(h, d, z) = 2 * Lim(g, d, z)
      /\ Pos(h, node) = 2 * Pos(g, above) + Off(s)
      /\ Lim(h, s, node) = 2 * Lim(g, s, above) /\ Lim(h, o, node) = 2 * Pos(g, above)
  BY DEF Made
<1>4. /\ \A z \in M, d \in Sides :
           /\ Lies(g, d, z, z)
           /\ Child(t, d, z) # Nil => /\ Lim(g, d, Child(t, d, z)) = Lim(g, d, z)
                                      /\ Lim(g, Other(d), Child(t, d, z)) = Pos(g, z)
           /\ Child(t, d, z) = Nil =>
                \A m \in M : ~ (Lies(g, d, z, m) /\ Before(d, Pos(g, m), Pos(g, z)))
      /\ \A z \in M, a \in M, d \in Sides :
           Child(t, d, z) = Nil /\ Child(t, Other(d), a) = Nil => Lim(g, d, z) # Pos(g, a)
      /\ Root(t) # Nil => \A m \in M, d \in Sides : Lies(g, d, Root(t), m)
  BY DEF Placed, Nested
<1>5. \A x \in M, y \in M : Pos(g, x) = Pos(g, y) => x = y
  BY DEF Placed, InOrder
<1> HIDE DEF N, o
\* The order of the doubled places, and of node among them.
<1>6. ASSUME NEW d \in Sides, NEW a \in Int
      PROVE  /\ Pos(h, node) \in Int /\ 2 * a \in Int /\ 2 * a # Pos(h, node)
             /\ Before(d, 2 * a, Pos(h, node)) <=>
                  Before(d, a, Pos(g, above)) \/ (a = Pos(g, above) /\ d = o)
             /\ Before(d, Pos(h, node), 2 * a) <=>
                  Before(d, Pos(g, above), a) \/ (a = Pos(g, above) /\ d = s)
  <2>1. Pos(g, above) \in Int
    BY <1>1
  <2> DEFINE b == Pos(g, above)
             c == 2 * b + Off(s)
  <2>2. c = Pos(h, node)
    BY <1>3
  <2>3. /\ c \in Int /\ 2 * a \in Int /\ c # 2 * a
        /\ Before(d, 2 * a, c) <=> Before(d, a, b) \/ (a = b /\ d # s)
        /\ Before(d, c, 2 * a) <=> Before(d, b, a) \/ (a = b /\ d = s)
    BY <2>1, Beside
  <2> HIDE DEF c
  <2> QED
    BY <1>2, <2>2, <2>3
<1>7. Typed(N, h)
  <2>1. \A z \in M : Pos(h, z) \in Int /\ \A d \in Sides : Lim(h, d, z) \in Int
    BY <1>1, <1>3
  <2>2. Pos(h, node) \in Int /\ Lim(h, s, node) \in Int /\ Lim(h, o, node) \in Int
    BY <1>1, <1>2, <1>3 DEF Off
  <2> QED
    BY <1>2, <2>1, <2>2 DEF Typed, N
<1>8. ASSUME NEW x \in M, NEW m \in M, NEW d \in Sides
      PROVE  /\ Lies(h, d, x, m) <=> Lies(g, d, x, m)
             /\ Before(d, Pos(h, m), Pos(h, x)) <=> Before(d, Pos(g, m), Pos(g, x))
             /\ Before(d, Pos(h, m), Pos(h, node)) <=>
                  Before(d, Pos(g, m), Pos(g, above)) \/ (m = above /\ d = o)
             /\ Before(d, Pos(h, node), Pos(h, m)) <=>
                  Before(d, Pos(g, above), Pos(g, m)) \/ (m = above /\ d = s)
             /\ Lies(h, d, x, node) <=> Before(d, Lim(g, d, x), Pos(g, above))
                                        \/ (Lim(g, d, x) = Pos(g, above) /\ d = o)
  <2>1. Pos(g, x) \in Int /\ Pos(g, m) \in Int /\ Lim(g, d, x) \in Int
        /\ Pos(h, x) = 2 * Pos(g, x) /\ Pos(h, m) = 2 * Pos(g, m) /\ Lim(h, d, x) = 2 * Lim(g, d, x)
    BY <1>1, <1>3
  <2> QED
    BY <1>5, <1>6, <2>1, Doubled DEF Lies
<1>9. /\ Before(s, Lim(g, s, above), Pos(g, above)) /\ Before(o, Lim(g, o, above), Pos(g, above))
      /\ \A m \in M : ~ (Before(s, Lim(g, s, above), Pos(g, m)) /\ Before(s, Pos(g, m), Pos(g, above)))
  BY <1>2, <1>4 DEF Lies
<1>10. ASSUME NEW m \in M
       PROVE  /\ Lies(h, s, node, m) <=> Before(s, Lim(g, s, above), Pos(g, m))
              /\ Lies(h, o, node, m) <=> Before(o, Pos(g, above), Pos(g, m))
              /\ Lies(h, s, node, node) /\ Lies(h, o, node, node)
  <2>1. Pos(g, m) \in Int /\ Pos(g, above) \in Int /\ Lim(g, s, above) \in Int
        /\ Pos(h, m) = 2 * Pos(g, m)
    BY <1>1, <1>3
  <2>2. Before(s, 2 * Lim(g, s, above), Pos(h, node)) /\ Before(o, 2 * Pos(g, above), Pos(h, node))
    BY <1>2, <1>6, <1>9, <2>1
  <2> QED
    BY <1>2, <1>3, <2>1, <2>2, Doubled DEF Lies
\* For a member.
<1>11. ASSUME NEW x \in M, NEW d \in Sides
       PROVE  /\ Lies(h, d, x, x)
              /\ Child(u, d, x) # Nil => /\ Lim(h, d, Child(u, d, x)) = Lim(h, d, x)
                                         /\ Lim(h, Other(d), Child(u, d, x)) = Pos(h, x)
              /\ Child(u, d, x) = Nil =>
                   \A m \in N : ~ (Lies(h, d, x, m) /\ Before(d, Pos(h, m), Pos(h, x)))
  <2>1. CASE x = above /\ d = s
    BY <1>2, <1>3, <1>4, <1>8, <2>1 DEF o
  <2>2. CASE ~ (x = above /\ d = s)
    <3>1. Child(u, d, x) = Child(t, d, x)
      BY <2>2
    <3>2. CASE Child(t, d, x) # Nil
      <4>1. Child(t, d, x) \in M /\ Lies(g, d, x, x) /\ Other(d) \in Sides
            /\ Lim(g, d, Child(t, d, x)) = Lim(g, d, x)
            /\ Lim(g, Other(d), Child(t, d, x)) = Pos(g, x)
        BY <1>2, <1>4, <3>2
      <4> QED
        BY <1>3, <1>8, <3>1, <3>2, <4>1
    <3>3. CASE Child(t, d, x) = Nil
      <4>1. /\ Lies(g, d, x, x)
            /\ \A m \in M : ~ (Lies(g, d, x, m) /\ Before(d, Pos(g, m), Pos(g, x)))
        BY <1>4, <3>3
      <4>2. d = o => Lim(g, d, x) # Pos(g, above)
        BY <1>2, <1>4, <3>3
      <4>3. ~ (Lies(h, d, x, node) /\ Before(d, Pos(h, node), Pos(h, x)))
        <5>1. Lies(h, d, x, node) <=> Lies(g, d, x, above)
          BY <1>8, <4>2 DEF Lies
        <5>2. Before(d, Pos(h, node), Pos(h, x)) <=> Before(d, Pos(g, above), Pos(g, x))
          BY <1>8, <2>2
        <5> QED
          BY <4>1, <5>1, <5>2
      <4> QED
        BY <1>8, <3>1, <3>3, <4>1, <4>3 DEF N
    <3> QED
      BY <3>2, <3>3
  <2> QED
    BY <2>1, <2>2
\* For node.
<1>12. ASSUME NEW d \in Sides
       PROVE  /\ Lies(h, d, node, node) /\ Child(u, d, node) = Nil
              /\ \A m \in N : ~ (Lies(h, d, node, m) /\ Before(d, Pos(h, m), Pos(h, node)))
  <2>1. ~ Before(d, Pos(h, node), Pos(h, node))
    BY <1>6 DEF Before, Sides
  <2>2. ASSUME NEW m \in M PROVE ~ (Lies(h, d, node, m) /\ Before(d, Pos(h, m), Pos(h, node)))
    <3>0. Pos(g, m) \in Int /\ Pos(g, above) \in Int
      BY <1>1
    <3>1. CASE d = s
      BY <1>2, <1>8, <1>9, <1>10, <3>1
    <3>2. CASE d = o
      <4>1. ~ (Before(o, Pos(g, above), Pos(g, m)) /\ Before(o, Pos(g, m), Pos(g, above)))
        BY <3>0 DEF Before
      <4>2. ~ Before(o, Pos(g, above), Pos(g, above))
        BY <3>0 DEF Before
      <4> QED
        BY <1>2, <1>8, <1>10, <3>2, <4>1, <4>2
    <3> QED
      BY <1>2, <3>1, <3>2
  <2> QED
    BY <1>2, <1>10, <2>1, <2>2 DEF N
\* No two free sides share their room.
<1>13. ASSUME NEW x \in N, NEW y \in N, NEW d \in Sides, Child(u, d, x) = Nil,
              Child(u, Other(d), y) = Nil
       PROVE  Lim(h, d, x) # Pos(h, y)
  <2>0. Other(d) \in Sides /\ Other(d) # d
    BY OtherSide
  <2>1. CASE y = node
    <3>1. \E a \in Int : Lim(h, d, x) = 2 * a
      <4>1. CASE x \in M
        BY <1>1, <1>3, <4>1
      <4>2. CASE x = node
        <5>1. d = s \/ d = o
          BY <1>2
        <5>2. Lim(h, d, x) = IF d = s THEN 2 * Lim(g, s, above) ELSE 2 * Pos(g, above)
          BY <1>3, <4>2, <5>1
        <5> QED
          BY <1>1, <5>2
      <4> QED
        BY <4>1, <4>2 DEF N
    <3> QED
      BY <1>6, <2>1, <3>1
  <2>2. CASE y \in M /\ x \in M
    <3>1. Child(t, d, x) = Nil /\ Child(t, Other(d), y) = Nil
      BY <1>2, <1>13, <2>0, <2>2
    <3>2. Lim(g, d, x) # Pos(g, y)
      BY <1>4, <2>2, <3>1
    <3> QED
      BY <1>1, <1>3, <2>2, <3>2
  <2>3. CASE y \in M /\ x = node /\ d = s
    <3>1. Child(t, Other(d), y) = Nil
      BY <1>2, <1>13, <2>0, <2>3
    <3>2. Lim(g, d, above) # Pos(g, y)
      BY <1>4, <2>3, <3>1
    <3> QED
      BY <1>1, <1>3, <2>3, <3>2
  <2>4. CASE y \in M /\ x = node /\ d = o
    <3>1. y # above
      BY <1>2, <1>13, <2>4
    <3>2. Pos(g, above) # Pos(g, y)
      BY <1>5, <2>4, <3>1
    <3> QED
      BY <1>1, <1>3, <2>4, <3>2
  <2> QED
    BY <1>2, <2>1, <2>2, <2>3, <2>4 DEF N
<1>14. Root(u) # Nil => \A m \in N, d \in Sides : Lies(h, d, Root(u), m)
  <2>1. ASSUME Root(t) # Nil, NEW d \in Sides
        PROVE  \A m \in N : Lies(h, d, Root(t), m)
    <3>1. Root(t) \in M /\ \A m \in M : Lies(g, d, Root(t), m)
      BY <1>2, <1>4, <2>1
    <3>2. Before(d, Lim(g, d, Root(t)), Pos(g, above))
      BY <3>1 DEF Lies
    <3>3. \A m \in M : Lies(h, d, Root(t), m)
      BY <1>8, <3>1
    <3>4. Lies(h, d, Root(t), node)
      BY <1>8, <3>1, <3>2
    <3> QED
      BY <3>3, <3>4 DEF N
  <2> QED
    BY <2>1
<1>15. Nested(u, N, h)
  <2>1. \A x \in N, d \in Sides :
       /\ Lies(h, d, x, x)
       /\ Child(u, d, x) # Nil => /\ Lim(h, d, Child(u, d, x)) = Lim(h, d, x)
                                  /\ Lim(h, Other(d), Child(u, d, x)) = Pos(h, x)
       /\ Child(u, d, x) = Nil =>
            \A m \in N : ~ (Lies(h, d, x, m) /\ Before(d, Pos(h, m), Pos(h, x)))
    BY <1>11, <1>12 DEF N
  <2> QED
    BY <1>13, <1>14, <2>1 DEF Nested
<1> QED
  BY <1>7, <1>15 DEF N

\* The place of a node that is alone.
LEMMA AlonePlaced ==
  ASSUME NEW u, NEW node, node # Nil, Root(u) = node, \A d \in Sides : Child(u, d, node) = Nil
  PROVE  \E h : Placed(u, {node}, h)
<1> DEFINE h == [pos |-> [z \in {node} |-> 0], left |-> [z \in {node} |-> 0-1],
                 right |-> [z \in {node} |-> 1]]
<1>1. Pos(h, node) = 0 /\ Lim(h, "left", node) = 0-1 /\ Lim(h, "right", node) = 1
  BY DEF Pos, Lim
<1> HIDE DEF h
<1>2. Typed({node}, h)
  BY <1>1 DEF Typed, Sides
<1>3. InOrder(u, {node}, h)
  BY <1>1 DEF InOrder
<1>4. /\ \A d \in Sides : Lies(h, d, node, node) /\ ~ Before(d, Pos(h, node), Pos(h, node))
      /\ \A d \in Sides : Lim(h, d, node) # Pos(h, node)
  BY <1>1 DEF Lies, Before, Sides
<1>5. Nested(u, {node}, h)
  BY <1>4 DEF Nested
<1> QED
  BY <1>2, <1>3, <1>5 DEF Placed

LEMMA HangShaped ==
  ASSUME NEW t, NEW u, NEW M, NEW node, NEW key, u = Hang(t, node, key, Descend(t, key)),
         Shaped(t, M), node \in Nodes, node \notin M, key \in Nat
  PROVE  /\ Shaped(u, M \cup {node}) /\ Parent(u, Nil) = Parent(t, Nil)
         /\ \A z \in Cells : Key(u, z) = IF z = node THEN key ELSE Key(t, z)
<1> DEFINE above == Descend(t, key)
           s == SideFor(t, key, above)
<1>1. PICK g : Placed(t, M, g)
  BY DEF Shaped
<1>2. Kin(t, M) /\ t \in Trees
  BY DEF Shaped, Kin
<1>3. \/ M = {} /\ Root(t) = Nil /\ above = Nil
      \/ above \in M /\ Root(t) # Nil /\ Child(t, s, above) = Nil /\ Fits(t, M, g, key, s, above)
  BY <1>1, <1>2, DescendIs
<1>4. M \subseteq Cells /\ Nil \in Cells /\ Nil \notin M /\ M \subseteq Nodes
      /\ node \in Cells /\ node # Nil
  BY <1>2, KinCells, NilNull DEF Cells
<1>5. s \in Sides
  BY BelowIs
<1> HIDE DEF above, s
<1>6. above \in Cells /\ above # node
  BY <1>3, <1>4
<1>7. /\ u \in Trees /\ Root(u) = IF Root(t) = Nil THEN node ELSE Root(t)
      /\ \A z \in Cells : Parent(u, z) = IF z = node THEN above ELSE Parent(t, z)
      /\ \A z \in Cells, d \in Sides : Child(u, d, z) =
           IF z = node THEN Nil
           ELSE IF Root(t) # Nil /\ z = above /\ d = s THEN node ELSE Child(t, d, z)
      /\ \A z \in Cells : Key(u, z) = IF z = node THEN key ELSE Key(t, z)
  BY <1>2, <1>6, HangIs DEF above, s
<1>8. Kin(u, M \cup {node})
  BY <1>2, <1>3, HangKin DEF above, s
<1>9. ASSUME M = {}, Root(t) = Nil PROVE \E h : Placed(u, M \cup {node}, h)
  <2>1. M \cup {node} = {node} /\ Root(u) = node /\ \A d \in Sides : Child(u, d, node) = Nil
    BY <1>4, <1>7, <1>9
  <2> QED
    BY <1>4, <2>1, AlonePlaced
<1>10. ASSUME above \in M, Root(t) # Nil, Child(t, s, above) = Nil, Fits(t, M, g, key, s, above)
       PROVE  \E h : Placed(u, M \cup {node}, h)
  <2>1. PICK h : Made(g, h, M, node, above, s)
    BY <1>5, MadeExists
  <2>2. Key(u, node) = key /\ \A z \in M : Key(u, z) = Key(t, z)
    BY <1>4, <1>7
  <2>3. InOrder(u, M \cup {node}, h)
    BY <1>1, <1>5, <1>10, <2>1, <2>2, MadeInOrder DEF s
  <2>4. /\ Root(u) = Root(t) /\ \A d \in Sides : Child(u, d, node) = Nil
        /\ \A z \in M, d \in Sides : Child(u, d, z) =
             IF z = above /\ d = s THEN node ELSE Child(t, d, z)
    BY <1>4, <1>7, <1>10
  <2>5. Typed(M \cup {node}, h) /\ Nested(u, M \cup {node}, h)
    BY <1>1, <1>2, <1>5, <1>10, <2>1, <2>4, MadeNested
  <2> QED
    BY <2>3, <2>5 DEF Placed
<1>11. Parent(u, Nil) = Parent(t, Nil)
  BY <1>4, <1>7
<1> QED
  BY <1>3, <1>7, <1>8, <1>9, <1>10, <1>11 DEF Shaped

\* rbtree_insert.
LEMMA InsertShaped ==
  ASSUME NEW t, NEW u, NEW M, NEW node, NEW key, u = InsertNode(t, node, key),
         Shaped(t, M), node \in Nodes, node \notin M, key \in Nat
  PROVE  /\ Shaped(u, M \cup {node}) /\ Parent(u, Nil) = Parent(t, Nil)
         /\ \A z \in Cells : Key(u, z) = IF z = node THEN key ELSE Key(t, z)
<1> DEFINE v == Hang(t, node, key, Descend(t, key))
<1>1. u = InsertFixup(v, node)
  BY DEF InsertNode
<1>2. /\ Shaped(v, M \cup {node}) /\ Parent(v, Nil) = Parent(t, Nil)
      /\ \A z \in Cells : Key(v, z) = IF z = node THEN key ELSE Key(t, z)
  BY HangShaped
<1> HIDE DEF v
<1>3. Rebuilt(v, InsertFixup(v, node), M \cup {node})
  BY <1>2, FixupsShaped
<1> QED
  BY <1>1, <1>2, <1>3 DEF Rebuilt

----------------------------------------------------------------------------
(* A node with one child at most is taken out: its child hangs where it did. *)

\* x leaves the tree t of M, and what is left is u.  The node that may have a child
\* has it on side e.
Skip(t, u, M, x, e) ==
  /\ u \in Trees /\ x \in M /\ e \in Sides /\ Child(t, Other(e), x) = Nil
  /\ Root(u) = IF Root(t) = x THEN Child(t, e, x) ELSE Root(t)
  /\ \A z \in Nodes : Parent(u, z) = IF z = x THEN Null
                                     ELSE IF Parent(t, z) = x THEN Parent(t, x) ELSE Parent(t, z)
  /\ \A z \in Cells, d \in Sides :
       Child(u, d, z) = IF z = x THEN Null
                        ELSE IF Child(t, d, z) = x THEN Child(t, e, x) ELSE Child(t, d, z)
  /\ Parent(u, Nil) \in (M \ {x}) \cup {Nil}

\* Without a member.
Others(M, x) == M \ {x}

\* Around a member.
LEMMA Around ==
  ASSUME NEW t, NEW M, NEW g, NEW x, Kin(t, M), Placed(t, M, g), x \in M
  PROVE  /\ Parent(t, x) # x
         /\ \A d \in Sides : Child(t, d, x) # x
         /\ \A z \in M : Parent(t, z) = x => \E d \in Sides : Child(t, d, x) = z
         /\ \A z \in M, d \in Sides : Child(t, d, z) = x => Parent(t, x) = z
<1>1. Nil \notin M
  BY KinCells
<1>2. ASSUME NEW d \in Sides PROVE Child(t, d, x) # x
  <2>1. Lies(g, Other(d), x, x) /\ Pos(g, x) \in Int /\ Other(d) \in Sides
    BY OtherSide DEF Placed, Nested, Typed
  <2>2. ~ Before(Other(d), Pos(g, x), Pos(g, x))
    BY <2>1, BeforeIs
  <2>3. Child(t, d, x) = x => Lim(g, Other(d), x) = Pos(g, x)
    BY <1>1 DEF Placed, Nested
  <2> QED
    BY <2>1, <2>2, <2>3 DEF Lies
<1>3. \A z \in M : Parent(t, z) = x => \E d \in Sides : Child(t, d, x) = z
  BY <1>1 DEF Kin
<1>4. \A z \in M, d \in Sides : Child(t, d, z) = x => Parent(t, x) = z
  BY <1>1 DEF Kin
<1>5. Parent(t, x) # x
  BY <1>2, <1>3
<1> QED
  BY <1>2, <1>3, <1>4, <1>5

\* A root without children is alone.
LEMMA RootAlone ==
  ASSUME NEW t, NEW M, NEW g, NEW x, Kin(t, M), Placed(t, M, g), x \in M, Root(t) = x,
         \A d \in Sides : Child(t, d, x) = Nil
  PROVE  M = {x}
<1>1. Nil \notin M
  BY KinCells
<1>2. ASSUME NEW m \in M PROVE m = x
  <2>1. /\ Lies(g, "left", x, m) /\ Lies(g, "right", x, m)
        /\ ~ (Lies(g, "left", x, m) /\ Before("left", Pos(g, m), Pos(g, x)))
        /\ ~ (Lies(g, "right", x, m) /\ Before("right", Pos(g, m), Pos(g, x)))
    BY <1>1 DEF Placed, Nested, Sides
  <2>2. Pos(g, m) \in Int /\ Pos(g, x) \in Int
    BY DEF Placed, Typed
  <2>3. Pos(g, m) = Pos(g, x)
    BY <2>1, <2>2 DEF Before
  <2> QED
    BY <2>3 DEF Placed, InOrder
<1> QED
  BY <1>2

LEMMA SkipKin ==
  ASSUME NEW t, NEW u, NEW M, NEW g, NEW x, NEW e,
         Kin(t, M), Placed(t, M, g), Skip(t, u, M, x, e)
  PROVE  Kin(u, Others(M, x))
<1> DEFINE N == M \ {x}
           temp == Child(t, e, x)
           above == Parent(t, x)
<1>1. Nil \notin M /\ M \subseteq Nodes /\ M \subseteq Cells /\ Nil \in Cells /\ Null \notin Cells
      /\ \A z \in Nodes : z \in Cells
  BY KinCells, NilNull DEF Cells
<1>2. /\ u \in Trees /\ x \in M /\ e \in Sides /\ Child(t, Other(e), x) = Nil
      /\ Root(u) = IF Root(t) = x THEN temp ELSE Root(t)
      /\ \A z \in Nodes : Parent(u, z) = IF z = x THEN Null
                                     ELSE IF Parent(t, z) = x THEN above ELSE Parent(t, z)
      /\ \A z \in Cells, d \in Sides :
           Child(u, d, z) = IF z = x THEN Null
                            ELSE IF Child(t, d, z) = x THEN temp ELSE Child(t, d, z)
      /\ Parent(u, Nil) \in N \cup {Nil}
  BY DEF Skip
<1>3. /\ Root(t) \in M
      /\ \A z \in M : /\ Parent(t, z) \in M \cup {Nil}
                      /\ (Parent(t, z) = Nil) <=> (z = Root(t))
                      /\ Parent(t, z) # Nil => \E d \in Sides : Child(t, d, Parent(t, z)) = z
      /\ \A z \in M, d \in Sides :
           /\ Child(t, d, z) \in M \cup {Nil}
           /\ Child(t, d, z) # Nil => /\ Parent(t, Child(t, d, z)) = z
                                      /\ Child(t, Other(d), z) # Child(t, d, z)
      /\ \A z \in Nodes \ M : Parent(t, z) = Null /\ \A d \in Sides : Child(t, d, z) = Null
      /\ \A d \in Sides : Child(t, d, Nil) = Nil
  BY <1>2 DEF Kin
<1>4. /\ above # x /\ temp # x /\ above \in N \cup {Nil} /\ temp \in N \cup {Nil}
      /\ \A z \in M : Parent(t, z) = x => z = temp
      /\ \A z \in M, d \in Sides : Child(t, d, z) = x => above = z
      /\ temp # Nil => Parent(t, temp) = x
  <2>1. above # x /\ temp # x /\ (\A z \in M, d \in Sides : Child(t, d, z) = x => above = z)
    BY <1>2, Around
  <2>2. ASSUME NEW z \in M, Parent(t, z) = x PROVE z = temp
    <3>1. PICK d \in Sides : Child(t, d, x) = z
      BY <1>2, <2>2, Around
    <3>2. d = e \/ d = Other(e)
      BY <1>2, OtherSide
    <3> QED
      BY <1>1, <1>2, <3>1, <3>2
  <2> QED
    BY <1>2, <1>3, <2>1, <2>2
<1>5. \A d \in Sides : Other(d) \in Sides
  BY OtherSide
<1>6. Root(u) \in N \cup {Nil} /\ (Root(u) = Nil => N = {})
  <2>1. ASSUME Root(t) = x, temp = Nil PROVE N = {}
    <3>1. \A d \in Sides : Child(t, d, x) = Nil
      BY <1>2, <2>1, OtherSide
    <3>2. M = {x}
      BY <1>2, <2>1, <3>1, RootAlone
    <3> QED
      BY <3>2
  <2> QED
    BY <1>1, <1>2, <1>3, <1>4, <2>1
<1> HIDE DEF N, temp, above
<1>7. N = M \ {x} /\ N \subseteq M /\ x \notin N
  BY DEF N
<1>8. ASSUME NEW z \in N
      PROVE  /\ Parent(u, z) \in N \cup {Nil}
             /\ (Parent(u, z) = Nil) <=> (z = Root(u))
             /\ Parent(u, z) # Nil => \E d \in Sides : Child(u, d, Parent(u, z)) = z
  <2>1. z \in M /\ z # x /\ z \in Nodes /\ z # Nil
    BY <1>1, <1>7
  <2>2. CASE Parent(t, z) = x
    <3>1. z = temp /\ Parent(u, z) = above
      BY <1>2, <1>4, <2>1, <2>2
    <3>2. (above = Nil) <=> (x = Root(t))
      BY <1>2, <1>3 DEF above
    <3>3. z # Root(t)
      BY <1>1, <1>2, <1>3, <2>1, <2>2
    <3>4. (Parent(u, z) = Nil) <=> (z = Root(u))
      BY <1>2, <3>1, <3>2, <3>3
    <3>5. ASSUME above # Nil PROVE \E d \in Sides : Child(u, d, above) = z
      <4>1. PICK d \in Sides : Child(t, d, above) = x
        BY <1>2, <1>3, <3>5 DEF above
      <4>2. above \in Cells /\ above # x
        BY <1>1, <1>4, <1>7
      <4>3. Child(u, d, above) = temp
        BY <1>2, <4>1, <4>2
      <4> QED
        BY <3>1, <4>3
    <3> QED
      BY <1>4, <3>1, <3>4, <3>5
  <2>3. CASE Parent(t, z) # x
    <3>1. Parent(u, z) = Parent(t, z) /\ Parent(t, z) \in N \cup {Nil} /\ z # temp
      BY <1>2, <1>3, <1>4, <1>7, <2>1, <2>3
    <3>2. (Parent(u, z) = Nil) <=> (z = Root(u))
      BY <1>2, <1>3, <2>1, <3>1
    <3>3. ASSUME Parent(t, z) # Nil PROVE \E d \in Sides : Child(u, d, Parent(t, z)) = z
      <4>1. PICK d \in Sides : Child(t, d, Parent(t, z)) = z
        BY <1>3, <2>1, <3>3
      <4>2. Child(u, d, Parent(t, z)) = z
        BY <1>1, <1>2, <1>7, <2>1, <2>3, <3>1, <4>1
      <4> QED
        BY <4>2
    <3> QED
      BY <3>1, <3>2, <3>3
  <2> QED
    BY <2>2, <2>3
<1>9. ASSUME NEW z \in N, NEW d \in Sides
      PROVE  /\ Child(u, d, z) \in N \cup {Nil}
             /\ Child(u, d, z) # Nil => /\ Parent(u, Child(u, d, z)) = z
                                        /\ Child(u, Other(d), z) # Child(u, d, z)
  <2>1. z \in M /\ z # x /\ z \in Cells /\ Other(d) \in Sides
    BY <1>1, <1>5, <1>7
  <2>2. /\ Child(t, d, z) \in M \cup {Nil}
        /\ Child(t, d, z) # Nil => /\ Parent(t, Child(t, d, z)) = z
                                   /\ Child(t, Other(d), z) # Child(t, d, z)
        /\ Child(t, Other(d), z) \in M \cup {Nil}
        /\ Child(t, Other(d), z) # Nil => Parent(t, Child(t, Other(d), z)) = z
    BY <1>3, <2>1
  <2>3. /\ Child(u, d, z) = IF Child(t, d, z) = x THEN temp ELSE Child(t, d, z)
        /\ Child(u, Other(d), z) = IF Child(t, Other(d), z) = x THEN temp ELSE Child(t, Other(d), z)
    BY <1>2, <2>1
  <2>4. CASE Child(t, d, z) = x
    <3>1. z = above /\ Child(t, Other(d), z) # x /\ Child(u, d, z) = temp
          /\ Child(u, Other(d), z) = Child(t, Other(d), z)
      BY <1>1, <1>2, <1>4, <2>1, <2>2, <2>3, <2>4
    <3>2. temp # Nil => /\ Parent(u, temp) = z /\ Child(t, Other(d), z) # temp
      BY <1>1, <1>2, <1>4, <1>7, <2>1, <2>2, <3>1
    <3> QED
      BY <1>4, <3>1, <3>2
  <2>5. CASE Child(t, d, z) # x
    <3>1. Child(u, d, z) = Child(t, d, z) /\ Child(t, d, z) \in N \cup {Nil}
      BY <1>7, <2>2, <2>3, <2>5
    <3>2. ASSUME Child(t, d, z) # Nil
          PROVE  Parent(u, Child(t, d, z)) = z /\ Child(u, Other(d), z) # Child(t, d, z)
      <4>1. Parent(t, Child(t, d, z)) = z /\ Child(t, Other(d), z) # Child(t, d, z)
            /\ Child(t, d, z) \in Nodes
        BY <1>1, <1>7, <2>2, <3>1, <3>2
      <4>2. Child(t, d, z) # temp
        BY <1>4, <2>1, <3>2, <4>1
      <4> QED
        BY <1>2, <2>1, <2>3, <2>5, <4>1, <4>2
    <3> QED
      BY <3>1, <3>2
  <2> QED
    BY <2>4, <2>5
<1>10. ASSUME NEW z \in Nodes \ N
       PROVE  Parent(u, z) = Null /\ \A d \in Sides : Child(u, d, z) = Null
  <2>1. z = x \/ z \in Nodes \ M
    BY <1>7
  <2> QED
    BY <1>1, <1>2, <1>3, <2>1
<1>11. \A d \in Sides : Child(u, d, Nil) = Nil
  BY <1>1, <1>2, <1>3
<1>12. u \in Trees /\ N \subseteq Nodes /\ Parent(u, Nil) \in N \cup {Nil}
  BY <1>1, <1>2, <1>7
<1>13. Kin(u, N)
  BY <1>6, <1>8, <1>9, <1>10, <1>11, <1>12 DEF Kin
<1> QED
  BY <1>13 DEF N, Others

\* The room of x goes to its neighbours.
LEMMA SkipPlaced ==
  ASSUME NEW t, NEW u, NEW M, NEW g, NEW x, NEW e,
         Kin(t, M), Placed(t, M, g), Skip(t, u, M, x, e), \A z \in M : Key(u, z) = Key(t, z)
  PROVE  KeepPlaces(u, Others(M, x), g)
<1> DEFINE N == M \ {x}
           temp == Child(t, e, x)
<1>1. Nil \notin M /\ M \subseteq Nodes /\ M \subseteq Cells /\ Nil \in Cells
  BY KinCells
<1>2. /\ x \in M /\ e \in Sides /\ Child(t, Other(e), x) = Nil
      /\ Root(u) = IF Root(t) = x THEN temp ELSE Root(t)
      /\ \A z \in M, d \in Sides : z # x =>
           Child(u, d, z) = IF Child(t, d, z) = x THEN temp ELSE Child(t, d, z)
  BY <1>1 DEF Skip
<1>3. /\ Root(t) \in M
      /\ \A z \in M, d \in Sides :
           /\ Child(t, d, z) \in M \cup {Nil}
           /\ Child(t, d, z) = x => /\ Parent(t, x) = z /\ Child(t, Other(d), z) # x
  BY <1>1, <1>2 DEF Kin
<1>4. temp \in M \cup {Nil} /\ temp # x
  BY <1>2, <1>3, Around
<1>5. PICK h : \A z \in M :
                 /\ Pos(h, z) = Pos(g, z)
                 /\ \A d \in Sides : Lim(h, d, z) = IF Lim(g, d, z) = Pos(g, x) THEN Lim(g, d, x)
                                                    ELSE Lim(g, d, z)
  <2> DEFINE L(d, z) == IF Lim(g, d, z) = Pos(g, x) THEN Lim(g, d, x) ELSE Lim(g, d, z)
             h == [pos |-> [z \in M |-> Pos(g, z)], left |-> [z \in M |-> L("left", z)],
                   right |-> [z \in M |-> L("right", z)]]
  <2> HIDE DEF L
  <2>1. \A z \in M : /\ Pos(h, z) = Pos(g, z)
                     /\ Lim(h, "left", z) = L("left", z) /\ Lim(h, "right", z) = L("right", z)
    BY DEF Pos, Lim
  <2> HIDE DEF h
  <2>2. \A z \in M, d \in Sides : Lim(h, d, z) = L(d, z)
    BY <2>1 DEF Sides
  <2> QED
    BY <2>1, <2>2 DEF L
<1>6. \A z \in M : Pos(g, z) \in Int /\ \A d \in Sides : Lim(g, d, z) \in Int
  BY DEF Placed, Typed
<1>7. Typed(N, h)
  BY <1>2, <1>5, <1>6 DEF Typed
<1>8. InOrder(u, N, h)
  BY <1>5 DEF Placed, InOrder
<1>9. /\ \A z \in M, d \in Sides :
           /\ Before(d, Lim(g, d, z), Pos(g, z))
           /\ Child(t, d, z) # Nil => /\ Lim(g, d, Child(t, d, z)) = Lim(g, d, z)
                                      /\ Lim(g, Other(d), Child(t, d, z)) = Pos(g, z)
           /\ Child(t, d, z) = Nil =>
                \A m \in M : ~ (Before(d, Lim(g, d, z), Pos(g, m)) /\ Before(d, Pos(g, m), Pos(g, z)))
      /\ \A z \in M, y \in M, d \in Sides :
           Child(t, d, z) = Nil /\ Child(t, Other(d), y) = Nil => Lim(g, d, z) # Pos(g, y)
      /\ Root(t) # Nil => \A m \in M, d \in Sides : Before(d, Lim(g, d, Root(t)), Pos(g, m))
  BY DEF Placed, Nested, Lies
<1>10. \A z \in M, d \in Sides : Lim(g, d, z) # Pos(g, z)
  BY <1>6, <1>9, BeforeIs
<1>11. \A z \in M, y \in M : Pos(g, z) = Pos(g, y) => z = y
  BY DEF Placed, InOrder
<1>12. \A d \in Sides : Other(d) \in Sides /\ Other(Other(d)) = d /\ (d = e \/ d = Other(e))
  BY <1>2, OtherSide
<1>13. ASSUME temp = Nil PROVE \A d \in Sides : Child(t, d, x) = Nil
  BY <1>2, <1>12, <1>13
<1> HIDE DEF N, temp
<1>14. N \subseteq M /\ x \notin N /\ N = M \ {x}
  BY DEF N
\* Where the room went to, the other side of x had a child.
<1>15. ASSUME NEW z \in N, NEW d \in Sides, Child(u, d, z) = Nil, Lim(g, d, z) = Pos(g, x)
       PROVE  Child(t, d, z) = Nil /\ Child(t, d, x) = Nil /\ temp # Nil /\ temp = Child(t, Other(d), x)
  <2>1. Child(t, d, z) # x
    <3>1. Child(t, d, z) = x => Lim(g, d, x) = Lim(g, d, z)
      BY <1>1, <1>2, <1>9, <1>14
    <3> QED
      BY <1>2, <1>10, <1>15, <3>1
  <2>2. Child(t, d, z) = Nil
    BY <1>2, <1>14, <1>15, <2>1
  <2>3. Child(t, Other(d), x) # Nil
    BY <1>2, <1>9, <1>14, <1>15, <2>2
  <2>4. Other(d) = e
    BY <1>2, <1>12, <2>3
  <2> QED
    BY <1>2, <1>12, <2>2, <2>3, <2>4 DEF temp
<1>16. ASSUME NEW z \in N, NEW d \in Sides
       PROVE  Before(d, Lim(h, d, z), Pos(h, z))
  <2>1. z \in M /\ Pos(h, z) = Pos(g, z) /\ Before(d, Lim(g, d, z), Pos(g, z))
        /\ Before(d, Lim(g, d, x), Pos(g, x))
        /\ Lim(h, d, z) = IF Lim(g, d, z) = Pos(g, x) THEN Lim(g, d, x) ELSE Lim(g, d, z)
    BY <1>2, <1>5, <1>9, <1>14
  <2>2. Pos(g, z) \in Int /\ Pos(g, x) \in Int /\ Lim(g, d, z) \in Int /\ Lim(g, d, x) \in Int
    BY <1>2, <1>6, <2>1
  <2> QED
    BY <2>1, <2>2, BeforeIs
<1>17. ASSUME NEW z \in N, NEW d \in Sides, Child(u, d, z) # Nil
       PROVE  /\ Lim(h, d, Child(u, d, z)) = Lim(h, d, z)
              /\ Lim(h, Other(d), Child(u, d, z)) = Pos(h, z)
  <2>0. z \in M /\ z # x /\ Other(d) \in Sides /\ Pos(g, z) # Pos(g, x)
    BY <1>2, <1>11, <1>12, <1>14
  <2>1. CASE Child(t, d, z) = x
    <3>1. Child(u, d, z) = temp /\ temp # Nil /\ temp \in M
      BY <1>2, <1>4, <1>17, <2>0, <2>1
    <3>2. Lim(g, d, x) = Lim(g, d, z) /\ Lim(g, Other(d), x) = Pos(g, z)
      BY <1>1, <1>2, <1>9, <2>0, <2>1
    <3>3. Lim(g, e, temp) = Lim(g, e, x) /\ Lim(g, Other(e), temp) = Pos(g, x)
      BY <1>2, <1>9, <3>1 DEF temp
    <3>4. Lim(g, d, x) # Pos(g, x)
      BY <1>2, <1>10
    <3>5. CASE d = e
      BY <1>5, <2>0, <3>1, <3>2, <3>3, <3>4, <3>5
    <3>6. CASE d = Other(e)
      <4>1. Other(d) = e
        BY <1>2, <1>12, <3>6
      <4> QED
        BY <1>5, <2>0, <3>1, <3>2, <3>3, <3>4, <3>6, <4>1
    <3> QED
      BY <1>12, <3>5, <3>6
  <2>2. CASE Child(t, d, z) # x
    <3>1. Child(u, d, z) = Child(t, d, z)
      BY <1>2, <2>0, <2>2
    <3>2. Child(t, d, z) \in M /\ Lim(g, d, Child(t, d, z)) = Lim(g, d, z)
          /\ Lim(g, Other(d), Child(t, d, z)) = Pos(g, z)
      BY <1>3, <1>9, <1>17, <2>0, <3>1
    <3> QED
      BY <1>5, <2>0, <3>1, <3>2
  <2> QED
    BY <2>1, <2>2
<1>18. ASSUME NEW z \in N, NEW d \in Sides, Child(u, d, z) = Nil, NEW m \in N,
              Before(d, Lim(h, d, z), Pos(h, m)), Before(d, Pos(h, m), Pos(h, z))
       PROVE  FALSE
  <2>0. /\ z \in M /\ z # x /\ m \in M /\ Other(d) \in Sides /\ Pos(h, m) = Pos(g, m) /\ Pos(h, z) = Pos(g, z)
        /\ Pos(g, m) # Pos(g, x) /\ Pos(g, m) \in Int /\ Pos(g, x) \in Int /\ Pos(g, z) \in Int
    BY <1>2, <1>5, <1>6, <1>11, <1>12, <1>14
  <2>1. CASE Lim(g, d, z) = Pos(g, x)
    <3>1. Child(t, d, z) = Nil /\ Child(t, d, x) = Nil
      BY <1>15, <1>18, <2>1
    <3>2. Lim(h, d, z) = Lim(g, d, x)
      BY <1>5, <2>0, <2>1
    <3>3. ~ Before(d, Pos(g, x), Pos(g, m)) /\ ~ Before(d, Pos(g, m), Pos(g, x))
      BY <1>2, <1>9, <1>18, <2>0, <2>1, <3>1, <3>2
    <3> QED
      BY <2>0, <3>3, BeforeIs
  <2>2. CASE Lim(g, d, z) # Pos(g, x) /\ Child(t, d, z) # x
    <3>1. Child(t, d, z) = Nil /\ Lim(h, d, z) = Lim(g, d, z)
      BY <1>2, <1>5, <1>18, <2>0, <2>2
    <3> QED
      BY <1>9, <1>18, <2>0, <3>1
  <2>3. CASE Child(t, d, z) = x
    <3>1. temp = Nil
      BY <1>2, <1>18, <2>0, <2>3
    <3>2. Child(t, d, x) = Nil /\ Child(t, Other(d), x) = Nil
      BY <1>13, <2>0, <3>1
    <3>3. Lim(g, d, x) = Lim(g, d, z) /\ Lim(g, Other(d), x) = Pos(g, z)
      BY <1>1, <1>2, <1>9, <2>0, <2>3
    <3>4. Lim(h, d, z) = Lim(g, d, x)
      BY <1>5, <2>0, <3>3
    <3>5. ~ Before(d, Pos(g, m), Pos(g, x))
      BY <1>2, <1>9, <1>18, <2>0, <3>2, <3>4
    <3>6. ~ (Before(Other(d), Pos(g, z), Pos(g, m)) /\ Before(Other(d), Pos(g, m), Pos(g, x)))
      BY <1>2, <1>9, <2>0, <3>2, <3>3
    <3>7. Before(Other(d), Pos(g, z), Pos(g, m))
      BY <1>18, <2>0, BeforeIs
    <3>8. Before(d, Pos(g, x), Pos(g, m))
      BY <2>0, <3>5, BeforeIs
    <3>9. Before(Other(d), Pos(g, m), Pos(g, x))
      BY <2>0, <3>8, BeforeIs
    <3> QED
      BY <3>6, <3>7, <3>9
  <2> QED
    BY <2>1, <2>2, <2>3
<1>19. ASSUME NEW z \in N, NEW y \in N, NEW d \in Sides,
              Child(u, d, z) = Nil, Child(u, Other(d), y) = Nil, Lim(h, d, z) = Pos(h, y)
       PROVE  FALSE
  <2>0. /\ z \in M /\ z # x /\ y \in M /\ y # x /\ Other(d) \in Sides /\ Other(Other(d)) = d
        /\ Pos(h, y) = Pos(g, y)
    BY <1>5, <1>12, <1>14
  <2>1. CASE Lim(g, d, z) = Pos(g, x)
    <3>1. Child(t, d, x) = Nil /\ temp # Nil
      BY <1>15, <1>19, <2>1
    <3>2. Lim(g, d, x) = Pos(g, y)
      BY <1>5, <1>19, <2>0, <2>1
    <3>3. Child(t, Other(d), y) # Nil
      BY <1>2, <1>9, <2>0, <3>1, <3>2
    <3> QED
      BY <1>2, <1>19, <2>0, <3>1, <3>3
  <2>2. CASE Lim(g, d, z) # Pos(g, x)
    <3>1. Lim(g, d, z) = Pos(g, y)
      BY <1>5, <1>19, <2>0, <2>2
    <3>2. ~ (Child(t, d, z) = Nil /\ Child(t, Other(d), y) = Nil)
      BY <1>9, <2>0, <3>1
    <3>3. Child(t, d, z) = x \/ Child(t, Other(d), y) = x
      BY <1>2, <1>19, <2>0, <3>2
    <3>4. temp = Nil
      BY <1>2, <1>19, <2>0, <3>3
    <3>5. Child(t, d, x) = Nil /\ Child(t, Other(d), x) = Nil
      BY <1>13, <2>0, <3>4
    <3>6. ASSUME Child(t, d, z) = x PROVE FALSE
      <4>1. Lim(g, d, x) = Pos(g, y)
        BY <1>1, <1>2, <1>9, <2>0, <3>1, <3>6
      <4>2. Child(t, Other(d), y) # Nil
        BY <1>2, <1>9, <2>0, <3>5, <4>1
      <4>3. Child(t, Other(d), y) = x
        BY <1>2, <1>19, <2>0, <4>2
      <4> QED
        BY <1>3, <2>0, <3>6, <4>3
    <3>7. ASSUME Child(t, d, z) = Nil, Child(t, Other(d), y) = x PROVE FALSE
      <4>1. Lim(g, Other(Other(d)), x) = Pos(g, y)
        BY <1>1, <1>2, <1>9, <2>0, <3>7
      <4>2. Lim(g, d, z) = Lim(g, d, x)
        BY <2>0, <3>1, <4>1
      <4> QED
        BY <1>2, <2>0, <3>5, <3>7, <4>2, SameGap
    <3> QED
      BY <1>2, <1>19, <2>0, <3>3, <3>6, <3>7
  <2> QED
    BY <2>1, <2>2
<1>20. ASSUME Root(u) # Nil, NEW m \in N, NEW d \in Sides
       PROVE  Before(d, Lim(h, d, Root(u)), Pos(h, m))
  <2>0. /\ m \in M /\ m # x /\ Root(t) # Nil /\ Pos(h, m) = Pos(g, m) /\ Pos(g, x) \in Int
        /\ \A y \in M : Before(d, Lim(g, d, Root(t)), Pos(g, y))
    BY <1>1, <1>3, <1>5, <1>6, <1>2, <1>9, <1>14
  <2>1. CASE Root(t) # x
    <3>1. Before(d, Lim(g, d, Root(t)), Pos(g, x)) /\ Lim(g, d, Root(t)) \in Int
      BY <1>2, <1>3, <1>6, <2>0
    <3>2. Lim(g, d, Root(t)) # Pos(g, x)
      BY <2>0, <3>1, BeforeIs
    <3> QED
      BY <1>2, <1>3, <1>5, <2>0, <2>1, <3>2
  <2>2. CASE Root(t) = x
    <3>1. Root(u) = temp /\ temp \in M
      BY <1>2, <1>4, <1>20, <2>2
    <3>2. Lim(g, e, temp) = Lim(g, e, x) /\ Lim(g, Other(e), temp) = Pos(g, x)
      BY <1>2, <1>9, <1>20, <3>1 DEF temp
    <3>3. Lim(h, d, temp) = Lim(g, d, x)
      BY <1>2, <1>5, <1>10, <1>12, <3>1, <3>2
    <3> QED
      BY <2>0, <2>2, <3>1, <3>3
  <2> QED
    BY <2>1, <2>2
<1>21. Nested(u, N, h)
  <2>1. \A z \in N, d \in Sides :
          /\ Lies(h, d, z, z)
          /\ Child(u, d, z) # Nil => /\ Lim(h, d, Child(u, d, z)) = Lim(h, d, z)
                                     /\ Lim(h, Other(d), Child(u, d, z)) = Pos(h, z)
          /\ Child(u, d, z) = Nil =>
               \A m \in N : ~ (Lies(h, d, z, m) /\ Before(d, Pos(h, m), Pos(h, z)))
    BY <1>16, <1>17, <1>18 DEF Lies
  <2>2. \A z \in N, y \in N, d \in Sides :
          Child(u, d, z) = Nil /\ Child(u, Other(d), y) = Nil => Lim(h, d, z) # Pos(h, y)
    BY <1>19
  <2>3. Root(u) # Nil => \A m \in N, d \in Sides : Lies(h, d, Root(u), m)
    BY <1>20 DEF Lies
  <2> QED
    BY <2>1, <2>2, <2>3 DEF Nested
<1> QED
  BY <1>5, <1>7, <1>8, <1>14, <1>21 DEF Placed, KeepPlaces, N, Others

----------------------------------------------------------------------------
(* A node takes the place of another.                                       *)

As(a, b, y) == IF y = a THEN b ELSE y

\* A node that takes another's place takes its colour.
SameColours(t, u, node, subst) == \A z \in Cells : Red(u, z) <=> Red(t, As(subst, node, z))

\* In u, subst is what node is in the tree t of M.
Renamed(t, u, M, node, subst) ==
  /\ u \in Trees /\ node \in M /\ subst \in Nodes \ M
  /\ Root(u) = As(node, subst, Root(t))
  /\ \A z \in Nodes : Parent(u, z) = IF z = node THEN Null
                                     ELSE As(node, subst, Parent(t, As(subst, node, z)))
  /\ \A z \in Cells, d \in Sides :
       Child(u, d, z) = IF z = node THEN Null
                        ELSE As(node, subst, Child(t, d, As(subst, node, z)))
  /\ Parent(u, Nil) \in (M \ {node}) \cup {subst, Nil}

LEMMA RenamedIs ==
  ASSUME NEW t, NEW u, NEW M, NEW node, NEW subst, Kin(t, M), Renamed(t, u, M, node, subst)
  PROVE  LET N == (M \ {node}) \cup {subst} IN
         /\ \A z \in N : /\ As(subst, node, z) \in M /\ As(node, subst, As(subst, node, z)) = z
                         /\ Parent(u, z) = As(node, subst, Parent(t, As(subst, node, z)))
                         /\ \A d \in Sides :
                              Child(u, d, z) = As(node, subst, Child(t, d, As(subst, node, z)))
         /\ \A y \in M : As(node, subst, y) \in N /\ As(subst, node, As(node, subst, y)) = y
         /\ As(node, subst, Nil) = Nil /\ Nil \notin N /\ Nil \notin M
<1>1. M \subseteq Nodes /\ M \subseteq Cells /\ Nil \notin M /\ Nil \notin Nodes
      /\ \A z \in Nodes : z \in Cells
  BY KinCells, NilNull DEF Cells
<1>2. node \in M /\ subst \in Nodes /\ subst \notin M
  BY DEF Renamed
<1>3. ASSUME NEW z \in (M \ {node}) \cup {subst}
      PROVE  /\ As(subst, node, z) \in M /\ As(node, subst, As(subst, node, z)) = z
             /\ z \in Nodes /\ z # node
  BY <1>1, <1>2 DEF As
<1>4. ASSUME NEW y \in M
      PROVE  /\ As(node, subst, y) \in (M \ {node}) \cup {subst}
             /\ As(subst, node, As(node, subst, y)) = y
  BY <1>1, <1>2 DEF As
<1>5. As(node, subst, Nil) = Nil
  BY <1>1, <1>2 DEF As
<1> QED
  BY <1>1, <1>2, <1>3, <1>4, <1>5 DEF Renamed

LEMMA RenamedKin ==
  ASSUME NEW t, NEW u, NEW M, NEW node, NEW subst, Kin(t, M), Renamed(t, u, M, node, subst)
  PROVE  Kin(u, (M \ {node}) \cup {subst})
<1> DEFINE N == (M \ {node}) \cup {subst}
           R(y) == As(node, subst, y)
           B(z) == As(subst, node, z)
<1>1. /\ \A z \in N : /\ B(z) \in M /\ R(B(z)) = z /\ Parent(u, z) = R(Parent(t, B(z)))
                      /\ \A d \in Sides : Child(u, d, z) = R(Child(t, d, B(z)))
      /\ \A y \in M : R(y) \in N /\ B(R(y)) = y
      /\ R(Nil) = Nil /\ Nil \notin N /\ Nil \notin M
  BY RenamedIs
<1>2. /\ u \in Trees /\ Root(u) = R(Root(t)) /\ Parent(u, Nil) \in N \cup {Nil} /\ node \in M
      /\ N \subseteq Nodes /\ Null \notin M /\ subst \notin M
      /\ \A z \in Cells, d \in Sides : z # node /\ z # subst => Child(u, d, z) = R(Child(t, d, z))
      /\ \A z \in Nodes \ N : z # node => z \notin M /\ Parent(u, z) = R(Parent(t, z)) /\ z # subst
      /\ Parent(u, node) = Null /\ \A d \in Sides : Child(u, d, node) = Null
      /\ R(Null) = Null /\ Nil \in Cells /\ Nil # node /\ Nil # subst /\ \A z \in Nodes : z \in Cells
  BY KinCells, NilNull DEF Renamed, As, Cells
<1>3. /\ Root(t) \in M \cup {Nil} /\ (Root(t) = Nil => M = {})
      /\ \A z \in M : /\ Parent(t, z) \in M \cup {Nil}
                      /\ (Parent(t, z) = Nil) <=> (z = Root(t))
                      /\ Parent(t, z) # Nil => \E d \in Sides : Child(t, d, Parent(t, z)) = z
      /\ \A z \in M, d \in Sides :
           /\ Child(t, d, z) \in M \cup {Nil}
           /\ Child(t, d, z) # Nil => /\ Parent(t, Child(t, d, z)) = z
                                      /\ Child(t, Other(d), z) # Child(t, d, z)
      /\ \A z \in Nodes \ M : Parent(t, z) = Null /\ \A d \in Sides : Child(t, d, z) = Null
      /\ \A d \in Sides : Child(t, d, Nil) = Nil
  BY DEF Kin
<1> HIDE DEF N, R, B
<1>4. Root(u) \in N \cup {Nil} /\ (Root(u) = Nil => N = {})
  BY <1>1, <1>2, <1>3
<1>5. ASSUME NEW z \in N
      PROVE  /\ Parent(u, z) \in N \cup {Nil}
             /\ (Parent(u, z) = Nil) <=> (z = Root(u))
             /\ Parent(u, z) # Nil => \E d \in Sides : Child(u, d, Parent(u, z)) = z
  <2>1. B(z) \in M /\ R(B(z)) = z /\ Parent(u, z) = R(Parent(t, B(z)))
        /\ Parent(t, B(z)) \in M \cup {Nil} /\ ((Parent(t, B(z)) = Nil) <=> (B(z) = Root(t)))
    BY <1>1, <1>3
  <2>2. Parent(u, z) \in N \cup {Nil} /\ (Parent(u, z) = Nil <=> Parent(t, B(z)) = Nil)
    BY <1>1, <2>1
  <2>3. (z = Root(u)) <=> (B(z) = Root(t))
    BY <1>1, <1>2, <1>3, <2>1
  <2>4. ASSUME Parent(u, z) # Nil PROVE \E d \in Sides : Child(u, d, Parent(u, z)) = z
    <3>1. Parent(t, B(z)) \in M
      BY <2>1, <2>2, <2>4
    <3>2. PICK d \in Sides : Child(t, d, Parent(t, B(z))) = B(z)
      BY <1>1, <1>3, <2>1, <3>1
    <3>3. Parent(u, z) \in N /\ B(Parent(u, z)) = Parent(t, B(z))
      BY <1>1, <2>1, <3>1
    <3>4. Child(u, d, Parent(u, z)) = z
      BY <1>1, <2>1, <3>2, <3>3
    <3> QED
      BY <3>4
  <2> QED
    BY <2>1, <2>2, <2>3, <2>4
<1>6. ASSUME NEW z \in N, NEW d \in Sides
      PROVE  /\ Child(u, d, z) \in N \cup {Nil}
             /\ Child(u, d, z) # Nil => /\ Parent(u, Child(u, d, z)) = z
                                        /\ Child(u, Other(d), z) # Child(u, d, z)
  <2>1. B(z) \in M /\ R(B(z)) = z /\ Other(d) \in Sides
        /\ Child(u, d, z) = R(Child(t, d, B(z))) /\ Child(u, Other(d), z) = R(Child(t, Other(d), B(z)))
    BY <1>1, OtherSide
  <2>2. /\ Child(t, d, B(z)) \in M \cup {Nil} /\ Child(t, Other(d), B(z)) \in M \cup {Nil}
        /\ Child(t, d, B(z)) # Nil => /\ Parent(t, Child(t, d, B(z))) = B(z)
                                      /\ Child(t, Other(d), B(z)) # Child(t, d, B(z))
    BY <1>3, <2>1
  <2>3. CASE Child(t, d, B(z)) = Nil
    BY <1>1, <2>1, <2>3
  <2>4. CASE Child(t, d, B(z)) # Nil
    <3>1. Child(u, d, z) \in N /\ B(Child(u, d, z)) = Child(t, d, B(z)) /\ Child(t, d, B(z)) \in M
      BY <1>1, <2>1, <2>2, <2>4
    <3>2. Parent(u, Child(u, d, z)) = z
      BY <1>1, <2>1, <2>2, <2>4, <3>1
    <3>3. Child(u, Other(d), z) # Child(u, d, z)
      BY <1>1, <2>1, <2>2, <2>4, <3>1
    <3> QED
      BY <3>1, <3>2, <3>3
  <2> QED
    BY <2>3, <2>4
<1>7. ASSUME NEW z \in Nodes \ N
      PROVE  Parent(u, z) = Null /\ \A d \in Sides : Child(u, d, z) = Null
  BY <1>2, <1>3
<1>8. \A d \in Sides : Child(u, d, Nil) = Nil
  BY <1>1, <1>2, <1>3
<1>9. Kin(u, N)
  BY <1>2, <1>4, <1>5, <1>6, <1>7, <1>8 DEF Kin
<1> QED
  BY <1>9 DEF N

\* The place of node is subst's now, and the others keep theirs.
KeepsPlace(u, M, g, node, subst) ==
  \E h : /\ Placed(u, (M \ {node}) \cup {subst}, h) /\ Pos(h, subst) = Pos(g, node)
         /\ \A z \in M \ {node} : Pos(h, z) = Pos(g, z)

\* Whatever orders node among the members orders subst.
LEMMA RenamedPlaced ==
  ASSUME NEW t, NEW u, NEW M, NEW g, NEW node, NEW subst,
         Kin(t, M), Placed(t, M, g), Renamed(t, u, M, node, subst),
         \A z \in M \ {node} : Key(u, z) = Key(t, z), Key(u, subst) \in Nat,
         \A z \in M \ {node} : /\ Pos(g, z) < Pos(g, node) => Key(t, z) <= Key(u, subst)
                               /\ Pos(g, node) < Pos(g, z) => Key(u, subst) <= Key(t, z)
  PROVE  KeepsPlace(u, M, g, node, subst)
<1> DEFINE N == (M \ {node}) \cup {subst}
           R(y) == As(node, subst, y)
           B(z) == As(subst, node, z)
<1>1. /\ \A z \in N : /\ B(z) \in M /\ R(B(z)) = z
                      /\ \A d \in Sides : Child(u, d, z) = R(Child(t, d, B(z)))
      /\ \A y \in M : R(y) \in N /\ B(R(y)) = y
      /\ R(Nil) = Nil /\ Nil \notin N /\ Nil \notin M
  BY RenamedIs
<1>2. Root(u) = R(Root(t)) /\ node \in M /\ subst \notin M
  BY DEF Renamed
<1>3. PICK h : \A z \in N : /\ Pos(h, z) = Pos(g, B(z))
                            /\ \A d \in Sides : Lim(h, d, z) = Lim(g, d, B(z))
  <2> DEFINE h == [pos |-> [z \in N |-> Pos(g, B(z))], left |-> [z \in N |-> Lim(g, "left", B(z))],
                   right |-> [z \in N |-> Lim(g, "right", B(z))]]
  <2> HIDE DEF B, N
  <2>1. \A z \in N : /\ Pos(h, z) = Pos(g, B(z)) /\ Lim(h, "left", z) = Lim(g, "left", B(z))
                     /\ Lim(h, "right", z) = Lim(g, "right", B(z))
    BY DEF Pos, Lim
  <2> HIDE DEF h
  <2>2. \A z \in N, d \in Sides : Lim(h, d, z) = Lim(g, d, B(z))
    BY <2>1 DEF Sides
  <2> QED
    BY <2>1, <2>2
<1>4. \A z \in M : Pos(g, z) \in Int /\ \A d \in Sides : Lim(g, d, z) \in Int
  BY DEF Placed, Typed
<1>5. /\ \A z \in M, d \in Sides :
           /\ Lies(g, d, z, z)
           /\ Child(t, d, z) # Nil => /\ Lim(g, d, Child(t, d, z)) = Lim(g, d, z)
                                      /\ Lim(g, Other(d), Child(t, d, z)) = Pos(g, z)
           /\ Child(t, d, z) = Nil =>
                \A m \in M : ~ (Lies(g, d, z, m) /\ Before(d, Pos(g, m), Pos(g, z)))
      /\ \A z \in M, a \in M, d \in Sides :
           Child(t, d, z) = Nil /\ Child(t, Other(d), a) = Nil => Lim(g, d, z) # Pos(g, a)
      /\ Root(t) # Nil => \A m \in M, d \in Sides : Lies(g, d, Root(t), m)
      /\ Root(t) \in M \cup {Nil}
      /\ \A z \in M, d \in Sides : Child(t, d, z) \in M \cup {Nil}
  BY DEF Placed, Nested, Kin
<1>6. \A x \in M, y \in M : /\ Pos(g, x) = Pos(g, y) => x = y
                            /\ Pos(g, x) < Pos(g, y) => Key(t, x) <= Key(t, y)
  BY DEF Placed, InOrder
<1>7. \A z \in M : z # node => B(z) = z
  BY <1>2 DEF As
<1>8. B(subst) = node
  BY DEF As
<1>9. \A z \in N : z = subst \/ (z \in M /\ z # node)
  OBVIOUS
<1> HIDE DEF N, R, B
<1>10. Typed(N, h)
  BY <1>1, <1>3, <1>4 DEF Typed
<1>11. InOrder(u, N, h)
  <2>1. ASSUME NEW x \in N, NEW y \in N, Pos(h, x) = Pos(h, y) PROVE x = y
    <3>1. B(x) = B(y)
      BY <1>1, <1>3, <1>6, <2>1
    <3> QED
      BY <1>1, <3>1
  <2>2. ASSUME NEW x \in N, NEW y \in N, Pos(h, x) < Pos(h, y) PROVE Key(u, x) <= Key(u, y)
    <3>1. Pos(g, B(x)) < Pos(g, B(y))
      BY <1>3, <2>2
    <3>2. CASE x = subst
      <4>1. y # subst
        BY <1>1, <1>4, <3>1, <3>2
      <4> QED
        BY <1>7, <1>8, <1>9, <3>1, <3>2, <4>1
    <3>3. CASE x # subst /\ y = subst
      BY <1>7, <1>8, <1>9, <3>1, <3>3
    <3>4. CASE x # subst /\ y # subst
      BY <1>6, <1>7, <1>9, <3>1, <3>4
    <3> QED
      BY <3>2, <3>3, <3>4
  <2> QED
    BY <2>1, <2>2 DEF InOrder
<1>12. ASSUME NEW z \in N, NEW m \in N, NEW d \in Sides
       PROVE  /\ Lies(h, d, z, m) <=> Lies(g, d, B(z), B(m))
              /\ Before(d, Pos(h, m), Pos(h, z)) <=> Before(d, Pos(g, B(m)), Pos(g, B(z)))
  BY <1>3 DEF Lies
<1>13. ASSUME NEW z \in N, NEW d \in Sides
       PROVE  (Child(u, d, z) = Nil <=> Child(t, d, B(z)) = Nil)
  BY <1>1, <1>5
<1>14. ASSUME NEW z \in N, NEW d \in Sides
       PROVE  /\ Lies(h, d, z, z)
              /\ Child(u, d, z) # Nil => /\ Lim(h, d, Child(u, d, z)) = Lim(h, d, z)
                                         /\ Lim(h, Other(d), Child(u, d, z)) = Pos(h, z)
              /\ Child(u, d, z) = Nil =>
                   \A m \in N : ~ (Lies(h, d, z, m) /\ Before(d, Pos(h, m), Pos(h, z)))
  <2>0. B(z) \in M /\ Other(d) \in Sides
    BY <1>1, OtherSide
  <2>1. ASSUME Child(u, d, z) # Nil
        PROVE  /\ Lim(h, d, Child(u, d, z)) = Lim(h, d, z)
               /\ Lim(h, Other(d), Child(u, d, z)) = Pos(h, z)
    <3>1. Child(t, d, B(z)) # Nil /\ Child(t, d, B(z)) \in M
      BY <1>5, <1>13, <2>0, <2>1
    <3>2. Child(u, d, z) \in N /\ B(Child(u, d, z)) = Child(t, d, B(z))
      BY <1>1, <3>1
    <3>3. Lim(g, d, Child(t, d, B(z))) = Lim(g, d, B(z))
          /\ Lim(g, Other(d), Child(t, d, B(z))) = Pos(g, B(z))
      BY <1>5, <2>0, <3>1
    <3> QED
      BY <1>3, <2>0, <3>2, <3>3
  <2>2. ASSUME Child(u, d, z) = Nil, NEW m \in N
        PROVE  ~ (Lies(h, d, z, m) /\ Before(d, Pos(h, m), Pos(h, z)))
    BY <1>1, <1>5, <1>12, <1>13, <2>0, <2>2
  <2> QED
    BY <1>5, <1>12, <2>0, <2>1, <2>2
<1>15. ASSUME NEW z \in N, NEW y \in N, NEW d \in Sides,
              Child(u, d, z) = Nil, Child(u, Other(d), y) = Nil
       PROVE  Lim(h, d, z) # Pos(h, y)
  <2>1. B(z) \in M /\ B(y) \in M /\ Child(t, d, B(z)) = Nil /\ Child(t, Other(d), B(y)) = Nil
    BY <1>1, <1>13, <1>15, OtherSide
  <2> QED
    BY <1>3, <1>5, <2>1
<1>16. ASSUME Root(u) # Nil, NEW m \in N, NEW d \in Sides PROVE Lies(h, d, Root(u), m)
  <2>1. Root(t) \in M /\ Root(u) \in N /\ B(Root(u)) = Root(t) /\ Root(t) # Nil /\ B(m) \in M
    BY <1>1, <1>2, <1>5, <1>16
  <2> QED
    BY <1>5, <1>12, <2>1
<1>17. Nested(u, N, h)
  BY <1>14, <1>15, <1>16 DEF Nested
<1>18. Pos(h, subst) = Pos(g, node) /\ \A z \in M \ {node} : Pos(h, z) = Pos(g, z)
  BY <1>3, <1>7, <1>8 DEF N
<1> QED
  BY <1>10, <1>11, <1>17, <1>18 DEF Placed, N, KeepsPlace

----------------------------------------------------------------------------
(* rbtree_delete.                                                           *)

\* As far left below x as it goes.
LEMMA LeftmostIs ==
  ASSUME NEW t, NEW M, NEW g, NEW x, Kin(t, M), Placed(t, M, g), x \in M
  PROVE  /\ Leftmost(t, x) \in M /\ Child(t, "left", Leftmost(t, x)) = Nil
         /\ Lim(g, "left", Leftmost(t, x)) = Lim(g, "left", x)
<1> DEFINE round == [c \in Pointers |-> IF t.left[c] = Nil THEN c ELSE t.left[c]]
           S == {c \in M : Lim(g, "left", c) = Lim(g, "left", x)}
           Done == {c \in M : Child(t, "left", c) = Nil}
           m == [c \in S |-> Size(g, M, c)]
<1>1. M \subseteq Pointers /\ Nil \notin M /\ "left" \in Sides
  BY KinCells DEF Sides
<1>2. Leftmost(t, x) = Repeat(round, x)
  BY DEF Leftmost
<1>3. \A c \in M : round[c] = IF Child(t, "left", c) = Nil THEN c ELSE Child(t, "left", c)
  BY <1>1 DEF Child
<1>4. ASSUME NEW c \in S \ Done PROVE round[c] \in S /\ m[round[c]] < m[c]
  <2>1. c \in M /\ Child(t, "left", c) # Nil /\ round[c] = Child(t, "left", c)
    BY <1>3
  <2>2. Child(t, "left", c) \in M /\ Lim(g, "left", Child(t, "left", c)) = Lim(g, "left", c)
    BY <1>1, <2>1 DEF Kin, Placed, Nested
  <2>3. Size(g, M, Child(t, "left", c)) < Size(g, M, c)
    BY <1>1, <2>1, SizeIs
  <2> QED
    BY <2>1, <2>2, <2>3
<1>5. \A c \in S \cap Done : round[c] \in S \cap Done
  BY <1>3
<1>6. m \in [S -> Nat] /\ m[x] <= Cardinality(Cells) /\ x \in S
  BY SizeIs
<1>7. \A c \in S : m[c] # 0
  BY <1>1, SizeIs
<1> HIDE DEF round, Done, m
<1>8. Repeat(round, x) \in S \cap Done
  <2> HIDE DEF S
  <2>1. \/ Repeat(round, x) \in S \cap Done
        \/ Repeat(round, x) \in S /\ m[Repeat(round, x)] = 0
    BY <1>4, <1>5, <1>6, RepeatEnds
  <2> QED
    BY <1>7, <2>1
<1> QED
  BY <1>2, <1>8 DEF Done

LEMMA DetachIs ==
  ASSUME NEW t, NEW x, t \in Trees, x \in Cells
  PROVE  /\ Detach(t, x) \in Trees /\ Root(Detach(t, x)) = Root(t)
         /\ \A z \in Cells : Parent(Detach(t, x), z) = IF z = x THEN Null ELSE Parent(t, z)
         /\ \A z \in Cells, d \in Sides :
              Child(Detach(t, x), d, z) = IF z = x THEN Null ELSE Child(t, d, z)
         /\ SameData(t, Detach(t, x))
<1>1. Null \in Pointers
  BY DEF Pointers
<1> QED
  BY <1>1 DEF Trees, Sides, Root, Parent, Key, Child, SameData, Red, Detach

LEMMA ResetIs ==
  ASSUME NEW t, t \in Trees
  PROVE  LET u == ResetSentinel(t) IN
         /\ u \in Trees /\ Root(u) = Root(t)
         /\ \A z \in Cells : Parent(u, z) = IF z = Nil THEN Nil ELSE Parent(t, z)
         /\ \A z \in Cells, d \in Sides : Child(u, d, z) = Child(t, d, z)
         /\ SameData(t, u)
<1>1. Nil \in Cells /\ Nil \in Pointers
  BY DEF Cells, Pointers
<1> QED
  BY <1>1, SetParentIs DEF ResetSentinel

\* Where a member hangs.
LEMMA SlotIs ==
  ASSUME NEW t, NEW M, NEW x, Kin(t, M), x \in M
  PROVE  /\ x = Root(t) => \A z \in Cells, d \in Sides : Child(t, d, z) # x
         /\ x # Root(t) =>
              /\ Parent(t, x) \in M /\ SideOf(t, Parent(t, x), x) \in Sides
              /\ \A z \in Cells, d \in Sides :
                   Child(t, d, z) = x <=> z = Parent(t, x) /\ d = SideOf(t, Parent(t, x), x)
<1>1. Nil \notin M /\ Null \notin M /\ Nil # Null
  BY KinCells, NilNull
<1>2. ASSUME NEW z \in Cells, NEW d \in Sides, Child(t, d, z) = x
      PROVE  z \in M /\ Parent(t, x) = z /\ Child(t, Other(d), z) # x
  <2>1. z \in M
    BY <1>1, <1>2 DEF Kin, Cells
  <2> QED
    BY <1>1, <1>2, <2>1 DEF Kin
<1>3. (Parent(t, x) = Nil) <=> (x = Root(t))
  BY DEF Kin
<1>4. x = Root(t) => \A z \in Cells, d \in Sides : Child(t, d, z) # x
  BY <1>1, <1>2, <1>3
<1>5. ASSUME x # Root(t)
      PROVE  /\ Parent(t, x) \in M /\ SideOf(t, Parent(t, x), x) \in Sides
             /\ Child(t, SideOf(t, Parent(t, x), x), Parent(t, x)) = x
  <2>1. Parent(t, x) \in M /\ \E d \in Sides : Child(t, d, Parent(t, x)) = x
    BY <1>3, <1>5 DEF Kin
  <2> QED
    BY <2>1, SideOfIs
<1>6. ASSUME x # Root(t), NEW z \in Cells, NEW d \in Sides
      PROVE  Child(t, d, z) = x <=> z = Parent(t, x) /\ d = SideOf(t, Parent(t, x), x)
  <2>1. ASSUME Child(t, d, z) = x PROVE d = SideOf(t, Parent(t, x), x)
    <3>1. z = Parent(t, x) /\ Child(t, Other(d), z) # x
      BY <1>2, <2>1
    <3>2. Child(t, SideOf(t, Parent(t, x), x), z) = x /\ SideOf(t, Parent(t, x), x) \in Sides
      BY <1>5, <1>6, <3>1
    <3>3. SideOf(t, Parent(t, x), x) \in {d, Other(d)}
      BY <3>2, OtherSide
    <3> QED
      BY <3>1, <3>2, <3>3
  <2> QED
    BY <1>2, <1>5, <1>6, <2>1
<1> QED
  BY <1>4, <1>5, <1>6

LEMMA BypassIs ==
  ASSUME NEW t, NEW u, NEW M, NEW node, NEW subst, NEW temp, Kin(t, M), node \in Cells,
         subst \in M, subst # Root(t), temp \in Cells, u = Bypass(t, node, subst, temp)
  PROVE  /\ u \in Trees /\ Root(u) = Root(t)
         /\ \A z \in Cells : Parent(u, z) =
              IF z # temp THEN Parent(t, z)
              ELSE IF Parent(t, subst) = node THEN subst ELSE Parent(t, subst)
         /\ \A z \in Cells, d \in Sides : Child(u, d, z) =
              IF Child(t, d, z) = subst THEN temp ELSE Child(t, d, z)
         /\ SameData(t, u)
<1> DEFINE above == Parent(t, subst)
           side == SideOf(t, above, subst)
           t1 == SetChild(t, side, above, temp)
           p == IF above = node THEN subst ELSE above
<1>1. M \subseteq Cells /\ Cells \subseteq Pointers /\ t \in Trees
  BY KinCells DEF Kin
<1>2. /\ above \in M /\ side \in Sides
      /\ \A z \in Cells, d \in Sides : Child(t, d, z) = subst <=> z = above /\ d = side
  BY SlotIs
<1>3. u = SetParent(t1, temp, p)
  BY DEF Bypass, Parent
<1> HIDE DEF above, side, t1
<1>4. above \in Cells /\ temp \in Pointers /\ p \in Pointers
  BY <1>1, <1>2
<1> HIDE DEF p
<1>5. /\ t1 \in Trees /\ Root(t1) = Root(t)
      /\ \A z \in Cells : Parent(t1, z) = Parent(t, z)
      /\ \A z \in Cells, d \in Sides : Child(t1, d, z) =
           IF d = side /\ z = above THEN temp ELSE Child(t, d, z)
      /\ SameData(t, t1)
  BY <1>1, <1>2, <1>4, SetChildIs DEF t1
<1>6. /\ u \in Trees /\ Root(u) = Root(t1)
      /\ \A z \in Cells : Parent(u, z) = IF z = temp THEN p ELSE Parent(t1, z)
      /\ \A z \in Cells, d \in Sides : Child(u, d, z) = Child(t1, d, z)
      /\ SameData(t1, u)
  BY <1>3, <1>4, <1>5, SetParentIs
<1>7. SameData(t, u)
  BY <1>5, <1>6, SameDataTrans
<1> QED
  BY <1>2, <1>5, <1>6, <1>7 DEF p, above

LEMMA TakePlaceIs ==
  ASSUME NEW t, NEW u, NEW node, NEW subst, t \in Trees, node \in Cells, subst \in Cells,
         node # subst, node # Root(t) => Parent(t, node) \in Cells,
         Parent(t, node) # subst, \A d \in Sides : Child(t, d, node) \in Cells \ {subst},
         u = TakePlace(t, node, subst)
  PROVE  /\ u \in Trees /\ Root(u) = IF node = Root(t) THEN subst ELSE Root(t)
         /\ \A z \in Cells : Parent(u, z) =
              IF z # Nil /\ \E d \in Sides : z = Child(t, d, node) THEN subst
              ELSE IF z = subst THEN Parent(t, node) ELSE Parent(t, z)
         /\ \A z \in Cells, d \in Sides : Child(u, d, z) =
              IF z = subst THEN Child(t, d, node)
              ELSE IF node # Root(t) /\ z = Parent(t, node) /\ d = SideOf(t, z, node) THEN subst
              ELSE Child(t, d, z)
         /\ \A z \in Cells : Key(u, z) = Key(t, z)
         /\ \A z \in Cells : Red(u, z) <=> Red(t, IF z = subst THEN node ELSE z)
<1> DEFINE t1 == [t EXCEPT !.left[subst] = t.left[node], !.right[subst] = t.right[node],
                           !.parent[subst] = t.parent[node], !.color[subst] = t.color[node]]
           t2 == Replace(t1, node, subst)
           l == Child(t, "left", node)
           r == Child(t, "right", node)
           p == Parent(t, node)
           t3 == Reparent(t2, l, subst)
           t4 == Reparent(t3, r, subst)
<1>1. Cells \subseteq Pointers /\ l \in Cells /\ r \in Cells /\ l # subst /\ r # subst
      /\ (node # Root(t) => p \in Cells) /\ p # subst /\ p \in Pointers
  BY TreeFields DEF Sides, Pointers
<1>2. /\ t1 \in Trees /\ Root(t1) = Root(t)
      /\ \A z \in Cells : Parent(t1, z) = IF z = subst THEN p ELSE Parent(t, z)
      /\ \A z \in Cells : Child(t1, "left", z) = IF z = subst THEN l ELSE Child(t, "left", z)
      /\ \A z \in Cells : Child(t1, "right", z) = IF z = subst THEN r ELSE Child(t, "right", z)
      /\ \A z \in Cells : Key(t1, z) = Key(t, z)
      /\ \A z \in Cells : Red(t1, z) <=> Red(t, IF z = subst THEN node ELSE z)
  BY <1>1 DEF Trees, Root, Parent, Key, Child, Red
<1>3. u = Reparent(Reparent(t2, Child(t2, "left", subst), subst),
                   Child(Reparent(t2, Child(t2, "left", subst), subst), "right", subst), subst)
  <2>1. u = Reparent(Reparent(t2, t2.left[subst], subst), t2.right[subst], subst)
    BY DEF TakePlace
  <2>2. Child(t2, "left", subst) = t2.left[subst] /\ Child(t2, "right", subst) = t2.right[subst]
    BY DEF Child
  <2>3. \A v, z : Child(Reparent(v, z, subst), "right", subst) = Child(v, "right", subst)
    BY DEF Child, Reparent, SetParent
  <2> QED
    BY <2>1, <2>2, <2>3
<1> HIDE DEF t1, t2, t3, t4, l, r, p
<1>4. \A z \in Cells, d \in Sides : Child(t1, d, z) = IF z = subst THEN Child(t, d, node) ELSE Child(t, d, z)
  BY <1>2 DEF Sides, l, r
<1>5. Parent(t1, node) = p /\ (node # Root(t1) => Parent(t1, node) \in Cells)
      /\ \A z : z # subst /\ z \in Cells => SideOf(t1, z, node) = SideOf(t, z, node)
  <2>1. \A z : z # subst /\ z \in Cells => SideOf(t1, z, node) = SideOf(t, z, node)
    BY <1>2 DEF SideOf, Child
  <2> QED
    BY <1>1, <1>2, <2>1 DEF p
<1>6. /\ t2 \in Trees /\ Root(t2) = IF node = Root(t) THEN subst ELSE Root(t)
      /\ \A z \in Cells : Parent(t2, z) = Parent(t1, z)
      /\ \A z \in Cells, d \in Sides : Child(t2, d, z) =
           IF node # Root(t) /\ z = p /\ d = SideOf(t1, z, node) THEN subst ELSE Child(t1, d, z)
      /\ SameData(t1, t2)
  BY <1>2, <1>5, ReplaceIs DEF t2
<1>7. \A z \in Cells, d \in Sides : Child(t2, d, z) =
        IF z = subst THEN Child(t, d, node)
        ELSE IF node # Root(t) /\ z = p /\ d = SideOf(t, z, node) THEN subst
        ELSE Child(t, d, z)
  BY <1>1, <1>4, <1>5, <1>6
<1>8. Child(t2, "left", subst) = l /\ Child(t2, "right", subst) = r
  BY <1>7 DEF Sides, l, r
<1>9. /\ t3 \in Trees /\ Root(t3) = Root(t2)
      /\ \A z \in Cells : Parent(t3, z) = IF z = l /\ l # Nil THEN subst ELSE Parent(t2, z)
      /\ \A z \in Cells, d \in Sides : Child(t3, d, z) = Child(t2, d, z)
      /\ SameData(t2, t3)
  BY <1>1, <1>6, ReparentIs DEF t3
<1>10. /\ t4 \in Trees /\ Root(t4) = Root(t3)
       /\ \A z \in Cells : Parent(t4, z) = IF z = r /\ r # Nil THEN subst ELSE Parent(t3, z)
       /\ \A z \in Cells, d \in Sides : Child(t4, d, z) = Child(t3, d, z)
       /\ SameData(t3, t4)
  BY <1>1, <1>9, ReparentIs DEF t4
<1>11. u = t4
  <2>1. Child(t3, "right", subst) = r
    BY <1>8, <1>9 DEF Sides
  <2> QED
    BY <1>3, <1>8, <2>1 DEF t3, t4
<1>12. \A z \in Cells : Parent(u, z) = IF z # Nil /\ z \in {l, r} THEN subst
                                       ELSE IF z = subst THEN p ELSE Parent(t, z)
  BY <1>2, <1>6, <1>9, <1>10, <1>11
<1>13. \A z : (\E d \in Sides : z = Child(t, d, node)) <=> z \in {l, r}
  BY DEF Sides, l, r
<1>14. \A z \in Cells : Key(u, z) = Key(t, z) /\ (Red(u, z) <=> Red(t, IF z = subst THEN node ELSE z))
  BY <1>2, <1>6, <1>9, <1>10, <1>11 DEF SameData
<1>15. u \in Trees /\ Root(u) = IF node = Root(t) THEN subst ELSE Root(t)
  BY <1>6, <1>9, <1>10, <1>11
<1>16. \A z \in Cells, d \in Sides : Child(u, d, z) = Child(t2, d, z)
  BY <1>9, <1>10, <1>11
<1> QED
  BY <1>7, <1>12, <1>13, <1>14, <1>15, <1>16 DEF p

\* A member with one child at most that is not the root, deleted but for the fix-up.
LEMMA BypassSkips ==
  ASSUME NEW t, NEW u, NEW M, NEW g, NEW x, NEW e, Kin(t, M), Placed(t, M, g), x \in M,
         e \in Sides, Child(t, Other(e), x) = Nil, x # Root(t), Parent(t, Nil) = Nil,
         u = Detach(Bypass(t, x, x, Child(t, e, x)), x)
  PROVE  /\ Skip(t, u, M, x, e) /\ \A z \in Cells : Key(u, z) = Key(t, z)
         /\ Parent(u, Child(t, e, x)) = Parent(t, x)
         /\ \A z \in Cells : Red(u, z) <=> Red(t, z)
<1> DEFINE temp == Child(t, e, x)
           v == Bypass(t, x, x, temp)
<1>1. M \subseteq Cells /\ Nil \in Cells /\ Nil \notin M /\ \A z \in Nodes : z \in Cells /\ z # Nil
  BY KinCells, NilNull DEF Cells
<1>2. /\ temp \in M \cup {Nil} /\ temp # x /\ Parent(t, x) # x /\ Parent(t, x) \in M
      /\ temp # Nil => Parent(t, temp) = x
      /\ \A z \in M, d \in Sides : Child(t, d, z) = x => Parent(t, x) = z
  BY Around DEF Kin
<1>3. \A z \in Nodes : Parent(t, z) = x => z = temp
  <2>1. ASSUME NEW z \in Nodes, Parent(t, z) = x PROVE z = temp
    <3>1. z \in M
      BY <1>1, <2>1, NilNull DEF Kin
    <3>2. PICK d \in Sides : Child(t, d, x) = z
      BY <2>1, <3>1, Around
    <3>3. d = e \/ d = Other(e)
      BY OtherSide
    <3> QED
      BY <1>1, <3>1, <3>2, <3>3
  <2> QED
    BY <2>1
<1> HIDE DEF temp, v
<1>4. /\ v \in Trees /\ Root(v) = Root(t)
      /\ \A z \in Cells : Parent(v, z) = IF z # temp THEN Parent(t, z) ELSE Parent(t, x)
      /\ \A z \in Cells, d \in Sides : Child(v, d, z) =
           IF Child(t, d, z) = x THEN temp ELSE Child(t, d, z)
      /\ SameData(t, v)
  BY <1>1, <1>2, BypassIs DEF v
<1>5. /\ u \in Trees /\ Root(u) = Root(v)
      /\ \A z \in Cells : Parent(u, z) = IF z = x THEN Null ELSE Parent(v, z)
      /\ \A z \in Cells, d \in Sides : Child(u, d, z) = IF z = x THEN Null ELSE Child(v, d, z)
      /\ SameData(v, u)
  BY <1>1, <1>4, DetachIs DEF v, temp
<1>6. \A z \in Nodes : Parent(u, z) = IF z = x THEN Null
                                      ELSE IF Parent(t, z) = x THEN Parent(t, x) ELSE Parent(t, z)
  BY <1>1, <1>2, <1>3, <1>4, <1>5
<1>7. \A z \in Cells, d \in Sides :
        Child(u, d, z) = IF z = x THEN Null ELSE IF Child(t, d, z) = x THEN temp ELSE Child(t, d, z)
  BY <1>4, <1>5
<1>8. Parent(u, Nil) \in (M \ {x}) \cup {Nil}
  BY <1>1, <1>2, <1>4, <1>5
<1>9. Parent(u, temp) = Parent(t, x)
  BY <1>1, <1>2, <1>4, <1>5
<1>10. \A z \in Cells : Key(u, z) = Key(t, z) /\ (Red(u, z) <=> Red(t, z))
  BY <1>4, <1>5 DEF SameData
<1>11. u \in Trees /\ Root(u) = IF Root(t) = x THEN temp ELSE Root(t)
  BY <1>4, <1>5
<1> QED
  BY <1>6, <1>7, <1>8, <1>9, <1>10, <1>11 DEF Skip, temp

\* A root with one child at most.
LEMMA RootSkips ==
  ASSUME NEW t, NEW u, NEW M, NEW g, NEW x, NEW e, Kin(t, M), Placed(t, M, g), x \in M,
         e \in Sides, Child(t, Other(e), x) = Nil, x = Root(t),
         u = ResetSentinel(Detach(SetParent(Paint(SetRoot(t, Child(t, e, x)), Child(t, e, x),
                                                  "black"), Child(t, e, x), Nil), x))
  PROVE  /\ Skip(t, u, M, x, e) /\ \A z \in Cells : Key(u, z) = Key(t, z)
         /\ Parent(u, Nil) = Nil
         /\ \A z \in Cells : Red(u, z) <=> z # Child(t, e, x) /\ Red(t, z)
<1> DEFINE temp == Child(t, e, x)
           t1 == SetRoot(t, temp)
           t2 == Paint(t1, temp, "black")
           t3 == SetParent(t2, temp, Nil)
           t4 == Detach(t3, x)
<1>1. M \subseteq Cells /\ Nil \in Cells /\ Nil \notin M /\ Nil \in Pointers /\ t \in Trees
      /\ \A z \in Nodes : z \in Cells /\ z # Nil
  BY KinCells, NilNull DEF Cells, Kin, Pointers
<1>2. /\ temp \in M \cup {Nil} /\ temp # x /\ Parent(t, x) = Nil /\ temp \in Cells
      /\ temp # Nil => Parent(t, temp) = x
      /\ \A z \in Cells, d \in Sides : Child(t, d, z) # x
  BY <1>1, Around, SlotIs DEF Kin
<1>3. \A z \in Nodes : Parent(t, z) = x => z = temp
  <2>1. ASSUME NEW z \in Nodes, Parent(t, z) = x PROVE z = temp
    <3>1. z \in M
      BY <1>1, <2>1, NilNull DEF Kin
    <3>2. PICK d \in Sides : Child(t, d, x) = z
      BY <2>1, <3>1, Around
    <3>3. d = e \/ d = Other(e)
      BY OtherSide
    <3> QED
      BY <1>1, <3>1, <3>2, <3>3
  <2> QED
    BY <2>1
<1>4. u = ResetSentinel(t4)
  OBVIOUS
<1> HIDE DEF temp, t1, t2, t3, t4
<1>5. /\ t1 \in Trees /\ Root(t1) = temp /\ SameData(t, t1)
      /\ \A z \in Cells : Parent(t1, z) = Parent(t, z)
      /\ \A z \in Cells, d \in Sides : Child(t1, d, z) = Child(t, d, z)
  BY <1>1, <1>2, SetRootIs DEF t1
<1>6. /\ t2 \in Trees /\ SameShape(t1, t2) /\ \A z \in Cells : Key(t2, z) = Key(t1, z)
      /\ \A z \in Cells : Red(t2, z) <=> z # temp /\ Red(t1, z)
  BY <1>2, <1>5, PaintIs DEF t2
<1>7. /\ t3 \in Trees /\ Root(t3) = Root(t2) /\ SameData(t2, t3)
      /\ \A z \in Cells : Parent(t3, z) = IF z = temp THEN Nil ELSE Parent(t2, z)
      /\ \A z \in Cells, d \in Sides : Child(t3, d, z) = Child(t2, d, z)
  BY <1>1, <1>2, <1>6, SetParentIs DEF t3
<1>8. /\ t4 \in Trees /\ Root(t4) = Root(t3) /\ SameData(t3, t4)
      /\ \A z \in Cells : Parent(t4, z) = IF z = x THEN Null ELSE Parent(t3, z)
      /\ \A z \in Cells, d \in Sides : Child(t4, d, z) = IF z = x THEN Null ELSE Child(t3, d, z)
  BY <1>1, <1>7, DetachIs DEF t4
<1>9. /\ u \in Trees /\ Root(u) = Root(t4) /\ SameData(t4, u)
      /\ \A z \in Cells : Parent(u, z) = IF z = Nil THEN Nil ELSE Parent(t4, z)
      /\ \A z \in Cells, d \in Sides : Child(u, d, z) = Child(t4, d, z)
  BY <1>4, <1>8, ResetIs
<1>10. \A z \in Nodes : Parent(u, z) = IF z = x THEN Null
                                       ELSE IF Parent(t, z) = x THEN Parent(t, x) ELSE Parent(t, z)
  BY <1>1, <1>2, <1>3, <1>5, <1>6, <1>7, <1>8, <1>9 DEF SameShape
<1>11. \A z \in Cells, d \in Sides :
         Child(u, d, z) = IF z = x THEN Null ELSE IF Child(t, d, z) = x THEN temp ELSE Child(t, d, z)
  BY <1>2, <1>5, <1>6, <1>7, <1>8, <1>9 DEF SameShape
<1>12. \A z \in Cells : Key(u, z) = Key(t, z)
  BY <1>5, <1>6, <1>7, <1>8, <1>9 DEF SameData
<1>13. u \in Trees /\ Root(u) = temp /\ Parent(u, Nil) = Nil
  BY <1>1, <1>5, <1>6, <1>7, <1>8, <1>9 DEF SameShape
<1>14. \A z \in Cells : Red(u, z) <=> z # temp /\ Red(t, z)
  BY <1>5, <1>6, <1>7, <1>8, <1>9 DEF SameData
<1> QED
  BY <1>10, <1>11, <1>12, <1>13, <1>14 DEF Skip, temp

\* A member between two children, deleted but for the fix-up: the next member, which
\* has no left child, is taken out and takes the member's place.
Follows(t, M, g, node, subst) ==
  /\ node \in M /\ subst \in M /\ Child(t, "left", subst) = Nil
  /\ Lim(g, "left", subst) = Pos(g, node)

LEMMA FollowsIs ==
  ASSUME NEW t, NEW M, NEW g, NEW node, NEW subst,
         Kin(t, M), Placed(t, M, g), Follows(t, M, g, node, subst)
  PROVE  /\ subst # node /\ subst # Root(t)
         /\ \A d \in Sides : Child(t, d, subst) # node
         /\ Parent(t, node) # subst
         /\ \A z \in M : /\ Pos(g, z) < Pos(g, node) => Pos(g, z) < Pos(g, subst)
                         /\ Pos(g, node) < Pos(g, z) => Pos(g, z) = Pos(g, subst) \/ Pos(g, subst) < Pos(g, z)
<1>1. node \in M /\ subst \in M /\ Child(t, "left", subst) = Nil
      /\ Lim(g, "left", subst) = Pos(g, node) /\ "left" \in Sides /\ Nil \notin M
  BY KinCells DEF Follows, Sides
<1>2. \A z \in M : Pos(g, z) \in Int
  BY DEF Placed, Typed
<1>3. /\ Pos(g, node) < Pos(g, subst)
      /\ \A z \in M : ~ (Pos(g, node) < Pos(g, z) /\ Pos(g, z) < Pos(g, subst))
  BY <1>1 DEF Placed, Nested, Lies, Before
<1>4. subst # node
  BY <1>1, <1>2, <1>3
<1>5. subst # Root(t)
  <2>1. subst = Root(t) => Pos(g, node) < Pos(g, node)
    BY <1>1 DEF Placed, Nested, Lies, Before
  <2> QED
    BY <1>1, <1>2, <2>1
<1>6. Child(t, "right", subst) # node
  <2>1. Child(t, "right", subst) = node => Pos(g, subst) < Pos(g, node)
    <3>1. Child(t, "right", subst) = node => Lim(g, "left", node) = Pos(g, subst)
      BY <1>1 DEF Placed, Nested, Sides, Other
    <3>2. Lim(g, "left", node) < Pos(g, node)
      BY <1>1 DEF Placed, Nested, Lies, Before
    <3> QED
      BY <3>1, <3>2
  <2> QED
    BY <1>1, <1>2, <1>3, <2>1
<1>7. \A d \in Sides : Child(t, d, subst) # node
  BY <1>1, <1>6 DEF Sides
<1>8. Parent(t, node) # subst
  BY <1>1, <1>7, Around
<1>9. \A z \in M : /\ Pos(g, z) < Pos(g, node) => Pos(g, z) < Pos(g, subst)
                   /\ Pos(g, node) < Pos(g, z) => Pos(g, z) = Pos(g, subst) \/ Pos(g, subst) < Pos(g, z)
  BY <1>1, <1>2, <1>3
<1> QED
  BY <1>4, <1>5, <1>7, <1>8, <1>9

LEMMA TakePlaceRenames ==
  ASSUME NEW t, NEW u, NEW v, NEW M, NEW g, NEW node, NEW subst, NEW temp,
         Kin(t, M), Placed(t, M, g), Follows(t, M, g, node, subst), Parent(t, Nil) = Nil,
         temp = Child(t, "right", subst), v = Detach(Bypass(t, subst, subst, temp), subst),
         u = Detach(TakePlace(Bypass(t, node, subst, temp), node, subst), node)
  PROVE  /\ Renamed(v, u, M \ {subst}, node, subst) /\ \A z \in Cells : Key(u, z) = Key(t, z)
         /\ Parent(u, temp) = As(node, subst, Parent(t, subst))
         /\ SameColours(v, u, node, subst)
<1> DEFINE w == Bypass(t, node, subst, temp)
           y == TakePlace(w, node, subst)
           b == Bypass(t, subst, subst, temp)
           ps == Parent(t, subst)
           pn == Parent(t, node)
<1>1. M \subseteq Cells /\ Nil \in Cells /\ Nil \notin M /\ M \subseteq Nodes /\ Null \notin Cells
      /\ \A z \in Nodes : z \in Cells /\ z # Nil
  BY KinCells, NilNull DEF Cells
<1>2. /\ node \in M /\ subst \in M /\ subst # node /\ subst # Root(t)
      /\ temp \in M \cup {Nil} /\ temp # node /\ temp # subst
      /\ pn # subst /\ pn # node /\ pn \in M \cup {Nil}
      /\ ps # subst /\ ps \in M /\ (pn = Nil <=> node = Root(t))
      /\ temp # Nil => Parent(t, temp) = subst
  BY <1>1, Around, FollowsIs DEF Follows, Kin, Sides
<1>3. \A z \in Cells, d \in Sides : Child(t, d, z) = subst => z = ps
  BY <1>2, SlotIs
<1>4. \A z \in Cells, d \in Sides :
        Child(t, d, z) = node <=> node # Root(t) /\ z = pn /\ d = SideOf(t, pn, node)
  <2>1. CASE node = Root(t)
    BY <1>2, <2>1, SlotIs
  <2>2. CASE node # Root(t)
    BY <1>2, <2>2, SlotIs
  <2> QED
    BY <2>1, <2>2
<1>5. \E d \in Sides : Child(t, d, ps) = subst
  BY <1>1, <1>2 DEF Kin
<1>6. \A z \in M : Parent(t, z) = node <=> \E d \in Sides : Child(t, d, node) = z
  <2>1. \A z \in M : Parent(t, z) = node => \E d \in Sides : Child(t, d, node) = z
    BY <1>2, Around
  <2>2. \A z \in M, d \in Sides : Child(t, d, node) = z => Parent(t, z) = node
    BY <1>1, <1>2 DEF Kin
  <2> QED
    BY <2>1, <2>2
<1>7. \A d \in Sides : Child(t, d, node) \in M \cup {Nil} /\ Child(t, d, node) # node
  BY <1>2, Around DEF Kin
<1>8. temp \in Cells /\ node \in Cells /\ subst \in Cells
  BY <1>1, <1>2
<1>9. u = Detach(y, node) /\ v = Detach(b, subst) /\ y = TakePlace(w, node, subst)
  OBVIOUS
<1>10. /\ w \in Trees /\ Root(w) = Root(t)
       /\ \A z \in Cells : Parent(w, z) = IF z # temp THEN Parent(t, z)
                                          ELSE IF ps = node THEN subst ELSE ps
       /\ \A z \in Cells, d \in Sides : Child(w, d, z) =
            IF Child(t, d, z) = subst THEN temp ELSE Child(t, d, z)
       /\ SameData(t, w)
  BY <1>2, <1>8, BypassIs
<1>11. /\ b \in Trees /\ Root(b) = Root(t)
       /\ \A z \in Cells : Parent(b, z) = IF z # temp THEN Parent(t, z) ELSE ps
       /\ \A z \in Cells, d \in Sides : Child(b, d, z) =
            IF Child(t, d, z) = subst THEN temp ELSE Child(t, d, z)
       /\ SameData(t, b)
  BY <1>2, <1>8, BypassIs
<1> HIDE DEF w, y, b, ps, pn
<1>12. /\ Parent(w, node) = pn /\ (node # Root(w) => Parent(w, node) \in Cells)
       /\ \A d \in Sides : Child(w, d, node) \in Cells \ {subst}
  BY <1>1, <1>2, <1>7, <1>8, <1>10 DEF pn
<1>13. node # Root(t) => SideOf(w, pn, node) = SideOf(t, pn, node)
  <2>1. ASSUME node # Root(t) PROVE Child(w, "left", pn) = node <=> Child(t, "left", pn) = node
    <3>1. pn \in Cells /\ "left" \in Sides
      BY <1>1, <1>2, <2>1 DEF Sides
    <3> QED
      BY <1>2, <1>10, <3>1
  <2> QED
    BY <2>1 DEF SideOf, Child
<1>14. /\ y \in Trees /\ Root(y) = IF node = Root(w) THEN subst ELSE Root(w)
       /\ \A z \in Cells : Parent(y, z) =
            IF z # Nil /\ \E d \in Sides : z = Child(w, d, node) THEN subst
            ELSE IF z = subst THEN pn ELSE Parent(w, z)
       /\ \A z \in Cells, d \in Sides : Child(y, d, z) =
            IF z = subst THEN Child(w, d, node)
            ELSE IF node # Root(w) /\ z = pn /\ d = SideOf(w, z, node) THEN subst
            ELSE Child(w, d, z)
       /\ \A z \in Cells : Key(y, z) = Key(w, z)
       /\ \A z \in Cells : Red(y, z) <=> Red(w, IF z = subst THEN node ELSE z)
  BY <1>2, <1>8, <1>9, <1>10, <1>12, TakePlaceIs
<1>15. /\ u \in Trees /\ Root(u) = Root(y)
       /\ \A z \in Cells : Parent(u, z) = IF z = node THEN Null ELSE Parent(y, z)
       /\ \A z \in Cells, d \in Sides : Child(u, d, z) = IF z = node THEN Null ELSE Child(y, d, z)
       /\ SameData(y, u)
  BY <1>8, <1>9, <1>14, DetachIs
<1>16. /\ v \in Trees /\ Root(v) = Root(t)
       /\ \A z \in Cells : Parent(v, z) = IF z = subst THEN Null ELSE Parent(b, z)
       /\ \A z \in Cells, d \in Sides : Child(v, d, z) = IF z = subst THEN Null ELSE Child(b, d, z)
       /\ SameData(b, v)
  BY <1>8, <1>9, <1>11, DetachIs
<1>17. Root(u) = As(node, subst, Root(v))
  BY <1>10, <1>14, <1>15, <1>16 DEF As
<1>18. \A z \in Cells, d \in Sides : z # subst =>
         Child(y, d, z) = IF Child(t, d, z) = node THEN subst
                          ELSE IF Child(t, d, z) = subst THEN temp ELSE Child(t, d, z)
  BY <1>4, <1>10, <1>13, <1>14
<1>19. ASSUME NEW z \in Cells, NEW d \in Sides
       PROVE  Child(u, d, z) = IF z = node THEN Null
                               ELSE As(node, subst, Child(v, d, As(subst, node, z)))
  <2>1. CASE z = subst
    <3>1. As(subst, node, z) = node /\ Child(u, d, z) = Child(w, d, node)
      BY <1>2, <1>14, <1>15, <2>1 DEF As
    <3>2. Child(v, d, node) = Child(w, d, node) /\ Child(w, d, node) # node
      BY <1>2, <1>7, <1>8, <1>10, <1>11, <1>16
    <3> QED
      BY <1>2, <2>1, <3>1, <3>2 DEF As
  <2>2. CASE z # subst
    <3>1. As(subst, node, z) = z
      BY <2>2 DEF As
    <3>2. Child(v, d, z) = IF Child(t, d, z) = subst THEN temp ELSE Child(t, d, z)
      BY <1>11, <1>16, <2>2
    <3> QED
      BY <1>2, <1>15, <1>18, <2>2, <3>1, <3>2 DEF As
  <2> QED
    BY <2>1, <2>2
<1>20. ASSUME NEW z \in Nodes, z # subst, z # node
       PROVE  Parent(y, z) = As(node, subst, IF z = temp THEN ps ELSE Parent(t, z))
  <2>1. z \in Cells /\ z # Nil
    BY <1>1
  <2>2. CASE z = temp
    <3>1. Parent(t, z) = subst /\ z \in M
      BY <1>2, <2>1, <2>2
    <3>2. \A d \in Sides : Child(t, d, node) # z
      BY <1>2, <1>6, <3>1
    <3>3. (\E d \in Sides : z = Child(w, d, node)) <=> ps = node
      BY <1>3, <1>5, <1>8, <1>10, <2>2, <3>2
    <3> QED
      BY <1>10, <1>14, <1>20, <2>1, <2>2, <3>3 DEF As
  <2>3. CASE z # temp
    <3>1. (\E d \in Sides : z = Child(w, d, node)) <=> (\E d \in Sides : z = Child(t, d, node))
      BY <1>8, <1>10, <1>20, <2>3
    <3>2. (\E d \in Sides : z = Child(t, d, node)) <=> Parent(t, z) = node
      <4>1. CASE z \in M
        BY <1>6, <4>1
      <4>2. CASE z \notin M
        <5>1. Parent(t, z) = Null /\ Null # node
          BY <1>8, <1>1, <4>2 DEF Kin
        <5>2. \A d \in Sides : Child(t, d, node) # z
          BY <1>7, <2>1, <4>2
        <5> QED
          BY <5>1, <5>2
      <4> QED
        BY <4>1, <4>2
    <3>3. Parent(w, z) = Parent(t, z)
      BY <1>10, <2>1, <2>3
    <3> QED
      BY <1>14, <1>20, <2>1, <2>3, <3>1, <3>2, <3>3 DEF As
  <2> QED
    BY <2>2, <2>3
<1>21. Parent(y, subst) = pn
  BY <1>8, <1>12, <1>14
<1>22. \A z \in Cells : z # subst => Parent(v, z) = IF z = temp THEN ps ELSE Parent(t, z)
  BY <1>11, <1>16
<1>23. ASSUME NEW z \in Nodes
       PROVE  Parent(u, z) = IF z = node THEN Null
                             ELSE As(node, subst, Parent(v, As(subst, node, z)))
  <2>1. CASE z = subst
    <3>1. As(subst, node, z) = node /\ Parent(v, node) = pn
      BY <1>2, <1>8, <1>22, <2>1 DEF As, pn
    <3> QED
      BY <1>2, <1>8, <1>15, <1>21, <2>1, <3>1 DEF As
  <2>2. CASE z # subst
    <3>1. As(subst, node, z) = z /\ z \in Cells
      BY <1>1, <2>2 DEF As
    <3> QED
      BY <1>15, <1>20, <1>22, <2>2, <3>1
  <2> QED
    BY <2>1, <2>2
<1>24. Parent(u, Nil) = IF temp = Nil THEN As(node, subst, ps) ELSE Nil
  <2>1. Parent(y, Nil) = Parent(w, Nil)
    BY <1>1, <1>2, <1>14
  <2> QED
    BY <1>1, <1>2, <1>10, <1>15, <2>1 DEF As
<1>25. Parent(u, temp) = As(node, subst, ps)
  <2>1. CASE temp = Nil
    BY <1>24, <2>1
  <2>2. CASE temp # Nil
    <3>1. temp \in Nodes
      BY <1>1, <1>2, <2>2
    <3> QED
      BY <1>2, <1>8, <1>15, <1>20, <3>1
  <2> QED
    BY <2>1, <2>2
<1>26. Parent(u, Nil) \in ((M \ {subst}) \ {node}) \cup {subst, Nil}
  BY <1>2, <1>24 DEF As
<1>27. \A z \in Cells : Key(u, z) = Key(t, z)
  BY <1>10, <1>14, <1>15 DEF SameData
<1>28. u \in Trees /\ node \in M \ {subst} /\ subst \in Nodes \ (M \ {subst})
  BY <1>1, <1>2, <1>15
<1>29. ASSUME NEW z \in Cells PROVE Red(u, z) <=> Red(v, As(subst, node, z))
  <2>1. As(subst, node, z) = IF z = subst THEN node ELSE z
    BY DEF As
  <2>2. Red(v, node) <=> Red(t, node)
    BY <1>8, <1>11, <1>16 DEF SameData
  <2>3. Red(v, z) <=> Red(t, z)
    BY <1>11, <1>16 DEF SameData
  <2>4. Red(w, node) <=> Red(t, node)
    BY <1>8, <1>10 DEF SameData
  <2>5. Red(w, z) <=> Red(t, z)
    BY <1>10 DEF SameData
  <2>6. Red(u, z) <=> Red(w, IF z = subst THEN node ELSE z)
    BY <1>14, <1>15 DEF SameData
  <2> QED
    BY <2>1, <2>2, <2>3, <2>4, <2>5, <2>6
<1>30. SameColours(v, u, node, subst)
  BY <1>29 DEF SameColours
<1> QED
  BY <1>17, <1>19, <1>23, <1>25, <1>26, <1>27, <1>28, <1>30 DEF Renamed, ps

\* A member that is taken out leaves a tree of the others.
LEMMA SkipShaped ==
  ASSUME NEW t, NEW u, NEW M, NEW g, NEW x, NEW e,
         Kin(t, M), Placed(t, M, g), Skip(t, u, M, x, e), \A z \in Cells : Key(u, z) = Key(t, z)
  PROVE  Shaped(u, Others(M, x)) /\ Agrees(g, u, Others(M, x))
<1>1. M \subseteq Cells
  BY KinCells
<1>2. Kin(u, Others(M, x))
  BY SkipKin
<1>3. \A z \in M : Key(u, z) = Key(t, z)
  BY <1>1
<1>4. PICK h : Placed(u, Others(M, x), h) /\ \A z \in Others(M, x) : Pos(h, z) = Pos(g, z)
  BY <1>3, SkipPlaced DEF KeepPlaces
<1>5. Agrees(g, u, Others(M, x))
  BY <1>4 DEF Agrees
<1> QED
  BY <1>2, <1>4, <1>5 DEF Shaped

\* So does one whose place the next member takes.
LEMMA TakePlaceShaped ==
  ASSUME NEW t, NEW u, NEW M, NEW g, NEW node, NEW subst, NEW temp,
         Kin(t, M), Placed(t, M, g), Follows(t, M, g, node, subst), Parent(t, Nil) = Nil,
         temp = Child(t, "right", subst),
         u = Detach(TakePlace(Bypass(t, node, subst, temp), node, subst), node)
  PROVE  /\ Shaped(u, Others(M, node)) /\ Agrees(g, u, Others(M, node))
         /\ \A z \in Cells : Key(u, z) = Key(t, z)
         /\ Parent(u, temp) = As(node, subst, Parent(t, subst))
<1> DEFINE v == Detach(Bypass(t, subst, subst, temp), subst)
           N == Others(M, subst)
<1>1. /\ Renamed(v, u, N, node, subst) /\ \A z \in Cells : Key(u, z) = Key(t, z)
      /\ Parent(u, temp) = As(node, subst, Parent(t, subst))
  BY TakePlaceRenames DEF Others
<1>2. subst \in M /\ node \in M /\ node # subst /\ subst # Root(t) /\ Child(t, "left", subst) = Nil
      /\ "right" \in Sides /\ Other("right") = "left" /\ M \subseteq Cells
  BY FollowsIs, KinCells DEF Follows, Sides, Other
<1>3. Skip(t, v, M, subst, "right") /\ \A z \in Cells : Key(v, z) = Key(t, z)
  BY <1>2, BypassSkips
<1> HIDE DEF v
<1>4. Kin(v, N)
  BY <1>3, SkipKin
<1>5. PICK h : Placed(v, N, h) /\ \A z \in N : Pos(h, z) = Pos(g, z)
  <2>1. \A z \in M : Key(v, z) = Key(t, z)
    BY <1>2, <1>3
  <2> QED
    BY <1>3, <2>1, SkipPlaced DEF KeepPlaces
<1>6. (N \ {node}) \cup {subst} = Others(M, node) /\ node \in N
  BY <1>2 DEF Others
<1> HIDE DEF N
<1>7. Kin(u, Others(M, node))
  BY <1>1, <1>4, <1>6, RenamedKin
<1>8. t \in Trees /\ subst \in Cells /\ N \subseteq M
  BY <1>2 DEF Kin, N, Others
<1>9. Key(u, subst) = Key(t, subst) /\ Key(u, subst) \in Nat
      /\ \A z \in M : Key(t, z) \in Nat /\ Key(u, z) = Key(t, z) /\ Key(v, z) = Key(t, z)
  BY <1>1, <1>2, <1>3, <1>8, TreeFields
<1>10. ASSUME NEW z \in N \ {node}
       PROVE  /\ Pos(h, z) < Pos(h, node) => Key(v, z) <= Key(u, subst)
              /\ Pos(h, node) < Pos(h, z) => Key(u, subst) <= Key(v, z)
  <2>1. z \in M /\ z # subst /\ Pos(h, z) = Pos(g, z) /\ Pos(h, node) = Pos(g, node)
    BY <1>2, <1>5, <1>6 DEF N, Others
  <2>2. /\ Pos(g, z) < Pos(g, node) => Pos(g, z) < Pos(g, subst)
        /\ Pos(g, node) < Pos(g, z) => Pos(g, z) = Pos(g, subst) \/ Pos(g, subst) < Pos(g, z)
    BY <2>1, FollowsIs
  <2>3. /\ Pos(g, z) = Pos(g, subst) => z = subst
        /\ Pos(g, z) < Pos(g, subst) => Key(t, z) <= Key(t, subst)
        /\ Pos(g, subst) < Pos(g, z) => Key(t, subst) <= Key(t, z)
    BY <1>2, <2>1 DEF Placed, InOrder
  <2> QED
    BY <1>9, <2>1, <2>2, <2>3
<1>11. \A z \in N \ {node} : Key(u, z) = Key(v, z)
  BY <1>8, <1>9
<1>12. PICK f : /\ Placed(u, (N \ {node}) \cup {subst}, f) /\ Pos(f, subst) = Pos(h, node)
                /\ \A z \in N \ {node} : Pos(f, z) = Pos(h, z)
  <2>1. KeepsPlace(u, N, h, node, subst)
    BY <1>1, <1>4, <1>5, <1>9, <1>10, <1>11, RenamedPlaced
  <2> QED
    BY <2>1 DEF KeepsPlace
<1>13. ASSUME NEW x \in Others(M, node), NEW y \in Others(M, node), Pos(g, x) < Pos(g, y)
       PROVE  Pos(f, x) < Pos(f, y)
  <2>1. \A z \in Others(M, node) : z # subst => /\ z \in M /\ Pos(f, z) = Pos(g, z)
                                                /\ Pos(g, z) # Pos(g, node)
    BY <1>2, <1>5, <1>6, <1>8, <1>12 DEF Placed, InOrder, Others
  <2>2. Pos(f, subst) = Pos(g, node) /\ Pos(g, node) < Pos(g, subst)
    <3>1. "left" \in Sides /\ Lim(g, "left", subst) = Pos(g, node) /\ Pos(h, node) = Pos(g, node)
      BY <1>2, <1>5, <1>6 DEF Follows, Sides
    <3> QED
      BY <1>2, <1>12, <3>1 DEF Placed, Nested, Lies, Before
  <2>3. \A z \in M : Pos(g, z) \in Int
    BY DEF Placed, Typed
  <2>4. /\ \A z \in M : Pos(g, node) < Pos(g, z) => Pos(g, z) = Pos(g, subst) \/ Pos(g, subst) < Pos(g, z)
    BY FollowsIs
  <2>5. CASE x = subst
    BY <1>2, <1>13, <2>1, <2>2, <2>3, <2>5
  <2>6. CASE x # subst /\ y = subst
    BY <1>2, <1>13, <2>1, <2>2, <2>3, <2>4, <2>6
  <2>7. CASE x # subst /\ y # subst
    BY <1>13, <2>1, <2>7
  <2> QED
    BY <2>5, <2>6, <2>7
<1>14. Agrees(g, u, Others(M, node))
  BY <1>6, <1>12, <1>13 DEF Agrees
<1> QED
  BY <1>1, <1>6, <1>7, <1>12, <1>14 DEF Shaped

LEMMA ResetShaped ==
  ASSUME NEW t, NEW u, NEW M, Shaped(t, M), u = ResetSentinel(t)
  PROVE  /\ Shaped(u, M) /\ OrderKept(t, M, u, M) /\ Parent(u, Nil) = Nil
         /\ \A z \in Cells : Key(u, z) = Key(t, z)
<1>1. M \subseteq Cells /\ Nil \in Cells /\ Nil \notin M /\ t \in Trees
      /\ \A z \in Nodes : z \in Cells /\ z # Nil
  BY KinCells, NilNull DEF Shaped, Kin, Cells
<1>2. /\ u \in Trees /\ Root(u) = Root(t)
      /\ \A z \in Cells : Parent(u, z) = IF z = Nil THEN Nil ELSE Parent(t, z)
      /\ \A z \in Cells, d \in Sides : Child(u, d, z) = Child(t, d, z)
      /\ SameData(t, u)
  BY <1>1, ResetIs
<1>3. Kin(u, M)
  <2>1. \A x \in M : /\ Parent(u, x) \in M \cup {Nil}
                     /\ (Parent(u, x) = Nil) <=> (x = Root(u))
                     /\ Parent(u, x) # Nil => \E d \in Sides : Child(u, d, Parent(u, x)) = x
    BY <1>1, <1>2 DEF Shaped, Kin
  <2>2. \A x \in M, d \in Sides :
          /\ Child(u, d, x) \in M \cup {Nil}
          /\ Child(u, d, x) # Nil => /\ Parent(u, Child(u, d, x)) = x
                                     /\ Child(u, Other(d), x) # Child(u, d, x)
    BY <1>1, <1>2, OtherSide DEF Shaped, Kin
  <2>3. \A x \in Nodes \ M : Parent(u, x) = Null /\ \A d \in Sides : Child(u, d, x) = Null
    BY <1>1, <1>2 DEF Shaped, Kin
  <2>4. Parent(u, Nil) \in M \cup {Nil} /\ \A d \in Sides : Child(u, d, Nil) = Nil
    BY <1>1, <1>2 DEF Shaped, Kin
  <2>5. Root(u) \in M \cup {Nil} /\ (Root(u) = Nil => M = {}) /\ M \subseteq Nodes
    BY <1>2 DEF Shaped, Kin
  <2> QED
    BY <1>2, <2>1, <2>2, <2>3, <2>4, <2>5 DEF Kin
<1>4. PICK g : Placed(t, M, g)
  BY DEF Shaped
<1>5. \A z \in Cells : Key(u, z) = Key(t, z)
  BY <1>2 DEF SameData
<1>6. ASSUME NEW f, Placed(t, M, f) PROVE Placed(u, M, f)
  <2>1. Nested(u, M, f)
    BY <1>1, <1>2, <1>6, NestedSame DEF Placed
  <2>2. InOrder(u, M, f)
    BY <1>1, <1>5, <1>6 DEF Placed, InOrder
  <2> QED
    BY <1>6, <2>1, <2>2 DEF Placed
<1>7. OrderKept(t, M, u, M)
  BY <1>6 DEF OrderKept, Agrees
<1> QED
  BY <1>1, <1>2, <1>3, <1>4, <1>5, <1>6, <1>7 DEF Shaped

\* The node that is taken out, and the side on which it may have a child.
Victim(t, node) ==
  IF \E d \in Sides : Child(t, d, node) = Nil THEN node
  ELSE Leftmost(t, Child(t, "right", node))
OnlySide(t, x) == IF Child(t, "left", x) = Nil THEN "right" ELSE "left"

Orphan(t, node) == Child(t, OnlySide(t, Victim(t, node)), Victim(t, node))

\* The tree without the node, before the fix-up.
Taken(t, node) ==
  LET subst == Victim(t, node)
      t1 == Bypass(t, node, subst, Orphan(t, node))
  IN  Detach(IF subst = node THEN t1 ELSE TakePlace(t1, node, subst), node)

\* A root that is taken out.
TakenRoot(t, node) ==
  LET temp == Orphan(t, node)
  IN  ResetSentinel(Detach(SetParent(Paint(SetRoot(t, temp), temp, "black"), temp, Nil), node))

LEMMA DeleteIs ==
  ASSUME NEW t, NEW node
  PROVE  DeleteNode(t, node) =
           IF ~ InTree(t, node) THEN t
           ELSE IF Victim(t, node) = Root(t) THEN TakenRoot(t, node)
           ELSE ResetSentinel(IF Red(t, Victim(t, node)) THEN Taken(t, node)
                              ELSE DeleteFixup(Taken(t, node), Orphan(t, node)))
<1>1. \A x : Child(t, OnlySide(t, x), x) = IF t.left[x] = Nil THEN t.right[x] ELSE t.left[x]
  BY DEF Child, OnlySide
<1>2. Victim(t, node) = IF Nil \in {t.left[node], t.right[node]} THEN node
                        ELSE Leftmost(t, t.right[node])
  BY DEF Victim, Sides, Child
<1> DEFINE subst == Victim(t, node)
           temp == Orphan(t, node)
<1>3. temp = IF t.left[subst] = Nil THEN t.right[subst] ELSE t.left[subst]
  BY <1>1 DEF Orphan
<1> HIDE DEF subst, temp
<1>4. subst = IF Nil \in {t.left[node], t.right[node]} THEN node ELSE Leftmost(t, t.right[node])
  BY <1>2 DEF subst
<1>5. Taken(t, node) = Detach(IF subst = node THEN Bypass(t, node, subst, temp)
                              ELSE TakePlace(Bypass(t, node, subst, temp), node, subst), node)
  BY DEF Taken, subst, temp
<1>6. DeleteNode(t, node) =
        IF ~ InTree(t, node) THEN t
        ELSE IF subst = t.root
          THEN ResetSentinel(Detach(SetParent(Paint(SetRoot(t, temp), temp, "black"),
                                              temp, Nil), node))
        ELSE ResetSentinel(IF Red(t, subst) THEN Taken(t, node)
                           ELSE DeleteFixup(Taken(t, node), temp))
  BY <1>3, <1>4, <1>5 DEF DeleteNode
<1> QED
  BY <1>6 DEF TakenRoot, Root, subst, temp

\* Of a member of the tree.
LEMMA VictimIs ==
  ASSUME NEW t, NEW M, NEW g, NEW node, Kin(t, M), Placed(t, M, g), node \in M
  PROVE  LET subst == Victim(t, node)
             e == OnlySide(t, subst)
         IN  /\ InTree(t, node) /\ subst \in M /\ e \in Sides /\ Child(t, Other(e), subst) = Nil
             /\ subst # node => Follows(t, M, g, node, subst) /\ e = "right"
<1>1. Nil \notin M /\ Null \notin M /\ Nil # Null
  BY KinCells, NilNull
<1>2. InTree(t, node)
  <2>1. Child(t, "left", node) # Null /\ Child(t, "right", node) # Null /\ Parent(t, node) # Null
    BY <1>1 DEF Kin, Sides
  <2> QED
    BY <2>1 DEF InTree, Child, Parent
<1>3. CASE \E d \in Sides : Child(t, d, node) = Nil
  <2>1. Victim(t, node) = node
    BY <1>3 DEF Victim
  <2>2. OnlySide(t, node) \in Sides /\ Child(t, Other(OnlySide(t, node)), node) = Nil
    BY <1>3 DEF OnlySide, Sides, Other
  <2> QED
    BY <1>2, <2>1, <2>2
<1>4. CASE ~ \E d \in Sides : Child(t, d, node) = Nil
  <2> DEFINE r == Child(t, "right", node)
             subst == Leftmost(t, r)
  <2>1. Victim(t, node) = subst
    BY <1>4 DEF Victim
  <2>2. r \in M /\ Lim(g, "left", r) = Pos(g, node)
    BY <1>1, <1>4 DEF Kin, Placed, Nested, Sides, Other
  <2> HIDE DEF r
  <2>3. /\ subst \in M /\ Child(t, "left", subst) = Nil
        /\ Lim(g, "left", subst) = Pos(g, node)
    BY <2>2, LeftmostIs
  <2> HIDE DEF subst
  <2>4. OnlySide(t, subst) = "right" /\ Other("right") = "left" /\ "right" \in Sides
    BY <2>3 DEF OnlySide, Other, Sides
  <2>5. Follows(t, M, g, node, subst)
    BY <2>3 DEF Follows
  <2> QED
    BY <1>2, <2>1, <2>3, <2>4, <2>5
<1> QED
  BY <1>3, <1>4

\* A tree without the node, otherwise in the same order and with the same keys.
TakenOut(t, u, M, node) ==
  /\ Shaped(u, Others(M, node)) /\ OrderKept(t, M, u, Others(M, node))
  /\ \A z \in Cells : Key(u, z) = Key(t, z)

LEMMA TakenShaped ==
  ASSUME NEW t, NEW M, NEW node, Shaped(t, M), Parent(t, Nil) = Nil, node \in M
  PROVE  /\ Orphan(t, node) \in Others(M, node) \cup {Nil}
         /\ Victim(t, node) = Root(t) =>
              /\ TakenOut(t, TakenRoot(t, node), M, node)
              /\ Parent(TakenRoot(t, node), Nil) = Nil
         /\ Victim(t, node) # Root(t) =>
              /\ TakenOut(t, Taken(t, node), M, node)
              /\ Parent(Taken(t, node), Orphan(t, node)) =
                   As(node, Victim(t, node), Parent(t, Victim(t, node)))
<1> DEFINE subst == Victim(t, node)
           temp == Orphan(t, node)
           e == OnlySide(t, subst)
<1>1. ASSUME NEW g, Placed(t, M, g)
      PROVE  /\ temp \in Others(M, node) \cup {Nil}
             /\ subst = Root(t) =>
                  /\ Shaped(TakenRoot(t, node), Others(M, node))
                  /\ Agrees(g, TakenRoot(t, node), Others(M, node))
                  /\ \A z \in Cells : Key(TakenRoot(t, node), z) = Key(t, z)
                  /\ Parent(TakenRoot(t, node), Nil) = Nil
             /\ subst # Root(t) =>
                  /\ Shaped(Taken(t, node), Others(M, node))
                  /\ Agrees(g, Taken(t, node), Others(M, node))
                  /\ \A z \in Cells : Key(Taken(t, node), z) = Key(t, z)
                  /\ Parent(Taken(t, node), temp) = As(node, subst, Parent(t, subst))
  <2>2. Kin(t, M)
    BY DEF Shaped
  <2>3. /\ subst \in M /\ e \in Sides /\ Child(t, Other(e), subst) = Nil
        /\ subst # node => Follows(t, M, g, node, subst) /\ e = "right"
    BY <1>1, <2>2, VictimIs
  <2>4. temp = Child(t, e, subst)
    BY DEF Orphan
  <2> HIDE DEF e, subst, temp
  <2>5. temp \in Others(M, node) \cup {Nil}
    <3>1. temp \in M \cup {Nil} /\ temp # subst
      BY <1>1, <2>2, <2>3, <2>4, Around DEF Kin
    <3>2. subst # node => temp # node
      BY <1>1, <2>2, <2>3, <2>4, FollowsIs
    <3> QED
      BY <3>1, <3>2 DEF Others
  <2>6. ASSUME subst = Root(t), NEW u, u = TakenRoot(t, node)
        PROVE  /\ Shaped(u, Others(M, node)) /\ Agrees(g, u, Others(M, node))
               /\ \A z \in Cells : Key(u, z) = Key(t, z)
               /\ Parent(u, Nil) = Nil
    <3>1. subst = node
      BY <1>1, <2>2, <2>3, <2>6, FollowsIs
    <3>2. u = ResetSentinel(Detach(SetParent(Paint(SetRoot(t, temp), temp, "black"), temp, Nil), subst))
      BY <2>6, <3>1 DEF TakenRoot, temp
    <3>3. /\ Skip(t, u, M, subst, e) /\ \A z \in Cells : Key(u, z) = Key(t, z)
          /\ Parent(u, Nil) = Nil
      BY <1>1, <2>2, <2>3, <2>4, <2>6, <3>2, RootSkips
    <3> QED
      BY <1>1, <2>2, <3>1, <3>3, SkipShaped
  <2>7. ASSUME subst # Root(t), NEW u, u = Taken(t, node)
        PROVE  /\ Shaped(u, Others(M, node)) /\ Agrees(g, u, Others(M, node))
               /\ \A z \in Cells : Key(u, z) = Key(t, z)
               /\ Parent(u, temp) = As(node, subst, Parent(t, subst))
    <3>0. u = Detach(IF subst = node THEN Bypass(t, node, subst, temp)
                     ELSE TakePlace(Bypass(t, node, subst, temp), node, subst), node)
      BY <2>7 DEF Taken, subst, temp
    <3>1. CASE subst = node
      <4>1. u = Detach(Bypass(t, subst, subst, temp), subst)
        BY <3>0, <3>1
      <4>2. /\ Skip(t, u, M, subst, e) /\ \A z \in Cells : Key(u, z) = Key(t, z)
            /\ Parent(u, temp) = Parent(t, subst)
        BY <1>1, <2>2, <2>3, <2>4, <2>7, <4>1, BypassSkips
      <4>3. As(node, subst, Parent(t, subst)) = Parent(t, subst)
        BY <3>1 DEF As
      <4> QED
        BY <1>1, <2>2, <3>1, <4>2, <4>3, SkipShaped
    <3>2. CASE subst # node
      <4>1. u = Detach(TakePlace(Bypass(t, node, subst, temp), node, subst), node)
        BY <3>0, <3>2
      <4>2. Follows(t, M, g, node, subst) /\ temp = Child(t, "right", subst)
        BY <2>3, <2>4, <3>2
      <4> QED
        BY <1>1, <2>2, <4>1, <4>2, TakePlaceShaped
    <3> QED
      BY <3>1, <3>2
  <2> QED
    BY <2>5, <2>6, <2>7 DEF subst, temp
<1>2. \E g : Placed(t, M, g)
  BY DEF Shaped
<1> HIDE DEF subst, temp
<1>3. ASSUME subst = Root(t)
      PROVE  TakenOut(t, TakenRoot(t, node), M, node) /\ Parent(TakenRoot(t, node), Nil) = Nil
  <2>1. OrderKept(t, M, TakenRoot(t, node), Others(M, node))
    BY <1>1, <1>3 DEF OrderKept
  <2> QED
    BY <1>1, <1>2, <1>3, <2>1 DEF TakenOut
<1>4. ASSUME subst # Root(t)
      PROVE  /\ TakenOut(t, Taken(t, node), M, node)
             /\ Parent(Taken(t, node), temp) = As(node, subst, Parent(t, subst))
  <2>1. OrderKept(t, M, Taken(t, node), Others(M, node))
    BY <1>1, <1>4 DEF OrderKept
  <2> QED
    BY <1>1, <1>2, <1>4, <2>1 DEF TakenOut
<1> QED
  BY <1>1, <1>2, <1>3, <1>4 DEF subst, temp

LEMMA DeleteShaped ==
  ASSUME NEW t, NEW u, NEW M, NEW node, Shaped(t, M), Parent(t, Nil) = Nil, node \in Nodes,
         u = DeleteNode(t, node)
  PROVE  /\ Shaped(u, Others(M, node)) /\ OrderKept(t, M, u, Others(M, node))
         /\ Parent(u, Nil) = Nil
         /\ \A z \in Cells : Key(u, z) = Key(t, z)
<1> DEFINE subst == Victim(t, node)
           temp == Orphan(t, node)
           v == Taken(t, node)
           w == IF Red(t, subst) THEN v ELSE DeleteFixup(v, temp)
<1>1. u = IF ~ InTree(t, node) THEN t
          ELSE IF subst = Root(t) THEN TakenRoot(t, node) ELSE ResetSentinel(w)
  BY DeleteIs
<1>2. CASE node \notin M
  <2>1. Parent(t, node) = Null /\ Others(M, node) = M
    BY <1>2 DEF Others, Shaped, Kin
  <2>2. u = t
    <3> HIDE DEF subst, temp, w
    <3> QED
      BY <1>1, <2>1 DEF InTree, Parent
  <2>3. OrderKept(t, M, t, M)
    BY DEF OrderKept, Agrees
  <2> QED
    BY <2>1, <2>2, <2>3
<1>3. CASE node \in M
  <2>1. InTree(t, node)
    BY <1>3, VictimIs DEF Shaped
  <2>2a. temp \in Others(M, node) \cup {Nil}
    BY <1>3, TakenShaped
  <2>2b. subst = Root(t) => /\ TakenOut(t, TakenRoot(t, node), M, node)
                           /\ Parent(TakenRoot(t, node), Nil) = Nil
    BY <1>3, TakenShaped
  <2>2c. subst # Root(t) => TakenOut(t, v, M, node)
    BY <1>3, TakenShaped
  <2> HIDE DEF subst, temp
  <2>3. CASE subst = Root(t)
    <3>1. u = TakenRoot(t, node)
      BY <1>1, <2>1, <2>3
    <3> QED
      BY <2>2b, <2>3, <3>1 DEF TakenOut
  <2>4. CASE subst # Root(t)
    <3>1. /\ Shaped(v, Others(M, node)) /\ OrderKept(t, M, v, Others(M, node))
          /\ \A z \in Cells : Key(v, z) = Key(t, z)
      BY <2>2c, <2>4 DEF TakenOut
    <3> HIDE DEF v
    <3>2. Rebuilt(v, DeleteFixup(v, temp), Others(M, node))
      BY <2>2a, <3>1, FixupsShaped
    <3>2a. OrderKept(v, Others(M, node), w, Others(M, node))
      <4>1. OrderKept(v, Others(M, node), v, Others(M, node))
        BY <3>1, ShapedRebuilt DEF Rebuilt
      <4> QED
        BY <3>2, <4>1 DEF Rebuilt
    <3>3. /\ Shaped(w, Others(M, node)) /\ OrderKept(t, M, w, Others(M, node))
          /\ \A z \in Cells : Key(w, z) = Key(t, z)
      <4>1. Shaped(w, Others(M, node)) /\ \A z \in Cells : Key(w, z) = Key(t, z)
        BY <3>1, <3>2 DEF Rebuilt
      <4> HIDE DEF w
      <4> QED
        BY <3>1, <3>2a, <4>1, OrderTrans
    <3> HIDE DEF w
    <3>4. u = ResetSentinel(w)
      BY <1>1, <2>1, <2>4
    <3>5. /\ Shaped(u, Others(M, node)) /\ OrderKept(w, Others(M, node), u, Others(M, node))
          /\ Parent(u, Nil) = Nil /\ \A z \in Cells : Key(u, z) = Key(w, z)
      BY <3>3, <3>4, ResetShaped
    <3> QED
      BY <3>3, <3>5, OrderTrans
  <2> QED
    BY <2>3, <2>4
<1> QED
  BY <1>2, <1>3

----------------------------------------------------------------------------
(* The colours: as many black nodes on each way down.                       *)

\* What a node counts on a way down.
Tint(t, x) == IF Red(t, x) THEN 0 ELSE 1

\* The black nodes from a node down.
Hgt(h, x) == h[x]

\* What is missing on side s of p, and nowhere if p is the sentinel.
Owed(x, d, p, s) == IF x = p /\ d = s THEN 1 ELSE 0
Level(t, h, x, d, p, s) == Hgt(h, x) = Hgt(h, Child(t, d, x)) + Tint(t, x) + Owed(x, d, p, s)
Heights(t, M, h, p, s) ==
  /\ Hgt(h, Nil) = 1
  /\ \A x \in M : Hgt(h, x) \in Nat \ {0} /\ \A d \in Sides : Level(t, h, x, d, p, s)

\* A red node with a red child.
RedPair(t, x, d) == Red(t, x) /\ Red(t, Child(t, d, x))

Coloured(t, M) ==
  /\ ~ Red(t, Nil) /\ ~ Red(t, Root(t))
  /\ \A x \in M, d \in Sides : ~ RedPair(t, x, d)
  /\ \E h : Heights(t, M, h, Nil, "left")

\* The heights, but v at a.
With(h, a, v) == [z \in Cells |-> IF z = a THEN v ELSE Hgt(h, z)]

LEMMA WithIs ==
  ASSUME NEW h, NEW a, NEW v
  PROVE  \A z \in Cells : Hgt(With(h, a, v), z) = IF z = a THEN v ELSE Hgt(h, z)
BY DEF With, Hgt

LEMMA TintIs ==
  ASSUME NEW t, NEW x
  PROVE  /\ Red(t, x) => Tint(t, x) = 0
         /\ ~ Red(t, x) => Tint(t, x) = 1
         /\ Tint(t, x) \in Nat
BY DEF Tint

LEMMA OwedIs ==
  ASSUME NEW x, NEW d, NEW p, NEW s
  PROVE  /\ x = p /\ d = s => Owed(x, d, p, s) = 1
         /\ x # p \/ d # s => Owed(x, d, p, s) = 0
         /\ Owed(x, d, p, s) \in Nat
BY DEF Owed

LEMMA HeightsIs ==
  ASSUME NEW t, NEW M, NEW h, NEW p, NEW s, NEW x, NEW d,
         Heights(t, M, h, p, s), x \in M \cup {Nil}, d \in Sides
  PROVE  /\ Hgt(h, x) \in Nat \ {0} /\ Hgt(h, Nil) = 1
         /\ x # Nil => Hgt(h, x) = Hgt(h, Child(t, d, x)) + Tint(t, x) + Owed(x, d, p, s)
BY DEF Heights, Level

\* The same tree in other colours.
Recoloured(t, u) == u \in Trees /\ SameShape(t, u) /\ \A z \in Cells : Key(u, z) = Key(t, z)

LEMMA RecolouredTrans ==
  ASSUME NEW t, NEW u, NEW v, Recoloured(t, u), Recoloured(u, v)
  PROVE  Recoloured(t, v)
BY DEF Recoloured, SameShape

LEMMA RecolouredPlaced ==
  ASSUME NEW t, NEW u, NEW M, NEW g, Kin(t, M), Placed(t, M, g), Recoloured(t, u)
  PROVE  Kin(u, M) /\ Placed(u, M, g)
<1>1. Kin(u, M)
  BY SameShaped DEF Recoloured
<1>2. M \subseteq Cells
  BY KinCells
<1>3. Nested(u, M, g)
  BY <1>2, NestedSame DEF Recoloured, SameShape, Placed
<1>4. InOrder(u, M, g)
  BY <1>2 DEF Recoloured, Placed, InOrder
<1> QED
  BY <1>1, <1>3, <1>4 DEF Placed

LEMMA PaintColours ==
  ASSUME NEW t, NEW x, NEW c,
         t \in Trees, x \in Cells, c \in {"red", "black"}
  PROVE  /\ Recoloured(t, Paint(t, x, c))
         /\ \A z \in Cells : Red(Paint(t, x, c), z) <=> IF z = x THEN c = "red" ELSE Red(t, z)
BY PaintIs DEF Recoloured

\* The heights after a rotation, when those outside x and y fit.
LEMMA TurnHeights ==
  ASSUME NEW t, NEW M, NEW g, NEW side, NEW x, NEW y, NEW b, NEW r, NEW h, NEW k, NEW p, NEW s,
         Turn(t, M, side, x, y, b), Placed(t, M, g), r = Rotate(t, side, x),
         Hgt(k, Nil) = 1, \A z \in M : Hgt(k, z) \in Nat \ {0},
         \A z \in M \cup {Nil} : z \notin {x, y} => Hgt(k, z) = Hgt(h, z),
         Hgt(k, y) = Hgt(h, x),
         \A z \in M, d \in Sides : z \notin {x, y} => Level(t, h, z, d, p, s),
         Hgt(k, y) = Hgt(k, x) + Tint(t, y) + Owed(y, side, p, s),
         Hgt(k, y) = Hgt(k, Child(t, Other(side), y)) + Tint(t, y) + Owed(y, Other(side), p, s),
         Hgt(k, x) = Hgt(k, b) + Tint(t, x) + Owed(x, Other(side), p, s),
         Hgt(k, x) = Hgt(k, Child(t, side, x)) + Tint(t, x) + Owed(x, side, p, s)
  PROVE  Heights(r, M, k, p, s)
<1>1. /\ \A z \in Cells, d \in Sides : Child(r, d, z) =
           IF z = y /\ d = side THEN x ELSE IF z = x /\ d = Other(side) THEN b
           ELSE IF Child(t, d, z) = x /\ z # Nil THEN y ELSE Child(t, d, z)
      /\ SameData(t, r)
  BY TurnChanges
<1>2. /\ Other(side) \in Sides /\ Other(side) # side /\ Nil \notin M
      /\ x # y /\ Parent(t, y) = x /\ Parent(t, x) \notin {x, y}
  BY TurnIs
<1>3. M \subseteq Cells /\ x \in M /\ y \in M /\ side \in Sides
  BY KinCells DEF Turn
<1>4. \A z \in M : Tint(r, z) = Tint(t, z)
  BY <1>1, <1>3 DEF SameData, Tint
<1>5. \A z \in M, d \in Sides : Child(t, d, z) \in M \cup {Nil} /\
                                (Child(t, d, z) # Nil => Parent(t, Child(t, d, z)) = z)
  BY DEF Turn, Kin
<1>6. \A d \in Sides : d = side \/ d = Other(side)
  BY <1>3, OtherSide
<1> SUFFICES ASSUME NEW z \in M, NEW d \in Sides
             PROVE  Level(r, k, z, d, p, s)
  BY DEF Heights
<1>7. CASE z = y
  <2>1. Child(t, d, y) # x
    BY <1>2, <1>3, <1>5
  <2>2. Child(r, d, y) = IF d = side THEN x ELSE Child(t, Other(side), y)
    BY <1>1, <1>2, <1>3, <1>6, <2>1
  <2> QED
    BY <1>3, <1>4, <1>6, <1>7, <2>2 DEF Level
<1>8. CASE z = x
  <2>1. Child(t, d, x) # x
    BY <1>2, <1>3, <1>5
  <2>2. Child(r, d, x) = IF d = side THEN Child(t, side, x) ELSE b
    BY <1>1, <1>2, <1>3, <1>6, <2>1
  <2> QED
    BY <1>3, <1>4, <1>6, <1>8, <2>2 DEF Level
<1>9. CASE z \notin {x, y}
  <2>1. Child(t, d, z) # y
    BY <1>2, <1>3, <1>5, <1>9
  <2>2. Hgt(h, z) = Hgt(h, Child(t, d, z)) + Tint(t, z) + Owed(z, d, p, s) /\ Hgt(k, z) = Hgt(h, z)
    BY <1>9 DEF Level
  <2>3. CASE Child(t, d, z) = x
    <3>1. Child(r, d, z) = y
      BY <1>1, <1>2, <1>3, <1>9, <2>3
    <3> QED
      BY <1>4, <2>2, <2>3, <3>1 DEF Level
  <2>4. CASE Child(t, d, z) # x
    <3>1. Child(r, d, z) = Child(t, d, z)
      BY <1>1, <1>2, <1>3, <1>9, <2>4
    <3>2. Hgt(k, Child(t, d, z)) = Hgt(h, Child(t, d, z))
      BY <1>5, <2>1, <2>4
    <3> QED
      BY <1>4, <2>2, <3>1, <3>2 DEF Level
  <2> QED
    BY <2>3, <2>4
<1> QED
  BY <1>7, <1>8, <1>9

----------------------------------------------------------------------------
(* The colours after rbtree_insert.                                         *)

\* Only node may have a red parent or be a red root.
Rising(t, M, h, node) ==
  /\ node \in M /\ Red(t, node) /\ ~ Red(t, Nil) /\ Parent(t, Nil) = Nil
  /\ Heights(t, M, h, Nil, "left")
  /\ \A x \in M, d \in Sides : RedPair(t, x, d) => Child(t, d, x) = node
  /\ Red(t, Root(t)) => Root(t) = node

\* Around a node with a red parent.
LEMMA RisingIs ==
  ASSUME NEW t, NEW M, NEW g0, NEW h, NEW node, NEW p, NEW g, NEW side,
         Kin(t, M), Placed(t, M, g0), Rising(t, M, h, node),
         p = Parent(t, node), g = Parent(t, p), Red(t, p), side = SideOf(t, g, p)
  PROVE  /\ p \in M /\ g \in M /\ p # node /\ g # p /\ g # node /\ ~ Red(t, g) /\ ~ Red(t, Root(t))
         /\ side \in Sides /\ Child(t, side, g) = p
         /\ node = Child(t, Other(side), p) \/ node = Child(t, side, p)
         /\ Child(t, Other(side), g) \in M \cup {Nil} /\ Child(t, Other(side), g) # p
         /\ Child(t, Other(side), g) # g
<1>1. p \in M /\ node \in M /\ node # Root(t)
  BY DEF Rising, Kin
<1>2. p # node /\ g # p
  BY <1>1, Around
<1>3. ~ Red(t, Root(t)) /\ p # Root(t)
  BY <1>1, <1>2 DEF Rising
<1>4. g \in M /\ side \in Sides /\ Child(t, side, g) = p
  <2>1. g \in M /\ \E d \in Sides : Child(t, d, g) = p
    BY <1>1, <1>3, KinCells DEF Kin
  <2> QED
    BY <2>1, SideOfIs
<1>5. ~ Red(t, g) /\ g # node
  BY <1>1, <1>2, <1>4 DEF Rising, RedPair
<1>6. \E d \in Sides : Child(t, d, p) = node
  BY <1>1, KinCells DEF Kin
<1>7. Other(side) \in Sides /\ \A d \in Sides : d = side \/ d = Other(side)
  BY <1>4, OtherSide
<1>8. Child(t, Other(side), g) \in M \cup {Nil} /\ Child(t, Other(side), g) # p
  BY <1>1, <1>4, <1>7, KinCells DEF Kin
<1>9. Child(t, Other(side), g) # g
  BY <1>4, <1>7, Around
<1> QED
  BY <1>1, <1>2, <1>3, <1>4, <1>5, <1>6, <1>7, <1>8, <1>9

\* With a black uncle, the rotation ends it: u is the painted tree, v the rotated one.
Turned(t, M, h, node, p, g, side, u, v) ==
  /\ Rising(t, M, h, node) /\ Red(t, p)
  /\ p \in M /\ g \in M /\ p # node /\ g # p /\ g # node /\ ~ Red(t, g) /\ ~ Red(t, Root(t))
  /\ side \in Sides /\ Child(t, side, g) = p /\ Child(t, side, p) = node
  /\ Recoloured(t, u)
  /\ \A z \in Cells : Red(u, z) <=> IF z = g THEN TRUE ELSE z # p /\ Red(t, z)
  /\ v = Rotate(u, Other(side), g)

LEMMA TurnedIs ==
  ASSUME NEW t, NEW M, NEW g0, NEW h, NEW node, NEW p, NEW g, NEW side, NEW far, NEW u, NEW v,
         NEW b, Kin(t, M), Placed(t, M, g0), Turned(t, M, h, node, p, g, side, u, v),
         far = Other(side), b = Child(t, far, p)
  PROVE  /\ Turn(u, M, far, g, p, b) /\ Kin(u, M) /\ Placed(u, M, g0)
         /\ b \in M \cup {Nil} /\ b # p /\ b # g /\ b # node /\ ~ Red(t, b)
         /\ Root(v) = IF g = Root(t) THEN p ELSE Root(t)
         /\ \A z \in Cells : Parent(v, z) = IF z = g THEN p ELSE IF z = p THEN Parent(t, g)
                               ELSE IF z = b /\ b # Nil THEN g ELSE Parent(t, z)
         /\ \A z \in Cells, d \in Sides : Child(v, d, z) =
              IF z = p /\ d = far THEN g ELSE IF z = g /\ d = side THEN b
              ELSE IF Child(t, d, z) = g /\ z # Nil THEN p ELSE Child(t, d, z)
         /\ \A z \in Cells : Red(v, z) <=> IF z = g THEN TRUE ELSE z # p /\ Red(t, z)
<1>1. /\ p \in M /\ g \in M /\ p # node /\ g # p /\ g # node /\ Red(t, p)
      /\ side \in Sides /\ Child(t, side, g) = p /\ Child(t, side, p) = node
      /\ Rising(t, M, h, node) /\ Recoloured(t, u) /\ v = Rotate(u, far, g)
      /\ \A z \in Cells : Red(u, z) <=> IF z = g THEN TRUE ELSE z # p /\ Red(t, z)
  BY DEF Turned
<1>2. M \subseteq Cells /\ Nil \notin M /\ Nil \in Cells /\ node \in M /\ t \in Trees
  BY <1>1, KinCells DEF Rising, Kin
<1>3. far \in Sides /\ far # side /\ Other(far) = side /\ \A d \in Sides : d = side \/ d = far
  BY <1>1, OtherSide
<1>5. /\ Kin(u, M) /\ Placed(u, M, g0) /\ Root(u) = Root(t)
      /\ \A z \in Cells : Parent(u, z) = Parent(t, z)
      /\ \A z \in Cells, d \in Sides : Child(u, d, z) = Child(t, d, z)
  BY <1>1, RecolouredPlaced DEF Recoloured, SameShape
<1>7. Turn(u, M, far, g, p, b)
  <2>1. p = Child(u, Other(far), g) /\ b = Child(u, far, p)
    BY <1>1, <1>2, <1>3, <1>5 
  <2> QED
    BY <1>1, <1>3, <1>5, <2>1 DEF Turn
<1>6. b \in M \cup {Nil} /\ b # p /\ b # g /\ b # node /\ ~ Red(t, b)
  <2>1. b # node
    BY <1>1, <1>2, <1>3 DEF Kin
  <2>2. b \in M \cup {Nil} /\ b # p /\ b # g
    BY <1>5, <1>7, TurnIs
  <2> QED
    BY <1>1, <1>3, <2>1, <2>2 DEF Rising, RedPair
<1>8. /\ Root(v) = IF g = Root(t) THEN p ELSE Root(t)
      /\ \A z \in Cells : Parent(v, z) = IF z = g THEN p ELSE IF z = p THEN Parent(t, g)
                               ELSE IF z = b /\ b # Nil THEN g ELSE Parent(t, z)
      /\ \A z \in Cells, d \in Sides : Child(v, d, z) =
           IF z = p /\ d = far THEN g ELSE IF z = g /\ d = side THEN b
           ELSE IF Child(t, d, z) = g /\ z # Nil THEN p ELSE Child(t, d, z)
      /\ \A z \in Cells : Red(v, z) <=> IF z = g THEN TRUE ELSE z # p /\ Red(t, z)
  <2>1. /\ Root(v) = IF g = Root(u) THEN p ELSE Root(u)
        /\ \A z \in Cells : Parent(v, z) = IF z = g THEN p ELSE IF z = p THEN Parent(u, g)
                               ELSE IF z = b /\ b # Nil THEN g ELSE Parent(u, z)
        /\ \A z \in Cells, d \in Sides : Child(v, d, z) =
           IF z = p /\ d = far THEN g ELSE IF z = g /\ d = Other(far) THEN b
           ELSE IF Child(u, d, z) = g /\ z # Nil THEN p ELSE Child(u, d, z)
        /\ SameData(u, v)
    BY <1>1, <1>5, <1>7, TurnChanges
  <2>2. \A z \in Cells : Red(v, z) <=> Red(u, z)
    BY <2>1 DEF SameData
  <2>3. g \in Cells
    BY <1>1, <1>2
  <2> QED
    BY <1>1, <1>3, <1>5, <2>1, <2>2, <2>3
<1> QED
  BY <1>5, <1>6, <1>7, <1>8

LEMMA TurnEnds ==
  ASSUME NEW t, NEW M, NEW g0, NEW h, NEW node, NEW p, NEW g, NEW side, NEW u, NEW v,
         Kin(t, M), Placed(t, M, g0), Turned(t, M, h, node, p, g, side, u, v),
         ~ Red(t, Child(t, Other(side), g))
  PROVE  (\E k : Rising(v, M, k, node)) /\ ~ Red(v, Parent(v, node))
<1> DEFINE far == Other(side)
           uncle == Child(t, far, g)
           b == Child(t, far, p)
           k == With(With(h, g, Hgt(h, p)), p, Hgt(h, g))
<1> HIDE DEF far, uncle, b, k
<1>1. /\ p \in M /\ g \in M /\ p # node /\ g # p /\ g # node /\ ~ Red(t, g) /\ ~ Red(t, Root(t))
      /\ side \in Sides /\ Child(t, side, g) = p /\ Child(t, side, p) = node /\ Red(t, p)
      /\ v = Rotate(u, far, g) /\ Recoloured(t, u) /\ Rising(t, M, h, node)
      /\ \A z \in Cells : Red(u, z) <=> IF z = g THEN TRUE ELSE z # p /\ Red(t, z)
  BY DEF Turned, far
<1>2. M \subseteq Cells /\ Nil \notin M /\ Nil \in Cells /\ node \in M /\ t \in Trees
  BY <1>1, KinCells DEF Rising, Kin
<1>3. far \in Sides /\ far # side /\ Other(far) = side /\ \A d \in Sides : d = side \/ d = far
  BY <1>1, OtherSide DEF far
<1>4. uncle \in M \cup {Nil} /\ uncle # p /\ uncle # g
  <2>1. uncle \in M \cup {Nil} /\ uncle # p
    BY <1>1, <1>2, <1>3 DEF uncle, Kin
  <2> QED
    BY <1>1, <1>3, <2>1, Around DEF uncle
<1>5. /\ \A z \in Cells, d \in Sides : Child(u, d, z) = Child(t, d, z)
      /\ \A z \in Cells : Red(u, z) <=> IF z = g THEN TRUE ELSE z # p /\ Red(t, z)
  BY <1>1 DEF Recoloured, SameShape
<1>6. b \in M \cup {Nil} /\ b # p /\ b # g /\ b # node /\ ~ Red(t, b)
  BY TurnedIs DEF far, b
<1>7. Turn(u, M, far, g, p, b) /\ Kin(u, M) /\ Placed(u, M, g0)
  BY TurnedIs DEF far, b
<1>8. /\ Root(v) = IF g = Root(t) THEN p ELSE Root(t)
      /\ \A z \in Cells : Parent(v, z) = IF z = g THEN p ELSE IF z = p THEN Parent(t, g)
                               ELSE IF z = b /\ b # Nil THEN g ELSE Parent(t, z)
      /\ \A z \in Cells, d \in Sides : Child(v, d, z) =
           IF z = p /\ d = far THEN g ELSE IF z = g /\ d = side THEN b
           ELSE IF Child(t, d, z) = g /\ z # Nil THEN p ELSE Child(t, d, z)
      /\ \A z \in Cells : Red(v, z) <=> IF z = g THEN TRUE ELSE z # p /\ Red(t, z)
  BY TurnedIs DEF far, b
<1>0. Parent(t, node) = p
  BY <1>1, <1>2 DEF Kin
<1>9. Parent(v, node) = p
  BY <1>0, <1>1, <1>2, <1>6, <1>8
<1>10. Heights(v, M, k, Nil, "left")
  <2>1. \A z \in Cells : Hgt(k, z) = IF z = p THEN Hgt(h, g) ELSE IF z = g THEN Hgt(h, p) ELSE Hgt(h, z)
    BY WithIs DEF k
  <2>2. Heights(t, M, h, Nil, "left")
    BY <1>1 DEF Rising
  <2>3. /\ Hgt(h, Nil) = 1 /\ \A z \in M : Hgt(h, z) \in Nat \ {0}
        /\ \A z \in M, d \in Sides : Hgt(h, z) = Hgt(h, Child(t, d, z)) + Tint(t, z)
    <3>1. \A z \in M, d \in Sides : Owed(z, d, Nil, "left") = 0
      BY <1>2, OwedIs
    <3>2. \A z \in M, d \in Sides : Level(t, h, z, d, Nil, "left")
      BY <2>2 DEF Heights
    <3>3. \A z \in M, d \in Sides : Hgt(h, z) = Hgt(h, Child(t, d, z)) + Tint(t, z)
      <4> TAKE z \in M, d \in Sides
      <4>1. Hgt(h, z) = Hgt(h, Child(t, d, z)) + Tint(t, z) + 0
        BY <3>1, <3>2 DEF Level
      <4>2. Child(t, d, z) \in M \cup {Nil}
        BY DEF Kin
      <4>3. Hgt(h, Child(t, d, z)) \in Nat /\ Tint(t, z) \in Nat
        BY <2>2, <4>2, TintIs DEF Heights
      <4> QED
        BY <4>1, <4>3
    <3> QED
      BY <2>2, <3>3 DEF Heights
  <2>4. \A z \in M, d \in Sides : z \notin {g, p} => Level(u, h, z, d, Nil, "left")
    <3>1. \A z \in M : z \notin {g, p} => Tint(u, z) = Tint(t, z)
      BY <1>2, <1>5 DEF Tint
    <3>2. \A z \in M, d \in Sides : Level(t, h, z, d, Nil, "left")
      BY <2>2 DEF Heights
    <3> QED
      BY <1>2, <1>5, <3>1, <3>2 DEF Level
  <2>5. Tint(u, g) = 0 /\ Tint(u, p) = 1 /\ Tint(t, g) = 1 /\ Tint(t, p) = 0
    BY <1>1, <1>2, <1>5, TintIs
  <2>6. Hgt(h, g) = Hgt(h, p) + 1 /\ Hgt(h, g) = Hgt(h, uncle) + 1
    BY <1>1, <1>3, <2>3, <2>5 DEF uncle
  <2>7. Hgt(h, p) = Hgt(h, node) /\ Hgt(h, p) = Hgt(h, b)
    <3>1. Hgt(h, p) = Hgt(h, node) + 0 /\ Hgt(h, p) = Hgt(h, b) + 0
      BY <1>1, <1>3, <2>3, <2>5 DEF b
    <3>2. Hgt(h, node) \in Nat /\ Hgt(h, b) \in Nat
      BY <1>2, <1>6, <2>3
    <3> QED
      BY <3>1, <3>2
  <2>8. Hgt(k, p) = Hgt(h, g) /\ Hgt(k, g) = Hgt(h, p) /\ Hgt(k, Nil) = 1
    BY <1>1, <1>2, <2>1, <2>3
  <2>9. Hgt(k, node) = Hgt(h, node) /\ Hgt(k, b) = Hgt(h, b) /\ Hgt(k, uncle) = Hgt(h, uncle)
    BY <1>1, <1>2, <1>4, <1>6, <2>1
  <2>10. \A z \in M : Hgt(k, z) \in Nat \ {0}
    BY <1>1, <1>2, <2>1, <2>3
  <2>11. \A z \in M \cup {Nil} : z \notin {g, p} => Hgt(k, z) = Hgt(h, z)
    BY <1>2, <2>1
  <2>12. Child(u, side, p) = node /\ Child(u, far, g) = uncle
    BY <1>1, <1>2, <1>3, <1>5 DEF uncle
  <2>13. Hgt(h, p) \in Nat /\ \A d \in Sides : Owed(p, d, Nil, "left") = 0 /\ Owed(g, d, Nil, "left") = 0
    BY <1>1, <1>2, <2>3, OwedIs
  <2>14. Hgt(k, p) = Hgt(k, g) + Tint(u, p) + Owed(p, far, Nil, "left")
    BY <1>3, <2>5, <2>6, <2>8, <2>13
  <2>15. Hgt(k, p) = Hgt(k, Child(u, Other(far), p)) + Tint(u, p) + Owed(p, Other(far), Nil, "left")
    <3>1. Hgt(k, Child(u, Other(far), p)) = Hgt(h, p)
      BY <1>3, <2>7, <2>9, <2>12
    <3>2. Owed(p, Other(far), Nil, "left") = 0
      BY <1>1, <1>3, <2>13
    <3> QED
      BY <2>5, <2>6, <2>8, <2>13, <3>1, <3>2
  <2>16. Hgt(k, g) = Hgt(k, b) + Tint(u, g) + Owed(g, Other(far), Nil, "left")
    <3>1. Hgt(k, b) = Hgt(h, p)
      BY <2>7, <2>9
    <3>2. Owed(g, Other(far), Nil, "left") = 0
      BY <1>1, <1>3, <2>13
    <3> QED
      BY <2>5, <2>8, <2>13, <3>1, <3>2
  <2>17. Hgt(k, g) = Hgt(k, Child(u, far, g)) + Tint(u, g) + Owed(g, far, Nil, "left")
    <3>1. Hgt(k, Child(u, far, g)) = Hgt(h, uncle) /\ Hgt(h, uncle) \in Nat
      BY <1>2, <1>4, <2>3, <2>9, <2>12
    <3>2. Hgt(h, p) = Hgt(h, uncle)
      BY <2>6, <2>13, <3>1
    <3>3. Owed(g, far, Nil, "left") = 0
      BY <1>1, <1>3, <2>13
    <3> QED
      BY <2>5, <2>8, <3>1, <3>2, <3>3
  <2> QED
    BY <1>1, <1>7, <2>4, <2>8, <2>10, <2>11, <2>14, <2>15, <2>16, <2>17, TurnHeights
<1>11. \A x \in M, d \in Sides : ~ RedPair(v, x, d)
  <2> SUFFICES ASSUME NEW x \in M, NEW d \in Sides, Red(v, x), Red(v, Child(v, d, x))
               PROVE  FALSE
    BY DEF RedPair
  <2>1. x # p /\ x \in Cells
    BY <1>1, <1>2, <1>8
  <2>2. CASE x = g
    <3>1. Child(v, d, g) = IF d = side THEN b ELSE uncle
      BY <1>1, <1>2, <1>3, <1>6, <1>8, <2>2, Around DEF uncle
    <3>2. uncle \in Cells /\ b \in Cells /\ ~ Red(t, uncle)
      BY <1>1, <1>2, <1>4, <1>6 DEF uncle, far
    <3>3. ~ Red(v, uncle) /\ ~ Red(v, b)
      BY <1>1, <1>4, <1>6, <1>8, <3>2
    <3> QED
      BY <2>2, <3>1, <3>3
  <2>3. CASE x # g
    <3>1. Child(t, d, x) # g
      BY <1>1, <1>2, <1>8, <2>1, <2>3
    <3>2. Child(v, d, x) = Child(t, d, x) /\ Child(t, d, x) \in M \cup {Nil}
      BY <1>2, <1>8, <2>1, <2>3, <3>1 DEF Kin
    <3>3. Red(t, x) /\ Red(t, Child(t, d, x))
      BY <1>2, <1>8, <2>1, <2>3, <3>1, <3>2
    <3>4. Child(t, d, x) = node
      BY <1>1, <3>3 DEF Rising, RedPair
    <3>5. x = p
      BY <1>0, <1>2, <3>4 DEF Kin
    <3> QED
      BY <2>1, <3>5
  <2> QED
    BY <2>2, <2>3
<1>12. ~ Red(v, Root(v)) /\ ~ Red(v, Nil) /\ Parent(v, Nil) = Nil /\ Red(v, node)
  <2>1. Root(t) \in Cells /\ Nil # g /\ Nil # p /\ Parent(t, Nil) = Nil /\ ~ Red(t, Nil) /\ Red(t, node)
    BY <1>1, <1>2 DEF Rising, Kin
  <2> QED
    BY <1>1, <1>2, <1>8, <2>1
<1>13. Rising(v, M, k, node)
  BY <1>2, <1>10, <1>11, <1>12 DEF Rising
<1> QED
  BY <1>1, <1>2, <1>8, <1>9, <1>13

LEMMA SideIs ==
  ASSUME NEW t, NEW M, NEW x, NEW y, NEW d,
         Kin(t, M), x \in M, y # Nil, d \in Sides, Child(t, d, x) = y
  PROVE  SideOf(t, x, y) = d
<1>1. SideOf(t, x, y) \in Sides /\ Child(t, SideOf(t, x, y), x) = y
  BY SideOfIs
<1>2. Child(t, Other(d), x) # y
  BY DEF Kin
<1> QED
  BY <1>1, <1>2, OtherSide

\* What a rotation r of t changes, as one fact.
TurnMade(t, side, x, y, b, r) ==
  /\ Root(r) = IF x = Root(t) THEN y ELSE Root(t)
  /\ \A z \in Cells : Parent(r, z) = IF z = x THEN y ELSE IF z = y THEN Parent(t, x)
                               ELSE IF z = b /\ b # Nil THEN x ELSE Parent(t, z)
  /\ \A z \in Cells, d \in Sides : Child(r, d, z) =
       IF z = y /\ d = side THEN x ELSE IF z = x /\ d = Other(side) THEN b
       ELSE IF Child(t, d, z) = x /\ z # Nil THEN y ELSE Child(t, d, z)
  /\ \A z \in Cells : Red(r, z) <=> Red(t, z)

LEMMA TurnMakes ==
  ASSUME NEW t, NEW M, NEW g, NEW side, NEW x, NEW y, NEW b, NEW r,
         Turn(t, M, side, x, y, b), Placed(t, M, g), r = Rotate(t, side, x)
  PROVE  TurnMade(t, side, x, y, b, r)
<1>1. SameData(t, r)
  BY TurnChanges
<1>2. \A z \in Cells : Red(r, z) <=> Red(t, z)
  BY <1>1 DEF SameData
<1> QED
  BY <1>2, TurnChanges DEF TurnMade

\* A red node on the outer side of its red parent, with a black uncle.
Outer(t, node, p, g, side, far) ==
  /\ p = Parent(t, node) /\ g = Parent(t, p) /\ Red(t, p) /\ side = SideOf(t, g, p)
  /\ far = Other(side) /\ node = Child(t, side, p) /\ ~ Red(t, Child(t, far, g))

LEMMA InsertTurnEnds ==
  ASSUME NEW t, NEW M, NEW g0, NEW h, NEW node, NEW p, NEW g, NEW side, NEW far, NEW c,
         Kin(t, M), Placed(t, M, g0), Rising(t, M, h, node),
         Outer(t, node, p, g, side, far), c = InsertTurn(t, far, node)
  PROVE  /\ \E k : Rising(c.tree, M, k, node)
         /\ ~ Red(c.tree, Parent(c.tree, node)) /\ c.node = node
<1> DEFINE u1 == Paint(t, p, "black")
           u == Paint(u1, g, "red")
           v == Rotate(u, far, g)
<1>0. /\ p = Parent(t, node) /\ g = Parent(t, p) /\ Red(t, p) /\ side = SideOf(t, g, p)
      /\ far = Other(side) /\ node = Child(t, side, p) /\ ~ Red(t, Child(t, far, g))
  BY DEF Outer
<1>1. c = At(v, node)
  BY <1>0 DEF InsertTurn
<1> HIDE DEF u1, u, v
<1>2. /\ p \in M /\ g \in M /\ p # node /\ g # p /\ g # node /\ ~ Red(t, g) /\ ~ Red(t, Root(t))
      /\ side \in Sides /\ Child(t, side, g) = p
  BY <1>0, RisingIs
<1>3. p \in Cells /\ g \in Cells /\ t \in Trees
  BY <1>2, KinCells DEF Kin
<1>4. Recoloured(t, u1) /\ \A z \in Cells : Red(u1, z) <=> IF z = p THEN FALSE ELSE Red(t, z)
  BY <1>3, PaintColours DEF u1
<1>5. Recoloured(u1, u) /\ \A z \in Cells : Red(u, z) <=> IF z = g THEN TRUE ELSE Red(u1, z)
  BY <1>3, <1>4, PaintColours DEF u, Recoloured
<1>6. Recoloured(t, u)
  BY <1>4, <1>5, RecolouredTrans
<1>7. \A z \in Cells : Red(u, z) <=> IF z = g THEN TRUE ELSE z # p /\ Red(t, z)
  BY <1>4, <1>5
<1>8. Turned(t, M, h, node, p, g, side, u, v)
  BY <1>0, <1>2, <1>6, <1>7 DEF Turned, v
<1>9. (\E k : Rising(v, M, k, node)) /\ ~ Red(v, Parent(v, node))
  BY <1>0, <1>8, TurnEnds
<1> QED
  BY <1>1, <1>9, AtIs

\* A node between its parent and its grandparent comes above its parent first.
LEMMA InnerTurn ==
  ASSUME NEW t, NEW M, NEW g0, NEW h, NEW node, NEW p, NEW g, NEW side, NEW far, NEW u,
         Kin(t, M), Placed(t, M, g0), Rising(t, M, h, node),
         p = Parent(t, node), g = Parent(t, p), Red(t, p), side = SideOf(t, g, p),
         far = Other(side), node = Child(t, far, p), ~ Red(t, Child(t, far, g)),
         u = Rotate(t, side, p)
  PROVE  /\ Rising(u, M, h, p) /\ Parent(u, p) = node /\ Parent(u, node) = g /\ Red(u, node)
         /\ Child(u, side, g) = node /\ Child(u, side, node) = p
         /\ ~ Red(u, Child(u, far, g))
<1>1. /\ p \in M /\ g \in M /\ p # node /\ g # p /\ g # node /\ ~ Red(t, g) /\ ~ Red(t, Root(t))
      /\ side \in Sides /\ Child(t, side, g) = p /\ Child(t, far, g) # p
      /\ Child(t, far, g) \in M \cup {Nil}
  BY RisingIs
<1>2. M \subseteq Cells /\ Nil \notin M /\ Nil \in Cells /\ node \in M /\ t \in Trees
  BY KinCells DEF Rising, Kin
<1>3. far \in Sides /\ far # side /\ Other(far) = side /\ \A d \in Sides : d = side \/ d = far
  BY <1>1, OtherSide
<1> DEFINE b == Child(t, side, node)
<1> HIDE DEF b
<1>4. Turn(t, M, side, p, node, b)
  BY <1>1, <1>2, <1>3 DEF Turn, b
<1>5. b \in M \cup {Nil} /\ b # p /\ b # node
  BY <1>4, TurnIs
<1>6. /\ Root(u) = IF p = Root(t) THEN node ELSE Root(t)
      /\ \A z \in Cells : Parent(u, z) = IF z = p THEN node ELSE IF z = node THEN Parent(t, p)
                               ELSE IF z = b /\ b # Nil THEN p ELSE Parent(t, z)
      /\ \A z \in Cells, d \in Sides : Child(u, d, z) =
              IF z = node /\ d = side THEN p ELSE IF z = p /\ d = Other(side) THEN b
              ELSE IF Child(t, d, z) = p /\ z # Nil THEN node ELSE Child(t, d, z)
      /\ \A z \in Cells : Red(u, z) <=> Red(t, z)
  <2>1. TurnMade(t, side, p, node, b, u)
    BY <1>4, TurnMakes
  <2> QED
    BY <2>1 DEF TurnMade
<1>7. \A z \in Cells : Red(u, z) <=> Red(t, z)
  BY <1>6
<1>8. ~ Red(t, Nil) /\ Red(t, node) /\ Parent(t, Nil) = Nil /\ Heights(t, M, h, Nil, "left")
      /\ \A x \in M, d \in Sides : RedPair(t, x, d) => Child(t, d, x) = node
  BY DEF Rising
<1>9. Heights(u, M, h, Nil, "left")
  <2>1. /\ Hgt(h, Nil) = 1 /\ \A z \in M : Hgt(h, z) \in Nat \ {0}
        /\ \A z \in M, d \in Sides : Level(t, h, z, d, Nil, "left")
    BY <1>8 DEF Heights
  <2>2. /\ \A d \in Sides : Hgt(h, node) = Hgt(h, Child(t, d, node))
        /\ \A d \in Sides : Hgt(h, p) = Hgt(h, Child(t, d, p))
    <3>1. \A z \in {node, p}, d \in Sides :
            Owed(z, d, Nil, "left") = 0 /\ Tint(t, z) = 0 /\ Hgt(h, Child(t, d, z)) \in Nat
      <4>1. \A z \in M, d \in Sides : Child(t, d, z) \in M \cup {Nil}
        BY DEF Kin
      <4> QED
        BY <1>1, <1>2, <1>8, <2>1, <4>1, OwedIs, TintIs
    <3> QED
      BY <1>1, <1>2, <2>1, <3>1 DEF Level
  <2>3. Hgt(h, node) = Hgt(h, b) /\ Hgt(h, node) = Hgt(h, Child(t, far, node))
        /\ Hgt(h, p) = Hgt(h, node) /\ Hgt(h, p) = Hgt(h, Child(t, side, p))
    BY <1>1, <1>3, <2>2 DEF b
  <2>4. \A d \in Sides : /\ Owed(p, d, Nil, "left") = 0 /\ Owed(node, d, Nil, "left") = 0
                         /\ Tint(t, p) = 0 /\ Tint(t, node) = 0
    BY <1>1, <1>2, <1>8, OwedIs, TintIs
  <2>5. Hgt(h, p) \in Nat /\ Hgt(h, node) \in Nat
    BY <1>1, <1>2, <2>1
  <2>6. Hgt(h, node) = Hgt(h, p) + Tint(t, node) + Owed(node, side, Nil, "left")
    BY <1>1, <2>3, <2>4, <2>5
  <2>7. Hgt(h, node) = Hgt(h, Child(t, Other(side), node)) + Tint(t, node) + Owed(node, Other(side), Nil, "left")
    BY <1>1, <1>3, <2>3, <2>4, <2>5
  <2>8. Hgt(h, p) = Hgt(h, b) + Tint(t, p) + Owed(p, Other(side), Nil, "left")
    BY <1>1, <1>3, <2>3, <2>4, <2>5
  <2>9. Hgt(h, p) = Hgt(h, Child(t, side, p)) + Tint(t, p) + Owed(p, side, Nil, "left")
    BY <1>1, <2>3, <2>4, <2>5
  <2> QED
    BY <1>4, <2>1, <2>3, <2>6, <2>7, <2>8, <2>9, TurnHeights
<1>10. Child(u, side, g) = node /\ Child(u, side, node) = p /\ Child(u, far, g) = Child(t, far, g)
       /\ Parent(u, p) = node /\ Parent(u, node) = g
  BY <1>1, <1>2, <1>3, <1>6
<1>11. ASSUME NEW x \in M, NEW d \in Sides, RedPair(u, x, d)
       PROVE  Child(u, d, x) = p
  <2>1. \A z \in M : \A e \in Sides : Child(t, e, z) \in M \cup {Nil} /\ (Child(t, e, z) # Nil => Parent(t, Child(t, e, z)) = z)
    BY DEF Kin
  <2>2. x \in Cells /\ Red(t, x) /\ x # g
    BY <1>1, <1>2, <1>7, <1>11 DEF RedPair
  <2>3. Child(t, d, x) # p
    BY <1>1, <1>2, <2>1, <2>2
  <2>4. CASE x = p /\ d = far
    <3>1. Child(u, d, x) = b
      BY <1>1, <1>2, <1>3, <1>6, <2>4
    <3>2. RedPair(t, node, side)
      BY <1>2, <1>5, <1>7, <1>8, <1>11, <3>1 DEF RedPair, b
    <3> QED
      BY <1>1, <1>2, <1>5, <1>8, <3>2 DEF b
  <2>5. CASE x = node /\ d = side
    BY <1>2, <1>6, <2>5
  <2>6. CASE ~ (x = p /\ d = far) /\ ~ (x = node /\ d = side)
    <3>1. Child(u, d, x) = Child(t, d, x)
      BY <1>3, <1>6, <2>2, <2>3, <2>6
    <3>2. RedPair(t, x, d)
      BY <1>2, <1>7, <1>11, <2>1, <2>2, <3>1 DEF RedPair
    <3>3. Child(t, d, x) = node
      BY <1>8, <3>2
    <3>4. x = p
      BY <1>2, <2>1, <3>3
    <3>5. d = side
      BY <1>3, <2>6, <3>4
    <3>6. Child(t, Other(far), p) # node
      BY <1>1, <1>2, <1>3 DEF Kin
    <3> QED
      BY <1>3, <3>3, <3>4, <3>5, <3>6
  <2> QED
    BY <2>4, <2>5, <2>6
<1>12. Red(u, p) /\ Red(u, node) /\ ~ Red(u, Nil) /\ Parent(u, Nil) = Nil /\ ~ Red(u, Root(u))
  <2>1. Root(t) # p
    BY <1>1
  <2>2. Root(t) \in Cells
    BY <1>2 DEF Kin
  <2> QED
    BY <1>1, <1>2, <1>6, <1>7, <1>8, <2>1, <2>2
<1>13. Rising(u, M, h, p)
  BY <1>1, <1>9, <1>11, <1>12 DEF Rising
<1> QED
  BY <1>1, <1>2, <1>7, <1>10, <1>12, <1>13

\* With a red uncle, the parent and the uncle are painted and the trouble climbs.
LEMMA Climbs ==
  ASSUME NEW t, NEW M, NEW g0, NEW h, NEW node, NEW p, NEW g, NEW side, NEW far, NEW uncle, NEW u,
         Kin(t, M), Placed(t, M, g0), Rising(t, M, h, node),
         p \in M, g \in M, p # node, g # p, ~ Red(t, g), ~ Red(t, Root(t)), Red(t, p),
         side \in Sides, Child(t, side, g) = p, far = Other(side), uncle = Child(t, far, g),
         uncle # p, Parent(t, node) = p, uncle # g, Red(t, uncle), Recoloured(t, u),
         \A z \in Cells : Red(u, z) <=> IF z = g THEN TRUE ELSE z # p /\ z # uncle /\ Red(t, z)
  PROVE  \E k : Rising(u, M, k, g)
<1>1. M \subseteq Cells /\ Nil \notin M /\ Nil \in Cells /\ node \in M /\ t \in Trees
  BY KinCells DEF Rising, Kin
<1>2. far \in Sides /\ far # side /\ \A d \in Sides : d = side \/ d = far
  BY OtherSide
<1>3. /\ ~ Red(t, Nil) /\ Parent(t, Nil) = Nil /\ Heights(t, M, h, Nil, "left")
      /\ \A x \in M, d \in Sides : RedPair(t, x, d) => Child(t, d, x) = node
      /\ Red(t, Root(t)) => Root(t) = node
  BY DEF Rising
<1>4. \A z \in M : \A e \in Sides : Child(t, e, z) \in M \cup {Nil} /\ (Child(t, e, z) # Nil => Parent(t, Child(t, e, z)) = z)
  BY DEF Kin
<1>5. uncle \in M /\ Parent(t, uncle) = g /\ Parent(t, p) = g
  BY <1>1, <1>2, <1>3, <1>4
<1>6. /\ Root(u) = Root(t) /\ Root(t) \in Cells
      /\ \A z \in Cells : Parent(u, z) = Parent(t, z)
      /\ \A z \in Cells, d \in Sides : Child(u, d, z) = Child(t, d, z)
  BY <1>1 DEF Recoloured, SameShape, Kin
<1> DEFINE k == With(With(h, p, Hgt(h, p) + 1), uncle, Hgt(h, uncle) + 1)
<1>7. \A z \in Cells : Hgt(k, z) = IF z = uncle THEN Hgt(h, uncle) + 1
                                   ELSE IF z = p THEN Hgt(h, p) + 1 ELSE Hgt(h, z)
  <2>1. \A z \in Cells : Hgt(With(h, p, Hgt(h, p) + 1), z) = IF z = p THEN Hgt(h, p) + 1 ELSE Hgt(h, z)
    BY WithIs
  <2>2. \A z \in Cells : Hgt(k, z) = IF z = uncle THEN Hgt(h, uncle) + 1
                                     ELSE Hgt(With(h, p, Hgt(h, p) + 1), z)
    BY WithIs
  <2> QED
    BY <2>1, <2>2
<1> HIDE DEF k
<1>8. Heights(u, M, k, Nil, "left")
  <2>1. Hgt(h, Nil) = 1 /\ \A z \in M : Hgt(h, z) \in Nat \ {0}
    BY <1>3 DEF Heights
  <2>2. \A z \in M \cup {Nil} : Hgt(h, z) \in Nat \ {0}
    BY <2>1
  <2>3. Hgt(k, Nil) = 1 /\ \A z \in M : Hgt(k, z) \in Nat \ {0}
    BY <1>1, <1>5, <1>7, <2>1
  <2>4. ASSUME NEW z \in M, NEW d \in Sides
        PROVE  Level(u, k, z, d, Nil, "left")
    <3> DEFINE c == Child(t, d, z)
    <3>1. Hgt(h, z) = Hgt(h, c) + Tint(t, z) + Owed(z, d, Nil, "left")
      BY <1>3 DEF Heights, Level
    <3>2. Owed(z, d, Nil, "left") = 0 /\ z \in Cells
      BY <1>1, OwedIs
    <3>3. c \in M \cup {Nil} /\ (c # Nil => Parent(t, c) = z) /\ Child(u, d, z) = c
      BY <1>4, <1>6, <3>2
    <3> HIDE DEF c
    <3>4. Hgt(h, c) \in Nat /\ Hgt(h, z) \in Nat /\ c \in Cells
      BY <1>1, <2>2, <3>3
    <3>5. Hgt(k, z) = Hgt(k, c) + Tint(u, z)
      <4>1. CASE z = g
        <5>1. c \in {p, uncle} /\ Tint(t, z) = 1 /\ Tint(u, z) = 0
          BY <1>1, <1>2, <4>1, TintIs DEF c
        <5>2. Hgt(k, c) = Hgt(h, c) + 1 /\ Hgt(k, z) = Hgt(h, z)
          BY <1>5, <1>7, <3>2, <3>4, <4>1, <5>1
        <5> QED
          BY <3>1, <3>2, <3>4, <5>1, <5>2
      <4>2. CASE z \in {p, uncle}
        <5>1. Tint(t, z) = 0 /\ Tint(u, z) = 1
          BY <3>2, <4>2, TintIs
        <5>2. c \notin {p, uncle}
          BY <1>1, <1>5, <3>3, <4>2
        <5>3. Hgt(k, c) = Hgt(h, c) /\ Hgt(k, z) = Hgt(h, z) + 1
          BY <1>7, <3>2, <3>4, <4>2, <5>2
        <5> QED
          BY <3>1, <3>2, <3>4, <5>1, <5>3
      <4>3. CASE z \notin {g, p, uncle}
        <5>1. Tint(t, z) = Tint(u, z)
          BY <3>2, <4>3 DEF Tint
        <5>2. c \notin {p, uncle}
          BY <1>1, <1>5, <3>3, <4>3
        <5>3. Hgt(k, c) = Hgt(h, c) /\ Hgt(k, z) = Hgt(h, z)
          BY <1>7, <3>2, <3>4, <4>3, <5>2
        <5> QED
          BY <3>1, <3>2, <3>4, <5>1, <5>3, TintIs
      <4> QED
        BY <4>1, <4>2, <4>3
    <3>6. Hgt(k, c) \in Nat /\ Tint(u, z) \in Nat
      BY <2>3, <3>3, TintIs
    <3> QED
      BY <3>2, <3>3, <3>5, <3>6 DEF Level
  <2> QED
    BY <2>3, <2>4 DEF Heights
<1>9. ASSUME NEW x \in M, NEW d \in Sides, RedPair(u, x, d)
      PROVE  Child(u, d, x) = g
  <2>1. x \in Cells /\ Child(u, d, x) = Child(t, d, x) /\ Child(t, d, x) \in Cells
    BY <1>1, <1>4, <1>6
  <2>2. x # p /\ x # uncle /\ Child(t, d, x) # p /\ Child(t, d, x) # uncle
    BY <1>1, <1>5, <1>9, <2>1 DEF RedPair
  <2>3. x # g
    BY <1>2, <2>2
  <2>4. CASE Child(t, d, x) # g
    <3>1. RedPair(t, x, d)
      BY <1>9, <2>1, <2>3, <2>4 DEF RedPair
    <3>2. Child(t, d, x) = node
      BY <1>3, <3>1
    <3>3. x = p
      BY <1>1, <1>4, <3>2
    <3> QED
      BY <2>2, <3>3
  <2> QED
    BY <2>1, <2>4
<1>10. Red(u, g) /\ ~ Red(u, Nil) /\ Parent(u, Nil) = Nil /\ (Red(u, Root(u)) => Root(u) = g)
  <2>1. g \in Cells /\ Nil # g
    BY <1>1
  <2> QED
    BY <1>1, <1>3, <1>6, <2>1
<1> QED
  BY <1>8, <1>9, <1>10 DEF Rising

\* A round that does not end the loop only paints, and goes up.
RisesTo(t, M, g0, node, c) ==
  /\ c.node \in M /\ \E k : Rising(c.tree, M, k, c.node)
  /\ \/ ~ Red(c.tree, Parent(c.tree, c.node))
     \/ Placed(c.tree, M, g0) /\ Size(g0, M, node) < Size(g0, M, c.node)

LEMMA RisingRound ==
  ASSUME NEW t, NEW M, NEW g0, NEW h, NEW node, NEW c,
         Kin(t, M), Placed(t, M, g0), Rising(t, M, h, node), Red(t, Parent(t, node)),
         c = InsertRound(t, node)
  PROVE  RisesTo(t, M, g0, node, c)
<1> DEFINE p == Parent(t, node)
           g == Parent(t, p)
           side == SideOf(t, g, p)
           far == Other(side)
           uncle == Child(t, far, g)
           t1 == Paint(t, p, "black")
           t2 == Paint(t1, uncle, "black")
           t3 == Paint(t2, g, "red")
           u == Rotate(t, side, p)
<1>1. c = IF Red(t, uncle) THEN At(t3, g)
          ELSE IF node = Child(t, far, p) THEN InsertTurn(u, far, p)
          ELSE InsertTurn(t, far, node)
  BY DEF InsertRound
<1>2. /\ p \in M /\ g \in M /\ p # node /\ g # p /\ g # node /\ ~ Red(t, g) /\ ~ Red(t, Root(t))
      /\ side \in Sides /\ Child(t, side, g) = p
      /\ node = Child(t, far, p) \/ node = Child(t, side, p)
      /\ uncle \in M \cup {Nil} /\ uncle # p /\ uncle # g
  BY RisingIs
<1>3. Red(t, p) /\ p = Parent(t, node) /\ g = Parent(t, p) /\ side = SideOf(t, g, p)
      /\ far = Other(side) /\ uncle = Child(t, far, g) /\ u = Rotate(t, side, p)
  OBVIOUS
<1> HIDE DEF p, g, side, far, uncle, t1, t2, t3, u
<1>4. M \subseteq Cells /\ Nil \notin M /\ Nil \in Cells /\ node \in M /\ t \in Trees
  BY KinCells DEF Rising, Kin
<1>5. CASE Red(t, uncle)
  <2>1. p \in Cells /\ g \in Cells /\ uncle \in Cells
    BY <1>2, <1>4
  <2>2. Recoloured(t, t1) /\ \A z \in Cells : Red(t1, z) <=> IF z = p THEN FALSE ELSE Red(t, z)
    BY <1>4, <2>1, PaintColours DEF t1
  <2>3. Recoloured(t1, t2) /\ \A z \in Cells : Red(t2, z) <=> IF z = uncle THEN FALSE ELSE Red(t1, z)
    BY <2>1, <2>2, PaintColours DEF t2, Recoloured
  <2>4. Recoloured(t2, t3) /\ \A z \in Cells : Red(t3, z) <=> IF z = g THEN TRUE ELSE Red(t2, z)
    BY <2>1, <2>3, PaintColours DEF t3, Recoloured
  <2>5. Recoloured(t, t3)
    BY <2>2, <2>3, <2>4, RecolouredTrans
  <2>6. \A z \in Cells : Red(t3, z) <=> IF z = g THEN TRUE ELSE z # p /\ z # uncle /\ Red(t, z)
    BY <2>2, <2>3, <2>4
  <2>7. \E k : Rising(t3, M, k, g)
    BY <1>2, <1>3, <1>5, <2>5, <2>6, Climbs
  <2>8. Placed(t3, M, g0)
    BY <2>5, RecolouredPlaced
  <2>9. Size(g0, M, node) < Size(g0, M, g)
    <3>1. \E d \in Sides : Child(t, d, p) = node
      BY <1>2, OtherSide DEF far
    <3>2. Size(g0, M, node) < Size(g0, M, p) /\ Size(g0, M, p) < Size(g0, M, g)
      BY <1>2, <1>4, <3>1, SizeIs
    <3>3. Size(g0, M, node) \in Nat /\ Size(g0, M, p) \in Nat /\ Size(g0, M, g) \in Nat
      BY <1>2, <1>4, SizeIs
    <3> QED
      BY <3>2, <3>3
  <2>10. c.tree = t3 /\ c.node = g
    BY <1>1, <1>5, AtIs
  <2> QED
    BY <1>2, <2>7, <2>8, <2>9, <2>10 DEF RisesTo
<1>6. CASE ~ Red(t, uncle) /\ node = Child(t, far, p)
  <2>1. /\ Rising(u, M, h, p) /\ Parent(u, p) = node /\ Parent(u, node) = g /\ Red(u, node)
        /\ Child(u, side, g) = node /\ Child(u, side, node) = p
        /\ ~ Red(u, Child(u, far, g))
    BY <1>3, <1>6, InnerTurn
  <2>2. Shaped(t, M)
    BY DEF Shaped
  <2>3. Shaped(u, M)
    BY <1>2, <2>2, RotateShaped DEF u, Rebuilt
  <2>4. Kin(u, M) /\ \E f : Placed(u, M, f)
    BY <2>3 DEF Shaped
  <2>5. PICK f : Placed(u, M, f)
    BY <2>4
  <2>6. side = SideOf(u, g, node)
    BY <1>2, <1>4, <2>1, <2>4, SideIs
  <2>7. c = InsertTurn(u, far, p)
    BY <1>1, <1>6
  <2>8. /\ \E k : Rising(c.tree, M, k, p)
        /\ ~ Red(c.tree, Parent(c.tree, p)) /\ c.node = p
    <3>1. node = Parent(u, p) /\ g = Parent(u, node) /\ p = Child(u, side, node) /\ far = Other(side)
      BY <1>3, <2>1
    <3>2. Outer(u, p, node, g, side, far)
      BY <2>1, <2>6, <3>1 DEF Outer
    <3> QED
      BY <2>1, <2>4, <2>5, <2>7, <3>2, InsertTurnEnds
  <2> QED
    BY <1>2, <2>8 DEF RisesTo
<1>7. CASE ~ Red(t, uncle) /\ node # Child(t, far, p)
  <2>1. c = InsertTurn(t, far, node) /\ node = Child(t, side, p)
    BY <1>1, <1>2, <1>7
  <2>2. /\ \E k : Rising(c.tree, M, k, node)
        /\ ~ Red(c.tree, Parent(c.tree, node)) /\ c.node = node
    <3>1. Outer(t, node, p, g, side, far)
      BY <1>3, <1>7, <2>1 DEF Outer
    <3> QED
      BY <2>1, <3>1, InsertTurnEnds
  <2> QED
    BY <1>4, <2>2 DEF RisesTo
<1> QED
  BY <1>5, <1>6, <1>7

\* A loop that goes up from node to node ends.
LEMMA ClimbEnds ==
  ASSUME NEW t, NEW M, NEW g, NEW round, NEW S, NEW Done, NEW x,
         Kin(t, M), Placed(t, M, g), x \in S,
         \A c \in S : c.node \in M \cup {Nil},
         \A c \in S : c \in Done => round[c] = c,
         \A c \in S : c \notin Done =>
           /\ round[c] \in S
           /\ round[c] \in Done \/ Size(g, M, c.node) < Size(g, M, round[c].node)
  PROVE  Repeat(round, x) \in S \cap Done
<1> DEFINE n == Cardinality(Cells)
           m == [c \in S |-> n - Size(g, M, c.node)]
<1>1. \A c \in S : Size(g, M, c.node) \in Nat /\ Size(g, M, c.node) < n /\ n \in Nat
  <2> TAKE c \in S
  <2>1. /\ IsFiniteSet(M) /\ Cardinality(M) \in Nat /\ n \in Nat /\ Cardinality(M) < n
    BY CellsFinite DEF Kin
  <2>2. Size(g, M, c.node) \in Nat
    BY SizeIs
  <2>3. Size(g, M, c.node) <= Cardinality(M)
    <3>1. Under(g, M, c.node) \subseteq M
      BY DEF Under
    <3>2. Cardinality(Under(g, M, c.node)) <= Cardinality(M)
      BY <2>1, <3>1, FS_Subset
    <3> QED
      BY <2>1, <3>2 DEF Size
  <2> QED
    BY <2>1, <2>2, <2>3
<1>2. \A c \in S : m[c] \in Nat /\ m[c] # 0 /\ m[c] <= n
  BY <1>1
<1>3. m \in [S -> Nat]
  BY <1>1
<1>4. \A c \in S \cap Done : round[c] \in S \cap Done
  OBVIOUS
<1>5. \A c \in S \ Done : round[c] \in S /\ (round[c] \in Done \/ m[round[c]] < m[c])
  BY <1>1
<1> HIDE DEF n, m
<1>6. m[x] <= Cardinality(Cells)
  BY <1>2 DEF n
<1>7. \/ Repeat(round, x) \in S \cap Done
      \/ Repeat(round, x) \in S /\ m[Repeat(round, x)] = 0
  BY <1>3, <1>4, <1>5, <1>6, RepeatEnds
<1> QED
  BY <1>2, <1>7

\* A red root is painted.
LEMMA RootPainted ==
  ASSUME NEW t, NEW M, NEW g, NEW h, NEW u,
         Kin(t, M), Placed(t, M, g), ~ Red(t, Nil), Heights(t, M, h, Nil, "left"),
         \A x \in M, d \in Sides : ~ RedPair(t, x, d), u = Paint(t, Root(t), "black")
  PROVE  Coloured(u, M)
<1> DEFINE r == Root(t)
           k == IF Red(t, r) THEN With(h, r, Hgt(h, r) + 1) ELSE h
<1>1. M \subseteq Cells /\ Nil \notin M /\ Nil \in Cells /\ t \in Trees /\ r \in M \cup {Nil} /\ r \in Cells
  BY KinCells DEF Kin
<1>2. Recoloured(t, u) /\ \A z \in Cells : Red(u, z) <=> IF z = r THEN FALSE ELSE Red(t, z)
  BY <1>1, PaintColours
<1>3. Root(u) = r /\ \A z \in Cells, d \in Sides : Child(u, d, z) = Child(t, d, z)
  BY <1>2 DEF Recoloured, SameShape
<1>4. \A z \in M : \A e \in Sides : /\ Child(t, e, z) \in M \cup {Nil}
                                    /\ (Child(t, e, z) # Nil => Parent(t, Child(t, e, z)) = z)
  BY DEF Kin
<1>5. \A z \in M : \A e \in Sides : Child(t, e, z) = r => r = Nil
  BY <1>1, <1>4 DEF Kin
<1>6. Red(t, r) => r \in M
  BY <1>1
<1>7. \A z \in Cells : Hgt(k, z) = IF Red(t, r) /\ z = r THEN Hgt(h, z) + 1 ELSE Hgt(h, z)
  BY WithIs
<1> HIDE DEF r, k
<1>8. Heights(u, M, k, Nil, "left")
  <2>1. Hgt(h, Nil) = 1 /\ \A z \in M : Hgt(h, z) \in Nat \ {0}
    BY DEF Heights
  <2>2. Hgt(k, Nil) = 1 /\ \A z \in M : Hgt(k, z) \in Nat \ {0}
    BY <1>1, <1>6, <1>7, <2>1
  <2>3. ASSUME NEW z \in M, NEW d \in Sides
        PROVE  Level(u, k, z, d, Nil, "left")
    <3> DEFINE c == Child(t, d, z)
    <3>1. Hgt(h, z) = Hgt(h, c) + Tint(t, z) + Owed(z, d, Nil, "left")
      BY DEF Heights, Level
    <3>2. c \in M \cup {Nil} /\ (c = r => r = Nil) /\ Child(u, d, z) = c /\ z \in Cells
      BY <1>1, <1>3, <1>4, <1>5
    <3> HIDE DEF c
    <3>3. Hgt(k, c) = Hgt(h, c) /\ Hgt(h, c) \in Nat
      BY <1>1, <1>6, <1>7, <2>1, <3>2
    <3>4. Owed(z, d, Nil, "left") = 0
      BY <1>1, OwedIs
    <3>5. CASE z = r /\ Red(t, r)
      <4>1. Tint(t, z) = 0 /\ Tint(u, z) = 1 /\ Hgt(k, z) = Hgt(h, z) + 1 /\ Hgt(h, z) \in Nat
        BY <1>2, <1>7, <2>1, <3>2, <3>5, TintIs
      <4> QED
        BY <3>1, <3>2, <3>3, <3>4, <4>1 DEF Level
    <3>6. CASE ~ (z = r /\ Red(t, r))
      <4>1. Tint(t, z) = Tint(u, z) /\ Hgt(k, z) = Hgt(h, z)
        BY <1>2, <1>7, <3>2, <3>6 DEF Tint
      <4> QED
        BY <3>1, <3>2, <3>3, <3>4, <4>1 DEF Level
    <3> QED
      BY <3>5, <3>6
  <2> QED
    BY <2>2, <2>3 DEF Heights
<1>9. \A x \in M, d \in Sides : ~ RedPair(u, x, d)
  <2> TAKE x \in M, d \in Sides
  <2>1. x \in Cells /\ Child(t, d, x) \in Cells
    BY <1>1, <1>4
  <2> QED
    BY <1>2, <1>3, <2>1 DEF RedPair
<1>10. ~ Red(u, Nil) /\ ~ Red(u, Root(u))
  BY <1>1, <1>2, <1>3
<1> QED
  BY <1>8, <1>9, <1>10 DEF Coloured

\* The loop of rbtree_insert.
LEMMA InsertFixupColoured ==
  ASSUME NEW t, NEW M, NEW node, NEW h, NEW u,
         Shaped(t, M), Rising(t, M, h, node), u = InsertFixup(t, node)
  PROVE  Coloured(u, M)
<1>1. PICK g : Placed(t, M, g)
  BY DEF Shaped
<1>2. Kin(t, M) /\ node \in M /\ t \in Trees /\ node \in Pointers
  BY KinCells DEF Shaped, Rising, Kin
<1> DEFINE round == [c \in Cursors |-> InsertRound(c.tree, c.node)]
           Calm(c) == ~ Red(c.tree, Parent(c.tree, c.node))
           Done == {c \in Cursors : Calm(c)}
           Good(c) == /\ Shaped(c.tree, M) /\ c.node \in M /\ \E k : Rising(c.tree, M, k, c.node)
                      /\ Calm(c) \/ Placed(c.tree, M, g)
           S == {c \in Cursors : Good(c)}
<1>3. At(t, node) \in S
  <2>1. At(t, node) \in Cursors
    BY <1>2 DEF At, Cursors
  <2> QED
    BY <1>1, <1>2, <2>1, AtIs
<1>4. \A c \in S : c \in Done => round[c] = c
  <2> SUFFICES ASSUME NEW c \in Cursors, Calm(c) PROVE round[c] = c
    OBVIOUS
  <2>1. round[c] = At(c.tree, c.node)
    BY DEF InsertRound
  <2> QED
    BY <2>1 DEF At, Cursors
<1>5. ASSUME NEW c \in S, c \notin Done
      PROVE  /\ round[c] \in S
             /\ round[c] \in Done \/ Size(g, M, c.node) < Size(g, M, round[c].node)
  <2> DEFINE v == c.tree
             y == c.node
             e == round[c]
  <2>1. /\ c \in Cursors /\ Shaped(v, M) /\ y \in M /\ Red(v, Parent(v, y)) /\ Placed(v, M, g)
        /\ \E k : Rising(v, M, k, y)
    BY <1>5
  <2>2. e = InsertRound(v, y)
    BY <2>1
  <2> HIDE DEF v, y, e
  <2>3. Kin(v, M)
    BY <2>1 DEF Shaped
  <2>4. RisesTo(v, M, g, y, e)
    BY <2>1, <2>2, <2>3, RisingRound
  <2>5. Keeps(v, e, M)
    BY <2>1, <2>2, InsertRoundShaped
  <2>6. Shaped(e.tree, M) /\ e \in Cursors
    <3>1. e.tree \in Trees /\ e.node \in Pointers /\ e = At(e.tree, e.node) /\ Shaped(e.tree, M)
      BY <2>5, KinCells DEF Keeps, Rebuilt, Shaped, Kin
    <3>2. At(e.tree, e.node) \in Cursors
      BY <3>1 DEF At, Cursors
    <3> QED
      BY <3>1, <3>2
  <2>7. Good(e) /\ (Calm(e) \/ Size(g, M, y) < Size(g, M, e.node))
    BY <2>4, <2>6 DEF RisesTo
  <2>8. e \in S /\ (e \in Done \/ Size(g, M, y) < Size(g, M, e.node))
    BY <2>6, <2>7
  <2> QED
    BY <2>8 DEF e, y
<1>6. \A c \in S : c.node \in M \cup {Nil}
  OBVIOUS
<1> DEFINE end == Repeat(round, At(t, node))
<1>7. end \in S \cap Done
  <2> HIDE DEF S, Done, round
  <2> QED
    BY <1>1, <1>2, <1>3, <1>4, <1>5, <1>6, ClimbEnds
<1>8. u = Paint(end.tree, Root(end.tree), "black")
  BY DEF InsertFixup, Root
<1>9. Shaped(end.tree, M) /\ (\E k : Rising(end.tree, M, k, end.node)) /\ ~ Red(end.tree, Parent(end.tree, end.node))
  BY <1>7
<1> HIDE DEF end
<1>10. PICK k : Rising(end.tree, M, k, end.node)
  BY <1>9
<1>11. PICK f : Placed(end.tree, M, f)
  BY <1>9 DEF Shaped
<1>12. Kin(end.tree, M)
  BY <1>9 DEF Shaped
<1>13. \A x \in M, d \in Sides : ~ RedPair(end.tree, x, d)
  <2> SUFFICES ASSUME NEW x \in M, NEW d \in Sides, RedPair(end.tree, x, d)
               PROVE  FALSE
    OBVIOUS
  <2>1. Child(end.tree, d, x) = end.node /\ end.node # Nil
    BY <1>10, <1>12, KinCells DEF Rising
  <2>2. Parent(end.tree, end.node) = x
    BY <1>12, <2>1 DEF Kin
  <2> QED
    BY <1>9, <2>2 DEF RedPair
<1>14. ~ Red(end.tree, Nil) /\ Heights(end.tree, M, k, Nil, "left")
  BY <1>10 DEF Rising
<1> QED
  BY <1>8, <1>11, <1>12, <1>13, <1>14, RootPainted

\* A new leaf is red.
LEMMA HangRises ==
  ASSUME NEW t, NEW u, NEW M, NEW node, NEW key, u = Hang(t, node, key, Descend(t, key)),
         Shaped(t, M), Coloured(t, M), Parent(t, Nil) = Nil,
         node \in Nodes, node \notin M, key \in Nat
  PROVE  \E k : Rising(u, M \cup {node}, k, node)
<1> DEFINE above == Descend(t, key)
           s == SideFor(t, key, above)
           N == M \cup {node}
<1>1. Kin(t, M) /\ \E g : Placed(t, M, g)
  BY DEF Shaped
<1>2. t \in Trees
  BY <1>1 DEF Kin
<1>3. \/ M = {} /\ Root(t) = Nil /\ above = Nil
      \/ above \in M /\ Root(t) # Nil /\ Child(t, s, above) = Nil
  BY <1>1, DescendIs
<1>4. M \subseteq Cells /\ Nil \in Cells /\ Nil \notin M /\ node \in Cells /\ node # Nil
  BY <1>1, KinCells, NilNull DEF Cells
<1>5. s \in Sides
  BY BelowIs
<1> HIDE DEF above, s
<1>6. above \in Cells /\ above # node
  BY <1>3, <1>4
<1>7. /\ u \in Trees /\ Root(u) = IF Root(t) = Nil THEN node ELSE Root(t)
      /\ \A z \in Cells : Parent(u, z) = IF z = node THEN above ELSE Parent(t, z)
      /\ \A z \in Cells, d \in Sides : Child(u, d, z) =
           IF z = node THEN Nil
           ELSE IF Root(t) # Nil /\ z = above /\ d = s THEN node ELSE Child(t, d, z)
      /\ \A z \in Cells : Red(u, z) <=> z = node \/ Red(t, z)
  BY <1>2, <1>6, HangIs DEF above, s
<1>8. PICK h : Heights(t, M, h, Nil, "left")
  BY DEF Coloured
<1> DEFINE k == With(h, node, 1)
<1>9. \A z \in Cells : Hgt(k, z) = IF z = node THEN 1 ELSE Hgt(h, z)
  BY WithIs
<1> HIDE DEF k
<1>10. \A z \in M : \A e \in Sides : Child(t, e, z) \in M \cup {Nil}
  BY <1>1 DEF Kin
<1>11. Hgt(h, Nil) = 1 /\ \A z \in M : Hgt(h, z) \in Nat \ {0}
  BY <1>8 DEF Heights
<1>12. Heights(u, N, k, Nil, "left")
  <2>1. Hgt(k, Nil) = 1 /\ \A z \in N : Hgt(k, z) \in Nat \ {0}
    BY <1>4, <1>9, <1>11
  <2>2. ASSUME NEW d \in Sides PROVE Level(u, k, node, d, Nil, "left")
    <3>1. Child(u, d, node) = Nil /\ Tint(u, node) = 0 /\ Owed(node, d, Nil, "left") = 0
          /\ Hgt(k, node) = 1
      BY <1>4, <1>7, <1>9, TintIs, OwedIs
    <3> QED
      BY <2>1, <3>1 DEF Level
  <2>3. ASSUME NEW z \in M, NEW d \in Sides PROVE Level(u, k, z, d, Nil, "left")
    <3>1. Hgt(h, z) = Hgt(h, Child(t, d, z)) + Tint(t, z) + Owed(z, d, Nil, "left")
      BY <1>8 DEF Heights, Level
    <3>2. Tint(t, z) = Tint(u, z)
      BY <1>4, <1>7 DEF Tint
    <3>3. Hgt(k, z) = Hgt(h, z)
      BY <1>4, <1>9
    <3>4. Hgt(k, Child(u, d, z)) = Hgt(h, Child(t, d, z))
      <4>1. CASE Root(t) # Nil /\ z = above /\ d = s
        <5>1. Child(u, d, z) = node /\ Child(t, d, z) = Nil
          BY <1>3, <1>4, <1>6, <1>7, <4>1
        <5> QED
          BY <1>4, <1>9, <1>11, <5>1
      <4>2. CASE ~ (Root(t) # Nil /\ z = above /\ d = s)
        <5>1. Child(u, d, z) = Child(t, d, z) /\ Child(t, d, z) # node
          BY <1>4, <1>7, <1>10, <4>2
        <5> QED
          BY <1>4, <1>9, <1>10, <5>1
      <4> QED
        BY <4>1, <4>2
    <3> QED
      BY <3>1, <3>2, <3>3, <3>4 DEF Level
  <2> QED
    BY <2>1, <2>2, <2>3 DEF Heights
<1>13. ASSUME NEW x \in N, NEW d \in Sides, RedPair(u, x, d)
       PROVE  Child(u, d, x) = node
  <2>1. /\ ~ Red(t, Nil) /\ ~ Red(u, Nil)
        /\ \A z \in M, e \in Sides : ~ RedPair(t, z, e)
    BY <1>4, <1>7 DEF Coloured
  <2>2. x # node
    BY <1>4, <1>7, <1>13, <2>1 DEF RedPair
  <2>3. x \in M /\ x \in Cells /\ Child(t, d, x) \in Cells
    BY <1>4, <1>10, <2>2
  <2>4. CASE Child(u, d, x) # node
    <3>1. Child(u, d, x) = Child(t, d, x)
      BY <1>7, <2>2, <2>3, <2>4
    <3>2. RedPair(t, x, d)
      BY <1>7, <1>13, <2>2, <2>3, <2>4, <3>1 DEF RedPair
    <3> QED
      BY <2>1, <2>3, <3>2
  <2> QED
    BY <2>4
<1>14. Red(u, node) /\ ~ Red(u, Nil) /\ Parent(u, Nil) = Nil /\ (Red(u, Root(u)) => Root(u) = node)
  <2>1. ~ Red(t, Nil) /\ ~ Red(t, Root(t)) /\ Root(t) \in Cells
    BY <1>1, <1>4 DEF Coloured, Kin
  <2> QED
    BY <1>4, <1>7, <2>1
<1> QED
  BY <1>12, <1>13, <1>14 DEF Rising

\* rbtree_insert keeps the colours right.
LEMMA InsertColoured ==
  ASSUME NEW t, NEW u, NEW M, NEW node, NEW key, u = InsertNode(t, node, key),
         Shaped(t, M), Coloured(t, M), Parent(t, Nil) = Nil,
         node \in Nodes, node \notin M, key \in Nat
  PROVE  Coloured(u, M \cup {node})
<1> DEFINE v == Hang(t, node, key, Descend(t, key))
<1>1. u = InsertFixup(v, node)
  BY DEF InsertNode
<1>2. Shaped(v, M \cup {node})
  BY HangShaped
<1>3. \E k : Rising(v, M \cup {node}, k, node)
  BY HangRises
<1> HIDE DEF v
<1> QED
  BY <1>1, <1>2, <1>3, InsertFixupColoured

----------------------------------------------------------------------------
(* The colours after rbtree_delete.                                         *)

\* On side s of p, where temp hangs, a black node is missing; only temp may be red
\* next to another red node, or be a red root.
Sunk(t, M, h, temp, p, s) ==
  /\ temp \in M \cup {Nil} /\ ~ Red(t, Nil) /\ p = Parent(t, temp)
  /\ p = Nil => temp = Root(t)
  /\ p # Nil => p \in M /\ s \in Sides /\ Child(t, s, p) = temp
  /\ Heights(t, M, h, p, s)
  /\ \A x \in M, d \in Sides : RedPair(t, x, d) => temp \in {x, Child(t, d, x)}
  /\ Red(t, Root(t)) => Root(t) = temp

\* Painting temp makes up for it, where it is red or the root.
LEMMA SunkPainted ==
  ASSUME NEW t, NEW M, NEW g, NEW h, NEW temp, NEW p, NEW s, NEW u,
         Kin(t, M), Placed(t, M, g), Sunk(t, M, h, temp, p, s),
         temp = Root(t) \/ Red(t, temp), u = Paint(t, temp, "black")
  PROVE  Coloured(u, M)
<1> DEFINE k == IF Red(t, temp) THEN With(h, temp, Hgt(h, temp) + 1) ELSE h
<1>1. M \subseteq Cells /\ Nil \notin M /\ Nil \in Cells /\ t \in Trees /\ Root(t) \in Cells
  BY KinCells DEF Kin
<1>2. /\ temp \in M \cup {Nil} /\ ~ Red(t, Nil) /\ p = Parent(t, temp)
      /\ p = Nil => temp = Root(t)
      /\ p # Nil => p \in M /\ s \in Sides /\ Child(t, s, p) = temp
      /\ Heights(t, M, h, p, s)
      /\ \A x \in M, d \in Sides : RedPair(t, x, d) => temp \in {x, Child(t, d, x)}
      /\ Red(t, Root(t)) => Root(t) = temp
  BY DEF Sunk
<1>3. temp \in Cells /\ (Red(t, temp) => temp \in M)
  BY <1>1, <1>2
<1>4. Recoloured(t, u) /\ \A z \in Cells : Red(u, z) <=> IF z = temp THEN FALSE ELSE Red(t, z)
  BY <1>1, <1>3, PaintColours
<1>5. Root(u) = Root(t) /\ \A z \in Cells, d \in Sides : Child(u, d, z) = Child(t, d, z)
  BY <1>4 DEF Recoloured, SameShape
<1>6. \A z \in M : \A e \in Sides : /\ Child(t, e, z) \in M \cup {Nil}
                                    /\ (Child(t, e, z) # Nil => Parent(t, Child(t, e, z)) = z)
  BY DEF Kin
<1>7. \A z \in Cells : Hgt(k, z) = IF Red(t, temp) /\ z = temp THEN Hgt(h, z) + 1 ELSE Hgt(h, z)
  BY WithIs
<1> HIDE DEF k
<1>8. Heights(u, M, k, Nil, "left")
  <2>1. Hgt(h, Nil) = 1 /\ \A z \in M : Hgt(h, z) \in Nat \ {0}
    BY <1>2 DEF Heights
  <2>2. Hgt(k, Nil) = 1 /\ \A z \in M : Hgt(k, z) \in Nat \ {0}
    BY <1>1, <1>3, <1>7, <2>1
  <2>3. ASSUME NEW z \in M, NEW d \in Sides
        PROVE  Level(u, k, z, d, Nil, "left")
    <3> DEFINE c == Child(t, d, z)
    <3>1. Hgt(h, z) = Hgt(h, c) + Tint(t, z) + Owed(z, d, p, s)
      BY <1>2 DEF Heights, Level
    <3>2. c \in M \cup {Nil} /\ Child(u, d, z) = c /\ z \in Cells /\ c \in Cells
      BY <1>1, <1>5, <1>6
    <3>3. Red(t, temp) => (c = temp <=> z = p /\ d = s)
      <4> SUFFICES ASSUME Red(t, temp) PROVE c = temp <=> z = p /\ d = s
        OBVIOUS
      <4>1. c = temp => z = p
        BY <1>1, <1>2, <1>3, <1>6
      <4>2. z = p => p \in M /\ s \in Sides /\ Child(t, s, p) = temp
        BY <1>1, <1>2
      <4>3. z = p /\ c = temp => d = s
        BY <1>1, <1>3, <4>2, SideIs
      <4> QED
        BY <4>1, <4>2, <4>3
    <3>4. ~ Red(t, temp) => p = Nil
      BY <1>1, <1>2 DEF Kin
    <3> HIDE DEF c
    <3>5. Owed(z, d, Nil, "left") = 0
      BY <1>1, OwedIs
    <3>6. Hgt(k, c) = Hgt(h, c) + Owed(z, d, p, s)
      <4>1. CASE Red(t, temp) /\ c = temp
        <5>1. Owed(z, d, p, s) = 1
          BY <3>3, <4>1, OwedIs
        <5> QED
          BY <1>7, <3>2, <4>1, <5>1
      <4>2. CASE Red(t, temp) /\ c # temp
        <5>1. Owed(z, d, p, s) = 0
          BY <3>3, <4>2, OwedIs
        <5>2. Hgt(k, c) = Hgt(h, c) /\ Hgt(h, c) \in Nat
          BY <1>1, <1>7, <2>1, <3>2, <4>2
        <5> QED
          BY <5>1, <5>2
      <4>3. CASE ~ Red(t, temp)
        <5>1. Owed(z, d, p, s) = 0
          BY <1>1, <3>4, <4>3, OwedIs
        <5>2. Hgt(k, c) = Hgt(h, c) /\ Hgt(h, c) \in Nat
          BY <1>1, <1>7, <2>1, <3>2, <4>3
        <5> QED
          BY <5>1, <5>2
      <4> QED
        BY <4>1, <4>2, <4>3
    <3>7. Hgt(h, c) \in Nat /\ Tint(t, z) \in Nat /\ Tint(u, z) \in Nat /\ Owed(z, d, p, s) \in Nat
      BY <2>1, <3>2, TintIs, OwedIs
    <3>8. CASE z = temp /\ Red(t, temp)
      <4>1. Tint(t, z) = 0 /\ Tint(u, z) = 1 /\ Hgt(k, z) = Hgt(h, z) + 1 /\ Hgt(h, z) \in Nat
        BY <1>4, <1>7, <2>1, <3>2, <3>8, TintIs
      <4> QED
        BY <3>1, <3>2, <3>5, <3>6, <3>7, <4>1 DEF Level
    <3>9. CASE ~ (z = temp /\ Red(t, temp))
      <4>1. Tint(t, z) = Tint(u, z) /\ Hgt(k, z) = Hgt(h, z)
        BY <1>4, <1>7, <3>2, <3>9 DEF Tint
      <4> QED
        BY <3>1, <3>2, <3>5, <3>6, <3>7, <4>1 DEF Level
    <3> QED
      BY <3>8, <3>9
  <2> QED
    BY <2>2, <2>3 DEF Heights
<1>9. \A x \in M, d \in Sides : ~ RedPair(u, x, d)
  <2> TAKE x \in M, d \in Sides
  <2>1. x \in Cells /\ Child(t, d, x) \in Cells
    BY <1>1, <1>6
  <2> QED
    BY <1>2, <1>4, <1>5, <2>1 DEF RedPair
<1>10. ~ Red(u, Nil) /\ ~ Red(u, Root(u))
  BY <1>1, <1>2, <1>4, <1>5
<1> QED
  BY <1>8, <1>9, <1>10 DEF Coloured

\* The loop goes on: temp is black and not the root.
Active(t, M, h, temp, p, side) ==
  /\ p \in M /\ side \in Sides /\ temp = Child(t, side, p) /\ p = Parent(t, temp)
  /\ temp # Root(t) /\ ~ Red(t, temp) /\ ~ Red(t, Nil) /\ ~ Red(t, Root(t))
  /\ \A x \in M, d \in Sides : ~ RedPair(t, x, d)
  /\ Heights(t, M, h, p, side)

\* Its sibling is a node.
LEMMA ActiveIs ==
  ASSUME NEW t, NEW M, NEW g, NEW h, NEW temp, NEW p, NEW side, NEW w,
         Kin(t, M), Placed(t, M, g), p \in M, side \in Sides, temp = Child(t, side, p),
         Heights(t, M, h, p, side), w = Child(t, Other(side), p)
  PROVE  /\ w \in M /\ w # temp /\ w # p /\ temp # p /\ Parent(t, w) = p /\ temp \in M \cup {Nil}
         /\ Hgt(h, w) = Hgt(h, temp) + 1 /\ Hgt(h, p) = Hgt(h, w) + Tint(t, p)
         /\ Hgt(h, temp) \in Nat \ {0} /\ Hgt(h, w) \in Nat \ {0} /\ Hgt(h, p) \in Nat \ {0}
<1>1. Other(side) \in Sides /\ Other(side) # side
  BY OtherSide
<1>2. w \in M \cup {Nil} /\ temp \in M \cup {Nil} /\ p # Nil /\ (w # Nil => Parent(t, w) = p)
  BY <1>1, KinCells DEF Kin
<1>3. Hgt(h, p) = Hgt(h, temp) + Tint(t, p) + Owed(p, side, p, side)
      /\ Hgt(h, p) = Hgt(h, w) + Tint(t, p) + Owed(p, Other(side), p, side)
  BY <1>1 DEF Heights, Level
<1>4. Owed(p, side, p, side) = 1 /\ Owed(p, Other(side), p, side) = 0 /\ Tint(t, p) \in Nat
  BY <1>1, OwedIs, TintIs
<1>5. Hgt(h, temp) \in Nat \ {0} /\ Hgt(h, w) \in Nat \ {0} /\ Hgt(h, p) \in Nat \ {0} /\ Hgt(h, Nil) = 1
  BY <1>2 DEF Heights
<1>6. Hgt(h, w) = Hgt(h, temp) + 1 /\ Hgt(h, p) = Hgt(h, w) + Tint(t, p)
  BY <1>3, <1>4, <1>5
<1>7. w # Nil /\ w # temp
  BY <1>5, <1>6
<1>8. w # p /\ temp # p
  BY <1>1, Around
<1> QED
  BY <1>2, <1>5, <1>6, <1>7, <1>8

LEMMA SunkActive ==
  ASSUME NEW t, NEW M, NEW g, NEW h, NEW temp, NEW p, NEW s,
         Kin(t, M), Placed(t, M, g), Sunk(t, M, h, temp, p, s), temp # Root(t), ~ Red(t, temp)
  PROVE  /\ Active(t, M, h, temp, p, s) /\ SideOf(t, p, temp) = s /\ p = Parent(t, temp)
<1>1. p \in M /\ s \in Sides /\ Child(t, s, p) = temp /\ p = Parent(t, temp) /\ Heights(t, M, h, p, s)
  BY DEF Sunk
<1>2. \A x \in M, d \in Sides : ~ RedPair(t, x, d)
  BY DEF Sunk, RedPair
<1>3. Active(t, M, h, temp, p, s)
  BY <1>1, <1>2 DEF Sunk, Active
<1>4. SideOf(t, p, temp) \in Sides /\ Child(t, SideOf(t, p, temp), p) = temp
  BY <1>1, SideOfIs
<1>5. Child(t, Other(s), p) # temp
  BY <1>1, ActiveIs
<1> QED
  BY <1>1, <1>3, <1>4, <1>5, OtherSide

\* A red sibling: it comes up, and a black node is the sibling then.
LEMMA SiblingUp ==
  ASSUME NEW t, NEW M, NEW g, NEW h, NEW temp, NEW p, NEW side, NEW far, NEW w, NEW u, NEW v,
         Kin(t, M), Placed(t, M, g), Active(t, M, h, temp, p, side),
         far = Other(side), w = Child(t, far, p), Red(t, w), Recoloured(t, u),
         \A z \in Cells : Red(u, z) <=> IF z = p THEN TRUE ELSE z # w /\ Red(t, z),
         v = Rotate(u, side, p)
  PROVE  /\ \E k : Active(v, M, k, temp, p, side)
         /\ Red(v, p) /\ ~ Red(v, Child(v, far, p))
<1> DEFINE b == Child(t, side, w)
           o == Child(t, far, w)
           k == With(With(h, p, Hgt(h, w)), w, Hgt(h, p))
<1>1. /\ p \in M /\ side \in Sides /\ temp = Child(t, side, p) /\ p = Parent(t, temp)
      /\ temp # Root(t) /\ ~ Red(t, temp) /\ ~ Red(t, Nil) /\ ~ Red(t, Root(t))
      /\ \A x \in M, d \in Sides : ~ RedPair(t, x, d)
      /\ Heights(t, M, h, p, side)
  BY DEF Active
<1>2. far \in Sides /\ far # side /\ Other(far) = side /\ \A d \in Sides : d = side \/ d = far
  BY <1>1, OtherSide
<1>3. /\ w \in M /\ w # temp /\ w # p /\ temp # p /\ Parent(t, w) = p /\ temp \in M \cup {Nil}
      /\ Hgt(h, w) = Hgt(h, temp) + 1 /\ Hgt(h, p) = Hgt(h, w) + Tint(t, p)
      /\ Hgt(h, temp) \in Nat \ {0} /\ Hgt(h, w) \in Nat \ {0} /\ Hgt(h, p) \in Nat \ {0}
  BY <1>1, ActiveIs
<1>4. M \subseteq Cells /\ Nil \notin M /\ Nil \in Cells /\ t \in Trees /\ Root(t) \in Cells
  BY KinCells DEF Kin
<1>5. ~ Red(t, p) /\ b \in M \cup {Nil} /\ o \in M \cup {Nil} /\ ~ Red(t, b) /\ ~ Red(t, o)
  BY <1>1, <1>2, <1>3 DEF RedPair, Kin
<1>6. /\ Kin(u, M) /\ Placed(u, M, g) /\ Root(u) = Root(t)
      /\ \A z \in Cells : Parent(u, z) = Parent(t, z)
      /\ \A z \in Cells, d \in Sides : Child(u, d, z) = Child(t, d, z)
  BY RecolouredPlaced DEF Recoloured, SameShape
<1>7. Turn(u, M, side, p, w, b)
  BY <1>1, <1>2, <1>3, <1>4, <1>6 DEF Turn
<1>8. b # p /\ b # w /\ Parent(t, p) \notin {p, w} /\ (b # Nil => Parent(t, b) = w)
  <2>1. b # p /\ b # w /\ Parent(u, p) \notin {p, w} /\ (b # Nil => Parent(u, b) = w)
    BY <1>6, <1>7, TurnIs
  <2> QED
    BY <1>1, <1>4, <1>5, <1>6, <2>1
<1>9. o # p /\ o # w
  <2>1. o # w
    BY <1>2, <1>3, Around
  <2>2. o = p => Parent(t, p) = w
    BY <1>1, <1>2, <1>3, <1>4 DEF Kin
  <2> QED
    BY <1>8, <2>1, <2>2
<1>10. b # Nil
  <2>1. Hgt(h, w) = Hgt(h, b) + Tint(t, w) + Owed(w, side, p, side)
    BY <1>1, <1>3 DEF Heights, Level
  <2>2. Tint(t, w) = 0 /\ Owed(w, side, p, side) = 0 /\ Hgt(h, Nil) = 1
    BY <1>1, <1>3, TintIs, OwedIs DEF Heights
  <2> QED
    BY <1>3, <2>1, <2>2
<1> HIDE DEF b, o, k
<1>11. TurnMade(u, side, p, w, b, v)
  BY <1>6, <1>7, TurnMakes
<1>12. /\ Root(v) = IF p = Root(t) THEN w ELSE Root(t)
       /\ \A z \in Cells : Parent(v, z) = IF z = p THEN w ELSE IF z = w THEN Parent(t, p)
                               ELSE IF z = b /\ b # Nil THEN p ELSE Parent(t, z)
       /\ \A z \in Cells, d \in Sides : Child(v, d, z) =
            IF z = w /\ d = side THEN p ELSE IF z = p /\ d = far THEN b
            ELSE IF Child(t, d, z) = p /\ z # Nil THEN w ELSE Child(t, d, z)
       /\ \A z \in Cells : Red(v, z) <=> IF z = p THEN TRUE ELSE z # w /\ Red(t, z)
  BY <1>1, <1>4, <1>6, <1>11 DEF TurnMade
<1>13. \A z \in Cells : Hgt(k, z) = IF z = w THEN Hgt(h, p) ELSE IF z = p THEN Hgt(h, w) ELSE Hgt(h, z)
  BY WithIs DEF k
<1>14. Heights(v, M, k, p, side)
  <2>1. /\ Hgt(h, Nil) = 1 /\ \A z \in M : Hgt(h, z) \in Nat \ {0}
        /\ \A z \in M, d \in Sides : Level(t, h, z, d, p, side)
    BY <1>1 DEF Heights
  <2>2. \A z \in M, d \in Sides : z \notin {p, w} => Level(u, h, z, d, p, side)
    <3>1. \A z \in M : z \notin {p, w} => Tint(u, z) = Tint(t, z)
      BY <1>4 DEF Tint
    <3> QED
      BY <1>4, <1>6, <2>1, <3>1 DEF Level
  <2>3. Hgt(k, Nil) = 1 /\ \A z \in M : Hgt(k, z) \in Nat \ {0}
    BY <1>1, <1>3, <1>4, <1>13, <2>1
  <2>4. \A z \in M \cup {Nil} : z \notin {p, w} => Hgt(k, z) = Hgt(h, z)
    BY <1>4, <1>13
  <2>5. Hgt(k, w) = Hgt(h, p) /\ Hgt(k, p) = Hgt(h, w) /\ Hgt(k, temp) = Hgt(h, temp)
        /\ Hgt(k, b) = Hgt(h, b) /\ Hgt(k, o) = Hgt(h, o)
    BY <1>1, <1>3, <1>4, <1>5, <1>8, <1>9, <1>13
  <2>6. Tint(u, w) = 1 /\ Tint(u, p) = 0 /\ Tint(t, w) = 0 /\ Tint(t, p) = 1
    BY <1>1, <1>3, <1>4, <1>5, TintIs
  <2>7. Owed(p, side, p, side) = 1 /\ Owed(p, far, p, side) = 0 /\ Owed(w, side, p, side) = 0
        /\ Owed(w, far, p, side) = 0
    BY <1>2, <1>3, OwedIs
  <2>8. Hgt(h, w) = Hgt(h, b) /\ Hgt(h, w) = Hgt(h, o)
    <3>1. /\ Hgt(h, w) = Hgt(h, b) + Tint(t, w) + Owed(w, side, p, side)
          /\ Hgt(h, w) = Hgt(h, o) + Tint(t, w) + Owed(w, far, p, side)
      BY <1>1, <1>2, <1>3, <2>1 DEF Level, b, o
    <3>2. Hgt(h, b) \in Nat /\ Hgt(h, o) \in Nat
      BY <1>5, <2>1 DEF b, o
    <3> QED
      BY <2>6, <2>7, <3>1, <3>2
  <2>9. Child(u, side, p) = temp /\ Child(u, far, w) = o
    BY <1>1, <1>2, <1>3, <1>4, <1>6 DEF o
  <2>10. Hgt(k, w) = Hgt(k, p) + Tint(u, w) + Owed(w, side, p, side)
    BY <1>3, <2>5, <2>6, <2>7
  <2>11. Hgt(k, w) = Hgt(k, o) + Tint(u, w) + Owed(w, far, p, side)
    BY <1>3, <2>5, <2>6, <2>7, <2>8
  <2>12. Hgt(k, p) = Hgt(k, b) + Tint(u, p) + Owed(p, far, p, side)
    BY <1>3, <2>5, <2>6, <2>7, <2>8
  <2>13. Hgt(k, p) = Hgt(k, temp) + Tint(u, p) + Owed(p, side, p, side)
    BY <1>3, <2>5, <2>6, <2>7
  <2> QED
    <3>1. Hgt(k, w) = Hgt(k, Child(u, Other(side), w)) + Tint(u, w) + Owed(w, Other(side), p, side)
      BY <2>9, <2>11
    <3>2. Hgt(k, p) = Hgt(k, b) + Tint(u, p) + Owed(p, Other(side), p, side)
      BY <2>12
    <3>3. Hgt(k, p) = Hgt(k, Child(u, side, p)) + Tint(u, p) + Owed(p, side, p, side)
      BY <2>9, <2>13
    <3>4. Hgt(k, Nil) = 1 /\ Hgt(k, w) = Hgt(h, p)
      BY <2>3, <2>5
    <3> QED
      BY <1>6, <1>7, <2>2, <2>3, <2>4, <2>10, <3>1, <3>2, <3>3, <3>4, TurnHeights
<1>15. Child(v, side, p) = temp /\ Child(v, far, p) = b /\ Parent(v, temp) = p
  <2>1. temp # b
    BY <1>1, <1>3, <1>8, <1>10
  <2>2. Child(t, side, p) # p
    BY <1>1, <1>3
  <2> QED
    BY <1>1, <1>2, <1>3, <1>4, <1>12, <2>1, <2>2
<1>16. Red(v, p) /\ ~ Red(v, b) /\ ~ Red(v, temp) /\ ~ Red(v, Nil) /\ ~ Red(v, Root(v)) /\ temp # Root(v)
  BY <1>1, <1>3, <1>4, <1>5, <1>8, <1>12
<1>17. ASSUME NEW x \in M, NEW d \in Sides, RedPair(v, x, d)
       PROVE  FALSE
  <2>1. x \in Cells /\ x # w /\ Child(t, d, x) \in Cells /\ Child(t, d, x) \in M \cup {Nil}
        /\ (Child(t, d, x) # Nil => Parent(t, Child(t, d, x)) = x)
    BY <1>3, <1>4, <1>12, <1>17 DEF RedPair, Kin
  <2>2. CASE x = p
    BY <1>2, <1>15, <1>16, <1>17, <2>2 DEF RedPair
  <2>3. CASE x # p /\ Child(t, d, x) = p
    <3>1. Child(v, d, x) = w
      BY <1>4, <1>12, <2>1, <2>3
    <3> QED
      BY <1>3, <1>4, <1>12, <1>17, <3>1 DEF RedPair
  <2>4. CASE x # p /\ Child(t, d, x) # p
    <3>1. Child(v, d, x) = Child(t, d, x)
      BY <1>12, <2>1, <2>4
    <3> QED
      BY <1>1, <1>12, <1>17, <2>1, <2>4, <3>1 DEF RedPair
  <2> QED
    BY <2>2, <2>3, <2>4
<1>18. Active(v, M, k, temp, p, side)
  BY <1>1, <1>14, <1>15, <1>16, <1>17 DEF Active
<1> QED
  BY <1>15, <1>16, <1>18

\* A black sibling with black children: it is painted, and p is where a node is missing.
LEMMA SinkClimbs ==
  ASSUME NEW t, NEW M, NEW g, NEW h, NEW temp, NEW p, NEW side, NEW w, NEW u,
         Kin(t, M), Placed(t, M, g), Active(t, M, h, temp, p, side),
         w = Child(t, Other(side), p), ~ Red(t, w), \A d \in Sides : ~ Red(t, Child(t, d, w)),
         u = Paint(t, w, "red")
  PROVE  /\ \E k, q, s : Sunk(u, M, k, p, q, s)
         /\ Recoloured(t, u) /\ (Red(t, p) => Red(u, p))
<1> DEFINE far == Other(side)
           q == Parent(t, p)
           s == SideOf(t, q, p)
           k == With(With(h, p, Hgt(h, temp) + Tint(t, p)), w, Hgt(h, temp))
<1>1. /\ p \in M /\ side \in Sides /\ temp = Child(t, side, p) /\ p = Parent(t, temp)
      /\ temp # Root(t) /\ ~ Red(t, temp) /\ ~ Red(t, Nil) /\ ~ Red(t, Root(t))
      /\ \A x \in M, d \in Sides : ~ RedPair(t, x, d)
      /\ Heights(t, M, h, p, side)
  BY DEF Active
<1>2. far \in Sides /\ far # side /\ w = Child(t, far, p) /\ \A d \in Sides : d = side \/ d = far
  BY <1>1, OtherSide
<1>3. /\ w \in M /\ w # temp /\ w # p /\ temp # p /\ Parent(t, w) = p /\ temp \in M \cup {Nil}
      /\ Hgt(h, w) = Hgt(h, temp) + 1 /\ Hgt(h, p) = Hgt(h, w) + Tint(t, p)
      /\ Hgt(h, temp) \in Nat \ {0} /\ Hgt(h, w) \in Nat \ {0} /\ Hgt(h, p) \in Nat \ {0}
  BY <1>1, ActiveIs
<1>4. M \subseteq Cells /\ Nil \notin M /\ Nil \in Cells /\ t \in Trees /\ Root(t) \in Cells
  BY KinCells DEF Kin
<1>5. Recoloured(t, u) /\ \A z \in Cells : Red(u, z) <=> IF z = w THEN TRUE ELSE Red(t, z)
  BY <1>3, <1>4, PaintColours
<1>6. /\ Root(u) = Root(t) /\ \A z \in Cells : Parent(u, z) = Parent(t, z)
      /\ \A z \in Cells, d \in Sides : Child(u, d, z) = Child(t, d, z)
  BY <1>5 DEF Recoloured, SameShape
<1>7. \A z \in M : \A e \in Sides : /\ Child(t, e, z) \in M \cup {Nil}
                                    /\ (Child(t, e, z) # Nil => Parent(t, Child(t, e, z)) = z)
  BY DEF Kin
<1>8. q \in M \cup {Nil} /\ (q = Nil => p = Root(t)) /\ (q # Nil => s \in Sides /\ Child(t, s, q) = p)
      /\ q # p
  <2>1. q \in M \cup {Nil} /\ (q = Nil => p = Root(t)) /\ (q # Nil => \E d \in Sides : Child(t, d, q) = p)
    BY <1>1 DEF Kin
  <2> QED
    BY <1>1, <2>1, SideOfIs, Around
<1> HIDE DEF far, q, s, k
<1>9. \A z \in Cells : Hgt(k, z) = IF z = w THEN Hgt(h, temp)
                                   ELSE IF z = p THEN Hgt(h, temp) + Tint(t, p) ELSE Hgt(h, z)
  BY WithIs DEF k
<1>10. Heights(u, M, k, q, s)
  <2>1. Hgt(h, Nil) = 1 /\ \A z \in M : Hgt(h, z) \in Nat \ {0}
    BY <1>1 DEF Heights
  <2>2. Hgt(k, Nil) = 1 /\ \A z \in M : Hgt(k, z) \in Nat \ {0}
    BY <1>1, <1>3, <1>4, <1>9, <2>1, TintIs
  <2>3. ASSUME NEW z \in M, NEW d \in Sides
        PROVE  Level(u, k, z, d, q, s)
    <3> DEFINE c == Child(t, d, z)
    <3>1. Hgt(h, z) = Hgt(h, c) + Tint(t, z) + Owed(z, d, p, side)
      BY <1>1 DEF Heights, Level
    <3>2. c \in M \cup {Nil} /\ Child(u, d, z) = c /\ z \in Cells /\ c \in Cells
          /\ (c # Nil => Parent(t, c) = z)
      BY <1>4, <1>6, <1>7
    <3>3. z = p => IF d = side THEN c = temp ELSE c = w
      BY <1>1, <1>2
    <3>4. c = p => z = q /\ d = s
      <4> SUFFICES ASSUME c = p PROVE z = q /\ d = s
        OBVIOUS
      <4>1. z = q
        BY <1>1, <1>4, <3>2 DEF q
      <4> QED
        BY <1>1, <1>4, <4>1, SideIs DEF s
    <3>5. z = q /\ d = s => c = p
      BY <1>4, <1>8
    <3> HIDE DEF c
    <3>6. Hgt(h, c) \in Nat /\ Hgt(h, z) \in Nat /\ Tint(t, z) \in Nat
      BY <2>1, <3>2, TintIs
    <3>7. CASE z = w
      <4>1. Tint(t, z) = 1 /\ Tint(u, z) = 0 /\ Owed(z, d, p, side) = 0
        BY <1>3, <1>5, <3>2, <3>7, TintIs, OwedIs
      <4>2. c # p /\ c # w
        <5>1. c = p => Parent(t, p) = w
          BY <1>1, <1>4, <3>2, <3>7
        <5>2. c = w => Parent(t, w) = w
          BY <1>3, <1>4, <3>2, <3>7
        <5>3. ~ (c = p)
          <6> SUFFICES ASSUME c = p PROVE FALSE
            OBVIOUS
          <6>1. w = q /\ Child(t, d, w) = p
            BY <3>4, <3>7 DEF c
          <6>2. Span(g, p) < Span(g, w) /\ Span(g, w) < Span(g, p)
                /\ Span(g, p) \in Int /\ Span(g, w) \in Int
            BY <1>1, <1>2, <1>3, <1>4, <6>1, Narrower
          <6> QED
            BY <6>2
        <5> QED
          BY <1>3, <5>2, <5>3
      <4>3. Hgt(k, c) = Hgt(h, c) /\ Hgt(k, z) = Hgt(h, temp)
        BY <1>9, <3>2, <3>7, <4>2
      <4>4. Owed(z, d, q, s) = 0
        BY <3>5, <4>2, OwedIs
      <4> QED
        BY <1>3, <3>1, <3>2, <3>6, <3>7, <4>1, <4>3, <4>4 DEF Level
    <3>8. CASE z = p
      <4>1. Tint(t, z) = Tint(u, z) /\ Owed(z, d, q, s) = 0
        BY <1>3, <1>5, <1>8, <3>2, <3>8, OwedIs DEF Tint
      <4>2. Hgt(k, c) = Hgt(h, temp)
        <5>1. temp \in Cells /\ w \in Cells
          BY <1>3, <1>4
        <5> QED
          BY <1>3, <1>9, <3>3, <3>8, <5>1
      <4>3. Hgt(k, z) = Hgt(h, temp) + Tint(t, z)
        BY <1>3, <1>9, <3>2, <3>8
      <4> QED
        BY <1>3, <3>2, <3>6, <4>1, <4>2, <4>3 DEF Level
    <3>9. CASE z \notin {p, w}
      <4>1. Tint(t, z) = Tint(u, z) /\ Owed(z, d, p, side) = 0 /\ Hgt(k, z) = Hgt(h, z)
        BY <1>5, <1>9, <3>2, <3>9, OwedIs DEF Tint
      <4>2. c # w
        BY <1>3, <1>4, <3>2, <3>9
      <4>3. CASE c = p
        <5>1. Owed(z, d, q, s) = 1
          BY <3>4, <4>3, OwedIs
        <5>2. Hgt(k, c) = Hgt(h, temp) + Tint(t, p) /\ Hgt(h, c) = Hgt(h, temp) + 1 + Tint(t, p)
          BY <1>3, <1>9, <3>2, <4>2, <4>3
        <5> QED
          BY <1>3, <3>1, <3>2, <3>6, <4>1, <5>1, <5>2, TintIs DEF Level
      <4>4. CASE c # p
        <5>1. Owed(z, d, q, s) = 0
          BY <3>5, <4>4, OwedIs
        <5>2. Hgt(k, c) = Hgt(h, c)
          BY <1>9, <3>2, <4>2, <4>4
        <5> QED
          BY <3>1, <3>2, <3>6, <4>1, <5>1, <5>2 DEF Level
      <4> QED
        BY <4>3, <4>4
    <3> QED
      BY <3>7, <3>8, <3>9
  <2> QED
    BY <2>2, <2>3 DEF Heights
<1>11. ASSUME NEW x \in M, NEW d \in Sides, RedPair(u, x, d)
       PROVE  p \in {x, Child(u, d, x)}
  <2>1. x \in Cells /\ Child(u, d, x) = Child(t, d, x) /\ Child(t, d, x) \in Cells
        /\ (Child(t, d, x) # Nil => Parent(t, Child(t, d, x)) = x)
    BY <1>4, <1>6, <1>7
  <2>2. CASE x = w
    <3>1. ~ Red(t, Child(t, d, w)) /\ Child(t, d, w) # w
      BY <1>3, Around
    <3> QED
      BY <1>5, <1>11, <2>1, <2>2, <3>1 DEF RedPair
  <2>3. CASE Child(t, d, x) = w
    BY <1>3, <1>4, <2>1, <2>3
  <2>4. CASE x # w /\ Child(t, d, x) # w
    BY <1>1, <1>5, <1>11, <2>1, <2>4 DEF RedPair
  <2> QED
    BY <2>2, <2>3, <2>4
<1>12. ~ Red(u, Nil) /\ ~ Red(u, Root(u)) /\ q = Parent(u, p)
  <2>1. Root(t) # w
    BY <1>1, <1>3, <1>4 DEF Kin
  <2> QED
    BY <1>1, <1>3, <1>4, <1>5, <1>6, <2>1 DEF q
<1>13. Sunk(u, M, k, p, q, s)
  <2>1. q = Nil => p = Root(u)
    BY <1>6, <1>8
  <2>2. q # Nil => q \in M /\ s \in Sides /\ Child(u, s, q) = p
    BY <1>4, <1>6, <1>8
  <2> QED
    BY <1>1, <1>10, <1>11, <1>12, <2>1, <2>2 DEF Sunk
<1> QED
  BY <1>1, <1>4, <1>5, <1>13

\* The sibling w is black and its far child red; a red node below that may be red, too.
Ready(t, M, h, temp, p, side, w, o) ==
  /\ p \in M /\ side \in Sides /\ temp = Child(t, side, p) /\ p = Parent(t, temp)
  /\ w = Child(t, Other(side), p) /\ o = Child(t, Other(side), w)
  /\ ~ Red(t, w) /\ Red(t, o)
  /\ ~ Red(t, temp) /\ ~ Red(t, Nil) /\ ~ Red(t, Root(t))
  /\ \A x \in M, d \in Sides : RedPair(t, x, d) => x = o
  /\ Heights(t, M, h, p, side)

\* The near child of the sibling comes up.
LEMMA NearUp ==
  ASSUME NEW t, NEW M, NEW g, NEW h, NEW temp, NEW p, NEW side, NEW far, NEW w, NEW n, NEW u, NEW v,
         Kin(t, M), Placed(t, M, g), Active(t, M, h, temp, p, side),
         far = Other(side), w = Child(t, far, p), ~ Red(t, w), n = Child(t, side, w), Red(t, n),
         Recoloured(t, u),
         \A z \in Cells : Red(u, z) <=> IF z = w THEN TRUE ELSE z # n /\ Red(t, z),
         v = Rotate(u, far, w)
  PROVE  \E k : Ready(v, M, k, temp, p, side, n, w)
<1> DEFINE b == Child(t, far, n)
           c == Child(t, side, n)
           o == Child(t, far, w)
           k == With(With(h, w, Hgt(h, n)), n, Hgt(h, w))
<1>1. /\ p \in M /\ side \in Sides /\ temp = Child(t, side, p) /\ p = Parent(t, temp)
      /\ temp # Root(t) /\ ~ Red(t, temp) /\ ~ Red(t, Nil) /\ ~ Red(t, Root(t))
      /\ \A x \in M, d \in Sides : ~ RedPair(t, x, d)
      /\ Heights(t, M, h, p, side)
  BY DEF Active
<1>2. far \in Sides /\ far # side /\ Other(far) = side /\ \A d \in Sides : d = side \/ d = far
  BY <1>1, OtherSide
<1>3. /\ w \in M /\ w # temp /\ w # p /\ temp # p /\ Parent(t, w) = p /\ temp \in M \cup {Nil}
  BY <1>1, ActiveIs
<1>4. M \subseteq Cells /\ Nil \notin M /\ Nil \in Cells /\ t \in Trees /\ Root(t) \in Cells
  BY KinCells DEF Kin
<1>5. \A z \in M : \A e \in Sides : /\ Child(t, e, z) \in M \cup {Nil}
                                    /\ (Child(t, e, z) # Nil => Parent(t, Child(t, e, z)) = z)
  BY DEF Kin
<1>6. /\ Kin(u, M) /\ Placed(u, M, g) /\ Root(u) = Root(t)
      /\ \A z \in Cells : Parent(u, z) = Parent(t, z)
      /\ \A z \in Cells, d \in Sides : Child(u, d, z) = Child(t, d, z)
  BY RecolouredPlaced DEF Recoloured, SameShape
<1>7. n \in M /\ Parent(t, n) = w
  BY <1>1, <1>3, <1>5
<1>8. Turn(u, M, far, w, n, b)
  <2>1. n = Child(u, Other(far), w) /\ b = Child(u, far, n)
    BY <1>1, <1>2, <1>3, <1>4, <1>6, <1>7
  <2> QED
    BY <1>2, <1>3, <1>6, <1>7, <2>1 DEF Turn
<1>9. /\ b \in M \cup {Nil} /\ b # w /\ b # n /\ w # n /\ p # n
      /\ c \in M \cup {Nil} /\ o \in M \cup {Nil}
  <2>1. b \in M \cup {Nil} /\ b # w /\ b # n /\ w # n /\ Parent(u, w) \notin {w, n}
    BY <1>6, <1>8, TurnIs
  <2> QED
    BY <1>1, <1>2, <1>3, <1>4, <1>5, <1>6, <1>7, <2>1
<1>10. c # n /\ c # w /\ o # w /\ o # n
  <2>1. c # n /\ o # w
    BY <1>1, <1>2, <1>3, <1>7, Around
  <2>2. c = w => Parent(t, w) = n
    BY <1>1, <1>4, <1>5, <1>3, <1>7
  <2>3. o # n
    BY <1>1, <1>3, <1>4, <1>7 DEF Kin
  <2> QED
    BY <1>3, <1>9, <2>1, <2>2, <2>3
<1> HIDE DEF b, c, o, k
<1>11. TurnMade(u, far, w, n, b, v)
  BY <1>6, <1>8, TurnMakes
<1>12. /\ Root(v) = IF w = Root(t) THEN n ELSE Root(t)
       /\ \A z \in Cells : Parent(v, z) = IF z = w THEN n ELSE IF z = n THEN Parent(t, w)
                               ELSE IF z = b /\ b # Nil THEN w ELSE Parent(t, z)
       /\ \A z \in Cells, d \in Sides : Child(v, d, z) =
            IF z = n /\ d = far THEN w ELSE IF z = w /\ d = side THEN b
            ELSE IF Child(t, d, z) = w /\ z # Nil THEN n ELSE Child(t, d, z)
       /\ \A z \in Cells : Red(v, z) <=> IF z = w THEN TRUE ELSE z # n /\ Red(t, z)
  BY <1>2, <1>3, <1>4, <1>6, <1>11 DEF TurnMade
<1>13. \A z \in Cells : Hgt(k, z) = IF z = n THEN Hgt(h, w) ELSE IF z = w THEN Hgt(h, n) ELSE Hgt(h, z)
  BY WithIs DEF k
<1>14. Heights(v, M, k, p, side)
  <2>1. /\ Hgt(h, Nil) = 1 /\ \A z \in M : Hgt(h, z) \in Nat \ {0}
        /\ \A z \in M, d \in Sides : Level(t, h, z, d, p, side)
    BY <1>1 DEF Heights
  <2>2. \A z \in M, d \in Sides : z \notin {w, n} => Level(u, h, z, d, p, side)
    <3>1. \A z \in M : z \notin {w, n} => Tint(u, z) = Tint(t, z)
      BY <1>4 DEF Tint
    <3> QED
      BY <1>4, <1>6, <2>1, <3>1 DEF Level
  <2>3. Hgt(k, Nil) = 1 /\ \A z \in M : Hgt(k, z) \in Nat \ {0}
    BY <1>3, <1>4, <1>7, <1>13, <2>1
  <2>4. \A z \in M \cup {Nil} : z \notin {w, n} => Hgt(k, z) = Hgt(h, z)
    BY <1>4, <1>13
  <2>5. Hgt(k, n) = Hgt(h, w) /\ Hgt(k, w) = Hgt(h, n) /\ Hgt(k, b) = Hgt(h, b)
        /\ Hgt(k, c) = Hgt(h, c) /\ Hgt(k, o) = Hgt(h, o)
    BY <1>3, <1>4, <1>7, <1>9, <1>10, <1>13
  <2>6. Tint(u, w) = 0 /\ Tint(u, n) = 1 /\ Tint(t, w) = 1 /\ Tint(t, n) = 0
    BY <1>3, <1>4, <1>7, <1>9, TintIs
  <2>7. \A d \in Sides : Owed(w, d, p, side) = 0 /\ Owed(n, d, p, side) = 0
    BY <1>3, <1>9, OwedIs
  <2>8. Hgt(h, w) = Hgt(h, n) + 1 /\ Hgt(h, n) = Hgt(h, o) /\ Hgt(h, n) = Hgt(h, b)
        /\ Hgt(h, n) = Hgt(h, c) /\ Hgt(h, n) \in Nat
    <3>1. /\ Hgt(h, w) = Hgt(h, n) + Tint(t, w) + Owed(w, side, p, side)
          /\ Hgt(h, w) = Hgt(h, o) + Tint(t, w) + Owed(w, far, p, side)
          /\ Hgt(h, n) = Hgt(h, c) + Tint(t, n) + Owed(n, side, p, side)
          /\ Hgt(h, n) = Hgt(h, b) + Tint(t, n) + Owed(n, far, p, side)
      BY <1>1, <1>2, <1>3, <1>7, <2>1 DEF Level, b, c, o
    <3>2. /\ Hgt(h, b) \in Nat /\ Hgt(h, c) \in Nat /\ Hgt(h, o) \in Nat /\ Hgt(h, n) \in Nat
      BY <1>7, <1>9, <2>1
    <3>3. Owed(w, side, p, side) = 0 /\ Owed(w, far, p, side) = 0 /\ Owed(n, side, p, side) = 0
          /\ Owed(n, far, p, side) = 0
      BY <1>1, <1>2, <2>7
    <3> QED
      BY <2>6, <3>1, <3>2, <3>3
  <2>9. Child(u, Other(far), n) = c /\ Child(u, far, w) = o
    BY <1>1, <1>2, <1>3, <1>4, <1>6, <1>7 DEF c, o
  <2>10. Hgt(k, n) = Hgt(k, w) + Tint(u, n) + Owed(n, far, p, side)
    BY <1>2, <2>5, <2>6, <2>7, <2>8
  <2>11. Hgt(k, n) = Hgt(k, Child(u, Other(far), n)) + Tint(u, n) + Owed(n, Other(far), p, side)
    <3>1. Owed(n, Other(far), p, side) = 0 /\ Hgt(k, Child(u, Other(far), n)) = Hgt(h, n)
      BY <1>1, <1>2, <2>5, <2>7, <2>8, <2>9
    <3> QED
      BY <2>5, <2>6, <2>8, <3>1
  <2>12. Hgt(k, w) = Hgt(k, b) + Tint(u, w) + Owed(w, Other(far), p, side)
    <3>1. Owed(w, Other(far), p, side) = 0 /\ Hgt(k, b) = Hgt(h, n)
      BY <1>1, <1>2, <2>5, <2>7, <2>8
    <3> QED
      BY <2>5, <2>6, <2>8, <3>1
  <2>13. Hgt(k, w) = Hgt(k, Child(u, far, w)) + Tint(u, w) + Owed(w, far, p, side)
    <3>1. Owed(w, far, p, side) = 0 /\ Hgt(k, Child(u, far, w)) = Hgt(h, n)
      BY <1>2, <2>5, <2>7, <2>8, <2>9
    <3> QED
      BY <2>5, <2>6, <2>8, <3>1
  <2>14. Hgt(k, Nil) = 1 /\ Hgt(k, n) = Hgt(h, w)
    BY <2>3, <2>5
  <2> QED
    BY <1>6, <1>8, <2>2, <2>3, <2>4, <2>10, <2>11, <2>12, <2>13, <2>14, TurnHeights
<1>15. temp = Child(v, side, p) /\ n = Child(v, far, p) /\ p = Parent(v, temp) /\ w = Child(v, far, n)
  <2>1. temp # n
    BY <1>1
  <2>2. temp = b => b = Nil
    BY <1>1, <1>2, <1>4, <1>5, <1>7, <1>9 DEF b
  <2> QED
    BY <1>1, <1>2, <1>3, <1>4, <1>7, <1>9, <1>12, <2>1, <2>2
<1>16. ~ Red(v, n) /\ Red(v, w) /\ ~ Red(v, temp) /\ ~ Red(v, Nil) /\ ~ Red(v, Root(v))
  <2>1. Root(t) # w
    BY <1>1, <1>3, <1>4 DEF Kin
  <2> QED
    BY <1>1, <1>3, <1>4, <1>7, <1>9, <1>12, <2>1
<1>17. ASSUME NEW x \in M, NEW d \in Sides, RedPair(v, x, d)
       PROVE  x = w
  <2> SUFFICES ASSUME x # w PROVE FALSE
    OBVIOUS
  <2>1. x \in Cells /\ x # n /\ Child(t, d, x) \in Cells /\ Red(t, x)
    BY <1>4, <1>5, <1>12, <1>17 DEF RedPair
  <2>2. CASE Child(t, d, x) = w
    <3>1. Child(v, d, x) = n
      BY <1>4, <1>12, <2>1, <2>2
    <3> QED
      BY <1>16, <1>17, <3>1 DEF RedPair
  <2>3. CASE Child(t, d, x) # w
    <3>1. Child(v, d, x) = Child(t, d, x)
      BY <1>12, <2>1, <2>3
    <3> QED
      BY <1>1, <1>12, <1>17, <2>1, <2>3, <3>1 DEF RedPair
  <2> QED
    BY <2>2, <2>3
<1>18. Ready(v, M, k, temp, p, side, n, w)
  BY <1>1, <1>14, <1>15, <1>16, <1>17 DEF Ready
<1> QED
  BY <1>18

\* The sibling comes up, and no node is missing.
LEMMA Settles ==
  ASSUME NEW t, NEW M, NEW g, NEW h, NEW temp, NEW p, NEW side, NEW far, NEW w, NEW o, NEW u, NEW v,
         Kin(t, M), Placed(t, M, g), Ready(t, M, h, temp, p, side, w, o), far = Other(side),
         Recoloured(t, u),
         \A z \in Cells : Red(u, z) <=> IF z = w THEN Red(t, p) ELSE z # p /\ z # o /\ Red(t, z),
         v = Rotate(u, side, p)
  PROVE  \E k : Sunk(v, M, k, Root(v), Nil, "left")
<1> DEFINE b == Child(t, side, w)
           j == With(h, o, Hgt(h, o) + 1)
           k == With(With(j, p, Hgt(h, temp) + 1), w, Hgt(h, p))
<1>1. /\ p \in M /\ side \in Sides /\ temp = Child(t, side, p) /\ p = Parent(t, temp)
      /\ w = Child(t, far, p) /\ o = Child(t, far, w) /\ ~ Red(t, w) /\ Red(t, o)
      /\ ~ Red(t, temp) /\ ~ Red(t, Nil) /\ ~ Red(t, Root(t))
      /\ \A x \in M, d \in Sides : RedPair(t, x, d) => x = o
      /\ Heights(t, M, h, p, side)
  BY DEF Ready
<1>2. far \in Sides /\ far # side /\ Other(far) = side /\ \A d \in Sides : d = side \/ d = far
  BY <1>1, OtherSide
<1>3. /\ w \in M /\ w # temp /\ w # p /\ temp # p /\ Parent(t, w) = p /\ temp \in M \cup {Nil}
      /\ Hgt(h, w) = Hgt(h, temp) + 1 /\ Hgt(h, p) = Hgt(h, w) + Tint(t, p)
      /\ Hgt(h, temp) \in Nat \ {0} /\ Hgt(h, w) \in Nat \ {0} /\ Hgt(h, p) \in Nat \ {0}
  BY <1>1, ActiveIs
<1>4. M \subseteq Cells /\ Nil \notin M /\ Nil \in Cells /\ t \in Trees /\ Root(t) \in Cells
  BY KinCells DEF Kin
<1>5. \A z \in M : \A e \in Sides : /\ Child(t, e, z) \in M \cup {Nil}
                                    /\ (Child(t, e, z) # Nil => Parent(t, Child(t, e, z)) = z)
  BY DEF Kin
<1>6. /\ Kin(u, M) /\ Placed(u, M, g) /\ Root(u) = Root(t)
      /\ \A z \in Cells : Parent(u, z) = Parent(t, z)
      /\ \A z \in Cells, d \in Sides : Child(u, d, z) = Child(t, d, z)
  BY RecolouredPlaced DEF Recoloured, SameShape
<1>7. o \in M /\ Parent(t, o) = w /\ b \in M \cup {Nil} /\ b # o
  <2>1. o \in M /\ Parent(t, o) = w /\ b \in M \cup {Nil}
    BY <1>1, <1>2, <1>3, <1>5
  <2> QED
    BY <1>1, <1>2, <1>3, <1>4, <2>1 DEF Kin
<1>8. Turn(u, M, side, p, w, b)
  BY <1>1, <1>2, <1>3, <1>4, <1>6 DEF Turn
<1>9. b # p /\ b # w /\ o # p /\ o # w /\ o # temp
  <2>1. b # p /\ b # w /\ Parent(u, p) \notin {p, w}
    BY <1>6, <1>8, TurnIs
  <2>2. o # w
    BY <1>1, <1>2, <1>3, Around
  <2> QED
    BY <1>1, <1>3, <1>4, <1>6, <1>7, <2>1, <2>2
<1>10. Kin(v, M)
  BY <1>6, <1>8, TurnKin
<1> HIDE DEF b, j, k
<1>11. TurnMade(u, side, p, w, b, v)
  BY <1>6, <1>8, TurnMakes
<1>12. /\ Root(v) = IF p = Root(t) THEN w ELSE Root(t)
       /\ \A z \in Cells, d \in Sides : Child(v, d, z) =
            IF z = w /\ d = side THEN p ELSE IF z = p /\ d = far THEN b
            ELSE IF Child(t, d, z) = p /\ z # Nil THEN w ELSE Child(t, d, z)
       /\ \A z \in Cells : Red(v, z) <=> IF z = w THEN Red(t, p) ELSE z # p /\ z # o /\ Red(t, z)
  BY <1>1, <1>4, <1>6, <1>11 DEF TurnMade
<1>13. /\ \A z \in Cells : Hgt(j, z) = IF z = o THEN Hgt(h, o) + 1 ELSE Hgt(h, z)
       /\ \A z \in Cells : Hgt(k, z) = IF z = w THEN Hgt(h, p)
                                       ELSE IF z = p THEN Hgt(h, temp) + 1 ELSE Hgt(j, z)
  BY WithIs DEF j, k
<1>14. Heights(v, M, k, Nil, "left")
  <2>1. /\ Hgt(h, Nil) = 1 /\ \A z \in M : Hgt(h, z) \in Nat \ {0}
        /\ \A z \in M, d \in Sides : Level(t, h, z, d, p, side)
    BY <1>1 DEF Heights
  <2>2. ASSUME NEW z \in M, NEW d \in Sides, z \notin {p, w} PROVE Level(u, j, z, d, Nil, "left")
    <3> DEFINE c == Child(t, d, z)
    <3>1. Hgt(h, z) = Hgt(h, c) + Tint(t, z) + Owed(z, d, p, side)
      BY <2>1 DEF Level
    <3>2. c \in M \cup {Nil} /\ Child(u, d, z) = c /\ z \in Cells /\ c \in Cells /\ c # o
      <4>1. c \in M \cup {Nil} /\ Child(u, d, z) = c /\ (c # Nil => Parent(t, c) = z)
        BY <1>4, <1>5, <1>6
      <4> QED
        BY <1>4, <1>7, <2>2, <4>1
    <3> HIDE DEF c
    <3>3. Owed(z, d, p, side) = 0 /\ Owed(z, d, Nil, "left") = 0
      BY <1>4, <2>2, OwedIs
    <3>4. Hgt(j, c) = Hgt(h, c) /\ Hgt(h, c) \in Nat
      BY <1>13, <2>1, <3>2
    <3>5. CASE z = o
      <4>1. Tint(t, z) = 0 /\ Tint(u, z) = 1 /\ Hgt(j, z) = Hgt(h, z) + 1
        BY <1>1, <1>9, <1>13, <3>2, <3>5, TintIs
      <4> QED
        BY <3>1, <3>2, <3>3, <3>4, <4>1 DEF Level
    <3>6. CASE z # o
      <4>1. Tint(t, z) = Tint(u, z) /\ Hgt(j, z) = Hgt(h, z)
        BY <1>13, <2>2, <3>2, <3>6 DEF Tint
      <4> QED
        BY <3>1, <3>2, <3>3, <3>4, <4>1 DEF Level
    <3> QED
      BY <3>5, <3>6
  <2>3. Hgt(k, Nil) = 1 /\ \A z \in M : Hgt(k, z) \in Nat \ {0}
    <3>1. Hgt(h, o) \in Nat
      BY <1>7, <2>1
    <3>2. Nil \notin {o, p, w}
      BY <1>1, <1>3, <1>4, <1>7
    <3>3. Hgt(k, Nil) = 1
      BY <1>4, <1>13, <2>1, <3>2
    <3>4. \A z \in M : Hgt(j, z) \in Nat \ {0}
      BY <1>4, <1>13, <2>1, <3>1
    <3> QED
      BY <1>3, <1>4, <1>13, <3>3, <3>4
  <2>4. \A z \in M \cup {Nil} : z \notin {p, w} => Hgt(k, z) = Hgt(j, z)
    BY <1>4, <1>13
  <2>5. Hgt(k, w) = Hgt(h, p) /\ Hgt(j, p) = Hgt(h, p) /\ Hgt(k, p) = Hgt(h, temp) + 1
        /\ Hgt(k, temp) = Hgt(h, temp) /\ Hgt(k, b) = Hgt(h, b) /\ Hgt(k, o) = Hgt(h, o) + 1
    BY <1>1, <1>3, <1>4, <1>7, <1>9, <1>13
  <2>6. Tint(u, p) = 1 /\ Tint(t, w) = 1 /\ Tint(u, w) = Tint(t, p)
    <3>1. Tint(u, w) = Tint(t, p)
      BY <1>3, <1>4 DEF Tint
    <3> QED
      BY <1>1, <1>3, <1>4, <3>1, TintIs
  <2>7. \A d \in Sides : Owed(p, d, Nil, "left") = 0 /\ Owed(w, d, Nil, "left") = 0
                         /\ Owed(w, d, p, side) = 0
    BY <1>1, <1>3, <1>4, OwedIs
  <2>8. Hgt(h, w) = Hgt(h, b) + 1 /\ Hgt(h, w) = Hgt(h, o) + 1 /\ Hgt(h, b) \in Nat
        /\ Hgt(h, o) \in Nat /\ Hgt(h, b) = Hgt(h, temp)
    <3>1. /\ Hgt(h, w) = Hgt(h, b) + Tint(t, w) + Owed(w, side, p, side)
          /\ Hgt(h, w) = Hgt(h, o) + Tint(t, w) + Owed(w, far, p, side)
      BY <1>1, <1>2, <1>3, <2>1 DEF Level, b
    <3>2. Hgt(h, b) \in Nat /\ Hgt(h, o) \in Nat
      BY <1>7, <2>1
    <3>3. Owed(w, side, p, side) = 0 /\ Owed(w, far, p, side) = 0
      BY <1>1, <1>2, <2>7
    <3> QED
      BY <1>3, <2>6, <3>1, <3>2, <3>3
  <2>9. Child(u, side, p) = temp /\ Child(u, Other(side), w) = o
    BY <1>1, <1>2, <1>3, <1>4, <1>6
  <2>10. Owed(w, Other(side), Nil, "left") = 0 /\ Owed(p, Other(side), Nil, "left") = 0
         /\ Owed(w, side, Nil, "left") = 0 /\ Owed(p, side, Nil, "left") = 0
    BY <1>1, <1>2, <2>7
  <2>11. Tint(t, p) \in Nat
    BY TintIs
  <2>12. Hgt(k, w) = Hgt(k, p) + Tint(u, w) + Owed(w, side, Nil, "left")
    BY <1>3, <2>5, <2>6, <2>10, <2>11
  <2>13. Hgt(k, w) = Hgt(k, Child(u, Other(side), w)) + Tint(u, w) + Owed(w, Other(side), Nil, "left")
    <3>1. Hgt(k, Child(u, Other(side), w)) = Hgt(h, w)
      BY <2>5, <2>8, <2>9
    <3> QED
      BY <1>3, <2>5, <2>6, <2>10, <2>11, <3>1
  <2>14. Hgt(k, p) = Hgt(k, b) + Tint(u, p) + Owed(p, Other(side), Nil, "left")
    BY <2>5, <2>6, <2>8, <2>10
  <2>15. Hgt(k, p) = Hgt(k, Child(u, side, p)) + Tint(u, p) + Owed(p, side, Nil, "left")
    <3>1. Hgt(k, Child(u, side, p)) = Hgt(h, temp)
      BY <2>5, <2>9
    <3> QED
      BY <1>3, <2>5, <2>6, <2>10, <3>1
  <2>16. Hgt(k, Nil) = 1 /\ Hgt(k, w) = Hgt(j, p)
    BY <2>3, <2>5
  <2> QED
    BY <1>6, <1>8, <2>2, <2>3, <2>4, <2>12, <2>13, <2>14, <2>15, <2>16, TurnHeights
<1>15. ASSUME NEW x \in M, NEW d \in Sides, RedPair(v, x, d)
       PROVE  FALSE
  <2>1. x \in Cells /\ Child(t, d, x) \in Cells /\ (Child(t, d, x) # Nil => Parent(t, Child(t, d, x)) = x)
    BY <1>4, <1>5
  <2>2. ~ Red(v, p) /\ ~ Red(v, o)
    BY <1>1, <1>3, <1>4, <1>7, <1>9, <1>12
  <2>3. Red(v, x) /\ Red(v, Child(v, d, x)) /\ x # p /\ x # o
    BY <1>15, <2>2 DEF RedPair
  <2>4. CASE x = w
    <3>1. o # p
      BY <1>9
    <3>2. Child(v, d, w) = IF d = side THEN p ELSE o
      BY <1>1, <1>2, <1>3, <1>4, <1>12, <3>1
    <3> QED
      BY <2>2, <2>3, <2>4, <3>2
  <2>5. CASE x # w /\ Child(t, d, x) = p
    <3>1. Child(v, d, x) = w
      BY <1>4, <1>12, <2>1, <2>3, <2>5
    <3>2. Red(t, p) /\ Red(t, x)
      BY <1>3, <1>4, <1>12, <2>1, <2>3, <2>5, <3>1
    <3> QED
      BY <1>1, <2>3, <2>5, <3>2 DEF RedPair
  <2>6. CASE x # w /\ Child(t, d, x) # p
    <3>1. Child(v, d, x) = Child(t, d, x)
      BY <1>12, <2>1, <2>3, <2>6
    <3>2. Child(t, d, x) # w
      BY <1>3, <1>4, <2>1, <2>3
    <3>3. Red(t, x) /\ Red(t, Child(t, d, x))
      BY <1>12, <2>1, <2>3, <2>6, <3>1, <3>2
    <3> QED
      BY <1>1, <2>3, <3>3 DEF RedPair
  <2> QED
    BY <2>4, <2>5, <2>6
<1>16. ~ Red(v, Nil) /\ ~ Red(v, Root(v))
  <2>1. Root(t) # w
    BY <1>1, <1>3, <1>4 DEF Kin
  <2> QED
    BY <1>1, <1>3, <1>4, <1>12, <2>1
<1>17. Root(v) \in M /\ Parent(v, Root(v)) = Nil
  BY <1>1, <1>4, <1>10 DEF Kin
<1> QED
  BY <1>14, <1>15, <1>16, <1>17 DEF Sunk

\* The loop has come to its end.
Ended(t, temp) == temp = Root(t) \/ Red(t, temp)

\* Somewhere above temp a node may be missing.
Sinking(t, M, temp) == \E k, q, s : Sunk(t, M, k, temp, q, s)

\* What the steps below come to: the end of the loop, or a painted tree and p.
Sinks(t, M, c, p) ==
  /\ Sinking(c.tree, M, c.node)
  /\ \/ Ended(c.tree, c.node)
     \/ Recoloured(t, c.tree) /\ c.node = p /\ (Red(t, p) => Red(c.tree, p))

LEMMA SettleSinks ==
  ASSUME NEW t, NEW M, NEW g, NEW h, NEW temp, NEW p, NEW side, NEW w, NEW o, NEW c,
         Kin(t, M), Placed(t, M, g), Ready(t, M, h, temp, p, side, w, o),
         c = Settle(t, side, temp)
  PROVE  Sinking(c.tree, M, c.node) /\ Ended(c.tree, c.node)
<1> DEFINE col == t.color[p]
           t1 == Paint(t, w, col)
           t2 == Paint(t1, p, "black")
           u == Paint(t2, o, "black")
           v == Rotate(u, side, p)
<1>1. p \in M /\ side \in Sides /\ p = Parent(t, temp) /\ w = Child(t, Other(side), p)
      /\ o = Child(t, Other(side), w) /\ temp = Child(t, side, p) /\ Heights(t, M, h, p, side)
      /\ Red(t, o) /\ ~ Red(t, Nil)
  BY DEF Ready
<1>2. w \in M /\ w # p
  BY <1>1, ActiveIs
<1>3. M \subseteq Cells /\ t \in Trees /\ o \in M /\ Nil \notin M
  BY <1>1, <1>2, KinCells, OtherSide DEF Kin
<1>4. col \in {"red", "black"} /\ (col = "red" <=> Red(t, p))
  BY <1>1, <1>3 DEF Red, Trees
<1>5. c = At(v, Root(v))
  BY <1>1 DEF Settle, Root
<1> HIDE DEF col, t1, t2, u, v
<1>6. Recoloured(t, t1) /\ \A z \in Cells : Red(t1, z) <=> IF z = w THEN col = "red" ELSE Red(t, z)
  BY <1>2, <1>3, <1>4, PaintColours DEF t1
<1>7. Recoloured(t1, t2) /\ \A z \in Cells : Red(t2, z) <=> IF z = p THEN FALSE ELSE Red(t1, z)
  BY <1>1, <1>3, <1>6, PaintColours DEF t2, Recoloured
<1>8. Recoloured(t2, u) /\ \A z \in Cells : Red(u, z) <=> IF z = o THEN FALSE ELSE Red(t2, z)
  BY <1>3, <1>7, PaintColours DEF u, Recoloured
<1>9. Recoloured(t, u)
  BY <1>6, <1>7, <1>8, RecolouredTrans
<1>10. o # w
  BY <1>1, <1>2, OtherSide, Around
<1>11. \A z \in Cells : Red(u, z) <=> IF z = w THEN Red(t, p) ELSE z # p /\ z # o /\ Red(t, z)
  BY <1>2, <1>4, <1>6, <1>7, <1>8, <1>10
<1>12. \E k : Sunk(v, M, k, Root(v), Nil, "left")
  BY <1>9, <1>11, Settles DEF v
<1>13. c.tree = v /\ c.node = Root(v)
  BY <1>5, AtIs
<1> QED
  BY <1>12, <1>13 DEF Ended, Sinking

LEMMA MendSinks ==
  ASSUME NEW t, NEW M, NEW g, NEW h, NEW temp, NEW p, NEW side, NEW w, NEW c,
         Kin(t, M), Placed(t, M, g), Active(t, M, h, temp, p, side),
         w = Child(t, Other(side), p), ~ Red(t, w), c = Mend(t, side, temp)
  PROVE  Sinks(t, M, c, p)
<1> DEFINE far == Other(side)
           n == Child(t, side, w)
           o == Child(t, far, w)
           u == BringUp(t, side, w)
<1>1. /\ p \in M /\ side \in Sides /\ temp = Child(t, side, p) /\ p = Parent(t, temp)
      /\ ~ Red(t, temp) /\ ~ Red(t, Nil) /\ ~ Red(t, Root(t))
      /\ \A x \in M, d \in Sides : ~ RedPair(t, x, d)
      /\ Heights(t, M, h, p, side)
  BY DEF Active
<1>2. far \in Sides /\ far # side /\ \A d \in Sides : d = side \/ d = far
  BY <1>1, OtherSide
<1>3. w \in M /\ w # p
  BY <1>1, ActiveIs
<1>4. M \subseteq Cells /\ t \in Trees /\ n \in M \cup {Nil} /\ o \in M \cup {Nil}
  BY <1>1, <1>2, <1>3, KinCells DEF Kin
<1>5. (\A child \in {t.left[w], t.right[w]} : ~ Red(t, child)) <=> ~ Red(t, n) /\ ~ Red(t, o)
  BY <1>1 DEF Child, Sides, Other
<1>6. c = IF ~ Red(t, n) /\ ~ Red(t, o) THEN At(Paint(t, w, "red"), p)
          ELSE Settle(IF Red(t, n) THEN u ELSE t, side, temp)
  BY <1>1, <1>5 DEF Mend
<1>7. CASE ~ Red(t, n) /\ ~ Red(t, o)
  <2> DEFINE v == Paint(t, w, "red")
  <2>1. c.tree = v /\ c.node = p
    BY <1>6, <1>7, AtIs
  <2>2. \A d \in Sides : ~ Red(t, Child(t, d, w))
    BY <1>2, <1>7
  <2> HIDE DEF v, far, n, o, u
  <2>3. /\ \E k, q, s : Sunk(v, M, k, p, q, s)
        /\ Recoloured(t, v) /\ (Red(t, p) => Red(v, p))
    BY <1>7, <2>2, SinkClimbs DEF v
  <2> QED
    BY <2>1, <2>3 DEF Sinks, Sinking
<1>8. CASE Red(t, n)
  <2>1. c = Settle(u, side, temp)
    BY <1>6, <1>8
  <2> DEFINE t1 == Paint(t, w, "red")
             t2 == Paint(t1, n, "black")
  <2>2. u = Rotate(t2, far, w)
    BY DEF BringUp
  <2>3. n \in M /\ Nil \notin M
    BY <1>1, <1>4, <1>8, KinCells
  <2>4. n # w
    BY <1>1, <1>3, Around
  <2>5. Shaped(t, M)
    BY DEF Shaped
  <2>6. Shaped(u, M)
    BY <1>1, <1>3, <2>5, BringUpShaped DEF Rebuilt
  <2>7. far = Other(side) /\ w = Child(t, far, p) /\ n = Child(t, side, w)
    OBVIOUS
  <2> HIDE DEF far, n, o, u, t1, t2
  <2>8. Recoloured(t, t1) /\ \A z \in Cells : Red(t1, z) <=> IF z = w THEN TRUE ELSE Red(t, z)
    BY <1>3, <1>4, PaintColours DEF t1
  <2>9. Recoloured(t1, t2) /\ \A z \in Cells : Red(t2, z) <=> IF z = n THEN FALSE ELSE Red(t1, z)
    BY <1>4, <2>3, <2>8, PaintColours DEF t2, Recoloured
  <2>10. Recoloured(t, t2) /\ \A z \in Cells : Red(t2, z) <=> IF z = w THEN TRUE ELSE z # n /\ Red(t, z)
    BY <2>4, <2>8, <2>9, RecolouredTrans
  <2>11. \E k : Ready(u, M, k, temp, p, side, n, w)
    BY <1>8, <2>2, <2>7, <2>10, NearUp
  <2>12. PICK k : Ready(u, M, k, temp, p, side, n, w)
    BY <2>11
  <2>13. PICK f : Placed(u, M, f)
    BY <2>6 DEF Shaped
  <2>14. Kin(u, M)
    BY <2>6 DEF Shaped
  <2>15. Sinking(c.tree, M, c.node) /\ Ended(c.tree, c.node)
    BY <2>1, <2>12, <2>13, <2>14, SettleSinks
  <2> QED
    BY <2>15 DEF Sinks
<1>9. CASE ~ Red(t, n) /\ Red(t, o)
  <2>1. c = Settle(t, side, temp)
    BY <1>6, <1>9
  <2>2. Ready(t, M, h, temp, p, side, w, o)
    BY <1>1, <1>9 DEF Ready
  <2> HIDE DEF far, n, o, u
  <2>3. Sinking(c.tree, M, c.node) /\ Ended(c.tree, c.node)
    BY <2>1, <2>2, SettleSinks
  <2> QED
    BY <2>3 DEF Sinks
<1> QED
  BY <1>7, <1>8, <1>9

\* A round that does not end the loop only paints, and goes up.
SinksTo(t, M, g, temp, c) ==
  /\ Sinking(c.tree, M, c.node)
  /\ Ended(c.tree, c.node) \/ (Placed(c.tree, M, g) /\ Size(g, M, temp) < Size(g, M, c.node))

LEMMA SunkRound ==
  ASSUME NEW t, NEW M, NEW g, NEW h, NEW temp, NEW p0, NEW s0, NEW c,
         Kin(t, M), Placed(t, M, g), Sunk(t, M, h, temp, p0, s0), ~ Ended(t, temp),
         c = DeleteRound(t, temp)
  PROVE  SinksTo(t, M, g, temp, c)
<1> DEFINE p == Parent(t, temp)
           side == SideOf(t, p, temp)
           far == Other(side)
           w == Child(t, far, p)
           t1 == Paint(t, w, "black")
           t2 == Paint(t1, p, "red")
           u == Rotate(t2, side, p)
<1>1. temp # Root(t) /\ ~ Red(t, temp)
  BY DEF Ended
<1>2. c = Mend(IF Red(t, w) THEN u ELSE t, side, temp)
  BY <1>1 DEF DeleteRound, Root
<1>3. p = p0 /\ side = s0 /\ Active(t, M, h, temp, p0, s0)
  BY <1>1, SunkActive
<1> HIDE DEF p, side, far, w, t1, t2, u
<1>4. Active(t, M, h, temp, p, side)
  BY <1>3
<1>6. p \in M /\ side \in Sides /\ temp = Child(t, side, p) /\ Heights(t, M, h, p, side)
  BY <1>4 DEF Active
<1>7. w \in M /\ w # p /\ temp \in M \cup {Nil}
  BY <1>6, ActiveIs DEF far, w
<1>8. M \subseteq Cells /\ t \in Trees
  BY KinCells DEF Kin
<1>9. CASE Red(t, w)
  <2>1. Recoloured(t, t1) /\ \A z \in Cells : Red(t1, z) <=> IF z = w THEN FALSE ELSE Red(t, z)
    BY <1>7, <1>8, PaintColours DEF t1
  <2>2. Recoloured(t1, t2) /\ \A z \in Cells : Red(t2, z) <=> IF z = p THEN TRUE ELSE Red(t1, z)
    BY <1>6, <1>8, <2>1, PaintColours DEF t2, Recoloured
  <2>3. Recoloured(t, t2) /\ \A z \in Cells : Red(t2, z) <=> IF z = p THEN TRUE ELSE z # w /\ Red(t, z)
    BY <2>1, <2>2, RecolouredTrans
  <2>4. far = Other(side) /\ w = Child(t, far, p) /\ u = Rotate(t2, side, p)
    BY DEF far, w, u
  <2>5. /\ \E k : Active(u, M, k, temp, p, side)
        /\ Red(u, p) /\ ~ Red(u, Child(u, far, p))
    BY <1>4, <1>9, <2>3, <2>4, SiblingUp
  <2>6. Kin(t2, M) /\ Placed(t2, M, g)
    BY <2>3, RecolouredPlaced
  <2>7. Shaped(u, M)
    <3>1. Shaped(t2, M)
      BY <2>6 DEF Shaped
    <3> QED
      BY <1>6, <2>4, <3>1, RotateShaped DEF Rebuilt
  <2>8. PICK f : Placed(u, M, f)
    BY <2>7 DEF Shaped
  <2>9. Kin(u, M) /\ c = Mend(u, side, temp)
    BY <1>2, <1>9, <2>7 DEF Shaped
  <2>10. Sinks(u, M, c, p)
    BY <2>4, <2>5, <2>8, <2>9, MendSinks
  <2> QED
    <3>1. Sinking(c.tree, M, c.node)
      BY <2>10 DEF Sinks
    <3>2. Ended(c.tree, c.node) \/ (c.node = p /\ Red(c.tree, p))
      BY <2>5, <2>10 DEF Sinks
    <3>3. Ended(c.tree, c.node)
      BY <3>2 DEF Ended
    <3> QED
      BY <3>1, <3>3 DEF SinksTo
<1>10. CASE ~ Red(t, w)
  <2>1. c = Mend(t, side, temp)
    BY <1>2, <1>10
  <2>2. w = Child(t, Other(side), p)
    BY DEF far, w
  <2>3. Sinks(t, M, c, p)
    BY <1>4, <1>10, <2>1, <2>2, MendSinks
  <2>4. Size(g, M, temp) < Size(g, M, p)
    BY <1>6, <1>8, KinCells, SizeIs
  <2>5. Recoloured(t, c.tree) => Placed(c.tree, M, g)
    BY RecolouredPlaced
  <2> QED
    <3>1. Sinking(c.tree, M, c.node)
      BY <2>3 DEF Sinks
    <3>2. Ended(c.tree, c.node) \/ (Recoloured(t, c.tree) /\ c.node = p)
      BY <2>3 DEF Sinks
    <3>3. Ended(c.tree, c.node) \/ (Placed(c.tree, M, g) /\ Size(g, M, temp) < Size(g, M, c.node))
      BY <2>4, <2>5, <3>2
    <3> QED
      BY <3>1, <3>3 DEF SinksTo
<1> QED
  BY <1>9, <1>10

\* The loop of rbtree_delete.
LEMMA DeleteFixupColoured ==
  ASSUME NEW t, NEW M, NEW temp, NEW h, NEW p, NEW s, NEW u,
         Shaped(t, M), Sunk(t, M, h, temp, p, s), u = DeleteFixup(t, temp)
  PROVE  Coloured(u, M)
<1>1. PICK g : Placed(t, M, g)
  BY DEF Shaped
<1>2. Kin(t, M) /\ temp \in M \cup {Nil} /\ t \in Trees /\ temp \in Pointers
  BY KinCells DEF Shaped, Sunk, Kin
<1> DEFINE round == [c \in Cursors |-> DeleteRound(c.tree, c.node)]
           Done == {c \in Cursors : Ended(c.tree, c.node)}
           Good(c) == /\ Shaped(c.tree, M) /\ c.node \in M \cup {Nil}
                      /\ Sinking(c.tree, M, c.node)
                      /\ Ended(c.tree, c.node) \/ Placed(c.tree, M, g)
           S == {c \in Cursors : Good(c)}
<1>3. At(t, temp) \in S
  <2>1. At(t, temp) \in Cursors
    BY <1>2 DEF At, Cursors
  <2> QED
    BY <1>1, <1>2, <2>1, AtIs DEF Sinking
<1>4. \A c \in S : c \in Done => round[c] = c
  <2> SUFFICES ASSUME NEW c \in Cursors, Ended(c.tree, c.node) PROVE round[c] = c
    OBVIOUS
  <2>1. round[c] = At(c.tree, c.node)
    BY DEF DeleteRound, Ended, Root
  <2> QED
    BY <2>1 DEF At, Cursors
<1>5. ASSUME NEW c \in S, c \notin Done
      PROVE  /\ round[c] \in S
             /\ round[c] \in Done \/ Size(g, M, c.node) < Size(g, M, round[c].node)
  <2> DEFINE v == c.tree
             y == c.node
             e == round[c]
  <2>1. /\ c \in Cursors /\ Shaped(v, M) /\ y \in M \cup {Nil} /\ ~ Ended(v, y) /\ Placed(v, M, g)
        /\ Sinking(v, M, y)
    BY <1>5
  <2>2. e = DeleteRound(v, y)
    BY <2>1
  <2> HIDE DEF v, y, e
  <2>3. Kin(v, M)
    BY <2>1 DEF Shaped
  <2>4. SinksTo(v, M, g, y, e)
    BY <2>1, <2>2, <2>3, SunkRound DEF Sinking
  <2>5. Keeps(v, e, M)
    BY <2>1, <2>2, DeleteRoundShaped
  <2>6. Shaped(e.tree, M) /\ e \in Cursors /\ e.node \in M \cup {Nil}
    <3>1. e.tree \in Trees /\ e.node \in Pointers /\ e = At(e.tree, e.node) /\ Shaped(e.tree, M)
          /\ e.node \in M \cup {Nil}
      BY <2>5, KinCells DEF Keeps, Rebuilt, Shaped, Kin
    <3>2. At(e.tree, e.node) \in Cursors
      BY <3>1 DEF At, Cursors
    <3> QED
      BY <3>1, <3>2
  <2>7. Good(e) /\ (Ended(e.tree, e.node) \/ Size(g, M, y) < Size(g, M, e.node))
    BY <2>4, <2>6 DEF SinksTo
  <2>8. e \in S /\ (e \in Done \/ Size(g, M, y) < Size(g, M, e.node))
    BY <2>6, <2>7
  <2> QED
    BY <2>8 DEF e, y
<1>6. \A c \in S : c.node \in M \cup {Nil}
  OBVIOUS
<1> DEFINE end == Repeat(round, At(t, temp))
<1>7. end \in S \cap Done
  <2> HIDE DEF S, Done, round
  <2> QED
    BY <1>1, <1>2, <1>3, <1>4, <1>5, <1>6, ClimbEnds
<1>8. u = Paint(end.tree, end.node, "black")
  BY DEF DeleteFixup
<1>9. /\ Shaped(end.tree, M) /\ Ended(end.tree, end.node)
      /\ Sinking(end.tree, M, end.node)
  BY <1>7
<1> HIDE DEF end
<1>10. PICK f : Placed(end.tree, M, f)
  BY <1>9 DEF Shaped
<1>11. Kin(end.tree, M)
  BY <1>9 DEF Shaped
<1> QED
  BY <1>8, <1>9, <1>10, <1>11, SunkPainted DEF Ended, Sinking

\* What is left of a member that is taken out, when the colours stay.
LEMMA SkipSinks ==
  ASSUME NEW t, NEW u, NEW M, NEW g, NEW x, NEW e, NEW temp,
         Kin(t, M), Placed(t, M, g), Skip(t, u, M, x, e), Coloured(t, M), x # Root(t),
         temp = Child(t, e, x), \A z \in Cells : Red(u, z) <=> Red(t, z),
         Parent(u, temp) = Parent(t, x)
  PROVE  IF Red(t, x) THEN Coloured(u, Others(M, x)) ELSE Sinking(u, Others(M, x), temp)
<1> DEFINE N == Others(M, x)
           q == Parent(t, x)
           s == SideOf(t, q, x)
<1>1. /\ x \in M /\ e \in Sides /\ Child(t, Other(e), x) = Nil
      /\ Root(u) = Root(t)
      /\ \A z \in Cells, d \in Sides :
           Child(u, d, z) = IF z = x THEN Null
                            ELSE IF Child(t, d, z) = x THEN temp ELSE Child(t, d, z)
  BY DEF Skip
<1>2. M \subseteq Cells /\ Nil \notin M /\ Nil \in Cells /\ t \in Trees /\ Root(t) \in Cells
  BY KinCells DEF Kin
<1>3. \A z \in M : \A d \in Sides : /\ Child(t, d, z) \in M \cup {Nil}
                                    /\ (Child(t, d, z) # Nil => Parent(t, Child(t, d, z)) = z)
  BY DEF Kin
<1>4. /\ q \in M /\ s \in Sides
      /\ \A z \in Cells, d \in Sides : Child(t, d, z) = x <=> z = q /\ d = s
  BY <1>1, SlotIs
<1>5. q # x /\ temp # x /\ temp \in M \cup {Nil}
  BY <1>1, <1>3, Around
<1>6. N = M \ {x}
  BY DEF Others
<1>7. \A z \in N : /\ z \in M /\ z \in Cells /\ z # x
                   /\ \A d \in Sides : Child(u, d, z) = IF z = q /\ d = s THEN temp ELSE Child(t, d, z)
  BY <1>1, <1>2, <1>4, <1>6
<1>8. PICK h : Heights(t, M, h, Nil, "left")
  BY DEF Coloured
<1>9. /\ ~ Red(t, Nil) /\ ~ Red(t, Root(t)) /\ \A z \in M, d \in Sides : ~ RedPair(t, z, d)
  BY DEF Coloured
<1> HIDE DEF N, q, s
<1>10. ASSUME NEW p, NEW r, IF Red(t, x) THEN p = Nil ELSE p = q /\ r = s
       PROVE  Heights(u, N, h, p, r)
  <2>1. Hgt(h, Nil) = 1 /\ \A z \in M : Hgt(h, z) \in Nat \ {0}
    BY <1>8 DEF Heights
  <2>2. \A z \in M, d \in Sides : Hgt(h, z) = Hgt(h, Child(t, d, z)) + Tint(t, z)
    <3> TAKE z \in M, d \in Sides
    <3>1. Hgt(h, z) = Hgt(h, Child(t, d, z)) + Tint(t, z) + Owed(z, d, Nil, "left")
      BY <1>8 DEF Heights, Level
    <3>2. Owed(z, d, Nil, "left") = 0
      BY <1>2, OwedIs
    <3>3. Hgt(h, Child(t, d, z)) \in Nat /\ Tint(t, z) \in Nat
      BY <1>3, <2>1, TintIs
    <3> QED
      BY <3>1, <3>2, <3>3
  <2>3. Hgt(h, x) = Hgt(h, temp) + Tint(t, x) /\ Hgt(h, temp) \in Nat
    BY <1>1, <1>5, <2>1, <2>2
  <2>4. ASSUME NEW z \in N, NEW d \in Sides
        PROVE  Level(u, h, z, d, p, r)
    <3>1. Tint(u, z) = Tint(t, z) /\ z \in M /\ Tint(t, z) \in Nat
      BY <1>7, TintIs DEF Tint
    <3>2. Hgt(h, z) = Hgt(h, Child(t, d, z)) + Tint(t, z) /\ Hgt(h, Child(t, d, z)) \in Nat
      BY <1>3, <2>1, <2>2, <3>1
    <3>3. CASE z = q /\ d = s
      <4>1. Child(u, d, z) = temp /\ Child(t, d, z) = x
        BY <1>4, <1>7, <3>1, <3>3, KinCells
      <4>2. Owed(z, d, p, r) = Tint(t, x)
        BY <1>2, <1>10, <3>1, <3>3, OwedIs, TintIs
      <4>3. Hgt(h, z) = Hgt(h, temp) + Tint(t, x) + Tint(t, z) /\ Tint(t, x) \in Nat
        BY <1>1, <1>2, <2>3, <3>1, <3>2, <4>1, TintIs
      <4>4. Hgt(h, z) = Hgt(h, temp) + Tint(t, z) + Tint(t, x)
        BY <2>3, <3>1, <4>3
      <4> QED
        BY <3>1, <4>1, <4>2, <4>4 DEF Level
    <3>4. CASE ~ (z = q /\ d = s)
      <4>1. Child(u, d, z) = Child(t, d, z)
        BY <1>7, <3>4
      <4>2. Owed(z, d, p, r) = 0
        BY <1>2, <1>10, <3>1, <3>4, OwedIs
      <4> QED
        BY <3>1, <3>2, <4>1, <4>2 DEF Level
    <3> QED
      BY <3>3, <3>4
  <2> QED
    BY <1>7, <2>1, <2>4 DEF Heights
<1>11. ASSUME NEW z \in N, NEW d \in Sides, RedPair(u, z, d)
       PROVE  ~ Red(t, x) /\ Child(u, d, z) = temp
  <2>1. z \in M /\ z \in Cells /\ Red(t, z) /\ Child(t, d, z) \in Cells
    BY <1>2, <1>3, <1>7, <1>11 DEF RedPair
  <2>2. CASE z = q /\ d = s
    <3>1. Child(t, d, z) = x /\ Child(u, d, z) = temp
      BY <1>4, <1>7, <2>1, <2>2
    <3> QED
      BY <1>9, <2>1, <3>1 DEF RedPair
  <2>3. CASE ~ (z = q /\ d = s)
    <3>1. Child(u, d, z) = Child(t, d, z)
      BY <1>7, <2>3
    <3>2. RedPair(t, z, d)
      BY <1>11, <2>1, <3>1 DEF RedPair
    <3> QED
      BY <1>9, <2>1, <3>2
  <2> QED
    BY <2>2, <2>3
<1>12. ~ Red(u, Nil) /\ ~ Red(u, Root(u))
  BY <1>1, <1>2, <1>9
<1>13. CASE Red(t, x)
  <2>1. Heights(u, N, h, Nil, "left")
    BY <1>10, <1>13
  <2>2. Coloured(u, N)
    BY <1>11, <1>12, <1>13, <2>1 DEF Coloured
  <2> QED
    BY <1>13, <2>2 DEF N
<1>14. CASE ~ Red(t, x)
  <2>1. Heights(u, N, h, q, s)
    BY <1>10, <1>14
  <2>2. q \in N /\ Child(u, s, q) = temp /\ q # Nil /\ temp \in N \cup {Nil}
    BY <1>2, <1>4, <1>5, <1>6, <1>7
  <2>3. q = Parent(u, temp)
    BY DEF q
  <2>4. Sunk(u, N, h, temp, q, s)
    BY <1>4, <1>11, <1>12, <2>1, <2>2, <2>3 DEF Sunk
  <2>5. Sinking(u, N, temp)
    BY <2>4 DEF Sinking
  <2> QED
    BY <1>14, <2>5 DEF N
<1> QED
  BY <1>13, <1>14

\* A root that is taken out leaves a black root.
LEMMA RootColoured ==
  ASSUME NEW t, NEW u, NEW M, NEW g, NEW x, NEW e, NEW temp,
         Kin(t, M), Placed(t, M, g), Skip(t, u, M, x, e), Coloured(t, M), x = Root(t),
         temp = Child(t, e, x), \A z \in Cells : Red(u, z) <=> z # temp /\ Red(t, z)
  PROVE  Coloured(u, Others(M, x))
<1> DEFINE N == Others(M, x)
<1>1. /\ x \in M /\ e \in Sides /\ Root(u) = temp
      /\ \A z \in Cells, d \in Sides :
           Child(u, d, z) = IF z = x THEN Null
                            ELSE IF Child(t, d, z) = x THEN temp ELSE Child(t, d, z)
  BY DEF Skip
<1>2. M \subseteq Cells /\ Nil \notin M /\ Nil \in Cells /\ t \in Trees
  BY KinCells DEF Kin
<1>3. \A z \in M : \A d \in Sides : /\ Child(t, d, z) \in M \cup {Nil}
                                    /\ (Child(t, d, z) # Nil => Parent(t, Child(t, d, z)) = z)
  BY DEF Kin
<1>4. \A z \in Cells, d \in Sides : Child(t, d, z) # x
  <2>1. Root(t) \in M
    BY <1>1
  <2>2. \A z \in Cells, d \in Sides : Child(t, d, z) # Root(t)
    BY <2>1, SlotIs
  <2> QED
    BY <2>2
<1>5. temp \in M \cup {Nil} /\ temp \in Cells
  BY <1>1, <1>2, <1>3
<1>6. \A z \in N : /\ z \in M /\ z \in Cells /\ z # x
                   /\ \A d \in Sides : Child(u, d, z) = Child(t, d, z)
  BY <1>1, <1>2, <1>4 DEF Others
<1>7. PICK h : Heights(t, M, h, Nil, "left")
  BY DEF Coloured
<1>8. /\ ~ Red(t, Nil) /\ \A z \in M, d \in Sides : ~ RedPair(t, z, d)
  BY DEF Coloured
<1> DEFINE k == IF Red(t, temp) THEN With(h, temp, Hgt(h, temp) + 1) ELSE h
<1>9. \A z \in Cells : Hgt(k, z) = IF Red(t, temp) /\ z = temp THEN Hgt(h, z) + 1 ELSE Hgt(h, z)
  BY WithIs
<1> HIDE DEF N, k
<1>10. Heights(u, N, k, Nil, "left")
  <2>1. Hgt(h, Nil) = 1 /\ \A z \in M : Hgt(h, z) \in Nat \ {0}
    BY <1>7 DEF Heights
  <2>2. Hgt(k, Nil) = 1 /\ \A z \in N : Hgt(k, z) \in Nat \ {0}
    BY <1>2, <1>6, <1>8, <1>9, <2>1
  <2>3. ASSUME NEW z \in N, NEW d \in Sides
        PROVE  Level(u, k, z, d, Nil, "left")
    <3> DEFINE c == Child(t, d, z)
    <3>1. Hgt(h, z) = Hgt(h, c) + Tint(t, z) + Owed(z, d, Nil, "left")
      BY <1>6, <1>7 DEF Heights, Level
    <3>2. c \in M \cup {Nil} /\ Child(u, d, z) = c /\ z \in Cells /\ c \in Cells /\ z \in M
      BY <1>2, <1>3, <1>6
    <3>3. c = temp => ~ Red(t, temp)
      BY <1>1, <1>3, <1>6, <1>8
    <3> HIDE DEF c
    <3>4. Owed(z, d, Nil, "left") = 0 /\ Hgt(k, c) = Hgt(h, c) /\ Hgt(h, c) \in Nat
      BY <1>2, <1>9, <2>1, <3>2, <3>3, OwedIs
    <3>5. CASE z = temp /\ Red(t, temp)
      <4>1. Tint(t, z) = 0 /\ Tint(u, z) = 1 /\ Hgt(k, z) = Hgt(h, z) + 1 /\ Hgt(h, z) \in Nat
        BY <1>9, <2>1, <3>2, <3>5, TintIs
      <4> QED
        BY <3>1, <3>2, <3>4, <4>1 DEF Level
    <3>6. CASE ~ (z = temp /\ Red(t, temp))
      <4>1. Tint(t, z) = Tint(u, z) /\ Hgt(k, z) = Hgt(h, z)
        BY <1>9, <3>2, <3>6 DEF Tint
      <4> QED
        BY <3>1, <3>2, <3>4, <4>1 DEF Level
    <3> QED
      BY <3>5, <3>6
  <2> QED
    BY <2>2, <2>3 DEF Heights
<1>11. \A z \in N, d \in Sides : ~ RedPair(u, z, d)
  <2> TAKE z \in N, d \in Sides
  <2>1. z \in M /\ z \in Cells /\ Child(u, d, z) = Child(t, d, z) /\ Child(t, d, z) \in Cells
    BY <1>2, <1>3, <1>6
  <2> QED
    BY <1>8, <2>1 DEF RedPair
<1>12. ~ Red(u, Nil) /\ ~ Red(u, Root(u))
  BY <1>1, <1>2, <1>5, <1>8
<1> QED
  BY <1>10, <1>11, <1>12 DEF Coloured, N

LEMMA RenamedHeights ==
  ASSUME NEW t, NEW u, NEW M, NEW N, NEW h, NEW p, NEW s, NEW node, NEW subst,
         Kin(t, M), Renamed(t, u, M, node, subst), SameColours(t, u, node, subst),
         N = (M \ {node}) \cup {subst}, Heights(t, M, h, p, s), p \in M \cup {Nil}
  PROVE  \E k : Heights(u, N, k, As(node, subst, p), s)
<1> DEFINE k == With(h, subst, Hgt(h, node))
           back(z) == As(subst, node, z)
           to(z) == As(node, subst, z)
<1>1. /\ \A z \in N : /\ back(z) \in M /\ to(back(z)) = z
                      /\ \A d \in Sides : Child(u, d, z) = to(Child(t, d, back(z)))
      /\ \A y \in M : to(y) \in N /\ back(to(y)) = y
      /\ to(Nil) = Nil /\ Nil \notin N /\ Nil \notin M
  BY RenamedIs
<1>2. N \subseteq Cells /\ M \subseteq Cells /\ Nil \in Cells
  BY RenamedKin, KinCells
<1>3. \A z \in Cells : Hgt(k, z) = Hgt(h, back(z))
  BY WithIs DEF As
<1>4. back(Nil) = Nil
  <2>1. subst # Nil
    BY <1>1
  <2> QED
    BY <2>1 DEF As
<1>5. \A z \in N : Tint(u, z) = Tint(t, back(z))
  BY <1>2 DEF SameColours, Tint
<1> HIDE DEF k, back, to
<1>6. Hgt(h, Nil) = 1 /\ \A z \in M : Hgt(h, z) \in Nat \ {0} /\ \A d \in Sides : Level(t, h, z, d, p, s)
  BY DEF Heights
<1>7. Hgt(k, Nil) = 1 /\ \A z \in N : Hgt(k, z) \in Nat \ {0}
  BY <1>1, <1>2, <1>3, <1>4, <1>6
<1>8. ASSUME NEW z \in N, NEW d \in Sides PROVE Level(u, k, z, d, to(p), s)
  <2> DEFINE y == back(z)
             c == Child(t, d, y)
  <2>1. y \in M /\ Child(u, d, z) = to(c) /\ c \in M \cup {Nil}
    BY <1>1 DEF Kin
  <2>2. Hgt(h, y) = Hgt(h, c) + Tint(t, y) + Owed(y, d, p, s)
    BY <1>6, <2>1 DEF Level
  <2>3. back(to(c)) = c /\ to(c) \in Cells
    BY <1>1, <1>2, <1>4, <2>1
  <2>4. Hgt(k, to(c)) = Hgt(h, c) /\ Hgt(k, z) = Hgt(h, y)
    BY <1>2, <1>3, <2>3
  <2>5. Owed(z, d, to(p), s) = Owed(y, d, p, s)
    <3>1. z = to(p) <=> y = p
      BY <1>1, <1>4
    <3> QED
      BY <3>1 DEF Owed
  <2> QED
    BY <1>5, <2>1, <2>2, <2>4, <2>5 DEF Level
<1>9. Heights(u, N, k, to(p), s)
  BY <1>7, <1>8 DEF Heights
<1> QED
  BY <1>9 DEF to

ColoursTaken(t, u, M, N, node, subst) ==
  /\ ~ Red(t, Nil) => ~ Red(u, Nil)
  /\ Red(u, Root(u)) <=> Red(t, Root(t))
  /\ \A z \in N : As(subst, node, z) \in M
  /\ \A z \in N, d \in Sides : /\ RedPair(u, z, d) <=> RedPair(t, As(subst, node, z), d)
                               /\ Child(u, d, z) = As(node, subst, Child(t, d, As(subst, node, z)))

LEMMA RenamedColoured ==
  ASSUME NEW t, NEW u, NEW M, NEW N, NEW node, NEW subst,
         Kin(t, M), Renamed(t, u, M, node, subst), SameColours(t, u, node, subst),
         N = (M \ {node}) \cup {subst}
  PROVE  ColoursTaken(t, u, M, N, node, subst)
<1> DEFINE back(z) == As(subst, node, z)
           to(z) == As(node, subst, z)
<1>1. /\ \A z \in N : /\ back(z) \in M /\ to(back(z)) = z
                      /\ \A d \in Sides : Child(u, d, z) = to(Child(t, d, back(z)))
      /\ \A y \in M : to(y) \in N /\ back(to(y)) = y
      /\ to(Nil) = Nil /\ Nil \notin N /\ Nil \notin M
  BY RenamedIs
<1>2. N \subseteq Cells /\ M \subseteq Cells /\ Nil \in Cells
  BY RenamedKin, KinCells
<1>3. back(Nil) = Nil
  <2>1. subst # Nil
    BY <1>1
  <2> QED
    BY <2>1 DEF As
<1>4. \A z \in Cells : Red(u, z) <=> Red(t, back(z))
  BY DEF SameColours
<1>5. Root(u) = to(Root(t)) /\ Root(t) \in M \cup {Nil}
  BY DEF Renamed, Kin
<1>6. \A z \in M, d \in Sides : Child(t, d, z) \in M \cup {Nil}
  BY DEF Kin
<1> HIDE DEF back, to
<1>7. back(to(Root(t))) = Root(t) /\ to(Root(t)) \in Cells
  BY <1>1, <1>2, <1>3, <1>5
<1>8. \A z \in N, d \in Sides : RedPair(u, z, d) <=> RedPair(t, back(z), d)
  <2> TAKE z \in N, d \in Sides
  <2> DEFINE c == Child(t, d, back(z))
  <2>1. back(z) \in M /\ Child(u, d, z) = to(c) /\ c \in M \cup {Nil}
    BY <1>1, <1>6
  <2>2. back(to(c)) = c /\ to(c) \in Cells
    BY <1>1, <1>2, <1>3, <2>1
  <2> QED
    BY <1>2, <1>4, <2>1, <2>2 DEF RedPair
<1> QED
  BY <1>1, <1>2, <1>3, <1>4, <1>5, <1>7, <1>8 DEF back, to, ColoursTaken

LEMMA RenamedSinks ==
  ASSUME NEW t, NEW u, NEW M, NEW N, NEW node, NEW subst, NEW temp,
         Kin(t, M), Renamed(t, u, M, node, subst), SameColours(t, u, node, subst),
         N = (M \ {node}) \cup {subst}, temp # node, temp # subst,
         Parent(u, temp) = As(node, subst, Parent(t, temp))
  PROVE  /\ Coloured(t, M) => Coloured(u, N)
         /\ Sinking(t, M, temp) => Sinking(u, N, temp)
<1>1. /\ ~ Red(t, Nil) => ~ Red(u, Nil)
      /\ Red(u, Root(u)) <=> Red(t, Root(t))
      /\ \A z \in N : As(subst, node, z) \in M
      /\ \A z \in N, d \in Sides : /\ RedPair(u, z, d) <=> RedPair(t, As(subst, node, z), d)
                                   /\ Child(u, d, z) = As(node, subst, Child(t, d, As(subst, node, z)))
  <2>1. ColoursTaken(t, u, M, N, node, subst)
    BY RenamedColoured
  <2> QED
    BY <2>1 DEF ColoursTaken
<1>2. /\ \A y \in M : As(node, subst, y) \in N /\ As(subst, node, As(node, subst, y)) = y
      /\ As(node, subst, Nil) = Nil /\ Nil \notin N /\ Nil \notin M
  BY RenamedIs
<1>3. Root(u) = As(node, subst, Root(t))
  BY DEF Renamed
<1>4. ASSUME Coloured(t, M) PROVE Coloured(u, N)
  <2>1. PICK h : Heights(t, M, h, Nil, "left")
    BY <1>4 DEF Coloured
  <2>2. \E k : Heights(u, N, k, As(node, subst, Nil), "left")
    BY <2>1, RenamedHeights
  <2>3. \E k : Heights(u, N, k, Nil, "left")
    BY <1>2, <2>2
  <2>4. ~ Red(u, Nil) /\ ~ Red(u, Root(u)) /\ \A z \in N, d \in Sides : ~ RedPair(u, z, d)
    BY <1>1, <1>4 DEF Coloured
  <2> QED
    BY <2>3, <2>4 DEF Coloured
<1>5. ASSUME Sinking(t, M, temp) PROVE Sinking(u, N, temp)
  <2>1. PICK h, p, s : Sunk(t, M, h, temp, p, s)
    BY <1>5 DEF Sinking
  <2> DEFINE q == As(node, subst, p)
  <2>2. /\ temp \in M \cup {Nil} /\ ~ Red(t, Nil) /\ p = Parent(t, temp)
        /\ p = Nil => temp = Root(t)
        /\ p # Nil => p \in M /\ s \in Sides /\ Child(t, s, p) = temp
        /\ Heights(t, M, h, p, s)
        /\ \A x \in M, d \in Sides : RedPair(t, x, d) => temp \in {x, Child(t, d, x)}
        /\ Red(t, Root(t)) => Root(t) = temp
    BY <2>1 DEF Sunk
  <2>3. \A y : y # node => As(node, subst, y) = y
    BY DEF As
  <2>4. As(node, subst, temp) = temp
    BY DEF As
  <2>5. p \in M \cup {Nil}
    BY <2>2
  <2>6. \E k : Heights(u, N, k, q, s)
    BY <2>2, <2>5, RenamedHeights
  <2>7. PICK k : Heights(u, N, k, q, s)
    BY <2>6
  <2>8. temp \in N \cup {Nil} /\ ~ Red(u, Nil) /\ q = Parent(u, temp)
    BY <1>1, <1>2, <2>2, <2>4
  <2>9. (q = Nil => temp = Root(u)) /\ (Red(u, Root(u)) => Root(u) = temp)
    BY <1>1, <1>2, <1>3, <2>2, <2>4, <2>5
  <2>10. q # Nil => q \in N /\ s \in Sides /\ Child(u, s, q) = temp
    <3> SUFFICES ASSUME q # Nil PROVE q \in N /\ s \in Sides /\ Child(u, s, q) = temp
      OBVIOUS
    <3>1. p \in M /\ s \in Sides /\ Child(t, s, p) = temp
      BY <1>2, <2>2
    <3>2. q \in N /\ As(subst, node, q) = p
      BY <1>2, <3>1
    <3> HIDE DEF q
    <3>3. Child(u, s, q) = As(node, subst, Child(t, s, p))
      BY <1>1, <3>1, <3>2
    <3> QED
      BY <2>4, <3>1, <3>2, <3>3
  <2>11. ASSUME NEW x \in N, NEW d \in Sides, RedPair(u, x, d)
         PROVE  temp \in {x, Child(u, d, x)}
    <3> DEFINE y == As(subst, node, x)
    <3>1. y \in M /\ RedPair(t, y, d) /\ Child(u, d, x) = As(node, subst, Child(t, d, y))
      BY <1>1, <2>11
    <3>2. y = temp => x = temp
      BY DEF As
    <3>3. Child(t, d, y) = temp => Child(u, d, x) = temp
      BY <2>4, <3>1
    <3> HIDE DEF y
    <3> QED
      BY <2>2, <3>1, <3>2, <3>3
  <2> HIDE DEF q
  <2>12. Sunk(u, N, k, temp, q, s)
    BY <2>7, <2>8, <2>9, <2>10, <2>11 DEF Sunk
  <2> QED
    BY <2>12 DEF Sinking
<1> QED
  BY <1>4, <1>5

\* Where subst is taken from t, a black node is missing above temp, if subst was black.
Leaves(t, u, N, subst, temp) == IF Red(t, subst) THEN Coloured(u, N) ELSE Sinking(u, N, temp)

LEMMA TakePlaceColoured ==
  ASSUME NEW t, NEW u, NEW M, NEW g, NEW node, NEW subst, NEW temp,
         Kin(t, M), Placed(t, M, g), Coloured(t, M), Follows(t, M, g, node, subst),
         Parent(t, Nil) = Nil, temp = Child(t, "right", subst),
         u = Detach(TakePlace(Bypass(t, node, subst, temp), node, subst), node)
  PROVE  Leaves(t, u, Others(M, node), subst, temp)
<1> DEFINE v == Detach(Bypass(t, subst, subst, temp), subst)
           K == Others(M, subst)
           N == Others(M, node)
<1>1. /\ Renamed(v, u, K, node, subst) /\ Parent(u, temp) = As(node, subst, Parent(t, subst))
      /\ SameColours(v, u, node, subst)
  BY TakePlaceRenames DEF Others
<1>2. /\ subst \in M /\ node \in M /\ node # subst /\ subst # Root(t) /\ temp # node
      /\ "right" \in Sides /\ Other("right") = "left" /\ Child(t, "left", subst) = Nil
  BY FollowsIs DEF Follows, Sides, Other
<1>3. temp # subst
  BY <1>2, Around
<1>4. /\ Skip(t, v, M, subst, "right") /\ Parent(v, temp) = Parent(t, subst)
      /\ \A z \in Cells : Red(v, z) <=> Red(t, z)
  BY <1>2, BypassSkips
<1>5. N = (K \ {node}) \cup {subst}
  BY <1>2 DEF Others
<1> HIDE DEF v
<1>6. IF Red(t, subst) THEN Coloured(v, K) ELSE Sinking(v, K, temp)
  BY <1>2, <1>4, SkipSinks
<1>7. Kin(v, K)
  BY <1>4, SkipKin
<1>8. Parent(u, temp) = As(node, subst, Parent(v, temp))
  BY <1>1, <1>4
<1> HIDE DEF K, N
<1>9. (Coloured(v, K) => Coloured(u, N)) /\ (Sinking(v, K, temp) => Sinking(u, N, temp))
  BY <1>1, <1>2, <1>3, <1>5, <1>7, <1>8, RenamedSinks
<1>10. Leaves(t, u, N, subst, temp)
  BY <1>6, <1>9 DEF Leaves
<1> QED
  BY <1>10 DEF N

LEMMA TakenColoured ==
  ASSUME NEW t, NEW M, NEW node, Shaped(t, M), Coloured(t, M), Parent(t, Nil) = Nil, node \in M
  PROVE  /\ Victim(t, node) = Root(t) => Coloured(TakenRoot(t, node), Others(M, node))
         /\ Victim(t, node) # Root(t) =>
              Leaves(t, Taken(t, node), Others(M, node), Victim(t, node), Orphan(t, node))
<1> DEFINE subst == Victim(t, node)
           temp == Orphan(t, node)
           e == OnlySide(t, subst)
<1>1. Kin(t, M)
  BY DEF Shaped
<1>2. PICK g : Placed(t, M, g)
  BY DEF Shaped
<1>3. /\ subst \in M /\ e \in Sides /\ Child(t, Other(e), subst) = Nil
      /\ subst # node => Follows(t, M, g, node, subst) /\ e = "right"
  BY <1>1, <1>2, VictimIs
<1>4. temp = Child(t, e, subst)
  BY DEF Orphan
<1> HIDE DEF e, subst, temp
<1>5. ASSUME subst = Root(t), NEW u, u = TakenRoot(t, node)
      PROVE  Coloured(u, Others(M, node))
  <2>1. subst = node
    BY <1>1, <1>2, <1>3, <1>5, FollowsIs
  <2>2. u = ResetSentinel(Detach(SetParent(Paint(SetRoot(t, temp), temp, "black"), temp, Nil), subst))
    BY <1>5, <2>1 DEF TakenRoot, temp
  <2>3. Skip(t, u, M, subst, e) /\ \A z \in Cells : Red(u, z) <=> z # temp /\ Red(t, z)
    BY <1>1, <1>2, <1>3, <1>4, <1>5, <2>2, RootSkips
  <2>4. Coloured(u, Others(M, subst))
    BY <1>1, <1>2, <1>4, <1>5, <2>3, RootColoured
  <2> QED
    BY <2>1, <2>4
<1>6. ASSUME subst # Root(t), NEW u, u = Taken(t, node)
      PROVE  Leaves(t, u, Others(M, node), subst, temp)
  <2>1. u = Detach(IF subst = node THEN Bypass(t, node, subst, temp)
                   ELSE TakePlace(Bypass(t, node, subst, temp), node, subst), node)
    BY <1>6 DEF Taken, subst, temp
  <2>2. CASE subst = node
    <3>1. u = Detach(Bypass(t, subst, subst, temp), subst)
      BY <2>1, <2>2
    <3>2. /\ Skip(t, u, M, subst, e) /\ Parent(u, temp) = Parent(t, subst)
          /\ \A z \in Cells : Red(u, z) <=> Red(t, z)
      BY <1>1, <1>2, <1>3, <1>4, <1>6, <3>1, BypassSkips
    <3>3. IF Red(t, subst) THEN Coloured(u, Others(M, subst)) ELSE Sinking(u, Others(M, subst), temp)
      BY <1>1, <1>2, <1>4, <1>6, <3>2, SkipSinks
    <3> QED
      BY <2>2, <3>3 DEF Leaves
  <2>3. CASE subst # node
    <3>1. u = Detach(TakePlace(Bypass(t, node, subst, temp), node, subst), node)
      BY <2>1, <2>3
    <3>2. Follows(t, M, g, node, subst) /\ temp = Child(t, "right", subst)
      BY <1>3, <1>4, <2>3
    <3> QED
      BY <1>1, <1>2, <3>1, <3>2, TakePlaceColoured
  <2> QED
    BY <2>2, <2>3
<1> QED
  BY <1>5, <1>6 DEF subst, temp

LEMMA ResetColoured ==
  ASSUME NEW t, NEW u, NEW M, Kin(t, M), Coloured(t, M), u = ResetSentinel(t)
  PROVE  Coloured(u, M)
<1>1. M \subseteq Cells /\ Nil \in Cells /\ t \in Trees /\ Root(t) \in Cells
  BY KinCells DEF Kin
<1>2. /\ Root(u) = Root(t) /\ \A z \in Cells, d \in Sides : Child(u, d, z) = Child(t, d, z)
      /\ \A z \in Cells : Red(u, z) <=> Red(t, z)
  BY <1>1, ResetIs DEF SameData
<1>3. PICK h : Heights(t, M, h, Nil, "left")
  BY DEF Coloured
<1>4. ASSUME NEW z \in M, NEW d \in Sides PROVE Level(u, h, z, d, Nil, "left")
  <2>1. Tint(u, z) = Tint(t, z) /\ Child(u, d, z) = Child(t, d, z)
    BY <1>1, <1>2 DEF Tint
  <2> QED
    BY <1>3, <2>1 DEF Heights, Level
<1>5. Heights(u, M, h, Nil, "left")
  BY <1>3, <1>4 DEF Heights
<1>6. \A z \in M, d \in Sides : ~ RedPair(u, z, d)
  <2> TAKE z \in M, d \in Sides
  <2>1. z \in Cells /\ Child(u, d, z) = Child(t, d, z) /\ Child(t, d, z) \in Cells
    BY <1>1, <1>2 DEF Kin
  <2> QED
    BY <1>2, <2>1 DEF RedPair, Coloured
<1> QED
  BY <1>1, <1>2, <1>5, <1>6 DEF Coloured

\* A deletion keeps the tree balanced.
LEMMA DeleteColoured ==
  ASSUME NEW t, NEW u, NEW M, NEW node, Shaped(t, M), Coloured(t, M), Parent(t, Nil) = Nil,
         node \in Nodes, u = DeleteNode(t, node)
  PROVE  Coloured(u, Others(M, node))
<1> DEFINE subst == Victim(t, node)
           temp == Orphan(t, node)
           v == Taken(t, node)
           w == IF Red(t, subst) THEN v ELSE DeleteFixup(v, temp)
           N == Others(M, node)
<1>1. u = IF ~ InTree(t, node) THEN t
          ELSE IF subst = Root(t) THEN TakenRoot(t, node) ELSE ResetSentinel(w)
  BY DeleteIs
<1>2. CASE node \notin M
  <2>1. Parent(t, node) = Null /\ Others(M, node) = M
    BY <1>2 DEF Others, Shaped, Kin
  <2>2. u = t
    <3> HIDE DEF subst, temp, w
    <3> QED
      BY <1>1, <2>1 DEF InTree, Parent
  <2> QED
    BY <2>1, <2>2
<1>3. CASE node \in M
  <2>1. InTree(t, node)
    BY <1>3, VictimIs DEF Shaped
  <2>2. temp \in N \cup {Nil}
    BY <1>3, TakenShaped
  <2>3. subst # Root(t) => TakenOut(t, v, M, node)
    BY <1>3, TakenShaped
  <2>4. (subst = Root(t) => Coloured(TakenRoot(t, node), N)) /\ (subst # Root(t) => Leaves(t, v, N, subst, temp))
    BY <1>3, TakenColoured
  <2> HIDE DEF subst, temp, N
  <2>5. CASE subst = Root(t)
    <3>1. u = TakenRoot(t, node)
      BY <1>1, <2>1, <2>5
    <3> QED
      BY <2>4, <2>5, <3>1 DEF N
  <2>6. CASE subst # Root(t)
    <3>1. Shaped(v, N) /\ Leaves(t, v, N, subst, temp)
      BY <2>3, <2>4, <2>6 DEF TakenOut, N
    <3> HIDE DEF v
    <3>2. Shaped(w, N) /\ Coloured(w, N)
      <4>1. CASE Red(t, subst)
        BY <3>1, <4>1 DEF Leaves
      <4>2. CASE ~ Red(t, subst)
        <5>1. Sinking(v, N, temp)
          BY <3>1, <4>2 DEF Leaves
        <5>2. PICK h, p, s : Sunk(v, N, h, temp, p, s)
          BY <5>1 DEF Sinking
        <5>3. Coloured(DeleteFixup(v, temp), N)
          BY <3>1, <5>2, DeleteFixupColoured
        <5>4. Shaped(DeleteFixup(v, temp), N)
          BY <2>2, <3>1, FixupsShaped DEF Rebuilt
        <5> QED
          BY <4>2, <5>3, <5>4
      <4> QED
        BY <4>1, <4>2
    <3>3. u = ResetSentinel(w)
      BY <1>1, <2>1, <2>6
    <3> HIDE DEF w
    <3>4. Coloured(u, N)
      BY <3>2, <3>3, ResetColoured DEF Shaped
    <3> QED
      BY <3>4 DEF N
  <2> QED
    BY <2>5, <2>6
<1> QED
  BY <1>2, <1>3

----------------------------------------------------------------------------
(* rbtree_search.                                                           *)

\* All members with the key are below x.
Holds(t, M, g, key, x) ==
  \A m \in M : Key(t, m) = key => x \in M /\ \A d \in Sides : Lies(g, d, x, m)

LEMMA HoldsBelow ==
  ASSUME NEW t, NEW M, NEW g, NEW key, NEW x,
         Kin(t, M), Placed(t, M, g), key \in Nat, x \in M, Key(t, x) # key, Holds(t, M, g, key, x)
  PROVE  Holds(t, M, g, key, Below(t, key, x))
<1> DEFINE d == SideFor(t, key, x)
           c == Child(t, d, x)
<1>1. Below(t, key, x) = c /\ d \in Sides
  BY BelowIs
<1>2. Other(d) \in Sides /\ \A f \in Sides : f = d \/ f = Other(d)
  BY <1>1, OtherSide
<1>3. \A m \in M : Key(t, m) \in Nat /\ Pos(g, m) \in Int /\ \A f \in Sides : Lim(g, f, m) \in Int
  BY KinCells, TreeFields DEF Kin, Placed, Typed
<1>4. ASSUME NEW m \in M, Key(t, m) = key
      PROVE  Before(d, Pos(g, m), Pos(g, x)) /\ Lies(g, d, x, m)
  <2>1. /\ Pos(g, m) < Pos(g, x) => Key(t, m) <= Key(t, x)
        /\ Pos(g, x) < Pos(g, m) => Key(t, x) <= Key(t, m)
        /\ Pos(g, x) = Pos(g, m) => m = x
    BY DEF Placed, InOrder
  <2>2. Lies(g, d, x, m)
    BY <1>1, <1>4 DEF Holds
  <2>3. d = IF key < Key(t, x) THEN "left" ELSE "right"
    BY DEF SideFor
  <2> QED
    BY <1>3, <1>4, <2>1, <2>2, <2>3 DEF Before
<1> HIDE DEF d
<1>5. ASSUME NEW m \in M, Key(t, m) = key
      PROVE  c \in M /\ \A f \in Sides : Lies(g, f, c, m)
  <2>1. Before(d, Pos(g, m), Pos(g, x)) /\ Lies(g, d, x, m)
    BY <1>4, <1>5
  <2>2. c # Nil
    BY <1>1, <2>1 DEF Placed, Nested
  <2>3. c \in M /\ Lim(g, d, c) = Lim(g, d, x) /\ Lim(g, Other(d), c) = Pos(g, x)
    BY <1>1, <2>2 DEF Kin, Placed, Nested
  <2> HIDE DEF c
  <2>4. Before(Other(d), Pos(g, x), Pos(g, m))
    BY <1>1, <1>3, <2>1, BeforeIs
  <2> QED
    BY <1>2, <2>1, <2>3, <2>4 DEF Lies
<1> QED
  BY <1>1, <1>5 DEF Holds

\* A node with the key is found, if there is one.
LEMMA SearchIs ==
  ASSUME NEW t, NEW M, NEW x, NEW key, Shaped(t, M), key \in Nat, x = Search(t, key)
  PROVE  IF \E m \in M : Key(t, m) = key THEN x \in M /\ Key(t, x) = key ELSE x = Null
<1>1. PICK g : Placed(t, M, g)
  BY DEF Shaped
<1>2. Kin(t, M) /\ M \subseteq Pointers /\ Nil \in Pointers /\ Nil \notin M
      /\ Root(t) \in M \cup {Nil} /\ (Root(t) = Nil => M = {})
  BY KinCells DEF Shaped, Kin
<1> DEFINE round == [c \in Pointers |-> IF c = Nil \/ key = t.key[c] THEN c ELSE Below(t, key, c)]
           S == {c \in M \cup {Nil} : Holds(t, M, g, key, c)}
           Done == {c \in M \cup {Nil} : c = Nil \/ Key(t, c) = key}
           n == [c \in S |-> Size(g, M, c)]
           found == Repeat(round, Root(t))
<1>3. x = IF found = Nil THEN Null ELSE found
  BY DEF Search, Root
<1>4. \A c \in M \cup {Nil} : round[c] = IF c = Nil \/ Key(t, c) = key THEN c ELSE Below(t, key, c)
  BY <1>2 DEF Key
<1>5. Root(t) \in S
  <2>1. Holds(t, M, g, key, Root(t))
    BY <1>1, <1>2 DEF Holds, Placed, Nested
  <2> QED
    BY <1>2, <2>1
<1>6. ASSUME NEW c \in S \ Done PROVE round[c] \in S /\ n[round[c]] < n[c]
  <2>1. c \in M /\ c # Nil /\ Key(t, c) # key /\ round[c] = Below(t, key, c)
        /\ Holds(t, M, g, key, c)
    BY <1>4
  <2>2. Below(t, key, c) = Child(t, SideFor(t, key, c), c) /\ SideFor(t, key, c) \in Sides
    BY BelowIs
  <2>3. Below(t, key, c) \in M \cup {Nil} /\ Size(g, M, Below(t, key, c)) < Size(g, M, c)
    BY <1>1, <1>2, <2>1, <2>2, SizeIs DEF Kin
  <2>4. Holds(t, M, g, key, Below(t, key, c))
    BY <1>1, <1>2, <2>1, HoldsBelow
  <2> QED
    BY <2>1, <2>3, <2>4
<1>7. \A c \in S \cap Done : round[c] \in S \cap Done
  BY <1>4
<1>8. n \in [S -> Nat] /\ n[Root(t)] <= Cardinality(Cells)
  BY <1>1, <1>2, <1>5, SizeIs
<1>9. \A c \in S : n[c] = 0 => c \in Done
  BY <1>1, <1>2, SizeIs
<1> HIDE DEF round, Done, n
<1>10. found \in S \cap Done
  <2> HIDE DEF S
  <2>1. \/ found \in S \cap Done
        \/ found \in S /\ n[found] = 0
    BY <1>5, <1>6, <1>7, <1>8, RepeatEnds
  <2> QED
    BY <1>9, <2>1
<1> HIDE DEF found
<1>11. found \in M \cup {Nil} /\ Holds(t, M, g, key, found) /\ (found = Nil \/ Key(t, found) = key)
  BY <1>10 DEF Done
<1>12. CASE found = Nil
  BY <1>2, <1>3, <1>11, <1>12 DEF Holds
<1>13. CASE found # Nil
  BY <1>3, <1>11, <1>13
<1> QED
  BY <1>12, <1>13

----------------------------------------------------------------------------
(* rbtree_min and rbtree_next.                                              *)

LEMMA MemberInTree ==
  ASSUME NEW t, NEW M, NEW x, Kin(t, M), x \in M
  PROVE  InTree(t, x)
<1>1. Nil \notin M /\ Null \notin M /\ Nil # Null
  BY KinCells, NilNull
<1>2. Child(t, "left", x) # Null /\ Child(t, "right", x) # Null /\ Parent(t, x) # Null
  BY <1>1 DEF Kin, Sides
<1> QED
  BY <1>2 DEF InTree, Child, Parent

\* y is the first of the members after x, or null after the last.
After(M, g, x, y) ==
  IF y = Null THEN \A m \in M : ~ (Pos(g, x) < Pos(g, m))
  ELSE /\ y \in M /\ Pos(g, x) < Pos(g, y)
       /\ \A m \in M : ~ (Pos(g, x) < Pos(g, m) /\ Pos(g, m) < Pos(g, y))

\* y is the first of the members, or null.
First(M, g, y) ==
  IF y = Null THEN M = {} ELSE y \in M /\ \A m \in M : ~ (Pos(g, m) < Pos(g, y))

LEMMA MinIs ==
  ASSUME NEW t, NEW M, NEW g, NEW y, Kin(t, M), Placed(t, M, g), y = MinOf(t, Root(t))
  PROVE  First(M, g, y)
<1>1. Nil \notin M /\ Null \notin M /\ "left" \in Sides /\ Root(t) \in M \cup {Nil}
      /\ (Root(t) = Nil => M = {})
  BY KinCells, NilNull DEF Kin, Sides
<1>2. CASE Root(t) = Nil
  BY <1>1, <1>2 DEF MinOf, First
<1>3. CASE Root(t) # Nil
  <2>1. Root(t) \in M /\ InTree(t, Root(t))
    BY <1>1, <1>3, MemberInTree
  <2>2. y = Leftmost(t, Root(t))
    BY <1>3, <2>1 DEF MinOf
  <2>3. y \in M /\ Child(t, "left", y) = Nil /\ Lim(g, "left", y) = Lim(g, "left", Root(t))
    BY <2>1, <2>2, LeftmostIs
  <2>4. \A m \in M : Lies(g, "left", Root(t), m)
    BY <1>1, <1>3 DEF Placed, Nested
  <2>5. \A m \in M : ~ (Lies(g, "left", y, m) /\ Before("left", Pos(g, m), Pos(g, y)))
    BY <1>1, <2>3 DEF Placed, Nested
  <2>6. \A m \in M : ~ (Pos(g, m) < Pos(g, y))
    BY <2>3, <2>4, <2>5 DEF Lies, Before
  <2> QED
    BY <1>1, <2>3, <2>6 DEF First
<1> QED
  BY <1>2, <1>3

\* Nothing comes between x and what comes after all that is below x.
LEMMA ClimbIs ==
  ASSUME NEW t, NEW M, NEW g, NEW x, NEW y, Kin(t, M), Placed(t, M, g), x \in M,
         Child(t, "right", x) = Nil, y = Climb(t, x)
  PROVE  After(M, g, x, y)
<1> DEFINE up(c) == IF c = t.root \/ c = t.left[t.parent[c]] THEN c ELSE t.parent[c]
           round == [c \in Pointers |-> up(c)]
           S == {c \in M : Lim(g, "right", c) = Lim(g, "right", x)}
           Done == {c \in M : c = Root(t) \/ c = Child(t, "left", Parent(t, c))}
           n == [c \in S |-> Cardinality(Cells) - Size(g, M, c)]
           top == Repeat(round, x)
<1>1. /\ M \subseteq Pointers /\ M \subseteq Nodes /\ Nil \notin M /\ Null \notin M
      /\ Root(t) \in M \cup {Nil}
      /\ "left" \in Sides /\ "right" \in Sides /\ Other("left") = "right" /\ Other("right") = "left"
  BY KinCells, NilNull DEF Kin, Sides, Other
<1>2. y = IF top = Root(t) THEN Null ELSE Parent(t, top)
  BY DEF Climb, Root, Parent
<1>3. \A c \in M : round[c] = IF c = Root(t) \/ c = Child(t, "left", Parent(t, c))
                              THEN c ELSE Parent(t, c)
  BY <1>1 DEF Root, Child, Parent
<1>4. ASSUME NEW c \in S \ Done
      PROVE  round[c] \in S /\ Size(g, M, c) < Size(g, M, round[c])
  <2>1. c \in M /\ c # Root(t) /\ c # Child(t, "left", Parent(t, c)) /\ round[c] = Parent(t, c)
    BY <1>3
  <2> DEFINE p == Parent(t, c)
  <2>2. p \in M /\ p # Nil /\ \E d \in Sides : Child(t, d, p) = c
    BY <1>1, <2>1 DEF Kin
  <2>3. Child(t, "right", p) = c
    BY <2>1, <2>2 DEF Sides
  <2> HIDE DEF p
  <2>4. Lim(g, "right", c) = Lim(g, "right", p)
    BY <1>1, <2>1, <2>2, <2>3 DEF Placed, Nested
  <2>5. Size(g, M, c) < Size(g, M, p)
    BY <1>1, <2>2, <2>3, SizeIs
  <2> QED
    BY <2>1, <2>2, <2>4, <2>5 DEF p
<1>5. \A c \in S \cap Done : round[c] \in S \cap Done
  BY <1>3
<1>6. Cardinality(Cells) \in Nat
      /\ \A c \in M : Size(g, M, c) \in Nat /\ Size(g, M, c) <= Cardinality(Cells)
  BY <1>1, CellsFinite, SizeIs
<1>7. n \in [S -> Nat] /\ n[x] <= Cardinality(Cells) /\ x \in S
  BY <1>6
<1>8. \A c \in S : n[c] = 0 => c \in Done
  <2> SUFFICES ASSUME NEW c \in S, n[c] = 0, c \notin Done
               PROVE  FALSE
    OBVIOUS
  <2>1. round[c] \in M /\ Size(g, M, c) < Size(g, M, round[c])
    BY <1>4
  <2>2. Cardinality(Cells) - Size(g, M, c) = 0
    OBVIOUS
  <2> QED
    BY <1>6, <2>1, <2>2
<1>9. \A c \in S \ Done : round[c] \in S /\ n[round[c]] < n[c]
  <2> SUFFICES ASSUME NEW c \in S \ Done
               PROVE  round[c] \in S /\ n[round[c]] < n[c]
    OBVIOUS
  <2>1. round[c] \in S /\ Size(g, M, c) < Size(g, M, round[c]) /\ c \in M
    BY <1>4
  <2>2. n[c] = Cardinality(Cells) - Size(g, M, c)
        /\ n[round[c]] = Cardinality(Cells) - Size(g, M, round[c])
    BY <2>1
  <2> HIDE DEF n, round
  <2> QED
    BY <1>6, <2>1, <2>2
<1> HIDE DEF round, Done, n
<1>10. top \in S \cap Done
  <2> HIDE DEF S
  <2>1. \/ top \in S \cap Done
        \/ top \in S /\ n[top] = 0
    BY <1>5, <1>7, <1>9, RepeatEnds
  <2> QED
    BY <1>8, <2>1
<1> HIDE DEF top
<1>11. top \in M /\ Lim(g, "right", top) = Lim(g, "right", x)
       /\ (top = Root(t) \/ top = Child(t, "left", Parent(t, top)))
  BY <1>10 DEF Done
<1>12. /\ Pos(g, x) < Lim(g, "right", x)
       /\ \A m \in M : ~ (Pos(g, m) < Lim(g, "right", x) /\ Pos(g, x) < Pos(g, m))
  BY <1>1 DEF Placed, Nested, Lies, Before
<1>13. CASE top = Root(t)
  <2>1. \A m \in M : Pos(g, m) < Lim(g, "right", top)
    BY <1>1, <1>11, <1>13 DEF Placed, Nested, Lies, Before
  <2>2. y = Null
    BY <1>2, <1>13
  <2> QED
    BY <1>11, <1>12, <2>1, <2>2 DEF After
<1>14. CASE top # Root(t)
  <2>1. y = Parent(t, top) /\ top = Child(t, "left", y)
    BY <1>2, <1>11, <1>14
  <2>2. y \in M /\ y # Null
    BY <1>1, <1>11, <1>14, <2>1 DEF Kin
  <2>3. Lim(g, "right", top) = Pos(g, y)
    BY <1>1, <1>11, <2>1, <2>2 DEF Placed, Nested
  <2> QED
    BY <1>11, <1>12, <2>2, <2>3 DEF After
<1> QED
  BY <1>13, <1>14

LEMMA NextIs ==
  ASSUME NEW t, NEW M, NEW g, NEW x, NEW y, Kin(t, M), Placed(t, M, g), x \in M, y = NextOf(t, x)
  PROVE  After(M, g, x, y)
<1>1. InTree(t, x) /\ "right" \in Sides /\ "left" \in Sides /\ Other("right") = "left"
      /\ Null \notin M /\ Nil \notin M
  BY MemberInTree, KinCells, NilNull DEF Sides, Other, Kin
<1>2. CASE Child(t, "right", x) = Nil
  <2>1. y = Climb(t, x)
    BY <1>1, <1>2 DEF NextOf, Child
  <2> QED
    BY <1>2, <2>1, ClimbIs
<1>3. CASE Child(t, "right", x) # Nil
  <2> DEFINE r == Child(t, "right", x)
  <2>1. r \in M /\ Lim(g, "left", r) = Pos(g, x) /\ InTree(t, r)
    BY <1>1, <1>3, MemberInTree DEF Kin, Placed, Nested
  <2>2. y = MinOf(t, r)
    BY <1>1, <1>3 DEF NextOf, Child
  <2> HIDE DEF r
  <2>3. y = Leftmost(t, r)
    BY <1>1, <2>1, <2>2 DEF MinOf
  <2>4. Follows(t, M, g, x, y)
    BY <2>1, <2>3, LeftmostIs DEF Follows
  <2>5. \A z \in M : Pos(g, x) < Pos(g, z) => Pos(g, z) = Pos(g, y) \/ Pos(g, y) < Pos(g, z)
    BY <2>4, FollowsIs
  <2>6. y \in M /\ Pos(g, x) < Pos(g, y)
    BY <1>1, <2>4 DEF Follows, Placed, Nested, Lies, Before
  <2>7. \A m \in M : Pos(g, m) \in Int
    BY DEF Placed, Typed
  <2> QED
    BY <1>1, <2>5, <2>6, <2>7 DEF After
<1> QED
  BY <1>2, <1>3

----------------------------------------------------------------------------
(* The walk of server_start_loop over the timers.                           *)

LEMMA OthersSmaller ==
  ASSUME NEW N, NEW x, N \subseteq Nodes, x \in N
  PROVE  Cardinality(Others(N, x)) = Cardinality(N) - 1
<1>1. IsFiniteSet(N)
  BY CellsFinite
<1>2. Others(N, x) = N \ {x}
  BY DEF Others
<1> QED
  BY <1>1, <1>2, FS_RemoveElement

\* The nodes that are in a tree, by their pointers.
Present(u) == {x \in Nodes : Parent(u, x) # Null}

LEMMA PresentIs ==
  ASSUME NEW u, NEW N, Kin(u, N)
  PROVE  Present(u) = N
<1>1. Null \notin N \cup {Nil} /\ N \subseteq Nodes
  BY KinCells, NilNull
<1> QED
  BY <1>1 DEF Present, Kin

\* N is what remains of the members: those taken out were due, and y is the first.
Remains(t, M, now, u, N, y) ==
  /\ Kin(u, N) /\ Parent(u, Nil) = Nil /\ Coloured(u, N) /\ N \subseteq M
  /\ \A z \in Cells : Key(u, z) = Key(t, z)
  /\ \A m \in M : m \notin N => Key(t, m) <= now
  /\ \E g : Placed(u, N, g) /\ First(N, g, y)

LEMMA DueStep ==
  ASSUME NEW t, NEW M, NEW now, NEW u, NEW N, NEW y, NEW v, NEW z,
         Remains(t, M, now, u, N, y), y # Null, ~ (Key(u, y) > now), now \in Nat,
         v = DeleteNode(u, y), z = NextOf(u, y)
  PROVE  y \in N /\ Remains(t, M, now, v, Others(N, y), z)
<1>1. PICK g : Placed(u, N, g) /\ First(N, g, y)
  BY DEF Remains
<1>2. /\ Kin(u, N) /\ Parent(u, Nil) = Nil /\ N \subseteq M /\ Shaped(u, N) /\ Coloured(u, N)
      /\ \A x \in Cells : Key(u, x) = Key(t, x)
      /\ \A m \in M : m \notin N => Key(t, m) <= now
  BY <1>1 DEF Remains, Shaped
<1>3. y \in N /\ y \in Nodes /\ y \in Cells /\ \A m \in N : ~ (Pos(g, m) < Pos(g, y))
  BY <1>1, <1>2, KinCells DEF First
<1>4. After(N, g, y, z)
  BY <1>1, <1>2, <1>3, NextIs
<1>5. /\ Shaped(v, Others(N, y)) /\ OrderKept(u, N, v, Others(N, y))
      /\ Parent(v, Nil) = Nil /\ \A x \in Cells : Key(v, x) = Key(u, x)
  BY <1>2, <1>3, DeleteShaped
<1>6. PICK h : /\ Placed(v, Others(N, y), h)
               /\ \A a \in Others(N, y), b \in Others(N, y) :
                    Pos(g, a) < Pos(g, b) => Pos(h, a) < Pos(h, b)
  BY <1>1, <1>5 DEF OrderKept, Agrees
<1>7. \A m : m \in Others(N, y) <=> m \in N /\ m # y
  BY DEF Others
<1>8. \A a \in N : Pos(g, a) \in Int /\ \A b \in N : Pos(g, a) = Pos(g, b) => a = b
  BY <1>1 DEF Placed, Typed, InOrder
<1>9. \A a \in Others(N, y) : Pos(h, a) \in Int /\ Pos(g, y) < Pos(g, a)
  BY <1>3, <1>6, <1>7, <1>8 DEF Placed, Typed
<1>10. First(Others(N, y), h, z)
  <2>1. CASE z = Null
    BY <1>4, <1>7, <1>9, <2>1 DEF After, First
  <2>2. CASE z # Null
    <3>1. /\ z \in N /\ Pos(g, y) < Pos(g, z)
          /\ \A m \in N : ~ (Pos(g, y) < Pos(g, m) /\ Pos(g, m) < Pos(g, z))
      BY <1>4, <2>2 DEF After
    <3>2. z \in Others(N, y)
      BY <1>7, <1>8, <3>1
    <3>3. ASSUME NEW m \in Others(N, y), Pos(h, m) < Pos(h, z) PROVE FALSE
      <4>1. m \in N /\ ~ (Pos(g, m) < Pos(g, z)) /\ m # z
        BY <1>7, <1>9, <3>1, <3>2, <3>3
      <4>2. Pos(g, z) < Pos(g, m)
        BY <1>8, <3>1, <4>1
      <4>3. Pos(h, z) < Pos(h, m)
        BY <1>6, <3>2, <4>2
      <4> QED
        BY <1>9, <3>2, <3>3, <4>3
    <3> QED
      BY <2>2, <3>2, <3>3 DEF First
  <2> QED
    BY <2>1, <2>2
<1>11. Key(t, y) <= now
  <2>1. u \in Trees
    BY <1>2 DEF Kin
  <2>2. Key(u, y) \in Nat /\ Key(u, y) = Key(t, y)
    BY <1>2, <1>3, <2>1, TreeFields
  <2> QED
    BY <2>2
<1>12. \A m \in M : m \notin Others(N, y) => Key(t, m) <= now
  BY <1>2, <1>7, <1>11
<1>13. Coloured(v, Others(N, y))
  BY <1>2, <1>3, DeleteColoured
<1>14. Kin(v, Others(N, y)) /\ Others(N, y) \subseteq M /\ \A x \in Cells : Key(v, x) = Key(t, x)
  BY <1>2, <1>5, <1>7 DEF Shaped
<1> QED
  BY <1>3, <1>5, <1>6, <1>10, <1>12, <1>13, <1>14 DEF Remains

\* The members that are not due.
Late(t, M, now) == {x \in M : Key(t, x) > now}

LEMMA DueEnd ==
  ASSUME NEW t, NEW M, NEW now, NEW u, NEW N, NEW y,
         Remains(t, M, now, u, N, y), y = Null \/ Key(u, y) > now, now \in Nat, t \in Trees,
         M \subseteq Nodes
  PROVE  N = Late(t, M, now)
<1>1. PICK g : Placed(u, N, g) /\ First(N, g, y)
  BY DEF Remains
<1>2. /\ N \subseteq M /\ N \subseteq Cells /\ \A x \in Cells : Key(u, x) = Key(t, x)
      /\ \A m \in M : m \notin N => Key(t, m) <= now
  BY KinCells DEF Remains
<1>3. \A m \in M : Key(t, m) \in Nat
  BY TreeFields DEF Cells
<1>4. ASSUME NEW m \in N PROVE Key(t, m) > now
  <2>1. y # Null /\ y \in N /\ ~ (Pos(g, m) < Pos(g, y)) /\ Key(u, y) > now
    BY <1>1, <1>4 DEF First
  <2>2. Pos(g, m) \in Int /\ Pos(g, y) \in Int /\ (Pos(g, m) = Pos(g, y) => m = y)
        /\ (Pos(g, y) < Pos(g, m) => Key(u, y) <= Key(u, m))
    BY <1>1, <2>1 DEF Placed, Typed, InOrder
  <2>3. Key(u, m) = Key(t, m) /\ Key(u, y) = Key(t, y) /\ Key(t, m) \in Nat /\ Key(t, y) \in Nat
    BY <1>2, <1>3, <2>1
  <2>4. m = y \/ Key(u, y) <= Key(u, m)
    BY <2>1, <2>2
  <2> QED
    BY <2>1, <2>3, <2>4
<1>5. \A m \in M : m \notin N => ~ (Key(t, m) > now)
  BY <1>2, <1>3
<1> QED
  BY <1>2, <1>4, <1>5 DEF Late

\* The timers that are due are deleted, those that are not stay.
LEMMA DeleteDueShaped ==
  ASSUME NEW t, NEW M, NEW now, NEW u, Shaped(t, M), Coloured(t, M),
         Parent(t, Nil) = Nil, now \in Nat,
         u = DeleteDue(t, now)
  PROVE  /\ Shaped(u, Late(t, M, now)) /\ Coloured(u, Late(t, M, now)) /\ Parent(u, Nil) = Nil
         /\ \A z \in Cells : Key(u, z) = Key(t, z)
<1> DEFINE round == [c \in Cursors |-> DueRound(c.tree, c.node, now)]
           start == At(t, MinOf(t, Root(t)))
           S == {c \in Cursors : Remains(t, M, now, c.tree, Present(c.tree), c.node)}
           Done == {c \in Cursors : c.node = Null \/ Key(c.tree, c.node) > now}
           n == [c \in S |-> Cardinality(Present(c.tree))]
           end == Repeat(round, start)
<1>1. u = end.tree
  BY DEF DeleteDue, Root
<1>2. /\ M \subseteq Nodes /\ M \subseteq Pointers /\ Null \in Pointers /\ Kin(t, M) /\ t \in Trees
      /\ Nodes \subseteq Pointers
  BY KinCells DEF Shaped, Kin, Pointers, Cells
<1>3. PICK g : Placed(t, M, g)
  BY DEF Shaped
<1>4. start \in S /\ n[start] <= Cardinality(Cells)
  <2> DEFINE y == MinOf(t, Root(t))
  <2>1. First(M, g, y)
    BY <1>2, <1>3, MinIs
  <2>2. Present(t) = M
    BY <1>2, PresentIs
  <2> HIDE DEF y
  <2>3. Remains(t, M, now, t, M, y)
    BY <1>2, <1>3, <2>1 DEF Remains
  <2>4. y \in Pointers
    BY <1>2, <2>1 DEF First
  <2>5. At(t, y) \in Cursors /\ At(t, y).tree = t /\ At(t, y).node = y
    BY <1>2, <2>4 DEF At, Cursors
  <2>6. At(t, y) \in S
    BY <2>2, <2>3, <2>5
  <2>7. Cardinality(M) <= Cardinality(Cells)
    BY <1>2, CellsFinite
  <2>8. n[At(t, y)] = Cardinality(M)
    BY <2>2, <2>5, <2>6
  <2> QED
    BY <2>6, <2>7, <2>8 DEF y
<1>5. ASSUME NEW c \in S
      PROVE  /\ c \in Cursors /\ c.tree \in Trees /\ c.node \in Pointers
             /\ Remains(t, M, now, c.tree, Present(c.tree), c.node)
             /\ round[c] = DueRound(c.tree, c.node, now)
             /\ Present(c.tree) \subseteq Nodes
  BY DEF Cursors, Present
<1>6. ASSUME NEW c \in S \cap Done PROVE round[c] \in S \cap Done
  <2>1. c.node = Null \/ c.tree.key[c.node] > now
    BY DEF Key
  <2>2. c = At(c.tree, c.node)
    BY DEF Cursors, At
  <2> HIDE DEF round, S, Done
  <2> QED
    BY <1>5, <2>1, <2>2 DEF DueRound
<1>7. ASSUME NEW c \in S \ Done PROVE round[c] \in S /\ n[round[c]] < n[c]
  <2>1. c.node # Null /\ ~ (Key(c.tree, c.node) > now)
    BY <1>5
  <2> DEFINE v == DeleteNode(c.tree, c.node)
             z == NextOf(c.tree, c.node)
             N == Present(c.tree)
  <2>2. round[c] = At(v, z)
    <3>1. ~ (c.node = Null \/ c.tree.key[c.node] > now)
      BY <2>1 DEF Key
    <3> HIDE DEF round
    <3> QED
      BY <1>5, <3>1 DEF DueRound
  <2>3. c.node \in N /\ Remains(t, M, now, v, Others(N, c.node), z) /\ N \subseteq Nodes
    BY <1>5, <2>1, DueStep
  <2> HIDE DEF N, v, z
  <2>4. Present(v) = Others(N, c.node)
    BY <2>3, PresentIs DEF Remains
  <2>5. v \in Trees
    BY <2>3 DEF Remains, Kin
  <2>6. z \in Pointers
    <3>1. z = Null \/ z \in Others(N, c.node)
      BY <2>3 DEF Remains, First
    <3> QED
      BY <1>2, <2>3, <3>1 DEF Others
  <2>7. At(v, z) \in Cursors /\ At(v, z).tree = v /\ At(v, z).node = z
    BY <2>5, <2>6 DEF At, Cursors
  <2>8. At(v, z) \in S
    BY <2>3, <2>4, <2>7
  <2>9. n[At(v, z)] = Cardinality(Others(N, c.node)) /\ n[c] = Cardinality(N)
    BY <2>4, <2>7, <2>8 DEF N
  <2>10. Cardinality(N) \in Nat /\ Cardinality(Others(N, c.node)) = Cardinality(N) - 1
    BY <2>3, CellsFinite, OthersSmaller
  <2> HIDE DEF n, S, round
  <2> QED
    BY <2>2, <2>8, <2>9, <2>10
<1>8. n \in [S -> Nat]
  BY <1>5, CellsFinite
<1>9. ASSUME NEW c \in S, n[c] = 0 PROVE c \in Done
  <2>1. IsFiniteSet(Present(c.tree)) /\ Cardinality(Present(c.tree)) = 0
    BY <1>5, <1>9, CellsFinite
  <2>2. Present(c.tree) = {}
    BY <2>1, FS_EmptySet
  <2>3. c.node = Null
    BY <1>5, <2>2 DEF Remains, First
  <2> QED
    BY <1>5, <2>3
<1> HIDE DEF round, start, n
<1>10. end \in S \cap Done
  <2> HIDE DEF S, Done
  <2>1. \/ end \in S \cap Done
        \/ end \in S /\ n[end] = 0
    BY <1>4, <1>6, <1>7, <1>8, RepeatEnds
  <2> QED
    BY <1>9, <2>1
<1> HIDE DEF end
<1>11. Remains(t, M, now, u, Present(u), end.node) /\ (end.node = Null \/ Key(u, end.node) > now)
  BY <1>1, <1>10
<1>12. Present(u) = Late(t, M, now)
  BY <1>2, <1>11, DueEnd
<1>13. Shaped(u, Present(u))
  BY <1>11 DEF Remains, Shaped
<1> QED
  BY <1>11, <1>12, <1>13 DEF Remains

----------------------------------------------------------------------------
(* The walk by rbtree_min and rbtree_next.                                  *)

LEMMA AppendIs ==
  ASSUME NEW M, NEW s \in Seq(M), NEW y \in M
  PROVE  /\ Append(s, y) \in Seq(M) /\ Len(Append(s, y)) = Len(s) + 1 /\ Len(s) \in Nat
         /\ \A k \in 1 .. Len(s) : Append(s, y)[k] = s[k] /\ s[k] \in M
         /\ Append(s, y)[Len(s)+1] = y
         /\ ToSet(Append(s, y)) = ToSet(s) \cup {y}
         /\ ToSet(s) \subseteq M /\ \A k \in 1 .. Len(s) : s[k] \in ToSet(s)
<1> DEFINE a == Append(s, y)
           n == Len(s)
<1>1. /\ a \in Seq(M) /\ Len(a) = n + 1 /\ n \in Nat /\ a[n+1] = y
      /\ \A k \in 1 .. n : a[k] = s[k] /\ s[k] \in M
  OBVIOUS
<1>2. DOMAIN s = 1 .. n /\ DOMAIN a = 1 .. n+1
  BY <1>1
<1> HIDE DEF a, n
<1>3. 1 .. n+1 = (1 .. n) \cup {n+1}
  BY <1>1
<1>4. ToSet(a) = {a[i] : i \in 1 .. n+1} /\ ToSet(s) = {s[i] : i \in 1 .. n}
  BY <1>2 DEF ToSet
<1>5. ToSet(a) = ToSet(s) \cup {y}
  BY <1>1, <1>3, <1>4
<1>6. ToSet(s) \subseteq M /\ \A k \in 1 .. n : s[k] \in ToSet(s)
  BY <1>1, <1>4
<1> QED
  BY <1>1, <1>5, <1>6 DEF a, n

\* The members before y have been seen, once each and in order.
Seen(M, g, s, y) ==
  /\ s \in Seq(M) /\ (y = Null \/ y \in M)
  /\ \A m \in M : m \in ToSet(s) <=> (y = Null \/ Pos(g, m) < Pos(g, y))
  /\ Len(s) = Cardinality(ToSet(s))
  /\ \A k \in 1 .. Len(s)-1 : Pos(g, s[k]) < Pos(g, s[k+1])

LEMMA SeenFirst ==
  ASSUME NEW M, NEW g, NEW y, First(M, g, y), Null \notin M
  PROVE  Seen(M, g, <<>>, y)
<1>1. ToSet(<<>>) = {} /\ Len(<<>>) = 0 /\ <<>> \in Seq(M)
  BY DEF ToSet
<1>2. Cardinality({}) = 0
  BY FS_EmptySet
<1>3. (y = Null => M = {}) /\ (y # Null => y \in M /\ \A m \in M : ~ (Pos(g, m) < Pos(g, y)))
  BY DEF First
<1>4. \A k \in 1 .. Len(<<>>)-1 : FALSE
  BY <1>1
<1> HIDE DEF Pos
<1> QED
  BY <1>1, <1>2, <1>3, <1>4 DEF Seen

LEMMA SeenNext ==
  ASSUME NEW t, NEW M, NEW g, NEW s, NEW y, NEW z, Kin(t, M), Placed(t, M, g),
         Seen(M, g, s, y), y # Null, After(M, g, y, z)
  PROVE  Seen(M, g, Append(s, y), z)
<1>1. /\ s \in Seq(M) /\ y \in M /\ Len(s) = Cardinality(ToSet(s))
      /\ \A m \in M : m \in ToSet(s) <=> Pos(g, m) < Pos(g, y)
      /\ \A k \in 1 .. Len(s)-1 : Pos(g, s[k]) < Pos(g, s[k+1])
  BY DEF Seen
<1> DEFINE a == Append(s, y)
<1>2. /\ a \in Seq(M) /\ Len(a) = Len(s) + 1 /\ Len(s) \in Nat /\ a[Len(s)+1] = y
      /\ \A k \in 1 .. Len(s) : a[k] = s[k] /\ s[k] \in M
      /\ ToSet(a) = ToSet(s) \cup {y}
      /\ ToSet(s) \subseteq M /\ \A k \in 1 .. Len(s) : s[k] \in ToSet(s)
  BY <1>1, AppendIs
<1> HIDE DEF a
<1>3. \A m \in M : Pos(g, m) \in Int /\ \A k \in M : Pos(g, m) = Pos(g, k) => m = k
  BY DEF Placed, Typed, InOrder
<1>4. /\ z = Null \/ z \in M
      /\ \A m \in M : (z = Null \/ Pos(g, m) < Pos(g, z)) <=> (m = y \/ Pos(g, m) < Pos(g, y))
  <2>1. CASE z = Null
    BY <1>1, <1>3, <2>1 DEF After
  <2>2. CASE z # Null
    <3>1. z \in M /\ Pos(g, y) < Pos(g, z)
          /\ \A m \in M : ~ (Pos(g, y) < Pos(g, m) /\ Pos(g, m) < Pos(g, z))
      BY <2>2 DEF After
    <3> QED
      BY <1>1, <1>3, <2>2, <3>1
  <2> QED
    BY <2>1, <2>2
<1>5. Len(a) = Cardinality(ToSet(a))
  <2>1. y \notin ToSet(s)
    BY <1>1, <1>3
  <2>2. M \subseteq Nodes
    BY DEF Kin
  <2>3. IsFiniteSet(ToSet(s))
    BY <1>2, <2>2, CellsFinite
  <2>4. Cardinality(ToSet(s) \cup {y}) = Cardinality(ToSet(s)) + 1
    BY <2>1, <2>3, FS_AddElement
  <2> QED
    BY <1>1, <1>2, <2>4
<1>6. ASSUME NEW k \in 1 .. Len(a)-1 PROVE Pos(g, a[k]) < Pos(g, a[k+1])
  <2>1. CASE k = Len(s)
    <3>1. a[k] = s[k] /\ a[k+1] = y /\ s[k] \in ToSet(s) /\ s[k] \in M
      BY <1>2, <1>6, <2>1
    <3> QED
      BY <1>1, <3>1
  <2>2. CASE k # Len(s)
    <3>1. k \in 1 .. Len(s)-1 /\ a[k] = s[k] /\ a[k+1] = s[k+1]
      BY <1>2, <1>6, <2>2
    <3> QED
      BY <1>1, <3>1
  <2> QED
    BY <2>1, <2>2
<1>7. \A m \in M : m \in ToSet(a) <=> (z = Null \/ Pos(g, m) < Pos(g, z))
  BY <1>1, <1>2, <1>4
<1> QED
  BY <1>2, <1>4, <1>5, <1>6, <1>7 DEF Seen, a

\* The members are visited once each, in the order of their keys.
LEMMA WalkIs ==
  ASSUME Shaped(tree, members)
  PROVE  /\ ToSet(Walk) = members /\ Len(Walk) = Cardinality(members)
         /\ \A k \in 1 .. Len(Walk)-1 : Key(tree, Walk[k]) <= Key(tree, Walk[k+1])
<1> DEFINE W == [seen : Seq(Pointers), node : Pointers]
           round == [w \in W |-> IF w.node = Null THEN w
                                 ELSE [seen |-> Append(w.seen, w.node),
                                       node |-> NextOf(tree, w.node)]]
           start == [seen |-> <<>>, node |-> MinOf(tree, Root(tree))]
           end == Repeat(round, start)
<1>1. PICK g : Placed(tree, members, g)
  BY DEF Shaped
<1>2. /\ Kin(tree, members) /\ members \subseteq Nodes /\ members \subseteq Pointers
      /\ Null \in Pointers /\ Null \notin members
  BY KinCells, NilNull DEF Shaped, Pointers
<1>3. Walk = end.seen
  BY DEF Walk, Root
<1> DEFINE S == {w \in W : Seen(members, g, w.seen, w.node)}
           Done == {w \in W : w.node = Null}
           n == [w \in S |-> Cardinality(Cells) - Len(w.seen)]
<1>4. Seq(members) \subseteq Seq(Pointers)
  BY <1>2
<1>5. start \in S
  <2>1. Seen(members, g, <<>>, MinOf(tree, Root(tree)))
    BY <1>1, <1>2, MinIs, SeenFirst
  <2>2. <<>> \in Seq(Pointers) /\ MinOf(tree, Root(tree)) \in Pointers
    BY <1>2, <2>1 DEF Seen
  <2> QED
    BY <2>1, <2>2
<1>6. ASSUME NEW w \in S
      PROVE  /\ w \in W /\ w.seen \in Seq(members) /\ Seen(members, g, w.seen, w.node)
             /\ Len(w.seen) \in Nat /\ Len(w.seen) < Cardinality(Cells)
             /\ w.node # Null => w.node \in members
  <2>1. /\ w \in W /\ w.seen \in Seq(members) /\ Seen(members, g, w.seen, w.node)
        /\ Len(w.seen) = Cardinality(ToSet(w.seen)) /\ (w.node # Null => w.node \in members)
    BY DEF Seen
  <2>2. ToSet(w.seen) \subseteq members
    <3>1. \A k \in DOMAIN w.seen : w.seen[k] \in members
      BY <2>1
    <3> QED
      BY <3>1 DEF ToSet
  <2>3. ToSet(w.seen) \subseteq Nodes
    BY <1>2, <2>2
  <2> QED
    BY <2>1, <2>3, CellsFinite
<1>7. Cardinality(Cells) \in Nat
  BY <1>2, CellsFinite
<1>8. \A w \in S \cap Done : round[w] \in S \cap Done
  BY <1>6
<1>9. ASSUME NEW w \in S \ Done PROVE round[w] \in S /\ n[round[w]] < n[w]
  <2> DEFINE a == Append(w.seen, w.node)
             z == NextOf(tree, w.node)
             v == [seen |-> a, node |-> z]
  <2>1. w \in W /\ w.node # Null /\ w.node \in members /\ w.seen \in Seq(members)
        /\ Seen(members, g, w.seen, w.node)
    BY <1>6
  <2>2. round[w] = v
    BY <2>1
  <2>3. After(members, g, w.node, z)
    BY <1>1, <1>2, <2>1, NextIs
  <2> HIDE DEF z
  <2>4. Seen(members, g, a, z)
    BY <1>1, <1>2, <2>1, <2>3, SeenNext
  <2>5. Len(a) = Len(w.seen) + 1
    BY <2>1, AppendIs
  <2> HIDE DEF a
  <2>6. a \in Seq(Pointers) /\ z \in Pointers
    BY <1>2, <1>4, <2>4 DEF Seen
  <2>7. v \in S
    BY <2>4, <2>6
  <2>8. Len(a) < Cardinality(Cells) /\ Len(w.seen) \in Nat
    BY <1>6, <2>7
  <2>9. n[v] = Cardinality(Cells) - Len(a) /\ n[w] = Cardinality(Cells) - Len(w.seen)
    BY <2>7
  <2> HIDE DEF n, S, round, v
  <2>10. n[v] < n[w]
    BY <1>7, <2>5, <2>8, <2>9
  <2> QED
    BY <2>2, <2>7, <2>10
<1>10. n \in [S -> Nat] /\ n[start] <= Cardinality(Cells)
  BY <1>5, <1>6, <1>7
<1>11. \A w \in S : n[w] # 0
  BY <1>6, <1>7
<1> HIDE DEF round, n, start
<1>12. end \in S \cap Done
  <2> HIDE DEF S, Done
  <2>1. \/ end \in S \cap Done
        \/ end \in S /\ n[end] = 0
    BY <1>5, <1>8, <1>9, <1>10, RepeatEnds
  <2> QED
    BY <1>11, <2>1
<1> HIDE DEF end
<1>13. Seen(members, g, Walk, Null)
  BY <1>3, <1>6, <1>12
<1> DEFINE s == Walk
<1> HIDE DEF s
<1>14. s \in Seq(members) /\ Len(s) = Cardinality(ToSet(s)) /\ members \subseteq ToSet(s)
       /\ \A k \in 1 .. Len(s)-1 : Pos(g, s[k]) < Pos(g, s[k+1])
  BY <1>13 DEF Seen, s
<1>15. ToSet(s) = members
  <2>1. \A k \in DOMAIN s : s[k] \in members
    BY <1>14
  <2> QED
    BY <1>14, <2>1 DEF ToSet
<1>16. ASSUME NEW k \in 1 .. Len(s)-1 PROVE Key(tree, s[k]) <= Key(tree, s[k+1])
  <2>1. s[k] \in members /\ s[k+1] \in members /\ Pos(g, s[k]) < Pos(g, s[k+1])
    BY <1>14
  <2> QED
    BY <1>1, <2>1 DEF Placed, InOrder
<1> QED
  BY <1>14, <1>15, <1>16 DEF s

----------------------------------------------------------------------------
(* The specification.                                                       *)

\* The members are the nodes of a balanced tree, with a key they may have each.
IInv ==
  /\ Shaped(tree, members) /\ Coloured(tree, members) /\ Parent(tree, Nil) = Nil
  /\ \A x \in members : Key(tree, x) \in KeysOf[x]

LEMMA EmptyShaped ==
  Shaped(EmptyTree, {}) /\ Coloured(EmptyTree, {}) /\ Parent(EmptyTree, Nil) = Nil
<1>1. Nil \in Cells /\ Nil \in Pointers /\ Null \in Pointers /\ Nil \notin Nodes
      /\ Nodes \subseteq Cells
  BY NilNull DEF Cells, Pointers
<1>2. EmptyTree \in Trees
  BY <1>1 DEF EmptyTree, Trees
<1>3. /\ Root(EmptyTree) = Nil
      /\ \A z \in Cells : Parent(EmptyTree, z) = IF z = Nil THEN Nil ELSE Null
      /\ \A z \in Cells, d \in Sides : Child(EmptyTree, d, z) = IF z = Nil THEN Nil ELSE Null
  BY DEF EmptyTree, Root, Parent, Child, Sides
<1>4. Kin(EmptyTree, {})
  BY <1>1, <1>2, <1>3 DEF Kin
<1>5. \A g : Placed(EmptyTree, {}, g)
  BY <1>3 DEF Placed, Typed, InOrder, Nested
<1>6. Coloured(EmptyTree, {})
  <2>1. ~ Red(EmptyTree, Nil)
    BY <1>1 DEF Red, EmptyTree
  <2>2. Heights(EmptyTree, {}, [z \in Cells |-> 1], Nil, "left")
    BY <1>1 DEF Heights, Hgt
  <2> QED
    BY <1>3, <2>1, <2>2 DEF Coloured
<1> QED
  BY <1>1, <1>3, <1>4, <1>5, <1>6 DEF Shaped

LEMMA Inductive == Spec => []IInv
<1>1. Init => IInv
  BY EmptyShaped DEF Init, IInv
<1>2. ASSUME IInv, [Next]_vars PROVE IInv'
  <2>1. Shaped(tree, members) /\ Coloured(tree, members) /\ Parent(tree, Nil) = Nil
        /\ \A x \in members : Key(tree, x) \in KeysOf[x]
    BY <1>2 DEF IInv
  <2>2. members \subseteq Cells /\ members \subseteq Nodes /\ \A x \in Nodes : x \in Cells
        /\ KeysOf[x] \subseteq Nat
    BY <2>1, KinCells, KeyAssumption DEF Shaped, Cells
  <2>3. ASSUME NEW N, Shaped(tree', N), Coloured(tree', N), Parent(tree', Nil) = Nil, members' = N,
               \A x \in N : Key(tree', x) \in KeysOf[x]
        PROVE  IInv'
    BY <2>3 DEF IInv
  <2>4. ASSUME NEW x \in Nodes, NEW key \in KeysOf[x], Insert(x, key) PROVE IInv'
    <3>1. x \in Nodes \ members /\ tree' = InsertNode(tree, x, key)
          /\ members' = members \cup {x} /\ key \in Nat
      BY <2>2, <2>4 DEF Insert
    <3>2. /\ Shaped(tree', members \cup {x}) /\ Parent(tree', Nil) = Parent(tree, Nil)
          /\ \A z \in Cells : Key(tree', z) = IF z = x THEN key ELSE Key(tree, z)
      BY <2>1, <3>1, InsertShaped
    <3>4. Coloured(tree', members \cup {x})
      BY <2>1, <3>1, InsertColoured
    <3>3. \A z \in members \cup {x} : Key(tree', z) \in KeysOf[z]
      BY <2>1, <2>2, <3>2
    <3> QED
      BY <2>1, <2>3, <3>1, <3>2, <3>3, <3>4
  <2>5. ASSUME NEW x \in Nodes, Delete(x) PROVE IInv'
    <3>1. tree' = DeleteNode(tree, x) /\ members' = Others(members, x)
          /\ Others(members, x) \subseteq members
      BY <2>5 DEF Delete, Others
    <3>2. /\ Shaped(tree', Others(members, x)) /\ Parent(tree', Nil) = Nil
          /\ \A z \in Cells : Key(tree', z) = Key(tree, z)
      BY <2>1, <3>1, DeleteShaped
    <3>3. Coloured(tree', Others(members, x))
      BY <2>1, <3>1, DeleteColoured
    <3> QED
      BY <2>1, <2>2, <2>3, <3>1, <3>2, <3>3
  <2>6. ASSUME NEW now \in Keys, Expire(now) PROVE IInv'
    <3>1. tree' = DeleteDue(tree, now) /\ members' = Late(tree, members, now)
          /\ Late(tree, members, now) \subseteq members
      BY <2>6 DEF Expire, Late, Key
    <3>2. now \in Nat
      BY <2>2 DEF Keys
    <3>3. /\ Shaped(tree', Late(tree, members, now)) /\ Coloured(tree', Late(tree, members, now))
          /\ Parent(tree', Nil) = Nil
          /\ \A z \in Cells : Key(tree', z) = Key(tree, z)
      BY <2>1, <3>1, <3>2, DeleteDueShaped
    <3> QED
      BY <2>1, <2>2, <2>3, <3>1, <3>3
  <2>7. CASE UNCHANGED vars
    BY <1>2, <2>7 DEF IInv, vars
  <2> QED
    BY <1>2, <2>4, <2>5, <2>6, <2>7 DEF Next
<1> QED
  BY <1>1, <1>2, PTL DEF Spec

\* A tree has all its fields, and a member the key it was inserted with
\* (rbtree_insert, rbtree_delete and server_start_loop's walk over the timers).
THEOREM Types == Spec => []TypeOK
<1>1. IInv => TypeOK
  BY DEF IInv, TypeOK, Shaped, Kin, Key
<1> QED
  BY <1>1, Inductive, PTL

\* rbtree_search finds a member with the key, and nothing where there is none.
THEOREM SearchesExactly == Spec => []SearchExact
<1>1. ASSUME IInv PROVE SearchExact
  <2>1. Shaped(tree, members)
    BY <1>1 DEF IInv
  <2>2. ASSUME NEW key \in Keys
        PROVE  LET x == Search(tree, key) IN
               IF \E m \in members : tree.key[m] = key
                 THEN x \in members /\ tree.key[x] = key
                 ELSE x = Null
    <3>1. key \in Nat
      BY KeyAssumption DEF Keys
    <3> QED
      BY <2>1, <3>1, SearchIs DEF Key
  <2> QED
    BY <2>2 DEF SearchExact
<1> QED
  BY <1>1, Inductive, PTL

\* rbtree_min and rbtree_next visit every member once, in the order of the keys.
THEOREM WalksAll == Spec => []WalkVisitsAll
<1>1. ASSUME IInv PROVE WalkVisitsAll
  <2>1. Shaped(tree, members)
    BY <1>1 DEF IInv
  <2> QED
    BY <2>1, WalkIs DEF WalkVisitsAll, Key
<1> QED
  BY <1>1, Inductive, PTL


\* What Balanced counts, from the sentinel up: a node is known once its children are.
LEMMA BlackHeightsIs ==
  ASSUME NEW M, NEW g, NEW h, M = members, Kin(tree, M), Placed(tree, M, g), Coloured(tree, M),
         Heights(tree, M, h, Nil, "left")
  PROVE  BlackHeights[Root(tree)] = Hgt(h, Root(tree))
<1> DEFINE n == Cardinality(Cells)
           round == [f \in [Cells -> Nat] |->
                      [x \in Cells |-> IF x = Nil THEN 1
                                       ELSE IF x \in members THEN BlackBelow(f, x) ELSE 0]]
           Known(f, k) == \A x \in M \cup {Nil} : Size(g, M, x) < k => f[x] = Hgt(h, x)
           A == [k \in 0 .. n |-> {f \in [Cells -> Nat] : Known(f, k)}]
           start == [x \in Cells |-> 0]
<1>1. M \subseteq Cells /\ Nil \in Cells /\ Nil \notin M /\ Root(tree) \in M \cup {Nil}
  BY KinCells DEF Kin
<1>2. n \in Nat /\ Cardinality(M) \in Nat /\ Cardinality(M) < n /\ IsFiniteSet(M)
  BY CellsFinite DEF Kin
<1>3. \A x \in M \cup {Nil} : Size(g, M, x) \in Nat
  BY SizeIs
<1>4. Hgt(h, Nil) = 1 /\ \A x \in M : Hgt(h, x) \in Nat \ {0}
  BY DEF Heights
<1>5. ASSUME NEW x \in M, NEW f \in [Cells -> Nat]
      PROVE  /\ BlackBelow(f, x) \in Nat
             /\ (\A d \in Sides : f[Child(tree, d, x)] = Hgt(h, Child(tree, d, x)))
                  => BlackBelow(f, x) = Hgt(h, x)
  <2> DEFINE a == Child(tree, "left", x)
             b == Child(tree, "right", x)
  <2>1. a \in M \cup {Nil} /\ b \in M \cup {Nil} /\ tree.left[x] = a /\ tree.right[x] = b
    BY DEF Kin, Sides, Child
  <2>2. ~ (Red(tree, x) /\ (Red(tree, a) \/ Red(tree, b)))
    BY DEF Coloured, RedPair, Sides
  <2>3. Hgt(h, x) = Hgt(h, a) + Tint(tree, x) /\ Hgt(h, x) = Hgt(h, b) + Tint(tree, x)
    <3>1. Level(tree, h, x, "left", Nil, "left") /\ Level(tree, h, x, "right", Nil, "left")
      BY DEF Heights, Sides
    <3>2. Owed(x, "left", Nil, "left") = 0 /\ Owed(x, "right", Nil, "left") = 0
      BY <1>1, OwedIs
    <3>3. Hgt(h, a) \in Nat /\ Hgt(h, b) \in Nat /\ Tint(tree, x) \in Nat
      BY <1>4, <2>1, TintIs
    <3> QED
      BY <3>1, <3>2, <3>3 DEF Level
  <2>4. BlackBelow(f, x) = IF f[a] # f[b] \/ f[a] = 0 THEN 0
                           ELSE IF Red(tree, x) THEN f[a] ELSE f[a] + 1
    BY <2>1, <2>2 DEF BlackBelow
  <2>5. f[a] \in Nat /\ f[b] \in Nat /\ Hgt(h, a) \in Nat \ {0} /\ Hgt(h, b) \in Nat \ {0}
    BY <1>1, <1>4, <2>1
  <2>6. BlackBelow(f, x) \in Nat
    BY <2>4, <2>5
  <2>7. ASSUME f[a] = Hgt(h, a), f[b] = Hgt(h, b) PROVE BlackBelow(f, x) = Hgt(h, x)
    <3>1. Hgt(h, a) = Hgt(h, b)
      BY <2>3, <2>5, TintIs
    <3>2. BlackBelow(f, x) = IF Red(tree, x) THEN Hgt(h, a) ELSE Hgt(h, a) + 1
      BY <2>4, <2>5, <2>7, <3>1
    <3> QED
      BY <2>3, <2>5, <3>2, TintIs
  <2> QED
    BY <2>6, <2>7 DEF Sides
<1>6. ASSUME NEW k \in 0 .. n - 1, NEW f \in [Cells -> Nat], Known(f, k)
      PROVE  round[f] \in [Cells -> Nat] /\ Known(round[f], k + 1)
  <2>1. \A x \in Cells : round[f][x] = IF x = Nil THEN 1
                                       ELSE IF x \in M THEN BlackBelow(f, x) ELSE 0
    OBVIOUS
  <2>2. round[f] \in [Cells -> Nat]
    BY <1>5
  <2>3. ASSUME NEW x \in M, Size(g, M, x) < k + 1 PROVE round[f][x] = Hgt(h, x)
    <3>1. ASSUME NEW d \in Sides PROVE f[Child(tree, d, x)] = Hgt(h, Child(tree, d, x))
      <4>1. Child(tree, d, x) \in M \cup {Nil} /\ Size(g, M, Child(tree, d, x)) < Size(g, M, x)
        BY <1>1, SizeIs DEF Kin
      <4>2. Size(g, M, Child(tree, d, x)) < k
        BY <1>2, <1>3, <2>3, <4>1
      <4> QED
        BY <1>6, <4>1, <4>2
    <3>2. BlackBelow(f, x) = Hgt(h, x)
      BY <1>5, <3>1
    <3> HIDE DEF round
    <3> QED
      BY <1>1, <2>1, <3>2
  <2>4. round[f][Nil] = Hgt(h, Nil)
    BY <1>1, <1>4, <2>1
  <2> HIDE DEF round
  <2> QED
    BY <2>2, <2>3, <2>4
<1>7. start \in A[0]
  <2>1. start \in [Cells -> Nat] /\ 0 \in 0 .. n
    BY <1>2
  <2>2. Known(start, 0)
    BY <1>3
  <2> HIDE DEF start, Known
  <2> QED
    BY <2>1, <2>2
<1>8. \A k \in 0 .. n - 1 : \A f \in A[k] : round[f] \in A[k+1]
  <2> SUFFICES ASSUME NEW k \in 0 .. n - 1, NEW f \in A[k] PROVE round[f] \in A[k+1]
    OBVIOUS
  <2>1. k \in 0 .. n /\ k + 1 \in 0 .. n
    BY <1>2
  <2> HIDE DEF round, Known
  <2>2. f \in [Cells -> Nat] /\ Known(f, k)
    BY <2>1
  <2>3. round[f] \in [Cells -> Nat] /\ Known(round[f], k + 1)
    BY <1>6, <2>2
  <2> QED
    BY <2>1, <2>3
<1> DEFINE end == Repeat(round, start)
<1>9. BlackHeights = end
  BY DEF BlackHeights
<1>10. end \in A[n]
  <2> HIDE DEF round, start, A
  <2> QED
    BY <1>7, <1>8, RepeatKeeps
<1>11. Known(end, n)
  <2> HIDE DEF end, Known
  <2> QED
    BY <1>2, <1>10
<1> HIDE DEF end
<1>12. Size(g, M, Root(tree)) < n
  <2>1. Under(g, M, Root(tree)) \subseteq M
    BY DEF Under
  <2>2. Cardinality(Under(g, M, Root(tree))) <= Cardinality(M)
    BY <1>2, <2>1, FS_Subset
  <2>3. Size(g, M, Root(tree)) \in Nat
    BY <1>1, <1>3
  <2>4. Size(g, M, Root(tree)) <= Cardinality(M)
    BY <1>2, <2>2, <2>3 DEF Size
  <2> QED
    BY <1>2, <2>3, <2>4
<1> QED
  BY <1>1, <1>9, <1>11, <1>12

\* rbtree_insert_fixup and rbtree_delete_fixup keep the tree balanced: no red node has
\* a red child, and every way down has as many black nodes.
THEOREM StaysBalanced == Spec => []Balanced
<1>1. ASSUME IInv PROVE Balanced
  <2>1. Shaped(tree, members) /\ Coloured(tree, members)
    BY <1>1 DEF IInv
  <2>2. Kin(tree, members)
    BY <2>1 DEF Shaped
  <2>3. PICK g : Placed(tree, members, g)
    BY <2>1 DEF Shaped
  <2>4. PICK h : Heights(tree, members, h, Nil, "left")
    BY <2>1 DEF Coloured
  <2>5. BlackHeights[Root(tree)] = Hgt(h, Root(tree))
    BY <2>1, <2>2, <2>3, <2>4, BlackHeightsIs
  <2>6. Hgt(h, Root(tree)) # 0
    BY <2>2, <2>4 DEF Kin, Heights
  <2>7. ~ Red(tree, Root(tree))
    BY <2>1 DEF Coloured
  <2> QED
    BY <2>5, <2>6, <2>7 DEF Balanced, Root
<1> QED
  BY <1>1, Inductive, PTL

\* The pointers of members agree, those of others are null, and the sentinel is left
\* black and pointing at itself (rbtree_delete's resets).
THEOREM StaysLinked == Spec => []Linked
<1>1. ASSUME IInv PROVE Linked
  <2>1. Kin(tree, members) /\ ~ Red(tree, Nil) /\ Parent(tree, Nil) = Nil
    BY <1>1 DEF IInv, Shaped, Coloured
  <2>2. ASSUME NEW x \in members
        PROVE  /\ \A c \in {tree.left[x], tree.right[x]} \ {Nil} : tree.parent[c] = x
               /\ (tree.parent[x] = Nil) <=> (x = tree.root)
    <3>1. \A d \in Sides : Child(tree, d, x) # Nil => Parent(tree, Child(tree, d, x)) = x
      BY <2>1 DEF Kin
    <3>2. (Parent(tree, x) = Nil) <=> (x = Root(tree))
      BY <2>1 DEF Kin
    <3> QED
      BY <3>1, <3>2 DEF Sides, Child, Parent, Root
  <2>3. ASSUME NEW x \in Nodes \ members
        PROVE  {tree.left[x], tree.right[x], tree.parent[x]} = {Null}
    <3>1. Parent(tree, x) = Null /\ \A d \in Sides : Child(tree, d, x) = Null
      BY <2>1 DEF Kin
    <3> QED
      BY <3>1 DEF Sides, Child, Parent
  <2>4. {tree.left[Nil], tree.right[Nil], tree.parent[Nil]} = {Nil}
    <3>1. \A d \in Sides : Child(tree, d, Nil) = Nil
      BY <2>1 DEF Kin
    <3> QED
      BY <2>1, <3>1 DEF Sides, Child, Parent
  <2> QED
    BY <2>1, <2>2, <2>3, <2>4 DEF Linked
<1> QED
  BY <1>1, Inductive, PTL
=============================================================================
