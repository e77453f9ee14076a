---------------------------- MODULE QueueProofs ----------------------------
(* Proofs that the lists of queue.h stay the rings they are meant to be, for  *)
(* any number of heads and nodes.                                             *)
EXTENDS Queue, TLAPS

----------------------------------------------------------------------------
(* Rings.  A list of n nodes is a function a on 0 .. n: the head is a[0].     *)

Follows(k, n) == IF k = n THEN 0 ELSE k+1

\* nx and pv lead around a, both ways.
Around(nx, pv, a, n) ==
  \A k \in 0 .. n : nx[a[k]] = a[Follows(k, n)] /\ pv[a[Follows(k, n)]] = a[k]

\* A ring has every cell once.
IsRing(a, n) ==
  /\ n \in Nat
  /\ a \in [0 .. n -> Cells]
  /\ \A j, k \in 0 .. n : a[j] = a[k] => j = k

LEMMA FollowsRange ==
  ASSUME NEW n \in Nat, NEW k \in 0 .. n
  PROVE  /\ Follows(k, n) \in 0 .. n
         /\ k = n => Follows(k, n) = 0
         /\ k < n => Follows(k, n) = k+1
BY DEF Follows

\* Cells that are not in the ring may change.
LEMMA AroundKept ==
  ASSUME NEW n, NEW a, IsRing(a, n), NEW nx, NEW pv, Around(nx, pv, a, n), NEW nx1, NEW pv1,
         \A k \in 0 .. n : nx1[a[k]] = nx[a[k]] /\ pv1[a[k]] = pv[a[k]]
  PROVE  Around(nx1, pv1, a, n)
BY FollowsRange DEF Around, IsRing

\* The first and the last node are next to the head.
LEMMA AroundEnds ==
  ASSUME NEW n, NEW a, IsRing(a, n), NEW nx, NEW pv, Around(nx, pv, a, n)
  PROVE  /\ pv[a[0]] = a[n] /\ nx[a[n]] = a[0]
         /\ nx[a[0]] = a[Follows(0, n)]
         /\ \A k \in 1 .. n : pv[a[k]] = a[k-1] /\ nx[a[k-1]] = a[k]
<1>1. n \in Nat /\ 0 \in 0 .. n /\ n \in 0 .. n
  BY DEF IsRing
<1>2. ASSUME NEW k \in 1 .. n PROVE pv[a[k]] = a[k-1] /\ nx[a[k-1]] = a[k]
  <2>1. k-1 \in 0 .. n /\ Follows(k-1, n) = k
    BY <1>1 DEF Follows
  <2> QED
    BY <2>1 DEF Around
<1>3. Follows(n, n) = 0
  BY DEF Follows
<1> QED
  BY <1>1, <1>2, <1>3 DEF Around

LEMMA TailRing ==
  ASSUME NEW n, NEW a, IsRing(a, n), NEW nx \in [Cells -> Cells], NEW pv \in [Cells -> Cells],
         Around(nx, pv, a, n), NEW x \in Cells, \A k \in 0 .. n : a[k] # x,
         NEW b \in [0 .. n+1 -> Cells], \A k \in 0 .. n : b[k] = a[k], b[n+1] = x
  PROVE  /\ IsRing(b, n+1)
         /\ Around([nx EXCEPT ![pv[a[0]]] = x, ![x] = a[0]],
                   [pv EXCEPT ![x] = pv[a[0]], ![a[0]] = x], b, n+1)
<1> DEFINE nx1 == [nx EXCEPT ![pv[a[0]]] = x, ![x] = a[0]]
           pv1 == [pv EXCEPT ![x] = pv[a[0]], ![a[0]] = x]
<1>1. n \in Nat /\ a \in [0 .. n -> Cells] /\ \A j, k \in 0 .. n : a[j] = a[k] => j = k
  BY DEF IsRing
<1>2. IsRing(b, n+1)
  BY <1>1 DEF IsRing
<1>3. pv[a[0]] = a[n] /\ a[0] \in Cells /\ a[n] \in Cells /\ a[0] # x /\ a[n] # x
  BY <1>1, AroundEnds
<1>4. /\ nx1[a[n]] = x /\ nx1[x] = a[0] /\ \A c \in Cells \ {a[n], x} : nx1[c] = nx[c]
      /\ pv1[x] = a[n] /\ pv1[a[0]] = x /\ \A c \in Cells \ {a[0], x} : pv1[c] = pv[c]
  BY <1>3
<1> HIDE DEF nx1, pv1
<1>5. ASSUME NEW k \in 0 .. n+1
      PROVE  nx1[b[k]] = b[Follows(k, n+1)] /\ pv1[b[Follows(k, n+1)]] = b[k]
  <2>1. CASE k = n+1
    BY <1>1, <1>4, <2>1 DEF Follows
  <2>2. CASE k = n
    BY <1>1, <1>4, <2>2 DEF Follows
  <2>3. CASE k < n
    <3>1. Follows(k, n+1) = k+1 /\ k+1 \in 1 .. n /\ k+1-1 = k /\ b[k+1] = a[k+1] /\ b[k] = a[k]
      BY <1>1, <2>3 DEF Follows
    <3>2. nx[a[k]] = a[k+1] /\ pv[a[k+1]] = a[k]
      BY <3>1, AroundEnds
    <3>3. a[k] \in Cells \ {a[n], x} /\ a[k+1] \in Cells \ {a[0], x}
      BY <1>1, <2>3, <3>1
    <3> QED
      BY <1>4, <3>1, <3>2, <3>3
  <2> QED
    BY <1>1, <2>1, <2>2, <2>3
<1>6. Around(nx1, pv1, b, n+1)
  BY <1>5 DEF Around
<1> QED
  BY <1>2, <1>6 DEF nx1, pv1

LEMMA HeadRing ==
  ASSUME NEW n, NEW a, IsRing(a, n), NEW nx \in [Cells -> Cells], NEW pv \in [Cells -> Cells],
         Around(nx, pv, a, n), NEW x \in Cells, \A k \in 0 .. n : a[k] # x,
         NEW b \in [0 .. n+1 -> Cells], b[0] = a[0], b[1] = x, \A k \in 2 .. n+1 : b[k] = a[k-1]
  PROVE  /\ IsRing(b, n+1)
         /\ Around([nx EXCEPT ![x] = nx[a[0]], ![a[0]] = x],
                   [pv EXCEPT ![nx[a[0]]] = x, ![x] = a[0]], b, n+1)
<1> DEFINE nx1 == [nx EXCEPT ![x] = nx[a[0]], ![a[0]] = x]
           pv1 == [pv EXCEPT ![nx[a[0]]] = x, ![x] = a[0]]
           first == a[Follows(0, n)]
<1>1. n \in Nat /\ a \in [0 .. n -> Cells] /\ \A j, k \in 0 .. n : a[j] = a[k] => j = k
  BY DEF IsRing
<1>2. IsRing(b, n+1)
  <2>1. ASSUME NEW k \in 0 .. n+1
        PROVE  k = 0 \/ k = 1 \/ (k \in 2 .. n+1 /\ k-1 \in 1 .. n /\ b[k] = a[k-1])
    BY <1>1
  <2>2. ASSUME NEW j \in 0 .. n+1, NEW k \in 0 .. n+1, b[j] = b[k] PROVE j = k
    BY <1>1, <2>1, <2>2
  <2> QED
    BY <1>1, <2>2 DEF IsRing
<1>3. /\ nx[a[0]] = first /\ a[0] \in Cells /\ first \in Cells /\ a[0] # x /\ first # x
      /\ pv[a[0]] = a[n] /\ nx[a[n]] = a[0]
      /\ n = 0 => first = a[0]
      /\ n # 0 => first = a[1]
  <2>1. Follows(0, n) \in 0 .. n /\ (n = 0 => Follows(0, n) = 0) /\ (n # 0 => Follows(0, n) = 1)
    BY <1>1 DEF Follows
  <2> QED
    BY <1>1, <2>1, AroundEnds
<1> HIDE DEF first
<1>4. /\ nx1[x] = first /\ nx1[a[0]] = x /\ \A c \in Cells \ {a[0], x} : nx1[c] = nx[c]
      /\ pv1[first] = x /\ pv1[x] = a[0] /\ \A c \in Cells \ {first, x} : pv1[c] = pv[c]
  BY <1>3
<1> HIDE DEF nx1, pv1
<1>5. ASSUME NEW k \in 0 .. n+1
      PROVE  nx1[b[k]] = b[Follows(k, n+1)] /\ pv1[b[Follows(k, n+1)]] = b[k]
  <2>1. CASE k = 0
    BY <1>1, <1>4, <2>1 DEF Follows
  <2>2. CASE k = 1
    <3>1. b[Follows(1, n+1)] = first
      BY <1>1, <1>3 DEF Follows
    <3> QED
      BY <1>4, <2>2, <3>1
  <2>3. CASE k = n+1 /\ k # 1 /\ k # 0
    <3>1. Follows(k, n+1) = 0 /\ b[k] = a[n] /\ n \in 1 .. n
      BY <1>1, <2>3 DEF Follows
    <3>2. a[n] \in Cells \ {a[0], x} /\ a[0] \in Cells \ {first, x}
      BY <1>1, <1>3, <3>1
    <3> QED
      BY <1>3, <1>4, <3>1, <3>2
  <2>4. CASE k \in 2 .. n
    <3>1. Follows(k, n+1) = k+1 /\ k \in 1 .. n /\ b[k+1] = a[k] /\ b[k] = a[k-1] /\ k-1 \in 1 .. n
      BY <1>1, <2>4 DEF Follows
    <3>2. nx[a[k-1]] = a[k] /\ pv[a[k]] = a[k-1]
      BY <3>1, AroundEnds
    <3>3. a[k-1] \in Cells \ {a[0], x} /\ a[k] \in Cells \ {first, x}
      BY <1>1, <1>3, <2>4, <3>1
    <3> QED
      BY <1>4, <3>1, <3>2, <3>3
  <2> QED
    BY <1>1, <2>1, <2>2, <2>3, <2>4
<1>6. Around(nx1, pv1, b, n+1)
  BY <1>5 DEF Around
<1> QED
  BY <1>2, <1>6 DEF nx1, pv1

LEMMA RemovedRing ==
  ASSUME NEW n, NEW a, IsRing(a, n), NEW nx \in [Cells -> Cells], NEW pv \in [Cells -> Cells],
         Around(nx, pv, a, n), NEW p \in 1 .. n,
         NEW b \in [0 .. n-1 -> Cells],
         \A k \in 0 .. n-1 : b[k] = IF k < p THEN a[k] ELSE a[k+1]
  PROVE  /\ IsRing(b, n-1)
         /\ Around([nx EXCEPT ![pv[a[p]]] = nx[a[p]], ![a[p]] = a[p]],
                   [pv EXCEPT ![nx[a[p]]] = pv[a[p]], ![a[p]] = a[p]], b, n-1)
<1> DEFINE nx1 == [nx EXCEPT ![pv[a[p]]] = nx[a[p]], ![a[p]] = a[p]]
           pv1 == [pv EXCEPT ![nx[a[p]]] = pv[a[p]], ![a[p]] = a[p]]
           after == a[Follows(p, n)]
<1>1. n \in Nat /\ a \in [0 .. n -> Cells] /\ \A j, k \in 0 .. n : a[j] = a[k] => j = k
  BY DEF IsRing
<1>2. IsRing(b, n-1)
  BY <1>1 DEF IsRing
<1>3. /\ nx[a[p]] = after /\ pv[a[p]] = a[p-1] /\ a[p-1] \in Cells /\ after \in Cells /\ a[p] \in Cells
      /\ after # a[p] /\ a[p-1] # a[p]
      /\ p = n => after = a[0]
      /\ p < n => after = a[p+1]
  <2>1. Follows(p, n) \in 0 .. n /\ (p = n => Follows(p, n) = 0) /\ (p < n => Follows(p, n) = p+1)
    BY <1>1 DEF Follows
  <2>2. nx[a[p]] = after
    BY <1>1 DEF Around
  <2>3. Follows(p, n) # p
    BY <1>1, <2>1
  <2> QED
    BY <1>1, <2>1, <2>2, <2>3, AroundEnds
<1> HIDE DEF after
<1>4. /\ nx1[a[p-1]] = after /\ \A c \in Cells \ {a[p-1], a[p]} : nx1[c] = nx[c]
      /\ pv1[after] = a[p-1] /\ \A c \in Cells \ {after, a[p]} : pv1[c] = pv[c]
  BY <1>3
<1> HIDE DEF nx1, pv1
<1>5. ASSUME NEW k \in 0 .. n-1
      PROVE  nx1[b[k]] = b[Follows(k, n-1)] /\ pv1[b[Follows(k, n-1)]] = b[k]
  <2>1. CASE k < p-1
    <3>1. Follows(k, n-1) = k+1 /\ k+1 \in 1 .. n /\ k+1-1 = k /\ b[k+1] = a[k+1] /\ b[k] = a[k]
      BY <1>1, <2>1 DEF Follows
    <3>2. nx[a[k]] = a[k+1] /\ pv[a[k+1]] = a[k]
      BY <3>1, AroundEnds
    <3>3. a[k] \in Cells \ {a[p-1], a[p]} /\ a[k+1] \in Cells \ {after, a[p]}
      BY <1>1, <1>3, <2>1, <3>1
    <3> QED
      BY <1>4, <3>1, <3>2, <3>3
  <2>2. CASE k = p-1
    <3>1. b[k] = a[p-1] /\ b[Follows(k, n-1)] = after
      BY <1>1, <1>3, <2>2 DEF Follows
    <3> QED
      BY <1>4, <3>1
  <2>3. CASE k >= p
    <3>1. b[k] = a[k+1] /\ b[Follows(k, n-1)] = a[Follows(k+1, n)] /\ k+1 \in 0 .. n
          /\ Follows(k+1, n) \in 0 .. n /\ (Follows(k+1, n) = 0 \/ Follows(k+1, n) > p+1)
      BY <1>1, <2>3 DEF Follows
    <3>2. nx[a[k+1]] = a[Follows(k+1, n)] /\ pv[a[Follows(k+1, n)]] = a[k+1]
      BY <3>1 DEF Around
    <3>3. a[k+1] \in Cells \ {a[p-1], a[p]} /\ a[Follows(k+1, n)] \in Cells \ {after, a[p]}
      BY <1>1, <1>3, <2>3, <3>1
    <3> QED
      BY <1>4, <3>1, <3>2, <3>3
  <2> QED
    BY <1>1, <2>1, <2>2, <2>3
<1>6. Around(nx1, pv1, b, n-1)
  BY <1>5 DEF Around
<1> QED
  BY <1>2, <1>6 DEF nx1, pv1

\* What is left of a list that is split at p, ...
LEMMA FrontRing ==
  ASSUME NEW n, NEW a, IsRing(a, n), NEW nx \in [Cells -> Cells], NEW pv \in [Cells -> Cells],
         Around(nx, pv, a, n), NEW p \in 1 .. n, NEW m \in Cells, \A k \in 0 .. n : a[k] # m,
         NEW b \in [0 .. p-1 -> Cells], \A k \in 0 .. p-1 : b[k] = a[k]
  PROVE  /\ IsRing(b, p-1)
         /\ Around([nx EXCEPT ![pv[a[0]]] = m, ![m] = a[p], ![pv[a[p]]] = a[0]],
                   [pv EXCEPT ![m] = pv[a[0]], ![a[0]] = pv[a[p]], ![a[p]] = m], b, p-1)
<1> DEFINE nx1 == [nx EXCEPT ![pv[a[0]]] = m, ![m] = a[p], ![pv[a[p]]] = a[0]]
           pv1 == [pv EXCEPT ![m] = pv[a[0]], ![a[0]] = pv[a[p]], ![a[p]] = m]
<1>1. n \in Nat /\ a \in [0 .. n -> Cells] /\ \A j, k \in 0 .. n : a[j] = a[k] => j = k
  BY DEF IsRing
<1>2. IsRing(b, p-1)
  BY <1>1 DEF IsRing
<1>3. /\ pv[a[0]] = a[n] /\ pv[a[p]] = a[p-1] /\ \A k \in 0 .. n : a[k] \in Cells /\ a[k] # m
      /\ a[n] # a[p-1] /\ a[0] # a[p]
  BY <1>1, AroundEnds, SMTT(20)
<1>4. /\ nx1[a[p-1]] = a[0] /\ \A c \in Cells \ {a[n], a[p-1], m} : nx1[c] = nx[c]
      /\ pv1[a[0]] = a[p-1] /\ \A c \in Cells \ {a[0], a[p], m} : pv1[c] = pv[c]
  BY <1>1, <1>3
<1> HIDE DEF nx1, pv1
<1>5. ASSUME NEW k \in 0 .. p-1
      PROVE  nx1[b[k]] = b[Follows(k, p-1)] /\ pv1[b[Follows(k, p-1)]] = b[k]
  <2>1. CASE k < p-1
    <3>1. Follows(k, p-1) = k+1 /\ k+1 \in 1 .. n /\ k+1-1 = k /\ b[k+1] = a[k+1] /\ b[k] = a[k]
      BY <1>1, <2>1 DEF Follows
    <3>2. nx[a[k]] = a[k+1] /\ pv[a[k+1]] = a[k]
      BY <3>1, AroundEnds
    <3>3. a[k] \in Cells \ {a[n], a[p-1], m} /\ a[k+1] \in Cells \ {a[0], a[p], m}
      BY <1>1, <1>3, <2>1, <3>1
    <3> QED
      BY <1>4, <3>1, <3>2, <3>3
  <2>2. CASE k = p-1
    <3>1. b[k] = a[p-1] /\ b[Follows(k, p-1)] = a[0]
      BY <1>1, <2>2 DEF Follows
    <3> QED
      BY <1>4, <3>1
  <2> QED
    BY <1>1, <2>1, <2>2
<1>6. Around(nx1, pv1, b, p-1)
  BY <1>5 DEF Around
<1> QED
  BY <1>2, <1>6 DEF nx1, pv1

\* ... and what moves to the new head m.
LEMMA BackRing ==
  ASSUME NEW n, NEW a, IsRing(a, n), NEW nx \in [Cells -> Cells], NEW pv \in [Cells -> Cells],
         Around(nx, pv, a, n), NEW p \in 1 .. n, NEW m \in Cells, \A k \in 0 .. n : a[k] # m,
         NEW b \in [0 .. n-p+1 -> Cells], b[0] = m, \A k \in 1 .. n-p+1 : b[k] = a[p-1+k]
  PROVE  /\ IsRing(b, n-p+1)
         /\ Around([nx EXCEPT ![pv[a[0]]] = m, ![m] = a[p], ![pv[a[p]]] = a[0]],
                   [pv EXCEPT ![m] = pv[a[0]], ![a[0]] = pv[a[p]], ![a[p]] = m], b, n-p+1)
<1> DEFINE nx1 == [nx EXCEPT ![pv[a[0]]] = m, ![m] = a[p], ![pv[a[p]]] = a[0]]
           pv1 == [pv EXCEPT ![m] = pv[a[0]], ![a[0]] = pv[a[p]], ![a[p]] = m]
<1>1. n \in Nat /\ a \in [0 .. n -> Cells] /\ \A j, k \in 0 .. n : a[j] = a[k] => j = k
  BY DEF IsRing
<1>2. IsRing(b, n-p+1)
  <2>1. ASSUME NEW k \in 0 .. n-p+1
        PROVE  k = 0 \/ (k \in 1 .. n-p+1 /\ p-1+k \in 1 .. n /\ b[k] = a[p-1+k])
    BY <1>1
  <2>2. ASSUME NEW j \in 0 .. n-p+1, NEW k \in 0 .. n-p+1, b[j] = b[k] PROVE j = k
    BY <1>1, <2>1, <2>2
  <2> QED
    BY <1>1, <2>2 DEF IsRing
<1>3. /\ pv[a[0]] = a[n] /\ pv[a[p]] = a[p-1] /\ \A k \in 0 .. n : a[k] \in Cells /\ a[k] # m
      /\ a[n] # a[p-1] /\ a[0] # a[p]
  BY <1>1, AroundEnds
<1>4. /\ nx1[a[n]] = m /\ nx1[m] = a[p] /\ \A c \in Cells \ {a[n], a[p-1], m} : nx1[c] = nx[c]
      /\ pv1[m] = a[n] /\ pv1[a[p]] = m /\ \A c \in Cells \ {a[0], a[p], m} : pv1[c] = pv[c]
  BY <1>1, <1>3
<1> HIDE DEF nx1, pv1
<1>5. ASSUME NEW k \in 0 .. n-p+1
      PROVE  nx1[b[k]] = b[Follows(k, n-p+1)] /\ pv1[b[Follows(k, n-p+1)]] = b[k]
  <2>1. CASE k = 0
    <3>1. Follows(k, n-p+1) = 1 /\ b[1] = a[p] /\ b[k] = m
      BY <1>1, <2>1 DEF Follows
    <3> QED
      BY <1>4, <3>1
  <2>2. CASE k = n-p+1
    <3>1. Follows(k, n-p+1) = 0 /\ b[k] = a[n]
      BY <1>1, <2>2 DEF Follows
    <3> QED
      BY <1>4, <3>1
  <2>3. CASE k \in 1 .. n-p
    <3>0. k+1 \in 1 .. n-p+1 /\ p-1+(k+1) = p+k /\ k \in 1 .. n-p+1
      BY <1>1, <2>3
    <3>1. /\ Follows(k, n-p+1) = k+1 /\ p+k \in 1 .. n /\ p+k-1 = p-1+k /\ p-1+k \in 0 .. n
          /\ b[k+1] = a[p+k] /\ b[k] = a[p-1+k]
      <4>1. Follows(k, n-p+1) = k+1 /\ p+k \in 1 .. n /\ p+k-1 = p-1+k /\ p-1+k \in 0 .. n
        BY <1>1, <2>3 DEF Follows
      <4>2. b[k+1] = a[p-1+(k+1)] /\ b[k] = a[p-1+k]
        BY <3>0
      <4> QED
        BY <3>0, <4>1, <4>2
    <3>2. nx[a[p-1+k]] = a[p+k] /\ pv[a[p+k]] = a[p-1+k]
      BY <3>1, AroundEnds
    <3>3. a[p-1+k] \in Cells \ {a[n], a[p-1], m} /\ a[p+k] \in Cells \ {a[0], a[p], m}
      BY <1>1, <1>3, <2>3, <3>1
    <3> QED
      BY <1>4, <3>1, <3>2, <3>3
  <2> QED
    BY <1>1, <2>1, <2>2, <2>3
<1>6. Around(nx1, pv1, b, n-p+1)
  BY <1>5 DEF Around
<1> QED
  BY <1>2, <1>6 DEF nx1, pv1

\* The pointers of queue_add, in the order it assigns them.
Next1(nx, pv, h, n) == [nx EXCEPT ![pv[h]] = nx[n]]
Prev2(nx, pv, h, n) ==
  LET pv1 == [pv EXCEPT ![Next1(nx, pv, h, n)[n]] = pv[h]]
  IN  [pv1 EXCEPT ![h] = pv1[n]]
Next2(nx, pv, h, n) == [Next1(nx, pv, h, n) EXCEPT ![Prev2(nx, pv, h, n)[h]] = h]

LEMMA JoinedRing ==
  ASSUME NEW n, NEW a, IsRing(a, n), NEW m, NEW c, IsRing(c, m),
         \A j \in 0 .. n, k \in 0 .. m : a[j] # c[k],
         NEW nx \in [Cells -> Cells], NEW pv \in [Cells -> Cells],
         Around(nx, pv, a, n), Around(nx, pv, c, m),
         NEW b \in [0 .. n+m -> Cells], \A k \in 0 .. n : b[k] = a[k], \A k \in 1 .. m : b[n+k] = c[k]
  PROVE  /\ IsRing(b, n+m)
         /\ Around(Next2(nx, pv, a[0], c[0]), Prev2(nx, pv, a[0], c[0]), b, n+m)
<1> DEFINE nx2 == Next2(nx, pv, a[0], c[0])
           pv2 == Prev2(nx, pv, a[0], c[0])
<1>1. /\ n \in Nat /\ a \in [0 .. n -> Cells] /\ \A j, k \in 0 .. n : a[j] = a[k] => j = k
      /\ m \in Nat /\ c \in [0 .. m -> Cells] /\ \A j, k \in 0 .. m : c[j] = c[k] => j = k
  BY DEF IsRing
<1>2. IsRing(b, n+m)
  <2>1. ASSUME NEW k \in 0 .. n+m
        PROVE  \/ k \in 0 .. n /\ b[k] = a[k]
               \/ k > n /\ k-n \in 1 .. m /\ b[k] = c[k-n]
    <3>1. CASE k > n
      <4>1. k-n \in 1 .. m /\ n+(k-n) = k
        BY <1>1, <3>1
      <4>2. b[n+(k-n)] = c[k-n]
        BY <4>1
      <4> QED
        BY <3>1, <4>1, <4>2
    <3> QED
      BY <1>1, <3>1
  <2>2. ASSUME NEW j \in 0 .. n+m, NEW k \in 0 .. n+m, b[j] = b[k] PROVE j = k
    BY <1>1, <2>1, <2>2
  <2> QED
    BY <1>1, <2>2 DEF IsRing
<1>3. CASE m = 0
  <2>1. nx[c[0]] = c[0] /\ pv[c[0]] = c[0] /\ pv[a[0]] = a[n] /\ nx[a[n]] = a[0]
    BY <1>1, <1>3, AroundEnds
  <2>2. \A k \in 0 .. n : nx2[a[k]] = nx[a[k]] /\ pv2[a[k]] = pv[a[k]]
    BY <1>1, <1>3, <2>1 DEF Next1, Prev2, Next2
  <2>3. Around(nx2, pv2, a, n)
    BY <2>2, AroundKept
  <2>4. \A k \in 0 .. n : Follows(k, n) \in 0 .. n
    BY <1>1, FollowsRange
  <2>5. Around(nx2, pv2, b, n)
    BY <2>3, <2>4 DEF Around
  <2> QED
    BY <1>1, <1>2, <1>3, <2>5
<1>4. CASE m # 0
  <2>1. nx[c[0]] = c[1] /\ pv[c[0]] = c[m] /\ pv[a[0]] = a[n] /\ nx[a[n]] = a[0] /\ 1 \in 1 .. m
    <3>1. Follows(0, m) = 1 /\ 1 \in 1 .. m
      BY <1>1, <1>4 DEF Follows
    <3> QED
      BY <3>1, AroundEnds
  <2>2. /\ nx2[a[n]] = c[1] /\ nx2[c[m]] = a[0]
        /\ \A d \in Cells \ {a[n], c[m]} : nx2[d] = nx[d]
        /\ pv2[c[1]] = a[n] /\ pv2[a[0]] = c[m]
        /\ \A d \in Cells \ {c[1], a[0]} : pv2[d] = pv[d]
    BY <1>1, <1>4, <2>1 DEF Next1, Prev2, Next2
  <2> HIDE DEF nx2, pv2
  <2>3. ASSUME NEW k \in 0 .. n+m
        PROVE  nx2[b[k]] = b[Follows(k, n+m)] /\ pv2[b[Follows(k, n+m)]] = b[k]
    <3>1. CASE k < n
      <4>1. Follows(k, n+m) = k+1 /\ k+1 \in 1 .. n /\ k+1-1 = k /\ b[k+1] = a[k+1] /\ b[k] = a[k]
        BY <1>1, <3>1 DEF Follows
      <4>2. nx[a[k]] = a[k+1] /\ pv[a[k+1]] = a[k]
        BY <4>1, AroundEnds
      <4>3. a[k] \in Cells \ {a[n], c[m]} /\ a[k+1] \in Cells \ {c[1], a[0]}
        BY <1>1, <2>1, <3>1, <4>1
      <4> QED
        BY <2>2, <4>1, <4>2, <4>3
    <3>2. CASE k = n
      <4>1. Follows(k, n+m) = n+1 /\ b[n+1] = c[1] /\ b[k] = a[n]
        BY <1>1, <1>4, <3>2 DEF Follows
      <4> QED
        BY <2>2, <4>1
    <3>3. CASE k = n+m
      <4>1. Follows(k, n+m) = 0 /\ b[0] = a[0] /\ b[k] = c[m]
        BY <1>1, <1>4, <3>3 DEF Follows
      <4> QED
        BY <2>2, <4>1
    <3>4. CASE k \in n+1 .. n+m-1
      <4>1. PICK j \in 1 .. m-1 : k = n+j
        <5>1. k-n \in 1 .. m-1 /\ k = n+(k-n)
          BY <1>1, <3>4
        <5> QED
          BY <5>1
      <4>2. Follows(k, n+m) = n+(j+1) /\ j+1 \in 1 .. m /\ j+1-1 = j /\ j \in 1 .. m
        BY <1>1, <4>1 DEF Follows
      <4>3. b[k] = c[j] /\ b[n+(j+1)] = c[j+1]
        BY <4>1, <4>2
      <4>4. nx[c[j]] = c[j+1] /\ pv[c[j+1]] = c[j]
        BY <4>2, AroundEnds
      <4>5. c[j] \in Cells \ {a[n], c[m]} /\ c[j+1] \in Cells \ {c[1], a[0]}
        BY <1>1, <2>1, <4>1, <4>2
      <4> QED
        BY <2>2, <4>2, <4>3, <4>4, <4>5
    <3>5. k < n \/ k = n \/ k = n+m \/ k \in n+1 .. n+m-1
      BY <1>1
    <3> QED
      BY <3>1, <3>2, <3>3, <3>4, <3>5
  <2>4. Around(nx2, pv2, b, n+m)
    BY <2>3 DEF Around
  <2> QED
    BY <1>2, <2>4 DEF nx2, pv2
<1> QED
  BY <1>3, <1>4

----------------------------------------------------------------------------
(* The invariant.                                                           *)

RingOf(h, q) == [k \in 0 .. Len(q) |-> IF k = 0 THEN h ELSE q[k]]

\* A node has one place, in one list; a head that is not in use has no list.
Apart ==
  /\ \A g, h \in Heads : \A j \in DOMAIN list[g], k \in DOMAIN list[h] :
       list[g][j] = list[h][k] => g = h /\ j = k
  /\ \A h \in Heads : h \notin live => list[h] = <<>>

LinkedAt(h) == Around(next, prev, RingOf(h, list[h]), Len(list[h]))

IInv ==
  /\ TypeOK
  /\ Apart
  /\ OthersAlone
  /\ \A h \in live : LinkedAt(h)

LEMMA RingCells ==
  ASSUME NEW h \in Heads, NEW q \in Seq(Nodes)
  PROVE  /\ Len(q) \in Nat
         /\ RingOf(h, q) \in [0 .. Len(q) -> Cells]
         /\ RingOf(h, q)[0] = h
         /\ \A k \in 1 .. Len(q) : k \in DOMAIN q /\ RingOf(h, q)[k] = q[k] /\ q[k] \in Nodes
<1>1. Len(q) \in Nat /\ \A k \in 1 .. Len(q) : k \in DOMAIN q /\ q[k] \in Nodes
  OBVIOUS
<1>2. \A k \in 0 .. Len(q) : k = 0 \/ k \in 1 .. Len(q)
  BY <1>1
<1> QED
  BY <1>1, <1>2 DEF RingOf, Cells

LEMMA ListRing ==
  ASSUME IInv, NEW h \in Heads
  PROVE  /\ IsRing(RingOf(h, list[h]), Len(list[h]))
         /\ Len(list[h]) \in Nat
         /\ RingOf(h, list[h])[0] = h
         /\ \A k \in 1 .. Len(list[h]) :
              /\ k \in DOMAIN list[h] /\ list[h][k] \in Nodes
              /\ RingOf(h, list[h])[k] = list[h][k]
<1>1. list[h] \in Seq(Nodes)
  BY DEF IInv, TypeOK
<1>2. /\ Len(list[h]) \in Nat
      /\ RingOf(h, list[h]) \in [0 .. Len(list[h]) -> Cells]
      /\ RingOf(h, list[h])[0] = h
      /\ \A k \in 1 .. Len(list[h]) :
           k \in DOMAIN list[h] /\ RingOf(h, list[h])[k] = list[h][k] /\ list[h][k] \in Nodes
  BY <1>1, RingCells
<1>3. \A k \in 0 .. Len(list[h]) : k = 0 \/ k \in 1 .. Len(list[h])
  BY <1>2
<1>4. \A j, k \in 0 .. Len(list[h]) : RingOf(h, list[h])[j] = RingOf(h, list[h])[k] => j = k
  BY <1>2, <1>3, CellAssumption DEF IInv, Apart
<1> QED
  BY <1>2, <1>4 DEF IsRing

\* Two lists have no cell in common.
LEMMA RingsApart ==
  ASSUME IInv, NEW g \in Heads, NEW h \in Heads, g # h,
         NEW j \in 0 .. Len(list[g]), NEW k \in 0 .. Len(list[h])
  PROVE  RingOf(g, list[g])[j] # RingOf(h, list[h])[k]
<1>1. (j = 0 \/ j \in 1 .. Len(list[g])) /\ (k = 0 \/ k \in 1 .. Len(list[h]))
  BY ListRing
<1> QED
  BY <1>1, ListRing, CellAssumption DEF IInv, Apart

\* A node that is in no list is in no ring.
LEMMA OutsideRings ==
  ASSUME IInv, NEW x \in Nodes, ~ InAnyList(x), NEW g \in live, NEW j \in 0 .. Len(list[g])
  PROVE  RingOf(g, list[g])[j] # x
<1>1. g \in Heads
  BY DEF IInv, TypeOK
<1>2. j = 0 \/ j \in 1 .. Len(list[g])
  BY <1>1, ListRing
<1>3. \A k \in DOMAIN list[g] : list[g][k] # x
  BY DEF InAnyList, ToSet
<1> QED
  BY <1>1, <1>2, <1>3, ListRing, CellAssumption

\* A list whose ring is not touched stays linked.
LEMMA RingUntouched ==
  ASSUME IInv, NEW g \in live, NEW T, NEW nx1, NEW pv1,
         \A d \in Cells \ T : nx1[d] = next[d] /\ pv1[d] = prev[d],
         \A j \in 0 .. Len(list[g]) : RingOf(g, list[g])[j] \notin T
  PROVE  Around(nx1, pv1, RingOf(g, list[g]), Len(list[g]))
<1>1. g \in Heads /\ LinkedAt(g)
  BY DEF IInv, TypeOK
<1>2. IsRing(RingOf(g, list[g]), Len(list[g]))
  BY <1>1, ListRing
<1>3. \A j \in 0 .. Len(list[g]) : RingOf(g, list[g])[j] \in Cells \ T
  BY <1>2 DEF IsRing
<1> QED
  BY <1>1, <1>2, <1>3, AroundKept DEF LinkedAt

\* The ends of a list, and its neighbours.
LEMMA ListEnds ==
  ASSUME IInv, NEW h \in live
  PROVE  /\ prev[h] = RingOf(h, list[h])[Len(list[h])]
         /\ next[h] = RingOf(h, list[h])[Follows(0, Len(list[h]))]
         /\ Len(list[h]) \in 0 .. Len(list[h])
         /\ Follows(0, Len(list[h])) \in 0 .. Len(list[h])
         /\ prev[h] \in Cells /\ next[h] \in Cells /\ h \in Cells /\ h \in Heads
<1>1. h \in Heads /\ LinkedAt(h)
  BY DEF IInv, TypeOK
<1>2. IsRing(RingOf(h, list[h]), Len(list[h])) /\ Len(list[h]) \in Nat /\ RingOf(h, list[h])[0] = h
  BY <1>1, ListRing
<1>3. prev[h] = RingOf(h, list[h])[Len(list[h])]
      /\ next[h] = RingOf(h, list[h])[Follows(0, Len(list[h]))]
  BY <1>1, <1>2, AroundEnds DEF LinkedAt
<1>4. Len(list[h]) \in 0 .. Len(list[h]) /\ Follows(0, Len(list[h])) \in 0 .. Len(list[h])
  BY <1>2, FollowsRange
<1> QED
  BY <1>1, <1>2, <1>3, <1>4 DEF IsRing, Cells

LEMMA InsertTailStep ==
  ASSUME IInv, NEW h \in Heads, NEW x \in Nodes, InsertTail(h, x)
  PROVE  IInv'
<1>1. /\ h \in live /\ ~ InAnyList(x) /\ live' = live
      /\ prev' = [prev EXCEPT ![x] = prev[h], ![h] = x]
      /\ next' = [next EXCEPT ![prev[h]] = x, ![x] = h]
      /\ list' = [list EXCEPT ![h] = Append(@, x)]
  BY DEF InsertTail
<1>2. /\ prev \in [Cells -> Cells] /\ next \in [Cells -> Cells] /\ list \in [Heads -> Seq(Nodes)]
      /\ live \in SUBSET Heads
  BY DEF IInv, TypeOK
<1>3. /\ x \in Cells /\ h \in Cells /\ prev[h] \in Cells /\ x # h /\ prev[h] # x
  <2>1. prev[h] = RingOf(h, list[h])[Len(list[h])] /\ Len(list[h]) \in 0 .. Len(list[h])
        /\ h \in Cells /\ prev[h] \in Cells
    BY <1>1, ListEnds
  <2>2. prev[h] # x
    BY <1>1, <2>1, OutsideRings
  <2> QED
    BY <2>1, <2>2, CellAssumption DEF Cells
<1>4. TypeOK'
  <2>1. Append(list[h], x) \in Seq(Nodes)
    BY <1>2
  <2> QED
    BY <1>1, <1>2, <1>3, <2>1 DEF TypeOK
<1>5. /\ list'[h] = Append(list[h], x) /\ list'[h] \in Seq(Nodes) /\ Len(list'[h]) = Len(list[h])+1
      /\ Len(list[h]) \in Nat /\ DOMAIN list[h] = 1 .. Len(list[h]) /\ DOMAIN list'[h] = 1 .. Len(list[h])+1
      /\ \A k \in 1 .. Len(list[h]) : list'[h][k] = list[h][k]
      /\ list'[h][Len(list[h])+1] = x
      /\ \A g \in Heads \ {h} : list'[g] = list[g]
  <2>1. ASSUME NEW q \in Seq(Nodes), NEW r, r = Append(q, x)
        PROVE  /\ r \in Seq(Nodes) /\ Len(r) = Len(q)+1 /\ Len(q) \in Nat /\ DOMAIN q = 1 .. Len(q)
               /\ DOMAIN r = 1 .. Len(q)+1
               /\ \A k \in 1 .. Len(q) : r[k] = q[k]
               /\ r[Len(q)+1] = x
    BY <2>1
  <2>2. list'[h] = Append(list[h], x) /\ list[h] \in Seq(Nodes) /\ \A g \in Heads \ {h} : list'[g] = list[g]
    BY <1>1, <1>2
  <2> QED
    BY <2>1, <2>2
<1>6. Apart'
  <2>1. \A g \in Heads : \A k \in DOMAIN list[g] : list[g][k] # x
    BY <1>1 DEF InAnyList, ToSet, IInv, Apart
  <2>2. ASSUME NEW g \in Heads, NEW k \in DOMAIN list'[g]
        PROVE  \/ k \in DOMAIN list[g] /\ list'[g][k] = list[g][k]
               \/ g = h /\ k = Len(list[h])+1 /\ list'[g][k] = x
    <3>1. CASE g = h
      <4> DEFINE n == Len(list[h])
      <4>1. n \in Nat /\ k \in 1 .. n+1 /\ DOMAIN list[h] = 1 .. n
        BY <1>5, <3>1
      <4> HIDE DEF n
      <4>2. k \in 1 .. n \/ k = n+1
        BY <4>1
      <4> QED
        BY <1>5, <3>1, <4>1, <4>2 DEF n
    <3>2. CASE g # h
      <4>1. list'[g] = list[g]
        BY <1>5, <3>2
      <4> QED
        BY <4>1
    <3> QED
      BY <3>1, <3>2
  <2>3. ASSUME NEW f \in Heads, NEW g \in Heads, NEW j \in DOMAIN list'[f], NEW k \in DOMAIN list'[g],
               list'[f][j] = list'[g][k]
        PROVE  f = g /\ j = k
    BY <2>1, <2>2, <2>3 DEF IInv, Apart
  <2> QED
    BY <1>1, <1>5, <2>3 DEF Apart, IInv
<1>7. OthersAlone'
  <2> SUFFICES ASSUME NEW y \in Nodes, ~ InAnyList(y)' PROVE prev'[y] = y /\ next'[y] = y
    BY DEF OthersAlone
  <2>1. \A g \in live : \A k \in DOMAIN list'[g] : list'[g][k] # y
    BY <1>1 DEF InAnyList, ToSet
  <2>2. y # x /\ ~ InAnyList(y)
    <3>1. y # x
      BY <1>1, <1>5, <2>1
    <3>2. \A g \in live : \A k \in DOMAIN list[g] : list[g][k] # y
      BY <1>2, <1>5, <2>1
    <3> QED
      BY <3>1, <3>2 DEF InAnyList, ToSet
  <2>3. y # prev[h] /\ y # h /\ y \in Cells
    <3>1. prev[h] = RingOf(h, list[h])[Len(list[h])] /\ Len(list[h]) \in 0 .. Len(list[h])
      BY <1>1, ListEnds
    <3> QED
      BY <1>1, <2>2, <3>1, OutsideRings, CellAssumption DEF Cells
  <2> QED
    BY <1>1, <1>2, <1>3, <2>2, <2>3 DEF IInv, OthersAlone
<1>8. ASSUME NEW g \in live PROVE LinkedAt(g)'
  <2>1. CASE g = h
    <3> DEFINE a == RingOf(h, list[h])
               b == RingOf(h, list'[h])
               n == Len(list[h])
    <3>1. IsRing(a, n) /\ a[0] = h /\ n \in Nat /\ Around(next, prev, a, n)
      BY <1>1, ListRing DEF IInv, LinkedAt
    <3>2. \A k \in 0 .. n : a[k] # x
      BY <1>1, OutsideRings
    <3>3. b \in [0 .. n+1 -> Cells] /\ \A k \in 0 .. n+1 : b[k] = IF k = 0 THEN h ELSE list'[h][k]
      <4>1. b \in [0 .. Len(list'[h]) -> Cells]
        BY <1>5, RingCells
      <4> QED
        BY <1>5, <4>1 DEF RingOf
    <3>4. b[n+1] = x /\ \A k \in 0 .. n : b[k] = a[k]
      BY <1>5, <3>1, <3>3 DEF RingOf
    <3> HIDE DEF a, b, n
    <3>5. Around([next EXCEPT ![prev[a[0]]] = x, ![x] = a[0]],
                 [prev EXCEPT ![x] = prev[a[0]], ![a[0]] = x], b, n+1)
      BY <1>2, <1>3, <3>1, <3>2, <3>3, <3>4, TailRing
    <3>6. Around(next', prev', b, n+1)
      BY <1>1, <3>1, <3>5
    <3> QED
      BY <1>5, <2>1, <3>6 DEF LinkedAt, b, n
  <2>2. CASE g # h
    <3>1. \A d \in Cells \ {x, h, prev[h]} : next'[d] = next[d] /\ prev'[d] = prev[d]
      BY <1>1, <1>2
    <3>2. ASSUME NEW j \in 0 .. Len(list[g])
          PROVE  RingOf(g, list[g])[j] \notin {x, h, prev[h]}
      <4>1. RingOf(g, list[g])[j] # x
        BY <1>1, OutsideRings
      <4>2. /\ g \in Heads /\ Len(list[h]) \in 0 .. Len(list[h]) /\ 0 \in 0 .. Len(list[h])
            /\ h = RingOf(h, list[h])[0] /\ prev[h] = RingOf(h, list[h])[Len(list[h])]
        BY <1>1, <1>2, ListEnds, ListRing
      <4>3. /\ RingOf(g, list[g])[j] # RingOf(h, list[h])[0]
            /\ RingOf(g, list[g])[j] # RingOf(h, list[h])[Len(list[h])]
        BY <2>2, <4>2, RingsApart
      <4> QED
        BY <4>1, <4>2, <4>3
    <3>3. Around(next', prev', RingOf(g, list[g]), Len(list[g]))
      BY <3>1, <3>2, RingUntouched
    <3> QED
      BY <1>2, <1>5, <2>2, <3>3 DEF LinkedAt
  <2> QED
    BY <2>1, <2>2
<1> QED
  BY <1>1, <1>4, <1>6, <1>7, <1>8 DEF IInv

LEMMA InsertHeadStep ==
  ASSUME IInv, NEW h \in Heads, NEW x \in Nodes, InsertHead(h, x)
  PROVE  IInv'
<1>1. /\ h \in live /\ ~ InAnyList(x) /\ live' = live
      /\ prev' = [prev EXCEPT ![next[h]] = x, ![x] = h]
      /\ next' = [next EXCEPT ![x] = next[h], ![h] = x]
      /\ list' = [list EXCEPT ![h] = <<x>> \o @]
  BY DEF InsertHead
<1>2. /\ prev \in [Cells -> Cells] /\ next \in [Cells -> Cells] /\ list \in [Heads -> Seq(Nodes)]
      /\ live \in SUBSET Heads
  BY DEF IInv, TypeOK
<1>3. /\ x \in Cells /\ h \in Cells /\ next[h] \in Cells /\ x # h /\ next[h] # x
  <2>1. next[h] = RingOf(h, list[h])[Follows(0, Len(list[h]))]
        /\ Follows(0, Len(list[h])) \in 0 .. Len(list[h])
        /\ h \in Cells /\ next[h] \in Cells
    BY <1>1, ListEnds
  <2>2. next[h] # x
    BY <1>1, <2>1, OutsideRings
  <2> QED
    BY <2>1, <2>2, CellAssumption DEF Cells
<1>4. TypeOK'
  <2>1. <<x>> \o list[h] \in Seq(Nodes)
    BY <1>2
  <2> QED
    BY <1>1, <1>2, <1>3, <2>1 DEF TypeOK
<1>5. /\ list'[h] \in Seq(Nodes) /\ Len(list'[h]) = Len(list[h])+1
      /\ Len(list[h]) \in Nat /\ DOMAIN list[h] = 1 .. Len(list[h]) /\ DOMAIN list'[h] = 1 .. Len(list[h])+1
      /\ list'[h][1] = x
      /\ \A k \in 2 .. Len(list[h])+1 : list'[h][k] = list[h][k-1]
      /\ \A g \in Heads \ {h} : list'[g] = list[g]
  <2>1. ASSUME NEW q \in Seq(Nodes), NEW r, r = <<x>> \o q
        PROVE  /\ r \in Seq(Nodes) /\ Len(r) = Len(q)+1 /\ Len(q) \in Nat /\ DOMAIN q = 1 .. Len(q)
               /\ DOMAIN r = 1 .. Len(q)+1
               /\ r[1] = x
               /\ \A k \in 2 .. Len(q)+1 : r[k] = q[k-1]
    BY <2>1
  <2>2. list'[h] = <<x>> \o list[h] /\ list[h] \in Seq(Nodes) /\ \A g \in Heads \ {h} : list'[g] = list[g]
    BY <1>1, <1>2
  <2> QED
    BY <2>1, <2>2
<1>6. Apart'
  <2>1. \A g \in Heads : \A k \in DOMAIN list[g] : list[g][k] # x
    BY <1>1 DEF InAnyList, ToSet, IInv, Apart
  <2>2. ASSUME NEW g \in Heads, NEW k \in DOMAIN list'[g]
        PROVE  \/ g # h /\ k \in DOMAIN list[g] /\ list'[g][k] = list[g][k]
               \/ g = h /\ k \in 2 .. Len(list[h])+1 /\ k-1 \in DOMAIN list[g] /\ list'[g][k] = list[g][k-1]
               \/ g = h /\ k = 1 /\ list'[g][k] = x
    BY <1>5
  <2>3. ASSUME NEW f \in Heads, NEW g \in Heads, NEW j \in DOMAIN list'[f], NEW k \in DOMAIN list'[g],
               list'[f][j] = list'[g][k]
        PROVE  f = g /\ j = k
    BY <2>1, <2>2, <2>3 DEF IInv, Apart
  <2> QED
    BY <1>1, <1>5, <2>3 DEF Apart, IInv
<1>7. OthersAlone'
  <2> SUFFICES ASSUME NEW y \in Nodes, ~ InAnyList(y)' PROVE prev'[y] = y /\ next'[y] = y
    BY DEF OthersAlone
  <2>1. \A g \in live : \A k \in DOMAIN list'[g] : list'[g][k] # y
    BY <1>1 DEF InAnyList, ToSet
  <2>2. y # x /\ ~ InAnyList(y)
    <3>1. y # x
      BY <1>1, <1>5, <2>1
    <3>2. ASSUME NEW g \in live, NEW k \in DOMAIN list[g] PROVE list[g][k] # y
      <4>1. CASE g = h
        <5>1. k+1 \in DOMAIN list'[h] /\ k+1 \in 2 .. Len(list[h])+1 /\ k+1-1 = k
          BY <1>5, <4>1
        <5> QED
          BY <1>1, <1>5, <2>1, <4>1, <5>1
      <4>2. CASE g # h
        BY <1>2, <1>5, <2>1, <4>2
      <4> QED
        BY <4>1, <4>2
    <3> QED
      BY <3>1, <3>2 DEF InAnyList, ToSet
  <2>3. y # next[h] /\ y # h /\ y \in Cells
    <3>1. next[h] = RingOf(h, list[h])[Follows(0, Len(list[h]))]
          /\ Follows(0, Len(list[h])) \in 0 .. Len(list[h])
      BY <1>1, ListEnds
    <3> QED
      BY <1>1, <2>2, <3>1, OutsideRings, CellAssumption DEF Cells
  <2> QED
    BY <1>1, <1>2, <1>3, <2>2, <2>3 DEF IInv, OthersAlone
<1>8. ASSUME NEW g \in live PROVE LinkedAt(g)'
  <2>1. CASE g = h
    <3> DEFINE a == RingOf(h, list[h])
               b == RingOf(h, list'[h])
               n == Len(list[h])
    <3>1. IsRing(a, n) /\ a[0] = h /\ n \in Nat /\ Around(next, prev, a, n)
      BY <1>1, ListRing DEF IInv, LinkedAt
    <3>2. \A k \in 0 .. n : a[k] # x
      BY <1>1, OutsideRings
    <3>3. b \in [0 .. n+1 -> Cells] /\ \A k \in 0 .. n+1 : b[k] = IF k = 0 THEN h ELSE list'[h][k]
      <4>1. b \in [0 .. Len(list'[h]) -> Cells]
        BY <1>5, RingCells
      <4> QED
        BY <1>5, <4>1 DEF RingOf
    <3>4. b[0] = a[0] /\ b[1] = x /\ \A k \in 2 .. n+1 : b[k] = a[k-1]
      <4>1. b[0] = a[0] /\ b[1] = x
        BY <1>5, <3>1, <3>3
      <4>2. ASSUME NEW k \in 2 .. n+1 PROVE b[k] = a[k-1]
        <5>1. k \in 0 .. n+1 /\ k # 0 /\ k-1 \in 0 .. n /\ k-1 # 0
          BY <3>1
        <5>2. a[k-1] = list[h][k-1]
          BY <5>1 DEF RingOf
        <5> QED
          BY <1>5, <3>3, <5>1, <5>2
      <4> QED
        BY <4>1, <4>2
    <3> HIDE DEF a, b, n
    <3>5. Around([next EXCEPT ![x] = next[a[0]], ![a[0]] = x],
                 [prev EXCEPT ![next[a[0]]] = x, ![x] = a[0]], b, n+1)
      BY <1>2, <1>3, <3>1, <3>2, <3>3, <3>4, HeadRing
    <3>6. Around(next', prev', b, n+1)
      BY <1>1, <3>1, <3>5
    <3> QED
      BY <1>5, <2>1, <3>6 DEF LinkedAt, b, n
  <2>2. CASE g # h
    <3>1. \A d \in Cells \ {x, h, next[h]} : next'[d] = next[d] /\ prev'[d] = prev[d]
      BY <1>1, <1>2
    <3>2. ASSUME NEW j \in 0 .. Len(list[g])
          PROVE  RingOf(g, list[g])[j] \notin {x, h, next[h]}
      <4>1. RingOf(g, list[g])[j] # x
        BY <1>1, OutsideRings
      <4>2. /\ g \in Heads /\ Follows(0, Len(list[h])) \in 0 .. Len(list[h]) /\ 0 \in 0 .. Len(list[h])
            /\ h = RingOf(h, list[h])[0] /\ next[h] = RingOf(h, list[h])[Follows(0, Len(list[h]))]
        BY <1>1, <1>2, ListEnds, ListRing
      <4>3. /\ RingOf(g, list[g])[j] # RingOf(h, list[h])[0]
            /\ RingOf(g, list[g])[j] # RingOf(h, list[h])[Follows(0, Len(list[h]))]
        BY <2>2, <4>2, RingsApart
      <4> QED
        BY <4>1, <4>2, <4>3
    <3>3. Around(next', prev', RingOf(g, list[g]), Len(list[g]))
      BY <3>1, <3>2, RingUntouched
    <3> QED
      BY <1>2, <1>5, <2>2, <3>3 DEF LinkedAt
  <2> QED
    BY <2>1, <2>2
<1> QED
  BY <1>1, <1>4, <1>6, <1>7, <1>8 DEF IInv

LEMMA InitHeadStep ==
  ASSUME IInv, NEW h \in Heads, InitHead(h)
  PROVE  IInv'
<1>1. /\ h \notin live /\ live' = live \cup {h} /\ h \in Cells
      /\ prev' = [prev EXCEPT ![h] = h] /\ next' = [next EXCEPT ![h] = h]
      /\ list' = [list EXCEPT ![h] = <<>>]
  BY DEF InitHead, Cells
<1>2. /\ prev \in [Cells -> Cells] /\ next \in [Cells -> Cells] /\ list \in [Heads -> Seq(Nodes)]
      /\ live \in SUBSET Heads /\ list[h] = <<>>
  BY <1>1 DEF IInv, TypeOK, Apart
<1>3. list' = list
  BY <1>1, <1>2
<1>4. TypeOK'
  BY <1>1, <1>2, <1>3 DEF TypeOK
<1>5. Apart'
  BY <1>1, <1>3 DEF IInv, Apart
<1>6. OthersAlone'
  <2> SUFFICES ASSUME NEW y \in Nodes, ~ InAnyList(y)' PROVE prev'[y] = y /\ next'[y] = y
    BY DEF OthersAlone
  <2>1. ~ InAnyList(y) /\ y # h /\ y \in Cells
    BY <1>1, <1>3, CellAssumption DEF InAnyList, Cells
  <2> QED
    BY <1>1, <1>2, <2>1 DEF IInv, OthersAlone
<1>7. ASSUME NEW g \in live' PROVE LinkedAt(g)'
  <2>1. CASE g = h
    <3>1. Len(list[h]) = 0 /\ RingOf(h, list[h])[0] = h
      BY <1>2 DEF RingOf
    <3>2. \A k \in 0 .. 0 : k = 0 /\ Follows(k, 0) = 0
      BY DEF Follows
    <3>3. Around(next', prev', RingOf(h, list[h]), 0)
      BY <1>1, <1>2, <3>1, <3>2 DEF Around
    <3> QED
      BY <1>3, <2>1, <3>1, <3>3 DEF LinkedAt
  <2>2. CASE g # h
    <3>1. g \in live /\ g \in Heads
      BY <1>1, <1>2, <2>2
    <3>2. 0 \in 0 .. Len(list[h]) /\ RingOf(h, list[h])[0] = h
      BY ListRing
    <3>3. \A j \in 0 .. Len(list[g]) : RingOf(g, list[g])[j] \notin {h}
      BY <2>2, <3>1, <3>2, RingsApart
    <3>4. \A d \in Cells \ {h} : next'[d] = next[d] /\ prev'[d] = prev[d]
      BY <1>1, <1>2
    <3>5. Around(next', prev', RingOf(g, list[g]), Len(list[g]))
      BY <3>1, <3>3, <3>4, RingUntouched
    <3> QED
      BY <1>3, <3>5 DEF LinkedAt
  <2> QED
    BY <2>1, <2>2
<1> QED
  BY <1>4, <1>5, <1>6, <1>7 DEF IInv

\* s is q without its place p.
Lacks(s, q, p) ==
  /\ s \in Seq(Nodes) /\ Len(s) = Len(q)-1 /\ Len(q) \in Nat /\ p \in 1 .. Len(q)
  /\ DOMAIN q = 1 .. Len(q) /\ DOMAIN s = 1 .. Len(q)-1
  /\ \A k \in 1 .. Len(q)-1 : s[k] = IF k < p THEN q[k] ELSE q[k+1]

\* Unlink closes the gap that the node leaves.
LEMMA Unlinked ==
  ASSUME NEW q \in Seq(Nodes), NEW p \in DOMAIN q, \A k \in DOMAIN q : q[k] = q[p] => k = p
  PROVE  Lacks(Unlink(q, q[p]), q, p)
<1>1. (CHOOSE k \in DOMAIN q : q[k] = q[p]) = p
  OBVIOUS
<1>2. Unlink(q, q[p]) = [j \in 1 .. Len(q)-1 |-> IF j < p THEN q[j] ELSE q[j+1]]
  BY <1>1 DEF Unlink
<1>3. Len(q) \in Nat /\ DOMAIN q = 1 .. Len(q) /\ Len(q)-1 \in Nat /\ \A k \in 1 .. Len(q) : q[k] \in Nodes
  OBVIOUS
<1>4. \A k \in 1 .. Len(q)-1 : (IF k < p THEN q[k] ELSE q[k+1]) \in Nodes
  BY <1>3
<1> HIDE DEF Unlink
<1>5. Unlink(q, q[p]) \in [1 .. Len(q)-1 -> Nodes]
  BY <1>2, <1>4
<1>6. Unlink(q, q[p]) \in Seq(Nodes) /\ Len(Unlink(q, q[p])) = Len(q)-1
  <2>1. ASSUME NEW s, NEW n \in Nat, s \in [1 .. n -> Nodes] PROVE s \in Seq(Nodes) /\ Len(s) = n
    BY <2>1
  <2> QED
    BY <1>3, <1>5, <2>1
<1> QED
  BY <1>2, <1>3, <1>6 DEF Lacks

\* queue_remove of a node that is in no list leaves everything as it was, ...
LEMMA RemoveAloneStep ==
  ASSUME IInv, NEW x \in Nodes, RemoveNode(x), ~ InAnyList(x)
  PROVE  prev' = prev /\ next' = next /\ live' = live /\ list' = list
<1>1. /\ prev \in [Cells -> Cells] /\ next \in [Cells -> Cells] /\ list \in [Heads -> Seq(Nodes)]
      /\ x \in Cells /\ prev[x] = x /\ next[x] = x
  BY DEF IInv, TypeOK, OthersAlone, Cells
<1>2. /\ live' = live /\ list' = [h \in Heads |-> Unlink(list[h], x)]
      /\ prev' = [prev EXCEPT ![x] = x, ![x] = x] /\ next' = [next EXCEPT ![x] = x, ![x] = x]
  BY <1>1 DEF RemoveNode
<1>3. prev' = prev /\ next' = next
  BY <1>1, <1>2
<1>4. ASSUME NEW h \in Heads PROVE Unlink(list[h], x) = list[h]
  <2>1. \A k \in DOMAIN list[h] : list[h][k] # x
    BY DEF IInv, Apart, InAnyList, ToSet
  <2> QED
    BY <2>1 DEF Unlink
<1> QED
  BY <1>1, <1>2, <1>3, <1>4

\* ... and of one that is in a list, whichever it is, takes it out of that one.
LEMMA RemoveListedStep ==
  ASSUME IInv, NEW x \in Nodes, RemoveNode(x), NEW h \in live, NEW p \in DOMAIN list[h], list[h][p] = x
  PROVE  IInv'
<1>1. /\ live' = live
      /\ prev' = [prev EXCEPT ![next[x]] = prev[x], ![x] = x]
      /\ next' = [next EXCEPT ![prev[x]] = next[x], ![x] = x]
      /\ list' = [g \in Heads |-> Unlink(list[g], x)]
  BY DEF RemoveNode
<1>2. /\ prev \in [Cells -> Cells] /\ next \in [Cells -> Cells] /\ list \in [Heads -> Seq(Nodes)]
      /\ live \in SUBSET Heads /\ h \in Heads /\ x \in Cells
      /\ prev[x] \in Cells /\ next[x] \in Cells
  BY DEF IInv, TypeOK, Cells
<1>3. \A g \in Heads : \A k \in DOMAIN list[g] : list[g][k] = x => g = h /\ k = p
  BY <1>2 DEF IInv, Apart
<1>4. /\ list'[h] \in Seq(Nodes) /\ Len(list'[h]) = Len(list[h])-1
      /\ Len(list[h]) \in Nat /\ p \in 1 .. Len(list[h])
      /\ DOMAIN list[h] = 1 .. Len(list[h]) /\ DOMAIN list'[h] = 1 .. Len(list[h])-1
      /\ \A k \in 1 .. p-1 : list'[h][k] = list[h][k]
      /\ \A k \in p .. Len(list[h])-1 : list'[h][k] = list[h][k+1]
  <2>1. list[h] \in Seq(Nodes) /\ list'[h] = Unlink(list[h], list[h][p])
        /\ \A k \in DOMAIN list[h] : list[h][k] = list[h][p] => k = p
    BY <1>1, <1>2, <1>3
  <2>2. /\ list'[h] \in Seq(Nodes) /\ Len(list'[h]) = Len(list[h])-1
        /\ Len(list[h]) \in Nat /\ p \in 1 .. Len(list[h])
        /\ DOMAIN list[h] = 1 .. Len(list[h]) /\ DOMAIN list'[h] = 1 .. Len(list[h])-1
        /\ \A k \in 1 .. Len(list[h])-1 : list'[h][k] = IF k < p THEN list[h][k] ELSE list[h][k+1]
    <3>1. Lacks(Unlink(list[h], list[h][p]), list[h], p)
      BY <2>1, Unlinked
    <3>2. Lacks(list'[h], list[h], p)
      BY <2>1, <3>1
    <3> QED
      BY <3>2 DEF Lacks
  <2>3. \A k \in 1 .. p-1 : k \in 1 .. Len(list[h])-1 /\ k < p
    BY <2>2
  <2>4. \A k \in p .. Len(list[h])-1 : k \in 1 .. Len(list[h])-1 /\ ~(k < p)
    BY <2>2
  <2> QED
    BY <2>2, <2>3, <2>4
<1>5. \A g \in Heads \ {h} : list'[g] = list[g]
  BY <1>1, <1>3 DEF Unlink
<1>6. TypeOK'
  <2>1. \A g \in Heads : list'[g] \in Seq(Nodes)
    BY <1>2, <1>4, <1>5
  <2>2. list' \in [Heads -> Seq(Nodes)]
    BY <1>1, <2>1
  <2> QED
    BY <1>1, <1>2, <2>2 DEF TypeOK
<1>7. Apart'
  <2>1. ASSUME NEW g \in Heads, NEW k \in DOMAIN list'[g]
        PROVE  \/ g # h /\ k \in DOMAIN list[g] /\ list'[g][k] = list[g][k]
               \/ g = h /\ \E m \in DOMAIN list[g] : list'[g][k] = list[g][m]
    <3>1. CASE g # h
      BY <1>5, <3>1
    <3>2. CASE g = h /\ k < p
      <4>1. k \in 1 .. p-1 /\ k \in DOMAIN list[h]
        BY <1>4, <3>2
      <4> QED
        BY <1>4, <3>2, <4>1
    <3>3. CASE g = h /\ ~(k < p)
      <4>1. k \in p .. Len(list[h])-1 /\ k+1 \in DOMAIN list[h]
        BY <1>4, <3>3
      <4> QED
        BY <1>4, <3>3, <4>1
    <3> QED
      BY <3>1, <3>2, <3>3
  <2>2. ASSUME NEW f \in Heads, NEW g \in Heads, NEW j \in DOMAIN list'[f], NEW k \in DOMAIN list'[g],
               list'[f][j] = list'[g][k]
        PROVE  f = g /\ j = k
    <3>1. CASE f = h /\ g = h
      <4> DEFINE N == Len(list[h])
      <4>0. N \in Nat /\ p \in 1 .. N /\ j \in 1 .. N-1 /\ k \in 1 .. N-1
        BY <1>4, <3>1
      <4>1. \A l, m \in 1 .. N : list[h][l] = list[h][m] => l = m
        <5>1. \A l, m \in DOMAIN list[h] : list[h][l] = list[h][m] => l = m
          BY <1>2 DEF IInv, Apart
        <5>2. DOMAIN list[h] = 1 .. N
          BY <1>4
        <5> QED
          BY <5>1, <5>2
      <4>2. ASSUME NEW m \in 1 .. N-1
            PROVE  \/ m \in 1 .. N /\ m < p /\ list'[h][m] = list[h][m]
                   \/ m+1 \in 1 .. N /\ m >= p /\ list'[h][m] = list[h][m+1]
        <5>1. (m \in 1 .. p-1 /\ m < p /\ m \in 1 .. N)
              \/ (m \in p .. N-1 /\ m >= p /\ m+1 \in 1 .. N)
          BY <4>0
        <5> QED
          BY <1>4, <5>1
      <4> HIDE DEF N
      <4>3. list'[h][j] = list'[h][k]
        BY <2>2, <3>1
      <4> QED
        BY <3>1, <4>0, <4>1, <4>2, <4>3
    <3>2. CASE f # h \/ g # h
      BY <2>1, <2>2, <3>2 DEF IInv, Apart
    <3> QED
      BY <3>1, <3>2
  <2>3. \A g \in Heads : g \notin live => list'[g] = <<>>
    BY <1>5 DEF IInv, Apart
  <2> QED
    BY <1>1, <2>2, <2>3 DEF Apart
<1>8. /\ RingOf(h, list[h])[p] = x /\ p \in 0 .. Len(list[h])
      /\ prev[x] = RingOf(h, list[h])[p-1] /\ p-1 \in 0 .. Len(list[h])
      /\ next[x] = RingOf(h, list[h])[Follows(p, Len(list[h]))]
      /\ Follows(p, Len(list[h])) \in 0 .. Len(list[h])
  <2> DEFINE a == RingOf(h, list[h])
             n == Len(list[h])
  <2>1. IsRing(a, n) /\ Around(next, prev, a, n) /\ a[p] = x /\ n \in Nat /\ p \in 1 .. n
    BY <1>2, <1>4, ListRing DEF IInv, LinkedAt
  <2> HIDE DEF a, n
  <2>2. p \in 0 .. n /\ p-1 \in 0 .. n /\ Follows(p, n) \in 0 .. n
    BY <2>1, FollowsRange
  <2>3. prev[a[p]] = a[p-1]
    BY <2>1, AroundEnds
  <2>4. next[a[p]] = a[Follows(p, n)]
    BY <2>1, <2>2 DEF Around
  <2> QED
    BY <2>1, <2>2, <2>3, <2>4 DEF a, n
<1>9. OthersAlone'
  <2> SUFFICES ASSUME NEW y \in Nodes, ~ InAnyList(y)' PROVE prev'[y] = y /\ next'[y] = y
    BY DEF OthersAlone
  <2>1. CASE y = x
    BY <1>1, <1>2, <2>1
  <2>2. CASE y # x
    <3>1. \A g \in live : \A k \in DOMAIN list'[g] : list'[g][k] # y
      BY <1>1 DEF InAnyList, ToSet
    <3>2. ASSUME NEW g \in live, NEW k \in DOMAIN list[g] PROVE list[g][k] # y
      <4>1. CASE g # h
        BY <1>2, <1>5, <3>1, <4>1
      <4>2. CASE g = h /\ k = p
        BY <2>2, <4>2
      <4>3. CASE g = h /\ k < p
        <5>1. k \in DOMAIN list'[h] /\ k \in 1 .. p-1
          BY <1>4, <4>3
        <5>2. list'[h][k] = list[h][k]
          BY <1>4, <5>1
        <5> QED
          BY <3>1, <4>3, <5>1, <5>2
      <4>4. CASE g = h /\ k > p
        <5>1. k-1 \in DOMAIN list'[h] /\ k-1+1 = k /\ k-1 \in p .. Len(list[h])-1
          BY <1>4, <4>4
        <5>2. list'[h][k-1] = list[h][k]
          BY <1>4, <5>1
        <5> QED
          BY <3>1, <4>4, <5>1, <5>2
      <4> QED
        BY <1>4, <4>1, <4>2, <4>3, <4>4
    <3>3. ~ InAnyList(y)
      BY <3>2 DEF InAnyList, ToSet
    <3>4. y # prev[x] /\ y # next[x] /\ y \in Cells
      BY <1>8, <3>3, OutsideRings DEF Cells
    <3> QED
      BY <1>1, <1>2, <2>2, <3>3, <3>4 DEF IInv, OthersAlone
  <2> QED
    BY <2>1, <2>2
<1>10. ASSUME NEW g \in live PROVE LinkedAt(g)'
  <2>1. CASE g = h
    <3> DEFINE a == RingOf(h, list[h])
               b == RingOf(h, list'[h])
               n == Len(list[h])
    <3>1. IsRing(a, n) /\ a[p] = x /\ n \in Nat /\ p \in 1 .. n /\ Around(next, prev, a, n)
      BY <1>2, <1>4, <1>8, ListRing DEF IInv, LinkedAt
    <3>2. b \in [0 .. n-1 -> Cells]
      BY <1>2, <1>4, RingCells
    <3>3. ASSUME NEW k \in 0 .. n-1 PROVE b[k] = IF k < p THEN a[k] ELSE a[k+1]
      <4>1. k \in 0 .. Len(list'[h]) /\ k \in 0 .. n /\ k+1 \in 0 .. n /\ k+1 # 0
            /\ (k = 0 \/ k \in 1 .. p-1 \/ k \in p .. n-1) /\ 0 < p
        BY <1>4, <3>1
      <4>2. CASE k = 0
        BY <3>1, <4>1, <4>2 DEF RingOf
      <4>3. CASE k \in 1 .. p-1
        <5>1. k # 0 /\ k < p
          BY <3>1, <4>3
        <5> QED
          BY <1>4, <4>1, <4>3, <5>1 DEF RingOf
      <4>4. CASE k \in p .. n-1
        <5>1. k # 0 /\ ~(k < p)
          BY <3>1, <4>4
        <5> QED
          BY <1>4, <4>1, <4>4, <5>1 DEF RingOf
      <4> QED
        BY <4>1, <4>2, <4>3, <4>4
    <3> HIDE DEF a, b, n
    <3>4. Around([next EXCEPT ![prev[a[p]]] = next[a[p]], ![a[p]] = a[p]],
                 [prev EXCEPT ![next[a[p]]] = prev[a[p]], ![a[p]] = a[p]], b, n-1)
      BY <1>2, <3>1, <3>2, <3>3, RemovedRing
    <3>5. Around(next', prev', b, n-1)
      BY <1>1, <3>1, <3>4
    <3> QED
      BY <1>4, <2>1, <3>5 DEF LinkedAt, b, n
  <2>2. CASE g # h
    <3>1. \A d \in Cells \ {x, prev[x], next[x]} : next'[d] = next[d] /\ prev'[d] = prev[d]
      BY <1>1, <1>2
    <3>2. \A j \in 0 .. Len(list[g]) : RingOf(g, list[g])[j] \notin {x, prev[x], next[x]}
      BY <1>2, <1>8, <2>2, RingsApart
    <3>3. Around(next', prev', RingOf(g, list[g]), Len(list[g]))
      BY <3>1, <3>2, RingUntouched
    <3> QED
      BY <1>2, <1>5, <2>2, <3>3 DEF LinkedAt
  <2> QED
    BY <2>1, <2>2
<1> QED
  BY <1>1, <1>6, <1>7, <1>9, <1>10 DEF IInv

LEMMA RemoveNodeStep ==
  ASSUME IInv, NEW x \in Nodes, RemoveNode(x)
  PROVE  IInv'
<1>1. CASE InAnyList(x)
  <2>1. PICK h \in live : \E k \in DOMAIN list[h] : list[h][k] = x
    BY <1>1 DEF InAnyList, ToSet
  <2> QED
    BY <2>1, RemoveListedStep
<1>2. CASE ~ InAnyList(x)
  <2>1. prev' = prev /\ next' = next /\ live' = live /\ list' = list
    BY <1>2, RemoveAloneStep
  <2> QED
    BY <2>1 DEF IInv, TypeOK, Apart, OthersAlone, InAnyList, LinkedAt
<1> QED
  BY <1>1, <1>2

\* q is front and, from its place p on, back.
Parts(q, p, front, back) ==
  /\ Len(q) \in Nat /\ p \in 1 .. Len(q) /\ DOMAIN q = 1 .. Len(q)
  /\ front \in Seq(Nodes) /\ Len(front) = p-1 /\ DOMAIN front = 1 .. p-1
  /\ back \in Seq(Nodes) /\ Len(back) = Len(q)-p+1 /\ DOMAIN back = 1 .. Len(q)-p+1
  /\ \A k \in 1 .. p-1 : front[k] = q[k]
  /\ \A k \in 1 .. Len(q)-p+1 : back[k] = q[p-1+k]

LEMMA Pieces ==
  ASSUME NEW q \in Seq(Nodes), NEW p \in DOMAIN q
  PROVE  Parts(q, p, SubSeq(q, 1, p-1), SubSeq(q, p, Len(q)))
<1> DEFINE front == SubSeq(q, 1, p-1)
           back == SubSeq(q, p, Len(q))
<1>1. Len(q) \in Nat /\ p \in 1 .. Len(q) /\ DOMAIN q = 1 .. Len(q)
  OBVIOUS
<1>2. front \in Seq(Nodes) /\ Len(front) = p-1 /\ DOMAIN front = 1 .. p-1 /\ \A k \in 1 .. p-1 : front[k] = q[k]
  BY <1>1
<1>3. back \in Seq(Nodes) /\ Len(back) = Len(q)-p+1 /\ DOMAIN back = 1 .. Len(q)-p+1
      /\ \A k \in 1 .. Len(q)-p+1 : back[k] = q[p-1+k]
  BY <1>1
<1> HIDE DEF front, back
<1>4. Parts(q, p, front, back)
  BY <1>1, <1>2, <1>3 DEF Parts
<1> QED
  BY <1>4 DEF front, back

LEMMA SplitStep ==
  ASSUME IInv, NEW h \in Heads, NEW q \in Nodes, NEW n \in Heads, Split(h, q, n)
  PROVE  IInv'
<1>1. PICK p \in DOMAIN list[h] :
        /\ list[h][p] = q
        /\ list' = [list EXCEPT ![h] = SubSeq(@, 1, p-1), ![n] = SubSeq(list[h], p, Len(list[h]))]
  BY DEF Split
<1>2. /\ h \in live /\ n \notin live /\ h # n /\ live' = live \cup {n}
      /\ prev' = [prev EXCEPT ![n] = prev[h], ![h] = prev[q], ![q] = n]
      /\ next' = [next EXCEPT ![prev[h]] = n, ![n] = q, ![prev[q]] = h]
  BY DEF Split
<1>3. /\ prev \in [Cells -> Cells] /\ next \in [Cells -> Cells] /\ list \in [Heads -> Seq(Nodes)]
      /\ live \in SUBSET Heads /\ h \in Cells /\ n \in Cells /\ q \in Cells
      /\ prev[h] \in Cells /\ prev[q] \in Cells /\ list[n] = <<>>
  BY <1>2 DEF IInv, TypeOK, Apart, Cells
<1> DEFINE N == Len(list[h])
<1>4. /\ N \in Nat /\ p \in 1 .. N /\ DOMAIN list[h] = 1 .. N
      /\ list'[h] \in Seq(Nodes) /\ Len(list'[h]) = p-1 /\ DOMAIN list'[h] = 1 .. p-1
      /\ list'[n] \in Seq(Nodes) /\ Len(list'[n]) = N-p+1 /\ DOMAIN list'[n] = 1 .. N-p+1
      /\ \A k \in 1 .. p-1 : list'[h][k] = list[h][k]
      /\ \A k \in 1 .. N-p+1 : list'[n][k] = list[h][p-1+k]
  <2>1. list'[h] = SubSeq(list[h], 1, p-1) /\ list'[n] = SubSeq(list[h], p, Len(list[h])) /\ list[h] \in Seq(Nodes)
    BY <1>1, <1>2, <1>3
  <2>2. Parts(list[h], p, SubSeq(list[h], 1, p-1), SubSeq(list[h], p, Len(list[h])))
    BY <2>1, Pieces
  <2>3. Parts(list[h], p, list'[h], list'[n])
    BY <2>1, <2>2
  <2> QED
    BY <2>3 DEF Parts
<1>5. \A g \in Heads \ {h, n} : list'[g] = list[g]
  BY <1>1, <1>3
<1>6. TypeOK'
  <2>1. \A g \in Heads : list'[g] \in Seq(Nodes)
    BY <1>3, <1>4, <1>5
  <2>2. list' \in [Heads -> Seq(Nodes)]
    BY <1>1, <1>3, <2>1
  <2> QED
    BY <1>2, <1>3, <2>2 DEF TypeOK
<1>7. Apart'
  <2>1. ASSUME NEW g \in Heads, NEW k \in DOMAIN list'[g]
        PROVE  \/ g = n /\ k \in 1 .. N-p+1 /\ p-1+k \in DOMAIN list[h] /\ list'[g][k] = list[h][p-1+k]
               \/ g = h /\ k \in 1 .. p-1 /\ k \in DOMAIN list[h] /\ list'[g][k] = list[h][k]
               \/ g \notin {h, n} /\ k \in DOMAIN list[g] /\ list'[g][k] = list[g][k]
    <3>1. CASE g = n
      <4>1. k \in 1 .. N-p+1
        BY <1>4, <3>1
      <4>2. p-1+k \in 1 .. N
        BY <1>4, <4>1
      <4> QED
        BY <1>4, <3>1, <4>1, <4>2
    <3>2. CASE g = h
      <4>1. k \in 1 .. p-1
        BY <1>4, <3>2
      <4>2. k \in 1 .. N
        BY <1>4, <4>1
      <4> QED
        BY <1>4, <3>2, <4>1, <4>2
    <3>3. CASE g \notin {h, n}
      BY <1>5, <3>3
    <3> QED
      BY <3>1, <3>2, <3>3
  <2>2. ASSUME NEW f \in Heads, NEW g \in Heads, NEW j \in DOMAIN list'[f], NEW k \in DOMAIN list'[g],
               list'[f][j] = list'[g][k]
        PROVE  f = g /\ j = k
    <3>1. CASE f \in {h, n} /\ g \in {h, n}
      <4>1. \A l, m \in DOMAIN list[h] : list[h][l] = list[h][m] => l = m
        BY DEF IInv, Apart
      <4>2. \/ f = n /\ j \in 1 .. N-p+1 /\ p-1+j \in DOMAIN list[h] /\ list'[f][j] = list[h][p-1+j]
            \/ f = h /\ j \in 1 .. p-1 /\ j \in DOMAIN list[h] /\ list'[f][j] = list[h][j]
        BY <2>1, <3>1
      <4>3. \/ g = n /\ k \in 1 .. N-p+1 /\ p-1+k \in DOMAIN list[h] /\ list'[g][k] = list[h][p-1+k]
            \/ g = h /\ k \in 1 .. p-1 /\ k \in DOMAIN list[h] /\ list'[g][k] = list[h][k]
        BY <2>1, <3>1
      <4>4. CASE f = n /\ g = n
        <5>1. p-1+j = p-1+k /\ j \in 1 .. N-p+1 /\ k \in 1 .. N-p+1
          BY <1>2, <2>2, <4>1, <4>2, <4>3, <4>4
        <5> QED
          BY <1>4, <4>4, <5>1
      <4>5. CASE f = h /\ g = h
        BY <1>2, <2>2, <4>1, <4>2, <4>3, <4>5
      <4>6. CASE f = n /\ g = h
        <5>1. p-1+j = k /\ j \in 1 .. N-p+1 /\ k \in 1 .. p-1
          BY <1>2, <2>2, <4>1, <4>2, <4>3, <4>6
        <5> QED
          BY <1>4, <5>1
      <4>7. CASE f = h /\ g = n
        <5>1. p-1+k = j /\ k \in 1 .. N-p+1 /\ j \in 1 .. p-1
          BY <1>2, <2>2, <4>1, <4>2, <4>3, <4>7
        <5> QED
          BY <1>4, <5>1
      <4> QED
        BY <3>1, <4>4, <4>5, <4>6, <4>7
    <3>2. CASE f \notin {h, n} \/ g \notin {h, n}
      BY <2>1, <2>2, <3>2 DEF IInv, Apart
    <3> QED
      BY <3>1, <3>2
  <2>3. \A g \in Heads : g \notin live' => list'[g] = <<>>
    BY <1>2, <1>5 DEF IInv, Apart
  <2> QED
    BY <2>2, <2>3 DEF Apart
<1> DEFINE a == RingOf(h, list[h])
<1>8. /\ IsRing(a, N) /\ Around(next, prev, a, N) /\ a[0] = h /\ a[p] = q
      /\ 0 \in 0 .. N /\ p \in 0 .. N /\ N \in 0 .. N /\ p-1 \in 0 .. N
      /\ prev[h] = a[N] /\ prev[q] = a[p-1]
  <2>1. IsRing(a, N) /\ Around(next, prev, a, N) /\ a[0] = h /\ a[p] = q
    BY <1>1, <1>2, <1>4, ListRing DEF IInv, LinkedAt
  <2>2. prev[a[0]] = a[N] /\ prev[a[p]] = a[p-1]
    BY <1>4, <2>1, AroundEnds
  <2> QED
    BY <1>4, <2>1, <2>2
<1>9. ASSUME NEW g \in live, g # h, NEW j \in 0 .. Len(list[g])
      PROVE  RingOf(g, list[g])[j] \notin {h, n, q, prev[h], prev[q]}
  <2>1. 0 \in 0 .. Len(list[n]) /\ RingOf(n, list[n])[0] = n /\ g \in Heads /\ g # n
    BY <1>2, <1>3, ListRing
  <2>2. RingOf(g, list[g])[j] # n
    BY <2>1, RingsApart
  <2>3. \A k \in 0 .. N : RingOf(g, list[g])[j] # a[k]
    BY <1>9, <2>1, RingsApart
  <2> QED
    BY <1>8, <2>2, <2>3
<1>10. \A k \in 0 .. N : a[k] # n
  <2>1. 0 \in 0 .. Len(list[n]) /\ RingOf(n, list[n])[0] = n
    BY ListRing
  <2> QED
    BY <1>2, <2>1, RingsApart
<1>11. OthersAlone'
  <2> SUFFICES ASSUME NEW y \in Nodes, ~ InAnyList(y)' PROVE prev'[y] = y /\ next'[y] = y
    BY DEF OthersAlone
  <2>1. \A g \in live' : \A k \in DOMAIN list'[g] : list'[g][k] # y
    BY DEF InAnyList, ToSet
  <2>2. ASSUME NEW g \in live, NEW k \in DOMAIN list[g] PROVE list[g][k] # y
    <3>1. CASE g # h
      BY <1>2, <1>3, <1>5, <2>1, <3>1
    <3>2. CASE g = h /\ k < p
      <4>1. k \in 1 .. p-1 /\ k \in DOMAIN list'[h] /\ h \in live'
        BY <1>2, <1>4, <3>2
      <4> QED
        BY <1>4, <2>1, <3>2, <4>1
    <3>3. CASE g = h /\ k >= p
      <4>1. PICK m \in 1 .. N-p+1 : k = p-1+m
        <5>1. k \in 1 .. N /\ N \in Nat /\ p \in 1 .. N /\ k >= p
          BY <1>4, <3>3
        <5> HIDE DEF N
        <5>2. k-p+1 \in 1 .. N-p+1 /\ k = p-1+(k-p+1)
          BY <5>1
        <5> QED
          BY <5>2
      <4>2. m \in DOMAIN list'[n] /\ n \in live' /\ list'[n][m] = list[h][k]
        BY <1>2, <1>4, <4>1
      <4> QED
        BY <2>1, <3>3, <4>2
    <3> QED
      BY <1>4, <3>1, <3>2, <3>3
  <2>3. ~ InAnyList(y) /\ y \in Cells /\ y # n
    BY <2>2, CellAssumption DEF InAnyList, ToSet, Cells
  <2>4. \A k \in 0 .. N : a[k] # y
    BY <1>2, <2>3, OutsideRings
  <2>5. y \notin {h, n, q, prev[h], prev[q]}
    BY <1>8, <2>3, <2>4
  <2> QED
    BY <1>2, <1>3, <2>3, <2>5 DEF IInv, OthersAlone
<1>12. ASSUME NEW g \in live' PROVE LinkedAt(g)'
  <2>1. CASE g = h
    <3> DEFINE b == RingOf(h, list'[h])
    <3>1. b \in [0 .. p-1 -> Cells]
      BY <1>4, RingCells
    <3>2. ASSUME NEW k \in 0 .. p-1 PROVE b[k] = a[k]
      <4>1. k \in 0 .. N /\ k \in 0 .. Len(list'[h]) /\ (k = 0 \/ k \in 1 .. p-1)
        BY <1>4
      <4> QED
        BY <1>4, <4>1 DEF RingOf
    <3> HIDE DEF a, b
    <3>3. Around([next EXCEPT ![prev[a[0]]] = n, ![n] = a[p], ![prev[a[p]]] = a[0]],
                 [prev EXCEPT ![n] = prev[a[0]], ![a[0]] = prev[a[p]], ![a[p]] = n], b, p-1)
      BY <1>3, <1>4, <1>8, <1>10, <3>1, <3>2, FrontRing
    <3>4. Around(next', prev', b, p-1)
      BY <1>2, <1>8, <3>3
    <3> QED
      BY <1>4, <2>1, <3>4 DEF LinkedAt, b
  <2>2. CASE g = n
    <3> DEFINE b == RingOf(n, list'[n])
    <3>1. b \in [0 .. N-p+1 -> Cells] /\ b[0] = n
      BY <1>4, RingCells
    <3>2. ASSUME NEW k \in 1 .. N-p+1 PROVE b[k] = a[p-1+k]
      <4>1. p-1+k \in 0 .. N /\ p-1+k # 0 /\ k \in 0 .. Len(list'[n]) /\ k # 0
        BY <1>4
      <4> QED
        BY <1>4, <4>1 DEF RingOf
    <3> HIDE DEF a, b
    <3>3. Around([next EXCEPT ![prev[a[0]]] = n, ![n] = a[p], ![prev[a[p]]] = a[0]],
                 [prev EXCEPT ![n] = prev[a[0]], ![a[0]] = prev[a[p]], ![a[p]] = n], b, N-p+1)
      <4>1. /\ IsRing(a, N) /\ Around(next, prev, a, N) /\ \A k \in 0 .. N : a[k] # n
            /\ next \in [Cells -> Cells] /\ prev \in [Cells -> Cells]
            /\ p \in 1 .. N /\ n \in Cells
        BY <1>3, <1>4, <1>8, <1>10
      <4> QED
        BY <3>1, <3>2, <4>1, BackRing, Zenon
    <3>4. Around(next', prev', b, N-p+1)
      BY <1>2, <1>8, <3>3
    <3> QED
      BY <1>4, <2>2, <3>4 DEF LinkedAt, b
  <2>3. CASE g \notin {h, n}
    <3>1. g \in live /\ g \in Heads
      BY <1>2, <1>3, <2>3
    <3>2. \A d \in Cells \ {h, n, q, prev[h], prev[q]} : next'[d] = next[d] /\ prev'[d] = prev[d]
      BY <1>2, <1>3
    <3>3. \A j \in 0 .. Len(list[g]) : RingOf(g, list[g])[j] \notin {h, n, q, prev[h], prev[q]}
      BY <1>9, <2>3, <3>1
    <3>4. Around(next', prev', RingOf(g, list[g]), Len(list[g]))
      BY <3>1, <3>2, <3>3, RingUntouched
    <3> QED
      BY <1>5, <2>3, <3>1, <3>4 DEF LinkedAt
  <2> QED
    BY <2>1, <2>2, <2>3
<1> QED
  BY <1>6, <1>7, <1>11, <1>12 DEF IInv

\* s is q followed by r.
Joins(s, q, r) ==
  /\ Len(q) \in Nat /\ DOMAIN q = 1 .. Len(q) /\ Len(r) \in Nat /\ DOMAIN r = 1 .. Len(r)
  /\ s \in Seq(Nodes) /\ Len(s) = Len(q)+Len(r) /\ DOMAIN s = 1 .. Len(q)+Len(r)
  /\ \A k \in 1 .. Len(q) : s[k] = q[k]
  /\ \A k \in 1 .. Len(r) : s[Len(q)+k] = r[k]

LEMMA Joined ==
  ASSUME NEW q \in Seq(Nodes), NEW r \in Seq(Nodes)
  PROVE  Joins(q \o r, q, r)
<1> DEFINE s == q \o r
<1>1. Len(q) \in Nat /\ DOMAIN q = 1 .. Len(q) /\ Len(r) \in Nat /\ DOMAIN r = 1 .. Len(r)
  OBVIOUS
<1>2. s \in Seq(Nodes) /\ Len(s) = Len(q)+Len(r) /\ DOMAIN s = 1 .. Len(q)+Len(r)
  BY <1>1
<1>3. \A k \in 1 .. Len(q) : s[k] = q[k]
  BY <1>1
<1>4. \A k \in 1 .. Len(r) : s[Len(q)+k] = r[k]
  BY <1>1
<1> HIDE DEF s
<1>5. Joins(s, q, r)
  BY <1>1, <1>2, <1>3, <1>4 DEF Joins
<1> QED
  BY <1>5 DEF s

LEMMA AddStep ==
  ASSUME IInv, NEW h \in Heads, NEW n \in Heads, Add(h, n)
  PROVE  IInv'
<1>1. /\ h \in live /\ n \in live /\ h # n /\ live' = live \ {n}
      /\ list' = [list EXCEPT ![h] = @ \o list[n], ![n] = <<>>]
      /\ prev' = Prev2(next, prev, h, n) /\ next' = Next2(next, prev, h, n)
  BY DEF Add, Next1, Prev2, Next2
<1>2. /\ prev \in [Cells -> Cells] /\ next \in [Cells -> Cells] /\ list \in [Heads -> Seq(Nodes)]
      /\ live \in SUBSET Heads /\ h \in Cells /\ n \in Cells
  BY DEF IInv, TypeOK, Cells
<1> DEFINE N == Len(list[h])
           M == Len(list[n])
           a == RingOf(h, list[h])
           c == RingOf(n, list[n])
<1>15. Joins(list'[h], list[h], list[n])
  <2>1. Joins(list[h] \o list[n], list[h], list[n])
    BY <1>2, Joined
  <2>2. list'[h] = list[h] \o list[n]
    BY <1>1, <1>2
  <2> QED
    BY <2>1, <2>2
<1>3. /\ N \in Nat /\ DOMAIN list[h] = 1 .. N /\ M \in Nat /\ DOMAIN list[n] = 1 .. M
      /\ list'[h] \in Seq(Nodes) /\ Len(list'[h]) = N+M /\ DOMAIN list'[h] = 1 .. N+M
  BY <1>15 DEF Joins
<1>13. \A k \in 1 .. N : list'[h][k] = list[h][k]
  BY <1>15 DEF Joins
<1>14. \A k \in 1 .. M : list'[h][N+k] = list[n][k]
  BY <1>15 DEF Joins
<1>4. list'[n] = <<>> /\ \A g \in Heads \ {h, n} : list'[g] = list[g]
  BY <1>1, <1>2
<1>5. /\ IsRing(a, N) /\ Around(next, prev, a, N) /\ a[0] = h
      /\ IsRing(c, M) /\ Around(next, prev, c, M) /\ c[0] = n
      /\ \A j \in 0 .. N, k \in 0 .. M : a[j] # c[k]
  BY <1>1, ListRing, RingsApart DEF IInv, LinkedAt
<1>6. /\ 0 \in 0 .. N /\ N \in 0 .. N /\ 0 \in 0 .. M /\ M \in 0 .. M /\ Follows(0, M) \in 0 .. M
      /\ prev[h] = a[N] /\ prev[n] = c[M] /\ next[n] = c[Follows(0, M)]
      /\ prev[h] \in Cells /\ prev[n] \in Cells /\ next[n] \in Cells
  BY <1>1, ListEnds, ListRing
<1> DEFINE T == {h, n, prev[h], prev[n], next[n]}
<1>7. /\ prev' \in [Cells -> Cells] /\ next' \in [Cells -> Cells]
      /\ \A d \in Cells \ T : next'[d] = next[d] /\ prev'[d] = prev[d]
  <2> DEFINE pv1 == [prev EXCEPT ![Next1(next, prev, h, n)[n]] = prev[h]]
  <2>1. prev[h] # n
    BY <1>5, <1>6
  <2>2. Next1(next, prev, h, n)[n] = next[n] /\ Next1(next, prev, h, n) \in [Cells -> Cells]
        /\ \A d \in Cells \ T : Next1(next, prev, h, n)[d] = next[d]
    BY <1>2, <1>6, <2>1 DEF Next1
  <2>3. pv1 = [prev EXCEPT ![next[n]] = prev[h]]
    BY <2>2
  <2>4. pv1 \in [Cells -> Cells] /\ pv1[n] \in {prev[n], prev[h]} /\ \A d \in Cells \ T : pv1[d] = prev[d]
    BY <1>2, <1>6, <2>3
  <2>5. prev' = [pv1 EXCEPT ![h] = pv1[n]]
    BY <1>1 DEF Prev2
  <2> HIDE DEF pv1
  <2>6. prev' \in [Cells -> Cells] /\ prev'[h] \in {prev[n], prev[h]} /\ \A d \in Cells \ T : prev'[d] = prev[d]
    BY <1>2, <1>6, <2>4, <2>5
  <2>7. next' = [Next1(next, prev, h, n) EXCEPT ![prev'[h]] = h]
    BY <1>1 DEF Next2
  <2>8. next' \in [Cells -> Cells] /\ \A d \in Cells \ T : next'[d] = next[d]
    BY <1>2, <1>6, <2>2, <2>6, <2>7
  <2> QED
    BY <2>6, <2>8
<1>8. TypeOK'
  <2>1. \A g \in Heads : list'[g] \in Seq(Nodes)
    <3>1. <<>> \in Seq(Nodes)
      OBVIOUS
    <3> QED
      BY <1>2, <1>3, <1>4, <3>1
  <2>2. list' \in [Heads -> Seq(Nodes)]
    BY <1>1, <1>2, <2>1
  <2> QED
    BY <1>1, <1>2, <1>7, <2>2 DEF TypeOK
<1>9. Apart'
  <2>1. ASSUME NEW g \in Heads, NEW k \in DOMAIN list'[g]
        PROVE  \/ g = h /\ k \in 1 .. N /\ k \in DOMAIN list[h] /\ list'[g][k] = list[h][k]
               \/ /\ g = h /\ k \in Nat /\ k-N \in Nat /\ k-N \in DOMAIN list[n]
                  /\ list'[g][k] = list[n][k-N]
               \/ g \notin {h, n} /\ k \in DOMAIN list[g] /\ list'[g][k] = list[g][k]
    <3>1. CASE g = h /\ k \in 1 .. N
      BY <1>3, <1>13, <3>1
    <3>2. CASE g = h /\ k \notin 1 .. N
      <4> HIDE DEF N, M
      <4>1. k \in Nat /\ k-N \in 1 .. M /\ k = N+(k-N)
        BY <1>3, <3>2
      <4>2. list'[h][N+(k-N)] = list[n][k-N]
        BY <1>14, <4>1
      <4> QED
        BY <1>3, <3>2, <4>1, <4>2
    <3>3. CASE g # h
      <4>1. g # n
        BY <1>4
      <4> QED
        BY <1>4, <3>3, <4>1
    <3> QED
      BY <3>1, <3>2, <3>3
  <2>2. ASSUME NEW f \in Heads, NEW g \in Heads, NEW j \in DOMAIN list'[f], NEW k \in DOMAIN list'[g],
               list'[f][j] = list'[g][k]
        PROVE  f = g /\ j = k
    <3>1. \/ f = h /\ j \in 1 .. N /\ j \in DOMAIN list[h] /\ list'[f][j] = list[h][j]
          \/ f = h /\ j \in Nat /\ j-N \in Nat /\ j-N \in DOMAIN list[n] /\ list'[f][j] = list[n][j-N]
          \/ f \notin {h, n} /\ j \in DOMAIN list[f] /\ list'[f][j] = list[f][j]
      BY <2>1
    <3>2. \/ g = h /\ k \in 1 .. N /\ k \in DOMAIN list[h] /\ list'[g][k] = list[h][k]
          \/ g = h /\ k \in Nat /\ k-N \in Nat /\ k-N \in DOMAIN list[n] /\ list'[g][k] = list[n][k-N]
          \/ g \notin {h, n} /\ k \in DOMAIN list[g] /\ list'[g][k] = list[g][k]
      BY <2>1
    <3>3. f = g
      BY <1>1, <2>2, <3>1, <3>2 DEF IInv, Apart
    <3>4. j = k \/ (j-N = k-N /\ j \in Nat /\ k \in Nat)
      BY <1>1, <2>2, <3>1, <3>2 DEF IInv, Apart
    <3> QED
      BY <1>3, <3>3, <3>4
  <2>3. \A g \in Heads : g \notin live' => list'[g] = <<>>
    BY <1>1, <1>4 DEF IInv, Apart
  <2> QED
    BY <2>2, <2>3 DEF Apart
<1>10. ASSUME NEW g \in live, g \notin {h, n}, NEW j \in 0 .. Len(list[g])
       PROVE  RingOf(g, list[g])[j] \notin T
  <2>1. g \in Heads /\ g # h /\ g # n
    BY <1>2, <1>10
  <2>2. (\A k \in 0 .. N : RingOf(g, list[g])[j] # a[k]) /\ \A k \in 0 .. M : RingOf(g, list[g])[j] # c[k]
    BY <2>1, RingsApart
  <2> QED
    BY <1>5, <1>6, <2>2
<1>11. OthersAlone'
  <2> SUFFICES ASSUME NEW y \in Nodes, ~ InAnyList(y)' PROVE prev'[y] = y /\ next'[y] = y
    BY DEF OthersAlone
  <2>1. \A g \in live' : \A k \in DOMAIN list'[g] : list'[g][k] # y
    BY DEF InAnyList, ToSet
  <2>2. ASSUME NEW g \in live, NEW k \in DOMAIN list[g] PROVE list[g][k] # y
    <3>1. CASE g \notin {h, n}
      BY <1>1, <1>2, <1>4, <2>1, <3>1
    <3>2. CASE g = h
      <4>1. k \in 1 .. N /\ k \in DOMAIN list'[h] /\ h \in live'
        <5> HIDE DEF N, M
        <5>1. k \in 1 .. N /\ N \in Nat /\ M \in Nat
          BY <1>3, <3>2
        <5>2. k \in 1 .. N+M
          BY <5>1
        <5> QED
          BY <1>1, <1>3, <5>1, <5>2
      <4> QED
        BY <1>13, <2>1, <3>2, <4>1
    <3>3. CASE g = n
      <4>1. k \in 1 .. M /\ N+k \in DOMAIN list'[h] /\ h \in live'
        <5> HIDE DEF N, M
        <5>1. k \in 1 .. M /\ N \in Nat /\ M \in Nat
          BY <1>3, <3>3
        <5>2. N+k \in 1 .. N+M
          BY <5>1
        <5> QED
          BY <1>1, <1>3, <5>1, <5>2
      <4> QED
        BY <1>14, <2>1, <3>3, <4>1
    <3> QED
      BY <3>1, <3>2, <3>3
  <2>3. ~ InAnyList(y) /\ y \in Cells
    BY <2>2 DEF InAnyList, ToSet, Cells
  <2>4. (\A k \in 0 .. N : a[k] # y) /\ \A k \in 0 .. M : c[k] # y
    BY <1>1, <2>3, OutsideRings
  <2>5. y \in Cells \ T
    BY <1>5, <1>6, <2>3, <2>4
  <2> QED
    BY <1>7, <2>3, <2>5 DEF IInv, OthersAlone
<1>12. ASSUME NEW g \in live' PROVE LinkedAt(g)'
  <2>1. CASE g = h
    <3> DEFINE b == RingOf(h, list'[h])
    <3>1. b \in [0 .. N+M -> Cells] /\ b[0] = h
      BY <1>3, RingCells
    <3>2. ASSUME NEW k \in 0 .. N PROVE b[k] = a[k]
      <4> HIDE DEF N, M
      <4>0. N \in Nat /\ M \in Nat /\ Len(list'[h]) = N+M
        BY <1>3
      <4>1. k \in 0 .. Len(list'[h]) /\ k \in 0 .. N /\ (k = 0 \/ k \in 1 .. N)
        BY <4>0
      <4> QED
        BY <1>13, <4>1 DEF RingOf, N
    <3>3. ASSUME NEW k \in 1 .. M PROVE b[N+k] = c[k]
      <4> HIDE DEF N, M
      <4>0. N \in Nat /\ M \in Nat /\ Len(list'[h]) = N+M
        BY <1>3
      <4>1. N+k \in 0 .. Len(list'[h]) /\ N+k # 0 /\ k \in 0 .. M /\ k # 0
        BY <4>0
      <4> QED
        BY <1>14, <4>1 DEF RingOf, M
    <3> HIDE DEF a, b, c
    <3>4. Around(Next2(next, prev, a[0], c[0]), Prev2(next, prev, a[0], c[0]), b, N+M)
      BY <1>2, <1>5, <3>1, <3>2, <3>3, JoinedRing
    <3>5. Around(next', prev', b, N+M)
      BY <1>1, <1>5, <3>4
    <3> QED
      BY <1>3, <2>1, <3>5 DEF LinkedAt, b
  <2>2. CASE g # h
    <3>1. g \in live /\ g \in Heads /\ g \notin {h, n}
      BY <1>1, <1>2, <2>2
    <3>2. \A j \in 0 .. Len(list[g]) : RingOf(g, list[g])[j] \notin T
      BY <1>10, <3>1
    <3> HIDE DEF T
    <3>3. Around(next', prev', RingOf(g, list[g]), Len(list[g]))
      BY <1>7, <3>1, <3>2, RingUntouched
    <3> QED
      BY <1>4, <3>1, <3>3 DEF LinkedAt
  <2> QED
    BY <2>1, <2>2
<1> QED
  BY <1>8, <1>9, <1>11, <1>12 DEF IInv

----------------------------------------------------------------------------
(* The theorems.                                                            *)

LEMMA InitIInv == Init => IInv
<1> SUFFICES ASSUME Init PROVE IInv
  OBVIOUS
<1>1. /\ prev = [c \in Cells |-> c] /\ next = [c \in Cells |-> c]
      /\ live \in SUBSET Heads /\ list = [h \in Heads |-> <<>>]
  BY DEF Init
<1>2. TypeOK
  BY <1>1 DEF TypeOK
<1>3. Apart
  BY <1>1 DEF Apart
<1>4. OthersAlone
  BY <1>1 DEF OthersAlone, Cells
<1>5. ASSUME NEW h \in live PROVE LinkedAt(h)
  <2>1. h \in Cells /\ list[h] = <<>> /\ Len(list[h]) = 0 /\ RingOf(h, list[h])[0] = h
    BY <1>1 DEF RingOf, Cells
  <2>2. \A k \in 0 .. 0 : k = 0 /\ Follows(k, 0) = 0
    BY DEF Follows
  <2> QED
    BY <1>1, <2>1, <2>2 DEF LinkedAt, Around
<1> QED
  BY <1>2, <1>3, <1>4, <1>5 DEF IInv

\* Every operation of queue.h keeps all lists rings and all other nodes alone.
THEOREM QueueInvariance == Spec => []IInv
<1>1. IInv /\ [Next]_vars => IInv'
  <2> SUFFICES ASSUME IInv, [Next]_vars PROVE IInv'
    OBVIOUS
  <2>1. ASSUME NEW h \in Heads, InitHead(h) PROVE IInv'
    BY <2>1, InitHeadStep
  <2>2. ASSUME NEW h \in Heads, NEW x \in Nodes, InsertHead(h, x) PROVE IInv'
    BY <2>2, InsertHeadStep
  <2>3. ASSUME NEW h \in Heads, NEW x \in Nodes, InsertTail(h, x) PROVE IInv'
    BY <2>3, InsertTailStep
  <2>4. ASSUME NEW x \in Nodes, RemoveNode(x) PROVE IInv'
    BY <2>4, RemoveNodeStep
  <2>5. ASSUME NEW h \in Heads, NEW n \in Heads, Add(h, n) PROVE IInv'
    BY <2>5, AddStep
  <2>6. ASSUME NEW h \in Heads, NEW n \in Heads, NEW q \in Nodes, Split(h, q, n) PROVE IInv'
    BY <2>6, SplitStep
  <2>7. CASE UNCHANGED vars
    BY <2>7 DEF IInv, TypeOK, Apart, OthersAlone, InAnyList, LinkedAt, vars
  <2> QED
    BY <2>1, <2>2, <2>3, <2>4, <2>5, <2>6, <2>7 DEF Next
<1> QED
  BY <1>1, InitIInv, PTL DEF Spec

\* Both ways around, the pointers spell out every list: queue_remove, which is
\* given no list, takes a node out of the right one, and nothing is lost or
\* entered twice by queue_split and queue_add.
THEOREM ListsLinked == Spec => []RingsLinked
<1>1. IInv => RingsLinked
  <2> SUFFICES ASSUME IInv, NEW h \in live, NEW k \in DOMAIN Ring(h)
               PROVE  LET after == IF k = Len(Ring(h)) THEN h ELSE Ring(h)[k+1] IN
                        next[Ring(h)[k]] = after /\ prev[after] = Ring(h)[k]
    BY DEF RingsLinked
  <2> DEFINE n == Len(list[h])
             a == RingOf(h, list[h])
  <2>1. h \in Heads /\ n \in Nat /\ a[0] = h /\ Around(next, prev, a, n) /\ list[h] \in Seq(Nodes)
    BY ListRing DEF IInv, TypeOK, LinkedAt
  <2>2. Len(Ring(h)) = n+1 /\ DOMAIN Ring(h) = 1 .. n+1 /\ \A j \in 1 .. n+1 : Ring(h)[j] = a[j-1]
    <3>1. ASSUME NEW q \in Seq(Nodes), NEW r, r = <<h>> \o q
          PROVE  /\ Len(r) = Len(q)+1 /\ DOMAIN r = 1 .. Len(q)+1
                 /\ r[1] = h /\ \A j \in 2 .. Len(q)+1 : r[j] = q[j-1]
      <4>1. q \in Seq(Heads \cup Nodes) /\ <<h>> \in Seq(Heads \cup Nodes)
        BY <2>1
      <4> QED
        BY <3>1, <4>1
    <3>2. /\ Len(Ring(h)) = n+1 /\ DOMAIN Ring(h) = 1 .. n+1
          /\ Ring(h)[1] = h /\ \A j \in 2 .. n+1 : Ring(h)[j] = list[h][j-1]
      BY <2>1, <3>1 DEF Ring
    <3>3. ASSUME NEW j \in 1 .. n+1 PROVE Ring(h)[j] = a[j-1]
      <4>1. j = 1 \/ (j \in 2 .. n+1 /\ j-1 \in 0 .. n /\ j-1 # 0)
        BY <2>1
      <4> QED
        BY <2>1, <3>2, <4>1 DEF RingOf
    <3> QED
      BY <3>2, <3>3
  <2>3. k \in 1 .. n+1 /\ k-1 \in 0 .. n /\ Ring(h)[k] = a[k-1]
    BY <2>1, <2>2
  <2>4. (IF k = Len(Ring(h)) THEN h ELSE Ring(h)[k+1]) = a[Follows(k-1, n)]
    <3>1. CASE k = n+1
      BY <2>1, <2>2, <3>1 DEF Follows
    <3>2. CASE k # n+1
      <4>1. k+1 \in 1 .. n+1 /\ k+1-1 = k /\ Follows(k-1, n) = k
        BY <2>1, <2>3, <3>2 DEF Follows
      <4> QED
        BY <2>2, <3>2, <4>1
    <3> QED
      BY <3>1, <3>2
  <2> HIDE DEF n, a
  <2> QED
    BY <2>1, <2>3, <2>4 DEF Around
<1> QED
  BY <1>1, QueueInvariance, PTL

\* A node that is in no list points at itself, so queue_remove may be applied to
\* it, as server_destroy and the teardown of an app do without a look.
THEOREM NodesAlone == Spec => []OthersAlone
<1>1. IInv => OthersAlone
  BY DEF IInv
<1> QED
  BY <1>1, QueueInvariance, PTL
============================================================================
