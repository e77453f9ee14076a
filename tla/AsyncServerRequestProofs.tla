---------------------- MODULE AsyncServerRequestProofs ----------------------
(* Proofs about requests: where each of them is, and that the server          *)
(* implements Dispatcher.                                                     *)
EXTENDS AsyncServerConnProofs

Among(q, x) == \E k \in DOMAIN q : q[k] = x

\* A request is with a worker: in its socket, or taken from it.
With(s, x) == Among(toWorker[s], x) \/ x \in held[s]

\* DispatchedOnce without the part on the task queue, which IInv implies.
Once ==
  /\ \A s \in Ids : /\ IsInjective(toWorker[s])
                    /\ \A k \in DOMAIN toWorker[s] : toWorker[s][k] \notin held[s]
  /\ \A s, t, x \in Ids : With(s, x) /\ With(t, x) => s = t

LEMMA OnceSuffices == IInv /\ Once => DispatchedOnce
<1> SUFFICES ASSUME IInv, Once PROVE DispatchedOnce
  OBVIOUS
<1>1. /\ task \in Seq(Ids) /\ IsInjective(task)
      /\ \A s \in Ids : toWorker[s] \in Seq(Ids) /\ held[s] \subseteq Ids
  BY DEF IInv, TypeOK, QueueShape
<1>2. \A s \in Ids : \A x \in ToSet(toWorker[s]) \cup held[s] : x \in Ids /\ With(s, x) /\ Given(x)
  BY <1>1 DEF With, Among, ToSet, IInv, ChannelShape
<1>3. ASSUME NEW s \in Ids
      PROVE  (ToSet(toWorker[s]) \cup held[s]) \cap ToSet(task) = {}
  BY <1>2 DEF ToSet, Given
<1>4. ASSUME NEW s \in Ids, NEW t \in Ids \ {s}
      PROVE  (ToSet(toWorker[s]) \cup held[s]) \cap (ToSet(toWorker[t]) \cup held[t]) = {}
  BY <1>2 DEF Once
<1>5. ASSUME NEW s \in Ids
      PROVE  IsInjective(toWorker[s]) /\ ToSet(toWorker[s]) \cap held[s] = {}
  BY DEF Once, ToSet
<1> QED
  BY <1>1, <1>3, <1>4, <1>5 DEF DispatchedOnce

\* Channels that stay as they are or are emptied.
LEMMA OnceEmptied ==
  ASSUME Once, \A s \in Ids : /\ toWorker'[s] \in {toWorker[s], <<>>}
                              /\ held'[s] \in {held[s], {}}
  PROVE  Once'
<1>1. \A s, x \in Ids : With(s, x)' => With(s, x)
  BY DEF With, Among
<1>2. IsInjective(<<>>)
  BY DEF IsInjective
<1> QED
  BY <1>1, <1>2 DEF Once

\* A worker takes the head of its channel.
LEMMA OnceTaken ==
  ASSUME IInv, Once, NEW s \in Ids, WorkerTake(s)
  PROVE  Once'
<1>1. /\ toWorker[s] \in Seq(Ids) /\ toWorker[s] # <<>> /\ IsInjective(toWorker[s])
      /\ \A k \in DOMAIN toWorker[s] : toWorker[s][k] \notin held[s]
      /\ toWorker'[s] = Tail(toWorker[s]) /\ held'[s] = held[s] \cup {Head(toWorker[s])}
  BY DEF WorkerTake, IInv, TypeOK, Once
<1>2. \A t \in Ids \ {s} : toWorker'[t] = toWorker[t] /\ held'[t] = held[t]
  BY DEF WorkerTake, IInv, TypeOK
<1>3. /\ IsInjective(toWorker'[s])
      /\ \A k \in DOMAIN toWorker'[s] : toWorker'[s][k] \notin held'[s]
      /\ \A x \in Ids : With(s, x)' => With(s, x)
  <2> PICK q, h, r, g : q = toWorker[s] /\ h = held[s] /\ r = toWorker'[s] /\ g = held'[s]
    OBVIOUS
  <2>1. /\ q \in Seq(Ids) /\ q # <<>> /\ IsInjective(q) /\ \A k \in DOMAIN q : q[k] \notin h
        /\ r = Tail(q) /\ g = h \cup {Head(q)}
    BY <1>1
  <2>2. 1 \in DOMAIN q /\ g = h \cup {q[1]}
    BY <2>1
  <2>3. \A k \in DOMAIN r : k \in Int /\ k+1 # 1 /\ k+1 \in DOMAIN q /\ r[k] = q[k+1]
    BY <2>1
  <2>4. IsInjective(r) /\ \A k \in DOMAIN r : r[k] # q[1]
    BY <2>1, <2>2, <2>3 DEF IsInjective
  <2>5. \A k \in DOMAIN r : r[k] \notin g
    BY <2>1, <2>2, <2>3, <2>4
  <2>6. \A x \in Ids : (\E k \in DOMAIN r : r[k] = x) \/ x \in g => (\E k \in DOMAIN q : q[k] = x) \/ x \in h
    BY <2>2, <2>3
  <2> QED
    BY <2>4, <2>5, <2>6 DEF With, Among
<1>4. \A t, x \in Ids : With(t, x)' => With(t, x)
  BY <1>2, <1>3 DEF With, Among
<1>5. ASSUME NEW t \in Ids
      PROVE  /\ IsInjective(toWorker'[t])
             /\ \A k \in DOMAIN toWorker'[t] : toWorker'[t][k] \notin held'[t]
  BY <1>2, <1>3 DEF Once
<1> QED
  BY <1>4, <1>5 DEF Once

\* The channel r is q with the n oldest tasks of t written to it.
Written(q, t, n, r) ==
  /\ DOMAIN r = 1 .. Len(q)+n
  /\ \A m \in 1 .. Len(q) : m \in DOMAIN q /\ r[m] = q[m]
  /\ \A m \in DOMAIN r : m > Len(q) => m-Len(q) \in 1 .. n /\ r[m] = t[m-Len(q)]
  /\ \A j \in 1 .. n : Len(q)+j \in DOMAIN r /\ r[Len(q)+j] = t[j]

LEMMA WrittenElements ==
  ASSUME NEW S, NEW q \in Seq(S), NEW t \in Seq(S), NEW n \in 0 .. Len(t)
  PROVE  Written(q, t, n, q \o SubSeq(t, 1, n))
<1>1. ASSUME NEW u, u = SubSeq(t, 1, n)
      PROVE  u \in Seq(S) /\ Len(u) = n /\ \A j \in 1 .. n : u[j] = t[j]
  BY <1>1
<1>2. ASSUME NEW u \in Seq(S), Len(u) = n, \A j \in 1 .. n : u[j] = t[j], NEW r, r = q \o u
      PROVE  Written(q, t, n, r)
  <2>1. r \in Seq(S) /\ Len(q) \in Nat /\ n \in Nat /\ DOMAIN r = 1 .. Len(q)+n
    <3>1. q \o u \in Seq(S) /\ Len(q \o u) = Len(q) + Len(u)
      OBVIOUS
    <3>2. r \in Seq(S) /\ Len(r) = Len(q) + n
      BY <1>2, <3>1
    <3> QED
      BY <3>2
  <2>2. \A m \in 1 .. Len(q) : m \in DOMAIN q /\ r[m] = q[m]
    BY <1>2
  <2>3. \A m \in DOMAIN r : m > Len(q) => m-Len(q) \in 1 .. n /\ r[m] = t[m-Len(q)]
    BY <1>2, <2>1
  <2>4. \A j \in 1 .. n : Len(q)+j \in DOMAIN r /\ r[Len(q)+j] = t[j]
    BY <1>2, <2>1
  <2> QED
    BY <2>1, <2>2, <2>3, <2>4 DEF Written
<1> QED
  BY <1>1, <1>2, Zenon

LEMMA WrittenMembers ==
  ASSUME NEW S, NEW q \in Seq(S), NEW t \in Seq(S), NEW n \in 0 .. Len(t),
         NEW r, Written(q, t, n, r), NEW x
  PROVE  Among(r, x) <=> Among(q, x) \/ \E j \in 1 .. n : t[j] = x
<1>1. Len(q) \in Nat /\ n \in Nat /\ DOMAIN q = 1 .. Len(q)
  OBVIOUS
<1>2. ASSUME NEW m \in DOMAIN r PROVE (\E k \in DOMAIN q : r[m] = q[k]) \/ \E j \in 1 .. n : t[j] = r[m]
  <2>1. m \in 1 .. Len(q) \/ m > Len(q)
    BY <1>1 DEF Written
  <2> QED
    BY <2>1 DEF Written
<1>3. \A m \in DOMAIN q : m \in DOMAIN r /\ r[m] = q[m]
  BY <1>1 DEF Written
<1>4. \A j \in 1 .. n : Len(q)+j \in DOMAIN r /\ r[Len(q)+j] = t[j]
  BY DEF Written
<1> QED
  BY <1>2, <1>3, <1>4 DEF Among

\* The channel holds nothing twice if it had no task in common with t.
LEMMA WrittenInjective ==
  ASSUME NEW S, NEW q \in Seq(S), NEW t \in Seq(S), NEW n \in 0 .. Len(t),
         IsInjective(q), IsInjective(t), \A k \in DOMAIN q, j \in 1 .. n : q[k] # t[j],
         NEW r, Written(q, t, n, r)
  PROVE  IsInjective(r)
<1>1. /\ DOMAIN r = 1 .. Len(q)+n
      /\ \A m \in 1 .. Len(q) : m \in DOMAIN q /\ r[m] = q[m]
      /\ \A m \in DOMAIN r : m > Len(q) => m-Len(q) \in 1 .. n /\ r[m] = t[m-Len(q)]
  BY DEF Written
<1>2. Len(q) \in Nat /\ n \in Nat /\ \A j \in 1 .. n : j \in DOMAIN t
  OBVIOUS
<1>3. ASSUME NEW a \in DOMAIN r, NEW b \in DOMAIN r, r[a] = r[b] PROVE a = b
  <2>1. CASE a \in 1 .. Len(q) /\ b \in 1 .. Len(q)
    BY <1>1, <1>3, <2>1 DEF IsInjective
  <2>2. CASE a > Len(q) /\ b > Len(q)
    <3>1. t[a - Len(q)] = t[b - Len(q)] /\ a - Len(q) \in DOMAIN t /\ b - Len(q) \in DOMAIN t
      BY <1>1, <1>2, <1>3, <2>2
    <3>2. a - Len(q) = b - Len(q)
      BY <3>1 DEF IsInjective
    <3> QED
      BY <1>1, <1>2, <3>2
  <2>3. CASE a \in 1 .. Len(q) /\ b > Len(q)
    BY <1>1, <1>3, <2>3
  <2>4. CASE a > Len(q) /\ b \in 1 .. Len(q)
    BY <1>1, <1>3, <2>4
  <2> QED
    BY <1>1, <1>2, <2>1, <2>2, <2>3, <2>4
<1> QED
  BY <1>3 DEF IsInjective

\* Where the n oldest tasks go: the end of one channel.
Forwarded(i, n) ==
  /\ n \in 0 .. Len(task)
  /\ TakeTasks(n)
  /\ toWorker' = [toWorker EXCEPT ![Sock(i)] = @ \o SubSeq(task, 1, n)]
  /\ UNCHANGED <<treeVars, appVars, backlog, peer, rx, held, fromWorker, resp>>

LEMMA TasksForwarded ==
  ASSUME IInv, NEW i \in Ids, TasksSent(i)
  PROVE  \E n \in 0 .. SendQuota : Forwarded(i, n)
<1>1. PICK n \in 0 .. SendQuota :
        /\ TakeTasks(n)
        /\ toWorker' = [toWorker EXCEPT ![Sock(i)] = @ \o SubSeq(task, 1, n)]
        /\ UNCHANGED <<treeVars, appVars, backlog, peer, rx, held, fromWorker, resp>>
  BY DEF TasksSent
<1>2. n \in 0 .. Len(task)
  BY <1>1, TakeTasksParts
<1> QED
  BY <1>1, <1>2 DEF Forwarded

\* What a channel holds after it: what it held, and the n oldest tasks.
LEMMA ForwardedChannels ==
  ASSUME IInv, NEW i \in Ids, NEW n, Forwarded(i, n)
  PROVE  /\ \A s \in Ids \ {Sock(i)} : toWorker'[s] = toWorker[s]
         /\ Sock(i) \in Ids => Written(toWorker[Sock(i)], task, n, toWorker'[Sock(i)])
<1>1. \A s \in Ids \ {Sock(i)} : toWorker'[s] = toWorker[s]
  BY DEF Forwarded, IInv, TypeOK
<1>2. ASSUME Sock(i) \in Ids
      PROVE  Written(toWorker[Sock(i)], task, n, toWorker'[Sock(i)])
  <2>1. toWorker[Sock(i)] \in Seq(Ids) /\ task \in Seq(Ids) /\ n \in 0 .. Len(task)
    BY <1>2 DEF Forwarded, IInv, TypeOK
  <2>2. toWorker'[Sock(i)] = toWorker[Sock(i)] \o SubSeq(task, 1, n)
    BY <1>2 DEF Forwarded, IInv, TypeOK
  <2>3. Written(toWorker[Sock(i)], task, n, toWorker[Sock(i)] \o SubSeq(task, 1, n))
    BY <2>1, WrittenElements, Zenon
  <2> QED
    BY <2>2, <2>3, Zenon
<1> QED
  BY <1>1, <1>2

LEMMA ForwardedMembers ==
  ASSUME IInv, NEW i \in Ids, NEW n, Forwarded(i, n), NEW s \in Ids, NEW x
  PROVE  With(s, x)' <=> With(s, x) \/ (s = Sock(i) /\ \E j \in 1 .. n : task[j] = x)
<1>1. CASE s = Sock(i)
  <2>1. /\ toWorker[s] \in Seq(Ids) /\ task \in Seq(Ids) /\ n \in 0 .. Len(task)
        /\ Written(toWorker[s], task, n, toWorker'[s])
    BY <1>1, ForwardedChannels DEF Forwarded, IInv, TypeOK
  <2>2. Among(toWorker'[s], x) <=> Among(toWorker[s], x) \/ \E j \in 1 .. n : task[j] = x
    BY <2>1, WrittenMembers
  <2> QED
    BY <1>1, <2>2 DEF With, Forwarded
<1>2. CASE s # Sock(i)
  BY <1>2, ForwardedChannels DEF With, Forwarded
<1> QED
  BY <1>1, <1>2

\* Tasks are with no worker before they are sent, and with one after.
LEMMA OnceForwarded ==
  ASSUME IInv, Once, NEW i \in Ids, NEW n, Forwarded(i, n)
  PROVE  Once'
<1>0. /\ task \in Seq(Ids) /\ IsInjective(task) /\ n \in 0 .. Len(task) /\ held' = held
      /\ \A j \in 1 .. n : j \in DOMAIN task /\ task[j] \in Ids
  BY DEF Forwarded, IInv, TypeOK, QueueShape
<1>1. \A s \in Ids, j \in 1 .. n : ~With(s, task[j])
  <2>1. \A s \in Ids, x \in Ids : With(s, x) => Given(x)
    BY DEF With, Among, IInv, ChannelShape
  <2> QED
    BY <1>0, <2>1 DEF Given
<1>2. \A s, x \in Ids : With(s, x)' => With(s, x) \/ (s = Sock(i) /\ \E j \in 1 .. n : task[j] = x)
  BY ForwardedMembers
<1>3. \A s, t, x \in Ids : With(s, x)' /\ With(t, x)' => s = t
  BY <1>1, <1>2 DEF Once
<1>4. ASSUME NEW s \in Ids
      PROVE  /\ IsInjective(toWorker'[s])
             /\ \A k \in DOMAIN toWorker'[s] : toWorker'[s][k] \notin held'[s]
  <2>1. CASE s # Sock(i)
    BY <1>0, <2>1, ForwardedChannels DEF Once
  <2>2. CASE s = Sock(i)
    <3>1. /\ toWorker[s] \in Seq(Ids) /\ IsInjective(toWorker[s])
          /\ \A k \in DOMAIN toWorker[s] : toWorker[s][k] \notin held[s]
          /\ Written(toWorker[s], task, n, toWorker'[s])
      BY <2>2, ForwardedChannels DEF Once, IInv, TypeOK
    <3>2. \A k \in DOMAIN toWorker[s], j \in 1 .. n : toWorker[s][k] # task[j]
      BY <1>1 DEF With, Among
    <3>3. IsInjective(toWorker'[s])
      BY <1>0, <3>1, <3>2, WrittenInjective, Zenon
    <3>4. ASSUME NEW m \in DOMAIN toWorker'[s] PROVE toWorker'[s][m] \notin held[s]
      <4>1. Among(toWorker'[s], toWorker'[s][m])
        BY <3>4 DEF Among
      <4>2. Among(toWorker[s], toWorker'[s][m]) \/ \E j \in 1 .. n : task[j] = toWorker'[s][m]
        BY <1>0, <3>1, <4>1, WrittenMembers
      <4> QED
        BY <1>1, <3>1, <4>2 DEF With, Among
    <3> QED
      BY <1>0, <3>3, <3>4
  <2> QED
    BY <2>1, <2>2
<1> QED
  BY <1>3, <1>4 DEF Once

LEMMA OnceStep == ASSUME IInv, Once, [Next]_vars PROVE Once'
<1> USE DEF treeVars, appVars, queueVars, netVars, chanVars, loopVars, Quiet
<1>1. ASSUME UNCHANGED <<toWorker, held>> PROVE Once'
  BY <1>1, OnceEmptied
<1>2. ASSUME NEW i \in Ids, Teardown(i) PROVE Once'
  <2>1. \A s \in Ids : /\ toWorker'[s] \in {toWorker[s], <<>>}
                       /\ held'[s] \in {held[s], {}}
    BY <1>2, CloseFdParts
  <2> QED
    BY <2>1, OnceEmptied
<1>3. ASSUME NEW i \in Ids, ExpireTimer(i) PROVE Once'
  BY <1>2, <1>3 DEF ExpireTimer
<1>4. CASE EnterWait \/ PollReady \/ PollTimeout \/ Wake \/ Tick \/ UNCHANGED vars
  BY <1>1, <1>4 DEF EnterWait, PollReady, PollTimeout, Wake, Tick, vars
<1>5. CASE Settle
  <2>1. cur \in Ids
    BY <1>5 DEF Settle, IInv, TypeOK, BatchShape
  <2> QED
    BY <1>1, <1>2, <1>5, <2>1 DEF Settle
<1>6. ASSUME NEW i \in Ids, AcceptHttp(i) \/ AcceptLocal(i) \/ SkipHandler(i) PROVE Once'
  BY <1>1, <1>6 DEF AcceptHttp, AcceptLocal, SkipHandler
<1>7. ASSUME NEW i \in Ids, RecvMore(i) \/ RecvDone(i) \/ AnswerSent(i) \/ FramesReceived(i)
               \/ SetClose(i) \/ WorkerIdle(i) \/ TasksLost(i)
      PROVE  Once'
  BY <1>1, <1>7 DEF RecvMore, RecvDone, AnswerSent, FramesReceived, SetClose, WorkerIdle, TasksLost
<1>8. ASSUME NEW i \in Ids, TasksSent(i) PROVE Once'
  BY <1>8, TasksForwarded, OnceForwarded
<1>9. CASE Quiet
  BY <1>1, <1>9
<1>10. ASSUME NEW l \in Listeners, Connect(l) PROVE Once'
  BY <1>1, <1>10 DEF Connect
<1>11. ASSUME NEW i \in Ids, ClientSend(i) \/ WorkerAnswer(i) PROVE Once'
  BY <1>1, <1>11 DEF ClientSend, WorkerAnswer
<1>12. ASSUME NEW i \in Ids, PeerCloses(i) PROVE Once'
  <2>1. \A s \in Ids : /\ toWorker'[s] \in {toWorker[s], <<>>}
                       /\ held'[s] \in {held[s], {}}
    BY <1>12 DEF PeerCloses, IInv, TypeOK
  <2> QED
    BY <2>1, OnceEmptied
<1>13. ASSUME NEW i \in Ids, WorkerTake(i) PROVE Once'
  BY <1>13, OnceTaken
<1> QED
  BY <1>3, <1>4, <1>5, <1>6, <1>7, <1>8, <1>9, <1>10, <1>11, <1>12, <1>13, StepCases DEF ReceiveEnds

\* A request is in one place: in the queue, or once with one worker, so that no
\* client's request is handed out twice while it waits (send_local_cb removes
\* from the queue what send took, and nothing else puts a request in a channel).
THEOREM OneDispatch == Spec => []DispatchedOnce
<1>1. Init => Once
  BY DEF Init, Once, With, Among, IsInjective
<1>2. IInv /\ Once /\ [Next]_vars => Once'
  BY OnceStep
<1> QED
  BY <1>1, <1>2, Invariance, OnceSuffices, PTL DEF Spec

----------------------------------------------------------------------------
(* Requests that wait.                                                      *)

LEMMA UnlinkKeeps ==
  ASSUME NEW S, NEW q \in Seq(S), NEW i, NEW x, x # i
  PROVE  Among(Unlink(q, i), x) <=> Among(q, x)
<1>1. Among(Unlink(q, i), x) => Among(q, x)
  BY UnlinkProperties DEF Among
<1>2. ASSUME Among(q, x) PROVE Among(Unlink(q, i), x)
  <2>1. CASE \E k \in DOMAIN q : q[k] = i
    <3> DEFINE p == CHOOSE k \in DOMAIN q : q[k] = i
               r == [j \in 1 .. Len(q)-1 |-> IF j < p THEN q[j] ELSE q[j+1]]
    <3>1. p \in DOMAIN q /\ q[p] = i /\ Unlink(q, i) = r
      BY <2>1 DEF Unlink
    <3>2. Len(q) \in Nat /\ DOMAIN q = 1 .. Len(q)
      OBVIOUS
    <3> HIDE DEF p
    <3>3. PICK k \in DOMAIN q : q[k] = x
      BY <1>2 DEF Among
    <3>4. k # p /\ k \in Int /\ p \in Int
      BY <3>1, <3>2, <3>3
    <3>5. CASE k < p
      <4>1. k \in DOMAIN r /\ r[k] = x
        BY <3>1, <3>2, <3>3, <3>5
      <4> QED
        BY <3>1, <4>1 DEF Among
    <3>6. CASE k > p
      <4>1. k-1 \in DOMAIN r /\ ~(k-1 < p) /\ r[k-1] = x
        BY <3>1, <3>2, <3>3, <3>6
      <4> QED
        BY <3>1, <4>1 DEF Among
    <3> QED
      BY <3>4, <3>5, <3>6
  <2>2. CASE ~ \E k \in DOMAIN q : q[k] = i
    BY <1>2, <2>2 DEF Unlink
  <2> QED
    BY <2>1, <2>2
<1> QED
  BY <1>1, <1>2

LEMMA AppendMembers ==
  ASSUME NEW S, NEW q \in Seq(S), NEW e \in S, NEW x
  PROVE  Among(Append(q, e), x) <=> Among(q, x) \/ x = e
<1>1. ASSUME NEW r, r = Append(q, e) PROVE Among(r, x) <=> Among(q, x) \/ x = e
  <2>1. /\ Len(q) \in Nat /\ DOMAIN q = 1 .. Len(q) /\ DOMAIN r = 1 .. Len(q)+1
        /\ r[Len(q)+1] = e /\ \A k \in 1 .. Len(q) : r[k] = q[k]
    BY <1>1
  <2> QED
    BY <2>1 DEF Among
<1> QED
  BY <1>1

\* The tasks that are queued are those that stay and the n oldest.
LEMMA TasksStay ==
  ASSUME NEW S, NEW q \in Seq(S), NEW n \in 0 .. Len(q), NEW x
  PROVE  Among(q, x) <=> Among(SubSeq(q, n+1, Len(q)), x) \/ \E j \in 1 .. n : q[j] = x
<1>1. ASSUME NEW r, r = SubSeq(q, n+1, Len(q))
      PROVE  Among(q, x) <=> Among(r, x) \/ \E j \in 1 .. n : q[j] = x
  <2>1. /\ n \in Nat /\ Len(q) \in Nat /\ DOMAIN q = 1 .. Len(q) /\ DOMAIN r = 1 .. Len(q)-n
        /\ \A m \in DOMAIN r : n+m \in DOMAIN q /\ r[m] = q[n+m]
    BY <1>1, SuffixProperties
  <2>2. ASSUME NEW k \in DOMAIN q, q[k] = x PROVE Among(r, x) \/ \E j \in 1 .. n : q[j] = x
    <3>1. CASE k \in 1 .. n
      BY <2>2, <3>1
    <3>2. CASE k > n
      <4>1. k-n \in DOMAIN r /\ n+(k-n) = k
        BY <2>1, <3>2
      <4>2. r[k-n] = q[k]
        BY <2>1, <4>1
      <4> QED
        BY <2>2, <4>1, <4>2 DEF Among
    <3> QED
      BY <2>1, <3>1, <3>2
  <2>3. ASSUME Among(r, x) PROVE Among(q, x)
    BY <2>1, <2>3 DEF Among
  <2>4. ASSUME NEW j \in 1 .. n, q[j] = x PROVE Among(q, x)
    BY <2>1, <2>4 DEF Among
  <2> QED
    BY <2>2, <2>3, <2>4 DEF Among
<1> QED
  BY <1>1

\* A request that is somewhere: in the queue or with a worker.
Safe(j) == Among(task, j) \/ \E s \in Ids : With(s, j)

\* NoRequestLost, for every id.
Waiting ==
  "worker" \notin Closers =>
    \A j \in Ids : handler[j] = "send_http" /\ status[j] = "wait" => Safe(j)

\* Closing any app but a sending half empties no channel.
LEMMA ChannelsKept ==
  ASSUME IInv, ConnInv, "worker" \notin Closers,
         NEW i \in Ids, handler[i] \notin {"none", "send_local"}, Teardown(i)
  PROVE  \A s \in Ids : toWorker'[s] = toWorker[s] /\ held'[s] = held[s]
<1> SUFFICES ASSUME NEW s \in Ids PROVE toWorker'[s] = toWorker[s] /\ held'[s] = held[s]
  OBVIOUS
<1>1. Sock(i) = i
  BY DEF Sock
<1>2. Stays(s) /\ i \in Int /\ \A j \in Ids : Half(j)
  BY DEF ConnInv, StayingWorkers, Halves, Ids
<1>3. CASE s # i
  BY <1>1, <1>3, CloseFdParts
<1>4. CASE s = i /\ toWorker[s] = <<>> /\ held[s] = {}
  BY <1>4, CloseFdParts
<1>5. CASE s = i /\ (toWorker[s] # <<>> \/ held[s] # {})
  <2>1. i+1 \in Ids /\ handler[i+1] = "send_local"
    BY <1>2, <1>5 DEF Stays
  <2>2. PICK h \in Ids : h = i+1 /\ h-1 = i
    BY <1>2, <2>1
  <2>3. handler[h-1] = "recv_local"
    BY <1>2, <2>1, <2>2 DEF Half
  <2>4. handler[i] = "recv_local"
    BY <2>2, <2>3, Zenon
  <2>5. SharesSocket(i)
    BY <2>1, <2>4 DEF SharesSocket
  <2> QED
    BY <2>5, CloseFdParts
<1> QED
  BY <1>3, <1>4, <1>5

LEMMA WaitingStep == ASSUME IInv, ConnInv, Waiting, [Next]_vars PROVE Waiting'
<1> USE DEF treeVars, appVars, queueVars, netVars, chanVars, loopVars, Quiet
<1> SUFFICES ASSUME "worker" \notin Closers, NEW j \in Ids, handler'[j] = "send_http", status'[j] = "wait"
             PROVE  Safe(j)'
  BY DEF Waiting
<1>0. /\ handler[j] = "send_http" /\ status[j] = "wait" => Safe(j)
      /\ \A i \in Ids : Stays(i) /\ Half(i) /\ i \in Int
      /\ \A i \in idTree : i \in Ids /\ handler[i] # "none"
      /\ task \in Seq(Ids)
  BY DEF Waiting, ConnInv, StayingWorkers, Halves, IInv, TypeOK, Registered, Ids
<1>1. ASSUME NEW i \in Ids, handler[i] \notin {"none", "send_local"}, Teardown(i)
      PROVE  Safe(j)'
  <2>1. j # i /\ handler'[j] = handler[j] /\ status'[j] = status[j]
    BY <1>1, FreeAppParts
  <2>2. task' = Unlink(task, i)
    BY <1>1 DEF Teardown, Dequeue
  <2>3. Among(task, j) => Among(task', j)
    BY <1>0, <2>1, <2>2, UnlinkKeeps
  <2>4. \A s \in Ids : With(s, j) => With(s, j)'
    BY <1>1, ChannelsKept DEF With
  <2> QED
    BY <1>0, <2>1, <2>3, <2>4 DEF Safe
<1>2. ASSUME NEW i \in Ids, ExpireTimer(i) PROVE Safe(j)'
  BY <1>0, <1>1, <1>2 DEF ExpireTimer, Half
<1>3. ASSUME handler[j] = "send_http", status[j] = "wait", UNCHANGED <<task, toWorker, held>>
      PROVE  Safe(j)'
  BY <1>0, <1>3 DEF Safe, With
<1>4. CASE EnterWait \/ PollReady \/ PollTimeout \/ Tick \/ UNCHANGED vars
  BY <1>3, <1>4 DEF EnterWait, PollReady, PollTimeout, Tick, vars
<1>5. CASE Settle
  <2>1. cur \in Ids /\ handler[cur] # "none"
    BY <1>0, <1>5 DEF Settle, IInv, TypeOK, BatchShape
  <2>2. CASE ready[cur] \cap {"HUP", "RDHUP"} # {} \/ status[cur] = "close"
    <3>1. handler[cur] # "send_local"
      BY <1>0, <2>1, <2>2 DEF Stays
    <3> QED
      BY <1>1, <1>5, <2>1, <2>2, <3>1 DEF Settle
  <2> QED
    BY <1>3, <1>5, <2>1, <2>2 DEF Settle
<1>6. CASE Wake
  BY <1>3, <1>6 DEF Wake
<1>7. ASSUME NEW i \in Ids, AcceptHttp(i) PROVE Safe(j)'
  BY <1>3, <1>7 DEF AcceptHttp
<1>8. ASSUME NEW i \in Ids, AcceptLocal(i) PROVE Safe(j)'
  <2>1. PICK n \in 0 .. 2 : NewHalves(n)
    BY <1>8, AcceptLocalParts
  <2> QED
    BY <1>3, <2>1 DEF NewHalves
<1>9. ASSUME NEW i \in Ids, SkipHandler(i) \/ Quiet \/ RecvMore(i) PROVE Safe(j)'
  BY <1>3, <1>9 DEF SkipHandler, RecvMore
<1>10. ASSUME NEW i \in Ids, RecvDone(i) PROVE Safe(j)'
  <2>1. /\ task' = Append(task, i) /\ UNCHANGED <<toWorker, held>>
        /\ j # i => handler'[j] = handler[j] /\ status'[j] = status[j]
    BY <1>10 DEF RecvDone, Enqueue, IInv, TypeOK
  <2>2. Among(task, j) \/ j = i => Among(task', j)
    BY <1>0, <2>1, AppendMembers
  <2> QED
    BY <1>0, <2>1, <2>2 DEF Safe, With
<1>11. ASSUME NEW i \in Ids, SetClose(i) \/ AnswerSent(i) PROVE Safe(j)'
  BY <1>3, <1>11 DEF SetClose, AnswerSent, IInv, TypeOK
<1>12. ASSUME NEW i \in Ids, FramesReceived(i) PROVE Safe(j)'
  BY <1>3, <1>12 DEF FramesReceived
<1>13. ASSUME NEW i \in Ids, Handle(i, "send_local"), WorkerIdle(i) PROVE Safe(j)'
  BY <1>3, <1>13 DEF WorkerIdle, Handle, IInv, TypeOK
<1>14. ASSUME NEW i \in Ids, Handle(i, "send_local"), TasksLost(i) PROVE FALSE
  BY <1>0, <1>14 DEF Handle, TasksLost, Sock, Stays
<1>15. ASSUME NEW i \in Ids, Handle(i, "send_local"), TasksSent(i) PROVE Safe(j)'
  <2>1. PICK n \in 0 .. SendQuota : Forwarded(i, n)
    BY <1>15, TasksForwarded
  <2>2. PICK t \in Ids : t = Sock(i)
    BY <1>0, <1>15 DEF Handle, Sock, Half
  <2>3. handler[j] = "send_http" /\ status[j] = "wait"
    BY <2>1 DEF Forwarded
  <2>4. \A s \in Ids : With(s, j) => With(s, j)'
    BY <2>1, ForwardedMembers
  <2>5. (\E k \in 1 .. n : task[k] = j) => With(t, j)'
    BY <2>1, <2>2, ForwardedMembers
  <2>6. Among(task, j) => Among(task', j) \/ \E k \in 1 .. n : task[k] = j
    <3>1. n \in 0 .. Len(task) /\ task' = SubSeq(task, n+1, Len(task))
      BY <2>1 DEF Forwarded, TakeTasks
    <3> QED
      BY <1>0, <3>1, TasksStay
  <2> QED
    BY <1>0, <2>2, <2>3, <2>4, <2>5, <2>6 DEF Safe
<1>16. ASSUME NEW l \in Listeners, Connect(l) PROVE Safe(j)'
  BY <1>3, <1>16 DEF Connect
<1>17. ASSUME NEW i \in Ids, ClientSend(i) \/ WorkerAnswer(i) PROVE Safe(j)'
  BY <1>3, <1>17 DEF ClientSend, WorkerAnswer
<1>18. ASSUME NEW s \in Ids, PeerCloses(s) PROVE Safe(j)'
  <2>1. ~ (s+1 \in Ids /\ handler[s+1] = "send_local")
    BY <1>18 DEF PeerCloses, WorkerSocket
  <2>2. toWorker[s] = <<>> /\ held[s] = {}
    BY <1>0, <2>1 DEF Stays
  <2>3. \A t \in Ids : toWorker'[t] = toWorker[t] /\ held'[t] = held[t]
    BY <1>18, <2>2 DEF PeerCloses, IInv, TypeOK
  <2> QED
    BY <1>0, <1>18, <2>3 DEF PeerCloses, Safe, With
<1>19. ASSUME NEW s \in Ids, WorkerTake(s) PROVE Safe(j)'
  <2>1. handler[j] = "send_http" /\ status[j] = "wait" /\ task' = task
    BY <1>19 DEF WorkerTake
  <2>2. \A t \in Ids \ {s} : With(t, j) => With(t, j)'
    BY <1>19 DEF WorkerTake, With, IInv, TypeOK
  <2>3. With(s, j) => With(s, j)'
    <3>1. /\ toWorker[s] \in Seq(Ids) /\ toWorker[s] # <<>>
          /\ toWorker'[s] = Tail(toWorker[s]) /\ held'[s] = held[s] \cup {Head(toWorker[s])}
      BY <1>19 DEF WorkerTake, IInv, TypeOK
    <3> PICK q, r : q = toWorker[s] /\ r = toWorker'[s]
      OBVIOUS
    <3>2. /\ q \in Seq(Ids) /\ q # <<>> /\ r = Tail(q) /\ held'[s] = held[s] \cup {q[1]}
      BY <3>1
    <3>3. ASSUME NEW k \in DOMAIN q, q[k] = j, k # 1 PROVE Among(r, j)
      <4>1. k-1 \in DOMAIN r /\ r[k-1] = q[k]
        BY <3>2, <3>3
      <4> QED
        BY <3>3, <4>1 DEF Among
    <3> QED
      BY <3>2, <3>3 DEF With, Among
  <2> QED
    BY <1>0, <2>1, <2>2, <2>3 DEF Safe
<1> QED
  BY <1>2, <1>4, <1>5, <1>6, <1>7, <1>8, <1>9, <1>10, <1>11, <1>12, <1>13, <1>14, <1>15,
     <1>16, <1>17, <1>18, <1>19, StepCases DEF ReceiveEnds

\* While workers stay, no request is dropped: a client that waits is in the queue,
\* or a worker has it or is about to.
THEOREM RequestsKept == Spec => []NoRequestLost
<1>1. Init => Waiting
  BY DEF Init, Waiting
<1>2. IInv /\ ConnInv /\ Waiting /\ [Next]_vars => Waiting'
  BY WaitingStep
<1>3. ASSUME IInv, Waiting PROVE NoRequestLost
  <2> SUFFICES ASSUME "worker" \notin Closers, NEW j \in idTree, handler[j] = "send_http", status[j] = "wait"
               PROVE  j \in ToSet(task) \/ \E s \in Ids : j \in ToSet(toWorker[s]) \cup held[s]
    BY DEF NoRequestLost
  <2>1. \A q : Among(q, j) <=> j \in ToSet(q)
    BY DEF Among, ToSet
  <2>2. Safe(j)
    BY <1>3 DEF IInv, TypeOK, Waiting
  <2> QED
    BY <2>1, <2>2 DEF Safe, With
<1> QED
  BY <1>1, <1>2, <1>3, Invariance, ConnInvariance, PTL DEF Spec

----------------------------------------------------------------------------
(* queue_remove and RemoveFirst are the same on a queue that holds an id once. *)

\* What is before p and what is after it.
LEMMA AroundPosition ==
  ASSUME NEW S, NEW q \in Seq(S), NEW p \in DOMAIN q
  PROVE  SubSeq(q, 1, p-1) \o SubSeq(q, p+1, Len(q))
           = [j \in 1 .. Len(q)-1 |-> IF j < p THEN q[j] ELSE q[j+1]]
<1>1. Len(q) \in Nat /\ p \in 1 .. Len(q) /\ \A j \in 1 .. Len(q) : q[j] \in S
  OBVIOUS
<1>2. ASSUME NEW a, a = SubSeq(q, 1, p-1)
      PROVE  a \in Seq(S) /\ Len(a) = p-1 /\ \A j \in 1 .. p-1 : a[j] = q[j]
  BY <1>1, <1>2
<1>3. ASSUME NEW b, b = SubSeq(q, p+1, Len(q))
      PROVE  b \in Seq(S) /\ Len(b) = Len(q)-p /\ \A j \in 1 .. Len(q)-p : b[j] = q[p+j]
  BY <1>1, <1>3
<1>4. ASSUME NEW a \in Seq(S), Len(a) = p-1, \A j \in 1 .. p-1 : a[j] = q[j],
             NEW b \in Seq(S), Len(b) = Len(q)-p, \A j \in 1 .. Len(q)-p : b[j] = q[p+j]
      PROVE  a \o b = [j \in 1 .. Len(q)-1 |-> IF j < p THEN q[j] ELSE q[j+1]]
  <2>1. a \o b \in Seq(S) /\ Len(a \o b) = Len(a) + Len(b)
    OBVIOUS
  <2>2. Len(a \o b) = Len(q)-1
    BY <1>1, <1>4, <2>1
  <2>3. \A j \in 1 .. p-1 : (a \o b)[j] = q[j]
    BY <1>1, <1>4
  <2>4. ASSUME NEW j \in p .. Len(q)-1 PROVE (a \o b)[j] = q[j+1]
    <3>1. (a \o b)[j] = b[j-(p-1)]
      BY <1>1, <1>4
    <3>2. j-(p-1) \in 1 .. Len(q)-p /\ p+(j-(p-1)) = j+1
      BY <1>1
    <3>3. b[j-(p-1)] = q[p+(j-(p-1))]
      BY <1>4, <3>2
    <3> QED
      BY <1>1, <3>1, <3>2, <3>3
  <2>5. PICK r \in Seq(S) : r = a \o b
    BY <2>1
  <2>6. /\ Len(r) = Len(q)-1
        /\ \A j \in 1 .. p-1 : r[j] = q[j]
        /\ \A j \in p .. Len(q)-1 : r[j] = q[j+1]
    BY <2>2, <2>3, <2>4, <2>5, Zenon
  <2>7. ASSUME NEW j \in 1 .. Len(q)-1 PROVE r[j] = IF j < p THEN q[j] ELSE q[j+1]
    BY <1>1, <2>6
  <2>8. r \in [1 .. Len(q)-1 -> S]
    BY <2>6
  <2>9. r = [j \in 1 .. Len(q)-1 |-> IF j < p THEN q[j] ELSE q[j+1]]
    BY <2>7, <2>8
  <2> QED
    BY <2>5, <2>9, Zenon
<1> QED
  BY <1>2, <1>3, <1>4, Zenon

LEMMA UnlinkRemovesFirst ==
  ASSUME NEW S, NEW q \in Seq(S), NEW e, IsInjective(q), Among(q, e)
  PROVE  Unlink(q, e) = D!RemoveFirst(q, e)
<1>1. PICK p \in DOMAIN q : q[p] = e
  BY DEF Among
<1>2. Len(q) \in Nat /\ DOMAIN q = 1 .. Len(q) /\ p \in Int
  OBVIOUS
<1>3. \A k \in DOMAIN q : q[k] = e => k = p
  BY <1>1 DEF IsInjective
<1>4. (CHOOSE k \in DOMAIN q : q[k] = e) = p
  BY <1>1, <1>3
<1>5. Unlink(q, e) = [j \in 1 .. Len(q)-1 |-> IF j < p THEN q[j] ELSE q[j+1]]
  BY <1>1, <1>4 DEF Unlink
<1>6. {k \in 1 .. Len(q) : q[k] = e} = {p} /\ D!Min({p}) = p
  BY <1>1, <1>2, <1>3 DEF D!Min
<1>7. D!SelectInSeq(q, LAMBDA v : v = e) = p
  BY <1>1, <1>6 DEF D!SelectInSeq
<1>8. D!RemoveFirst(q, e) = D!RemoveAt(q, p)
  BY <1>1, <1>2, <1>7 DEF D!RemoveFirst
<1> QED
  BY <1>5, <1>8, AroundPosition DEF D!RemoveAt

----------------------------------------------------------------------------
(* The stage of a client.                                                   *)

Values(i) ==
  /\ i >= nextId => Stage(i) = "unborn"
  /\ i < nextId /\ handler[i] = "none" => Stage(i) = "released"
  /\ handler[i] = "send_http" /\ Among(task, i) => Stage(i) = "queued"
  /\ handler[i] = "send_http" /\ ~Among(task, i) /\ buf[i] = "request" => Stage(i) = "dispatched"
  /\ handler[i] = "send_http" /\ buf[i] # "request" /\ resp[i] = "none" => Stage(i) = "answered"
  /\ handler[i] = "send_http" /\ resp[i] # "none" => Stage(i) = "responded"
  /\ handler[i] \notin {"none", "send_http"} => Stage(i) = "connected"

AllValues == \A i \in Ids : Values(i)

LEMMA StageValues == IInv /\ ConnInv => AllValues
<1> SUFFICES ASSUME IInv, ConnInv, NEW i \in Ids PROVE Values(i)
  BY DEF AllValues
<1> USE DEF Values
<1>1. i \in Int /\ nextId \in Int /\ (handler[i] # "none" => i < nextId)
  BY DEF IInv, TypeOK, Registered, Ids
<1>2. i \in ToSet(task) <=> Among(task, i)
  BY DEF ToSet, Among
<1>3. /\ Among(task, i) => buf[i] = "request" /\ handler[i] = "send_http"
      /\ resp[i] # "none" => buf[i] = "answer"
  BY DEF ConnInv, Responses, IInv, QueueShape, Among
<1>4. CASE i >= nextId
  BY <1>1, <1>4 DEF Stage
<1>5. CASE i < nextId /\ handler[i] = "none"
  BY <1>1, <1>5 DEF Stage
<1>6. CASE handler[i] = "send_http" /\ Among(task, i)
  BY <1>1, <1>2, <1>3, <1>6 DEF Stage
<1>7. CASE handler[i] = "send_http" /\ ~Among(task, i) /\ buf[i] = "request"
  BY <1>1, <1>2, <1>3, <1>7 DEF Stage
<1>8. CASE handler[i] = "send_http" /\ buf[i] # "request" /\ resp[i] = "none"
  BY <1>1, <1>2, <1>3, <1>8 DEF Stage
<1>9. CASE handler[i] = "send_http" /\ resp[i] # "none"
  BY <1>1, <1>2, <1>3, <1>9 DEF Stage
<1>10. CASE handler[i] \notin {"none", "send_http"}
  BY <1>1, <1>10 DEF Stage
<1> QED
  BY <1>1, <1>3, <1>4, <1>5, <1>6, <1>7, <1>8, <1>9, <1>10

LEMMA StageSame ==
  ASSUME IInv, ConnInv, IInv', ConnInv', NEW j \in Ids,
         j < nextId <=> j < nextId', handler'[j] = handler[j], buf'[j] = buf[j],
         resp'[j] = resp[j], Among(task, j)' <=> Among(task, j)
  PROVE  Stage(j)' = Stage(j)
<1>1. j \in Int /\ nextId \in Int /\ nextId' \in Int
  BY DEF IInv, TypeOK, Ids
<1>2. j \in ToSet(task) <=> j \in ToSet(task')
  BY DEF ToSet, Among
<1> QED
  BY <1>1, <1>2 DEF Stage

\* The dispatcher's view of a step that moves the clients of S to one stage.
LEMMA MovedStages ==
  ASSUME NEW S, NEW to, \A j \in Ids : Stage(j)' = IF j \in S THEN to ELSE Stage(j)
  PROVE  [i \in Ids |-> Stage(i)]' = D!Moved(S, to)
BY DEF D!Moved

----------------------------------------------------------------------------
(* The steps.                                                               *)

LEMMA TeardownReleases ==
  ASSUME IInv, ConnInv, IInv', ConnInv', NEW i \in Ids, handler[i] # "none", Teardown(i)
  PROVE  D!Release(i)
<1>1. /\ handler'[i] = "none" /\ nextId' = nextId
      /\ \A j \in Ids \ {i} : handler'[j] = handler[j] /\ buf'[j] = buf[j]
  BY FreeAppParts
<1>2. task \in Seq(Ids) /\ IsInjective(task) /\ task' = Unlink(task, i)
  BY DEF Teardown, Dequeue, IInv, TypeOK, QueueShape
<1>3. i \in Int /\ i < nextId /\ nextId \in Int
  BY DEF IInv, TypeOK, Registered, Ids
<1>4. Stage(i)' = "released"
  BY <1>1, <1>3 DEF Stage
<1>5. Stage(i) \notin {"unborn", "released"}
  BY <1>3 DEF Stage
<1>6. ASSUME NEW j \in Ids \ {i} PROVE Stage(j)' = Stage(j)
  <2>1. Among(task', j) <=> Among(task, j)
    BY <1>2, UnlinkKeeps
  <2>2. resp'[j] = resp[j]
    <3>1. CASE j = Sock(i) /\ ~SharesSocket(i)
      <4>1. handler[i] = "send_local" /\ handler[j] # "recv_local" /\ j = i-1
        BY <3>1 DEF Sock, SharesSocket
      <4>2. handler[j] = "none"
        BY <4>1 DEF ConnInv, Halves, Half
      <4> QED
        BY <3>1, <4>2, CloseFdParts DEF ConnInv, Responses
    <3> QED
      BY <3>1, CloseFdParts
  <2> QED
    BY <1>1, <2>1, <2>2, StageSame
<1>7. [j \in Ids |-> Stage(j)]' = D!Moved({i}, "released")
  BY <1>4, <1>6, MovedStages
<1>8. task' = IF \E k \in DOMAIN task : task[k] = i THEN D!RemoveFirst(task, i) ELSE task
  BY <1>2, UnlinkRemovesFirst DEF Unlink, Among
<1> QED
  BY <1>5, <1>7, <1>8 DEF D!Release

LEMMA NextValues == IInv' /\ ConnInv' => AllValues'
BY StageValues, PTL

LEMMA RegisterArrives ==
  ASSUME IInv, ConnInv, IInv', ConnInv', NEW n \in Nat, Register(n),
         \A j \in Ids \ NewIds(n) : handler'[j] = handler[j] /\ buf'[j] = buf[j],
         \A j \in NewIds(n) : handler'[j] \notin {"none", "send_http"},
         UNCHANGED <<task, resp>>
  PROVE  NewIds(n) \in SUBSET Ids /\ D!Arrive(NewIds(n))
<1>1. /\ NewIds(n) \subseteq Ids /\ nextId' = nextId + n /\ nextId \in Int
      /\ \A j \in Ids : j \in Int
  BY DEF Register, IInv, TypeOK, Ids
<1>2. ASSUME NEW j \in NewIds(n) PROVE Stage(j) = "unborn" /\ Stage(j)' = "connected"
  <2>1. j \in Ids /\ j >= nextId
    BY <1>1 DEF NewIds
  <2> QED
    BY <2>1, StageValues, NextValues DEF AllValues, Values
<1>3. ASSUME NEW j \in Ids, j \notin NewIds(n) PROVE Stage(j)' = Stage(j)
  <2>1. j < nextId <=> j < nextId'
    BY <1>1, <1>3 DEF NewIds
  <2> QED
    BY <1>3, <2>1, StageSame
<1>4. [j \in Ids |-> Stage(j)]' = D!Moved(NewIds(n), "connected")
  BY <1>2, <1>3, MovedStages
<1> QED
  BY <1>1, <1>2, <1>4 DEF D!Arrive

LEMMA RequestSubmits ==
  ASSUME IInv, ConnInv, IInv', ConnInv', NEW i \in Ids, handler[i] = "recv_http", RecvDone(i)
  PROVE  D!Submit(i)
<1>1. /\ task \in Seq(Ids) /\ task' = Append(task, i) /\ nextId' = nextId
      /\ handler'[i] = "send_http" /\ UNCHANGED <<buf, resp>>
      /\ \A j \in Ids \ {i} : handler'[j] = handler[j]
  BY DEF RecvDone, Enqueue, IInv, TypeOK, treeVars
<1>2. Stage(i) = "connected"
  BY StageValues DEF AllValues, Values
<1>3. Stage(i)' = "queued"
  <2>1. Among(task', i)
    BY <1>1, AppendMembers
  <2> QED
    BY <1>1, <2>1, NextValues DEF AllValues, Values, Among
<1>4. ASSUME NEW j \in Ids \ {i} PROVE Stage(j)' = Stage(j)
  <2>1. Among(task', j) <=> Among(task, j)
    BY <1>1, AppendMembers
  <2> QED
    BY <1>1, <2>1, StageSame DEF Among
<1>5. [j \in Ids |-> Stage(j)]' = D!Moved({i}, "queued")
  BY <1>3, <1>4, MovedStages
<1> QED
  BY <1>1, <1>2, <1>5 DEF D!Submit

LEMMA SendResponds ==
  ASSUME IInv, ConnInv, IInv', ConnInv', NEW i \in Ids, Handle(i, "send_http"), AnswerSent(i)
  PROVE  D!Respond(i)
<1>1. /\ handler[i] = "send_http" /\ buf[i] = "answer" /\ pc = "events" /\ resp'[i] # "none"
      /\ UNCHANGED <<nextId, handler, buf, task>>
      /\ \A j \in Ids \ {i} : resp'[j] = resp[j]
  BY DEF Handle, AnswerSent, IInv, TypeOK, treeVars, queueVars
<1>2. resp[i] = "none"
  BY <1>1 DEF ConnInv, Responses, IInv, Shape
<1>3. Stage(i) = "answered" /\ Stage(i)' = "responded"
  BY <1>1, <1>2, StageValues, NextValues DEF AllValues, Values
<1>4. ASSUME NEW j \in Ids \ {i} PROVE Stage(j)' = Stage(j)
  BY <1>1, StageSame DEF Among
<1>5. [j \in Ids |-> Stage(j)]' = D!Moved({i}, "responded")
  BY <1>3, <1>4, MovedStages
<1> QED
  BY <1>1, <1>3, <1>5 DEF D!Respond

LEMMA FramesAnswer ==
  ASSUME IInv, ConnInv, IInv', ConnInv', NEW i \in Ids, Handle(i, "recv_local"), FramesReceived(i)
  PROVE  \E S \in SUBSET Ids : D!Answer(S)
<1>1. PICK k \in 0 .. Len(fromWorker[i]) :
        /\ \A j \in Matched(i, k) : j \in Ids => buf'[j] # "request"
        /\ \A j \in Ids \ Matched(i, k) : buf'[j] = buf[j]
        /\ UNCHANGED <<nextId, handler, task, resp>>
  BY DEF FramesReceived, treeVars, queueVars
<1>2. pc = "events"
  BY DEF Handle
<1>3. ASSUME NEW j \in Matched(i, k)
      PROVE  /\ j \in Ids /\ Stage(j) \in {"dispatched", "answered"}
             /\ Stage(j)' = "answered"
  <2>1. /\ j \in Ids /\ handler[j] = "send_http" /\ ~Among(task, j)
    BY MatchedClients DEF IInv, TypeOK, Given, Among
  <2>2. resp[j] = "none"
    BY <1>2, <2>1 DEF ConnInv, Responses, IInv, Shape
  <2> QED
    BY <1>1, <2>1, <2>2, StageValues, NextValues DEF AllValues, Values
<1>4. ASSUME NEW j \in Ids \ Matched(i, k) PROVE Stage(j)' = Stage(j)
  BY <1>1, StageSame DEF Among
<1>5. [j \in Ids |-> Stage(j)]' = D!Moved(Matched(i, k), "answered")
  BY <1>3, <1>4, MovedStages
<1>6. D!Answer(Matched(i, k)) /\ Matched(i, k) \in SUBSET Ids
  BY <1>1, <1>3, <1>5 DEF D!Answer
<1> QED
  BY <1>6

LEMMA TasksDispatch ==
  ASSUME IInv, ConnInv, IInv', ConnInv', NEW n \in 0 .. SendQuota, TakeTasks(n),
         UNCHANGED <<nextId, handler, buf, resp>>
  PROVE  (n \in 1 .. Len(task) /\ D!Dispatch(n)) \/ UNCHANGED <<nextId, handler, buf, resp, task>>
<1>1. /\ task \in Seq(Ids) /\ n \in 0 .. Len(task) /\ task' = SubSeq(task, n+1, Len(task))
      /\ \A k \in 1 .. n : k \in DOMAIN task
      /\ \A k \in DOMAIN task : task[k] \in Ids /\ handler[task[k]] = "send_http" /\ buf[task[k]] = "request"
      /\ \A k \in DOMAIN task', j \in 1 .. n : task'[k] # task[j]
  <2>1. /\ task \in Seq(Ids) /\ task' = SubSeq(task, n+1, Len(task))
        /\ \A k \in DOMAIN task : task[k] \in Ids /\ handler[task[k]] = "send_http" /\ buf[task[k]] = "request"
    BY DEF TakeTasks, IInv, TypeOK, QueueShape, ConnInv, Responses
  <2>2. n \in 0 .. Len(task) /\ \A k \in DOMAIN task', j \in 1 .. n : task'[k] # task[j]
    BY TakeTasksParts
  <2>3. \A k \in 1 .. n : k \in DOMAIN task
    BY <2>1, <2>2
  <2> QED
    BY <2>1, <2>2, <2>3
<1>2. ASSUME NEW j PROVE Among(task, j) <=> Among(task', j) \/ \E k \in 1 .. n : task[k] = j
  <2>1. task \in Seq(Ids) /\ n \in 0 .. Len(task) /\ task' = SubSeq(task, n+1, Len(task))
    BY <1>1
  <2>2. Among(task, j) <=> Among(SubSeq(task, n+1, Len(task)), j) \/ \E k \in 1 .. n : task[k] = j
    BY <2>1, TasksStay
  <2> QED
    BY <2>1, <2>2
<1>3. ASSUME NEW c, \E k \in 1 .. n : task[k] = c PROVE c \in Ids /\ Stage(c)' = "dispatched"
  <2>1. c \in Ids /\ handler'[c] = "send_http" /\ buf'[c] = "request"
    BY <1>1, <1>3
  <2>2. ~Among(task', c)
    BY <1>1, <1>3 DEF Among
  <2> QED
    BY <2>1, <2>2, NextValues DEF AllValues, Values, Among
<1>4. ASSUME NEW j \in Ids, ~ \E k \in 1 .. n : task[k] = j PROVE Stage(j)' = Stage(j)
  BY <1>2, <1>4, StageSame DEF Among
<1>5. [j \in Ids |-> Stage(j)]' = D!Moved({task[k] : k \in 1 .. n}, "dispatched")
  BY <1>3, <1>4, MovedStages
<1>6. CASE n = 0
  <2>1. task' = task
    BY <1>1, <1>6
  <2> QED
    BY <2>1
<1>7. CASE n # 0
  BY <1>1, <1>5, <1>7 DEF D!Dispatch
<1> QED
  BY <1>6, <1>7

\* Every step is a step of the dispatcher, or one that it does not see.
LEMMA StepRefines ==
  ASSUME IInv, ConnInv, IInv', ConnInv', [Next]_vars
  PROVE  [D!Next]_(D!vars)
<1> USE DEF treeVars, appVars, queueVars, netVars, chanVars, loopVars, Quiet
<1>0. ASSUME UNCHANGED <<nextId, handler, buf, resp, task>> PROVE [D!Next]_(D!vars)
  <2>1. \A j \in Ids : Stage(j)' = Stage(j)
    BY <1>0 DEF Stage
  <2> QED
    BY <1>0, <2>1 DEF D!vars
<1>1. ASSUME NEW i \in Ids, handler[i] # "none", Teardown(i) PROVE [D!Next]_(D!vars)
  <2>1. D!Release(i)
    BY <1>1, TeardownReleases
  <2> QED
    BY <2>1 DEF D!Next
<1>2. ASSUME NEW i \in Ids, ExpireTimer(i) PROVE [D!Next]_(D!vars)
  BY <1>1, <1>2 DEF ExpireTimer, ConnInv, Halves, Half
<1>3. CASE EnterWait \/ PollReady \/ PollTimeout \/ Wake \/ Tick \/ UNCHANGED vars
  BY <1>0, <1>3 DEF EnterWait, PollReady, PollTimeout, Wake, Tick, vars
<1>4. CASE Settle
  <2>1. cur \in Ids /\ handler[cur] # "none"
    BY <1>4 DEF Settle, IInv, TypeOK, BatchShape, Registered
  <2> QED
    BY <1>0, <1>1, <1>4, <2>1 DEF Settle
<1>5. ASSUME NEW i \in Ids, AcceptHttp(i) PROVE [D!Next]_(D!vars)
  <2>1. PICK n \in 0 .. MaxPending :
          /\ Register(n)
          /\ handler' = [j \in Ids |-> IF j \in NewIds(n) THEN "recv_http" ELSE handler[j]]
          /\ buf' = [j \in Ids |-> IF j \in NewIds(n) THEN "request" ELSE buf[j]]
    BY <1>5 DEF AcceptHttp
  <2>2. n \in Nat /\ NewIds(n) \subseteq Ids
    BY <2>1, BoundsAssumption DEF Register
  <2>3. /\ \A j \in Ids \ NewIds(n) : handler'[j] = handler[j] /\ buf'[j] = buf[j]
        /\ \A j \in NewIds(n) : handler'[j] \notin {"none", "send_http"}
    BY <2>1, <2>2
  <2>4. UNCHANGED <<task, resp>>
    BY <1>5 DEF AcceptHttp
  <2>5. NewIds(n) \in SUBSET Ids /\ D!Arrive(NewIds(n))
    BY <2>1, <2>2, <2>3, <2>4, RegisterArrives
  <2> QED
    BY <2>5 DEF D!Next
<1>6. ASSUME NEW i \in Ids, AcceptLocal(i) PROVE [D!Next]_(D!vars)
  <2>1. PICK n \in 0 .. 2 : NewHalves(n)
    BY <1>6, AcceptLocalParts
  <2>2. /\ n \in Nat /\ Register(n)
        /\ \A j \in Ids \ NewIds(n) : handler'[j] = handler[j] /\ buf'[j] = buf[j]
        /\ \A j \in NewIds(n) : handler'[j] \notin {"none", "send_http"}
        /\ UNCHANGED <<task, resp>>
    BY <2>1 DEF NewHalves, Register
  <2>3. NewIds(n) \in SUBSET Ids /\ D!Arrive(NewIds(n))
    BY <2>2, RegisterArrives
  <2> QED
    BY <2>3 DEF D!Next
<1>7. ASSUME NEW i \in Ids,
             \/ SkipHandler(i) \/ Quiet \/ RecvMore(i) \/ SetClose(i) \/ WorkerIdle(i)
             \/ ClientSend(i) \/ PeerCloses(i) \/ WorkerTake(i) \/ WorkerAnswer(i)
      PROVE  [D!Next]_(D!vars)
  BY <1>0, <1>7 DEF SkipHandler, RecvMore, SetClose, WorkerIdle, ClientSend, PeerCloses, WorkerTake,
     WorkerAnswer
<1>8. ASSUME NEW i \in Ids, Handle(i, "recv_http"), RecvDone(i) PROVE [D!Next]_(D!vars)
  <2>1. D!Submit(i)
    BY <1>8, RequestSubmits DEF Handle
  <2> QED
    BY <2>1 DEF D!Next
<1>9. ASSUME NEW i \in Ids, Handle(i, "send_http"), AnswerSent(i) PROVE [D!Next]_(D!vars)
  <2>1. D!Respond(i)
    BY <1>9, SendResponds
  <2> QED
    BY <2>1 DEF D!Next
<1>10. ASSUME NEW i \in Ids, Handle(i, "recv_local"), FramesReceived(i) PROVE [D!Next]_(D!vars)
  <2>1. \E S \in SUBSET Ids : D!Answer(S)
    BY <1>10, FramesAnswer
  <2> QED
    BY <2>1 DEF D!Next
<1>11. ASSUME NEW i \in Ids, TasksSent(i) \/ TasksLost(i) PROVE [D!Next]_(D!vars)
  <2>1. PICK n \in 0 .. SendQuota : TakeTasks(n)
    BY <1>11, TasksLeave
  <2>2. UNCHANGED <<nextId, handler, buf, resp>>
    BY <1>11 DEF TasksSent, TasksLost
  <2>3. (n \in 1 .. Len(task) /\ D!Dispatch(n)) \/ UNCHANGED <<nextId, handler, buf, resp, task>>
    BY <2>1, <2>2, TasksDispatch
  <2> QED
    BY <1>0, <2>3 DEF D!Next
<1>12. ASSUME NEW l \in Listeners, Connect(l) PROVE [D!Next]_(D!vars)
  BY <1>0, <1>12 DEF Connect
<1> QED
  BY <1>2, <1>3, <1>4, <1>5, <1>6, <1>7, <1>8, <1>9, <1>10, <1>11, <1>12, StepCases DEF ReceiveEnds

\* The server implements Dispatcher, whatever fails and whoever closes: ids are not
\* used again, requests are handed out in the order they were completed, an answer
\* comes after that, one response at most follows it, and what a client has been
\* given is taken back by nothing but the end of its connection.
THEOREM Refinement == Spec => RefinesDispatcher
<1>1. ASSUME Init PROVE D!Init
  <2>1. AllValues
    BY <1>1, InitInv, ConnInit, StageValues
  <2>2. ASSUME NEW i \in Ids PROVE Stage(i) \in {"unborn", "connected"}
    <3>1. CASE i \in Listeners
      <4>1. handler[i] \in {"accept_http", "accept_local"}
        BY <1>1, <3>1 DEF Init, Listeners
      <4> QED
        BY <2>1, <4>1 DEF AllValues, Values
    <3>2. CASE i \notin Listeners
      <4>1. i >= nextId
        BY <1>1, <3>2 DEF Init, Ids, Listeners, HttpListener, LocalListener
      <4> QED
        BY <2>1, <4>1 DEF AllValues, Values
    <3> QED
      BY <3>1, <3>2
  <2>3. task = <<>> /\ [i \in Ids |-> Stage(i)] \in [Ids -> {"unborn", "connected"}]
    BY <1>1, <2>2 DEF Init
  <2> QED
    BY <2>3 DEF D!Init
<1>2. IInv /\ ConnInv /\ IInv' /\ ConnInv' /\ [Next]_vars => [D!Next]_(D!vars)
  BY StepRefines
<1> QED
  BY <1>1, <1>2, Invariance, ConnInvariance, PTL DEF Spec, RefinesDispatcher, D!Spec
==============================================================================
