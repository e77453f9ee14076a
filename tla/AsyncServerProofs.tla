------------------------- MODULE AsyncServerProofs -------------------------
(* Proofs that AsyncServer keeps its inductive invariant, for every value of  *)
(* the constants, and the safety properties that follow from it.              *)
EXTENDS AsyncServerInv, TLAPS

\* queue_remove takes out the app, if it is there, and nothing else.
LEMMA UnlinkProperties ==
  ASSUME NEW S, NEW q \in Seq(S), NEW i
  PROVE  /\ Unlink(q, i) \in Seq(S)
         /\ \A k \in DOMAIN Unlink(q, i) : \E j \in DOMAIN q : Unlink(q, i)[k] = q[j]
         /\ IsInjective(q) =>
              /\ IsInjective(Unlink(q, i))
              /\ \A k \in DOMAIN Unlink(q, i) : Unlink(q, i)[k] # i
<1>1. CASE \E k \in DOMAIN q : q[k] = i
  <2> DEFINE p == CHOOSE k \in DOMAIN q : q[k] = i
             r == [j \in 1 .. Len(q)-1 |-> IF j < p THEN q[j] ELSE q[j+1]]
  <2>1. p \in DOMAIN q /\ q[p] = i
    BY <1>1
  <2>2. Unlink(q, i) = r
    BY <1>1 DEF Unlink
  <2>3. Len(q) \in Nat /\ DOMAIN q = 1 .. Len(q) /\ \A k \in 1 .. Len(q) : q[k] \in S
    OBVIOUS
  <2> HIDE DEF p
  <2>4. r \in Seq(S)
    BY <2>1, <2>3
  <2>5. \A k \in DOMAIN r : \E j \in DOMAIN q : r[k] = q[j] /\ j # p
    BY <2>1, <2>3
  <2>6. IsInjective(q) => IsInjective(r)
    BY <2>1, <2>3 DEF IsInjective
  <2>7. IsInjective(q) => \A k \in DOMAIN r : r[k] # i
    BY <2>1, <2>5 DEF IsInjective
  <2> QED
    BY <2>2, <2>4, <2>5, <2>6, <2>7
<1>2. CASE ~ \E k \in DOMAIN q : q[k] = i
  BY <1>2 DEF Unlink
<1> QED
  BY <1>1, <1>2



\* queue_insert_tail adds an app that was not there.
LEMMA InsertTailProperties ==
  ASSUME NEW S, NEW q \in Seq(S), NEW e \in S
  PROVE  /\ Append(q, e) \in Seq(S)
         /\ \A k \in DOMAIN Append(q, e) :
              \/ k \in DOMAIN q /\ Append(q, e)[k] = q[k]
              \/ k \notin DOMAIN q /\ k = Len(q)+1 /\ Append(q, e)[k] = e
         /\ IsInjective(q) /\ (\A k \in DOMAIN q : q[k] # e) => IsInjective(Append(q, e))
<1>1. Append(q, e) \in Seq(S)
  OBVIOUS
<1>2. \A k \in DOMAIN Append(q, e) :
        \/ k \in DOMAIN q /\ Append(q, e)[k] = q[k]
        \/ k \notin DOMAIN q /\ k = Len(q)+1 /\ Append(q, e)[k] = e
  OBVIOUS
<1>3. ASSUME NEW r, r = Append(q, e)
      PROVE  IsInjective(q) /\ (\A k \in DOMAIN q : q[k] # e) => IsInjective(r)
  <2>1. \A k \in DOMAIN r :
          \/ k \in DOMAIN q /\ r[k] = q[k]
          \/ k \notin DOMAIN q /\ k = Len(q)+1 /\ r[k] = e
    BY <1>2, <1>3
  <2> QED
    BY <2>1 DEF IsInjective
<1>4. IsInjective(q) /\ (\A k \in DOMAIN q : q[k] # e) => IsInjective(Append(q, e))
  BY <1>3, Zenon
<1> QED
  BY <1>1, <1>2, <1>4, Zenon

LEMMA TailProperties ==
  ASSUME NEW S, NEW q \in Seq(S), q # <<>>
  PROVE  /\ 1 \in DOMAIN q /\ Head(q) = q[1] /\ Head(q) \in S
         /\ Tail(q) \in Seq(S)
         /\ \A k \in DOMAIN Tail(q) : k+1 \in DOMAIN q /\ Tail(q)[k] = q[k+1]
OBVIOUS

\* What is left of a queue or a channel after its first k elements were taken.
LEMMA SuffixProperties ==
  ASSUME NEW S, NEW q \in Seq(S), NEW k \in 0 .. Len(q)
  PROVE  /\ SubSeq(q, k+1, Len(q)) \in Seq(S)
         /\ DOMAIN SubSeq(q, k+1, Len(q)) = 1 .. Len(q)-k
         /\ \A m \in DOMAIN SubSeq(q, k+1, Len(q)) :
              k+m \in DOMAIN q /\ SubSeq(q, k+1, Len(q))[m] = q[k+m]
         /\ IsInjective(q) =>
              /\ IsInjective(SubSeq(q, k+1, Len(q)))
              /\ \A m \in DOMAIN SubSeq(q, k+1, Len(q)), j \in 1 .. k :
                   SubSeq(q, k+1, Len(q))[m] # q[j]
<1>1. ASSUME NEW r, r = SubSeq(q, k+1, Len(q))
      PROVE  /\ r \in Seq(S)
             /\ DOMAIN r = 1 .. Len(q)-k
             /\ \A m \in DOMAIN r : k+m \in DOMAIN q /\ r[m] = q[k+m]
  BY <1>1
<1>2. ASSUME NEW r, r = SubSeq(q, k+1, Len(q)), IsInjective(q)
      PROVE  /\ IsInjective(r)
             /\ \A m \in DOMAIN r, j \in 1 .. k : r[m] # q[j]
  <2>1. \A m \in DOMAIN r : m \in 1 .. Len(q)-k /\ k+m \in DOMAIN q /\ r[m] = q[k+m]
    BY <1>1, <1>2
  <2>2. DOMAIN q = 1 .. Len(q) /\ Len(q) \in Nat
    OBVIOUS
  <2>3. IsInjective(r)
    BY <1>2, <2>1, <2>2 DEF IsInjective
  <2>4. ASSUME NEW m \in DOMAIN r, NEW j \in 1 .. k PROVE r[m] # q[j]
    <3>1. j \in DOMAIN q /\ k+m \in DOMAIN q /\ k+m # j
      BY <2>1, <2>2
    <3> QED
      BY <1>2, <2>1, <3>1 DEF IsInjective
  <2> QED
    BY <2>3, <2>4
<1> QED
  BY <1>1, <1>2, Zenon

LEMMA InitInv == Init => IInv
<1> SUFFICES ASSUME Init PROVE IInv
  OBVIOUS
<1>1. TypeOK
  BY BoundsAssumption DEF Ids, Listeners, HttpListener, LocalListener, NoApp, Init, TypeOK, Handlers, Statuses, EventBits, Buffers
<1>2. Registered /\ Shape /\ BatchShape
  BY BoundsAssumption DEF Ids, Listeners, HttpListener, LocalListener, NoApp, Init, Registered, Shape, BatchShape, Receivers, Senders
<1>3. QueueShape /\ ChannelShape /\ Armed
  BY BoundsAssumption DEF Ids, Listeners, HttpListener, LocalListener, NoApp, Init, QueueShape, ChannelShape, Armed, IsInjective
<1> QED
  BY <1>1, <1>2, <1>3 DEF IInv

\* The loop's bookkeeping and the environment leave the apps and queues alone.
LEMMA EnterWaitInv == ASSUME IInv, EnterWait PROVE IInv'
<1> USE DEF EnterWait, treeVars, appVars, queueVars, netVars, chanVars
<1>1. TypeOK'
  BY DEF IInv, TypeOK
<1>2. Registered' /\ Shape' /\ QueueShape'
  BY DEF IInv, Registered, Shape, QueueShape
<1>3. BatchShape' /\ ChannelShape' /\ Armed'
  BY DEF IInv, BatchShape, ChannelShape, Given, Armed
<1> QED
  BY <1>1, <1>2, <1>3 DEF IInv

LEMMA RecvDoneInv ==
  ASSUME IInv, NEW i \in Ids, Handle(i, "recv_http"), RecvDone(i) PROVE IInv'
<1> USE DEF Handle, RecvDone, Enqueue, treeVars, appVars, queueVars, netVars, chanVars
<1>1. TypeOK'
  BY DEF IInv, TypeOK, Handlers, Statuses, EventBits, Buffers
<1>2. Registered'
  BY DEF IInv, TypeOK, Registered
<1>3. Shape'
  BY DEF IInv, TypeOK, Shape, Receivers, Senders
<1> task \in Seq(Ids) /\ task' = Append(task, i)
  BY DEF IInv, TypeOK
<1> HIDE DEF Enqueue
<1>0. /\ \A k \in DOMAIN task' : (k \in DOMAIN task /\ task'[k] = task[k]) \/ task'[k] = i
      /\ IsInjective(task) /\ (\A k \in DOMAIN task : task[k] # i) => IsInjective(task')
  <2>1. \A k \in DOMAIN task' : (k \in DOMAIN task /\ task'[k] = task[k]) \/ task'[k] = i
    BY InsertTailProperties
  <2>2. IsInjective(task) /\ (\A k \in DOMAIN task : task[k] # i) => IsInjective(task')
    BY InsertTailProperties
  <2> QED BY <2>1, <2>2
<1>4. QueueShape'
  <2>1. \A k \in DOMAIN task : task[k] \in Ids /\ task[k] # i
    BY DEF IInv, TypeOK, QueueShape
  <2>2. IsInjective(task')
    BY <2>1, <1>0 DEF IInv, QueueShape
  <2>3. \A k \in DOMAIN task' : /\ handler'[task'[k]] = "send_http"
                                /\ "OUT" \notin interest'[task'[k]]
    BY <2>1, <1>0 DEF IInv, TypeOK, QueueShape
  <2>4. \A k \in DOMAIN worker : worker[k] \in Ids /\ worker[k] # i
    BY DEF IInv, TypeOK, QueueShape
  <2> QED
    BY <2>2, <2>3, <2>4, SMTT(20) DEF IInv, TypeOK, QueueShape
<1>5. BatchShape'
  BY DEF IInv, TypeOK, BatchShape, Registered, Receivers, Senders
<1>6. ChannelShape'
  <2>1. ASSUME NEW j, Given(j), j \in Ids PROVE Given(j)'
    BY <2>1, <1>0 DEF IInv, TypeOK, Given
  <2> QED
    BY <2>1 DEF IInv, TypeOK, ChannelShape
<1>7. Armed'
  BY DEF IInv, Armed
<1> QED
  BY <1>1, <1>2, <1>3, <1>4, <1>5, <1>6, <1>7 DEF IInv
LEMMA PollReadyInv ==
  ASSUME IInv, PollReady PROVE IInv'
<1> USE DEF PollReady, treeVars, appVars, queueVars, netVars, chanVars
<1>1. TypeOK'
  <2>1. \A i \in Ids : ready'[i] \subseteq interest[i] \cup {"HUP"}
    BY DEF Events
  <2>2. \A i \in Ids : ready'[i] \in SUBSET EventBits
    BY <2>1 DEF IInv, TypeOK, EventBits
  <2> QED
    BY <2>2 DEF IInv, TypeOK
<1>2. Registered' /\ Shape' /\ BatchShape'
  <2>1. \A i \in Ids : ready'[i] \subseteq interest[i] \cup {"HUP"}
    BY DEF Events
  <2>2. \A i \in Ids : ready'[i] # {} => i \in idTree
    BY DEF Pollable
  <2>3. BatchShape'
    BY <2>1, <2>2 DEF IInv, TypeOK, Registered, Shape, BatchShape, Receivers, Senders, Handlers
  <2> QED
    BY <2>3 DEF IInv, Registered, Shape
<1>3. QueueShape' /\ ChannelShape' /\ Armed'
  BY DEF IInv, TypeOK, Shape, QueueShape, ChannelShape, Given, Armed, IsInjective
<1> QED
  BY <1>1, <1>2, <1>3 DEF IInv

LEMMA PollTimeoutInv ==
  ASSUME IInv, PollTimeout PROVE IInv'
<1> USE DEF PollTimeout, treeVars, appVars, queueVars, netVars, chanVars
<1>1. TypeOK'
  BY DEF IInv, TypeOK, Handlers, Statuses, EventBits, Buffers
<1>2. Registered' /\ Shape' /\ BatchShape'
  BY DEF IInv, TypeOK, Registered, Shape, BatchShape, Receivers, Senders, EventBits, Handlers
<1>3. QueueShape' /\ ChannelShape' /\ Armed'
  BY DEF IInv, TypeOK, Shape, QueueShape, ChannelShape, Given, Armed, IsInjective
<1> QED
  BY <1>1, <1>2, <1>3 DEF IInv

LEMMA SkipHandlerInv ==
  ASSUME IInv, NEW i \in Ids, SkipHandler(i) PROVE IInv'
<1> USE DEF SkipHandler, treeVars, appVars, queueVars, netVars, chanVars
<1>1. TypeOK'
  BY DEF IInv, TypeOK, Handlers, Statuses, EventBits, Buffers
<1>2. Registered' /\ Shape' /\ BatchShape'
  BY DEF IInv, TypeOK, Registered, Shape, BatchShape, Receivers, Senders, EventBits, Handlers
<1>3. QueueShape' /\ ChannelShape' /\ Armed'
  BY DEF IInv, TypeOK, Shape, QueueShape, ChannelShape, Given, Armed, IsInjective
<1> QED
  BY <1>1, <1>2, <1>3 DEF IInv

LEMMA WakeInv ==
  ASSUME IInv, Wake PROVE IInv'
<1> USE DEF Wake, treeVars, appVars, queueVars, netVars, chanVars
<1>1. TypeOK'
  BY DEF IInv, TypeOK, Handlers, Statuses, EventBits, Buffers
<1>2. Registered' /\ Shape' /\ BatchShape'
  <2>1. \A i \in IdleWorkers : i \in Ids /\ handler[i] = "send_local"
    BY DEF IdleWorkers, ToSet, IInv, TypeOK, QueueShape
  <2> QED
    BY <2>1 DEF IInv, TypeOK, Registered, Shape, BatchShape, Receivers, Senders
<1>3. QueueShape' /\ ChannelShape' /\ Armed'
  <2>1. \A i \in IdleWorkers : handler[i] = "send_local"
    BY DEF IdleWorkers, ToSet, IInv, TypeOK, QueueShape
  <2>2. ASSUME task # <<>>, NEW k \in DOMAIN worker
        PROVE  worker[k] \in IdleWorkers \/ status[worker[k]] = "write"
    BY <2>2 DEF IdleWorkers, ToSet
  <2>3. QueueShape' /\ ChannelShape'
    BY <2>1 DEF IInv, TypeOK, QueueShape, ChannelShape, Given
  <2>4. Armed'
    BY <2>2 DEF IInv, TypeOK, Shape, QueueShape, Armed
  <2> QED
    BY <2>3, <2>4
<1> QED
  BY <1>1, <1>2, <1>3 DEF IInv

LEMMA SetCloseInv ==
  ASSUME IInv, NEW i \in Ids, NEW h \in Handlers, Handle(i, h), SetClose(i) PROVE IInv'
<1> USE DEF Handle, SetClose, treeVars, appVars, queueVars, netVars, chanVars
<1>1. TypeOK'
  BY DEF IInv, TypeOK, Handlers, Statuses, EventBits, Buffers
<1>2. Registered' /\ Shape' /\ BatchShape'
  BY DEF IInv, TypeOK, Registered, Shape, BatchShape, Receivers, Senders, EventBits, Handlers
<1>3. QueueShape' /\ ChannelShape' /\ Armed'
  BY DEF IInv, TypeOK, Shape, QueueShape, ChannelShape, Given, Armed, IsInjective
<1> QED
  BY <1>1, <1>2, <1>3 DEF IInv

LEMMA RecvMoreInv ==
  ASSUME IInv, NEW i \in Ids, NEW h \in Handlers, Handle(i, h), RecvMore(i) PROVE IInv'
<1> USE DEF Handle, RecvMore, treeVars, appVars, queueVars, netVars, chanVars
<1>1. TypeOK'
  BY DEF IInv, TypeOK, Handlers, Statuses, EventBits, Buffers
<1>2. Registered' /\ Shape' /\ BatchShape'
  BY DEF IInv, TypeOK, Registered, Shape, BatchShape, Receivers, Senders, EventBits, Handlers
<1>3. QueueShape' /\ ChannelShape' /\ Armed'
  BY DEF IInv, TypeOK, Shape, QueueShape, ChannelShape, Given, Armed, IsInjective
<1> QED
  BY <1>1, <1>2, <1>3 DEF IInv

LEMMA AnswerSentInv ==
  ASSUME IInv, NEW i \in Ids, Handle(i, "send_http"), AnswerSent(i) PROVE IInv'
<1> USE DEF Handle, AnswerSent, treeVars, appVars, queueVars, netVars, chanVars
<1>1. TypeOK'
  BY DEF IInv, TypeOK, Handlers, Statuses, EventBits, Buffers
<1>2. Registered' /\ Shape' /\ BatchShape'
  BY DEF IInv, TypeOK, Registered, Shape, BatchShape, Receivers, Senders, EventBits, Handlers
<1>3. QueueShape' /\ ChannelShape' /\ Armed'
  BY DEF IInv, TypeOK, Shape, QueueShape, ChannelShape, Given, Armed, IsInjective
<1> QED
  BY <1>1, <1>2, <1>3 DEF IInv

LEMMA IdleInv ==
  ASSUME IInv, NEW i \in Ids, NEW h \in Handlers, Handle(i, h), UNCHANGED <<treeVars, appVars, queueVars, netVars>> PROVE IInv'
<1> USE DEF Handle, treeVars, appVars, queueVars, netVars, chanVars
<1>1. TypeOK'
  BY DEF IInv, TypeOK, Handlers, Statuses, EventBits, Buffers
<1>2. Registered' /\ Shape' /\ BatchShape'
  BY DEF IInv, TypeOK, Registered, Shape, BatchShape, Receivers, Senders, EventBits, Handlers
<1>3. QueueShape' /\ ChannelShape' /\ Armed'
  BY DEF IInv, TypeOK, Shape, QueueShape, ChannelShape, Given, Armed, IsInjective
<1> QED
  BY <1>1, <1>2, <1>3 DEF IInv

LEMMA WorkerIdleInv ==
  ASSUME IInv, NEW i \in Ids, Handle(i, "send_local"), WorkerIdle(i) PROVE IInv'
<1> USE DEF Handle, WorkerIdle, treeVars, appVars, queueVars, netVars, chanVars
<1>1. TypeOK'
  BY DEF IInv, TypeOK, Handlers, Statuses, EventBits, Buffers
<1>2. Registered' /\ Shape' /\ BatchShape'
  BY DEF IInv, TypeOK, Registered, Shape, BatchShape, Receivers, Senders, EventBits, Handlers
<1>3. QueueShape' /\ ChannelShape' /\ Armed'
  BY DEF IInv, TypeOK, Shape, QueueShape, ChannelShape, Given, Armed, IsInjective
<1> QED
  BY <1>1, <1>2, <1>3 DEF IInv

LEMMA ConnectInv ==
  ASSUME IInv, NEW l \in Listeners, Connect(l) PROVE IInv'
<1> USE DEF Connect, loopVars, treeVars, appVars, queueVars, netVars, chanVars
<1>1. TypeOK'
  <2>1. backlog' \in [Listeners -> Nat]
    BY DEF IInv, TypeOK
  <2> QED
    BY <2>1, SMTT(20) DEF IInv, TypeOK
<1>2. Registered' /\ Shape' /\ BatchShape'
  BY DEF IInv, TypeOK, Registered, Shape, BatchShape, Receivers, Senders, EventBits, Handlers
<1>3. QueueShape' /\ ChannelShape' /\ Armed'
  BY DEF IInv, TypeOK, Shape, QueueShape, ChannelShape, Given, Armed, IsInjective
<1> QED
  BY <1>1, <1>2, <1>3 DEF IInv

LEMMA WorkerAnswerInv ==
  ASSUME IInv, NEW s \in Ids, WorkerAnswer(s) PROVE IInv'
<1> USE DEF WorkerAnswer, loopVars, treeVars, appVars, queueVars, netVars, chanVars
<1>1. TypeOK'
  BY DEF IInv, TypeOK, Handlers, Statuses, EventBits, Buffers
<1>2. Registered' /\ Shape' /\ BatchShape'
  BY DEF IInv, TypeOK, Registered, Shape, BatchShape, Receivers, Senders, EventBits, Handlers
<1>3. QueueShape' /\ ChannelShape' /\ Armed'
  <2>1. ASSUME NEW j PROVE Given(j)' = Given(j)
    BY DEF Given
  <2>2. ChannelShape'
    BY <2>1, SMTT(40) DEF IInv, TypeOK, ChannelShape
  <2> QED
    BY <2>2 DEF IInv, QueueShape, Armed
<1> QED
  BY <1>1, <1>2, <1>3 DEF IInv

LEMMA TickInv ==
  ASSUME IInv, Tick PROVE IInv'
<1> USE DEF Tick, loopVars, treeVars, appVars, queueVars, netVars, chanVars
<1>1. TypeOK'
  BY DEF IInv, TypeOK, Handlers, Statuses, EventBits, Buffers
<1>2. Registered' /\ Shape' /\ BatchShape'
  BY DEF IInv, TypeOK, Registered, Shape, BatchShape, Receivers, Senders, EventBits, Handlers
<1>3. QueueShape' /\ ChannelShape' /\ Armed'
  BY DEF IInv, TypeOK, Shape, QueueShape, ChannelShape, Given, Armed, IsInjective
<1> QED
  BY <1>1, <1>2, <1>3 DEF IInv

LEMMA ClientSendInv ==
  ASSUME IInv, NEW i \in Ids, ClientSend(i) PROVE IInv'
<1> USE DEF ClientSend, loopVars, treeVars, appVars, queueVars, netVars, chanVars
<1>1. TypeOK'
  BY DEF IInv, TypeOK, Handlers, Statuses, EventBits, Buffers
<1>2. Registered' /\ Shape' /\ BatchShape'
  BY DEF IInv, TypeOK, Registered, Shape, BatchShape, Receivers, Senders, EventBits, Handlers
<1>3. QueueShape' /\ ChannelShape' /\ Armed'
  <2>1. ASSUME NEW j PROVE Given(j)' = Given(j)
    BY DEF Given
  <2> QED
    BY <2>1 DEF IInv, QueueShape, ChannelShape, Armed
<1> QED
  BY <1>1, <1>2, <1>3 DEF IInv

LEMMA PeerClosesInv ==
  ASSUME IInv, NEW s \in Ids, PeerCloses(s) PROVE IInv'
<1> USE DEF PeerCloses, loopVars, treeVars, appVars, queueVars, netVars, chanVars
<1>1. TypeOK'
  <2>1. <<>> \in Seq(Ids)
    OBVIOUS
  <2>2. CASE toWorker' = toWorker
    BY <2>2 DEF IInv, TypeOK
  <2>3. CASE toWorker' = [toWorker EXCEPT ![s] = <<>>]
    BY <2>1, <2>3 DEF IInv, TypeOK
  <2> QED
    BY <2>2, <2>3
<1>2. Registered' /\ Shape' /\ BatchShape'
  BY DEF IInv, TypeOK, Registered, Shape, BatchShape, Receivers, Senders, EventBits, Handlers
<1>3. QueueShape' /\ ChannelShape' /\ Armed'
  <2>1. ASSUME NEW j PROVE Given(j)' = Given(j)
    BY DEF Given
  <2>2. \A t \in Ids : /\ toWorker'[t] \in {toWorker[t], <<>>}
                       /\ held'[t] \subseteq held[t]
    BY DEF IInv, TypeOK
  <2>3. ChannelShape'
    BY <2>1, <2>2 DEF IInv, TypeOK, ChannelShape
  <2> QED
    BY <2>3 DEF IInv, QueueShape, Armed
<1> QED
  BY <1>1, <1>2, <1>3 DEF IInv

LEMMA WorkerTakeInv ==
  ASSUME IInv, NEW s \in Ids, WorkerTake(s) PROVE IInv'
<1> USE DEF WorkerTake, loopVars, treeVars, appVars, queueVars, netVars, chanVars
<1>1. TypeOK'
  BY DEF IInv, TypeOK, Handlers, Statuses, EventBits, Buffers
<1>2. Registered' /\ Shape' /\ BatchShape'
  BY DEF IInv, TypeOK, Registered, Shape, BatchShape, Receivers, Senders, EventBits, Handlers
<1>3. QueueShape' /\ ChannelShape' /\ Armed'
  <2>1. ASSUME NEW j PROVE Given(j)' = Given(j)
    BY DEF Given
  <2>2. /\ \A t \in Ids : \A k \in DOMAIN toWorker'[t] :
             \E m \in DOMAIN toWorker[t] : toWorker'[t][k] = toWorker[t][m]
        /\ \A t \in Ids : \A i \in held'[t] :
             i \in held[t] \/ \E m \in DOMAIN toWorker[t] : i = toWorker[t][m]
    <3>1. toWorker[s] \in Seq(Ids)
      BY DEF IInv, TypeOK
    <3> QED
      BY <3>1, TailProperties DEF IInv, TypeOK
  <2>3. ChannelShape'
    BY <2>1, <2>2, SMTT(40) DEF IInv, TypeOK, ChannelShape
  <2> QED
    BY <2>3 DEF IInv, QueueShape, Armed
<1> QED
  BY <1>1, <1>2, <1>3 DEF IInv

LEMMA FramesReceivedInv ==
  ASSUME IInv, NEW i \in Ids, Handle(i, "recv_local"), FramesReceived(i) PROVE IInv'
<1> USE DEF Handle, treeVars, appVars, queueVars, netVars, chanVars
<1> PICK k \in 0 .. Len(fromWorker[i]) :
      \E b \in [Matched(i, k) -> {"answer", "empty", "null"}] :
        /\ buf' = [j \in Ids |-> IF j \in Matched(i, k) THEN b[j] ELSE buf[j]]
        /\ interest' = [j \in Ids |-> IF j \in Matched(i, k) THEN {"OUT", "RDHUP"}
                                                            ELSE interest[j]]
        /\ status' = [j \in Ids |-> IF j \in Matched(i, k) THEN "write" ELSE status[j]]
        /\ fromWorker' = [fromWorker EXCEPT ![i] = SubSeq(@, k+1, Len(@))]
        /\ UNCHANGED <<treeVars, handler, ttl, queueVars, backlog, peer, rx,
                       toWorker, held, resp>>
  BY ZenonT(40) DEF FramesReceived
<1>1. PICK b \in [Matched(i, k) -> {"answer", "empty", "null"}] :
        /\ buf' = [j \in Ids |-> IF j \in Matched(i, k) THEN b[j] ELSE buf[j]]
        /\ interest' = [j \in Ids |-> IF j \in Matched(i, k) THEN {"OUT", "RDHUP"}
                                                            ELSE interest[j]]
        /\ status' = [j \in Ids |-> IF j \in Matched(i, k) THEN "write" ELSE status[j]]
        /\ fromWorker' = [fromWorker EXCEPT ![i] = SubSeq(@, k+1, Len(@))]
        /\ UNCHANGED <<treeVars, handler, ttl, queueVars, backlog, peer, rx,
                       toWorker, held, resp>>
  OBVIOUS
<1>2. \A j \in Matched(i, k) : Given(j) /\ handler[j] = "send_http"
  <2>1. \A m \in 1 .. k : m \in DOMAIN fromWorker[i]
    BY DEF IInv, TypeOK
  <2>2. \A m \in 1 .. k : Given(fromWorker[i][m])
    BY <2>1 DEF IInv, ChannelShape
  <2>3. \A j \in Matched(i, k) : Given(j) /\ handler[j] # "none"
    BY <2>2 DEF Matched, IInv, TypeOK, Registered
  <2> QED
    BY <2>3 DEF Given
<1>3. /\ fromWorker' \in [Ids -> Seq(Ids)]
      /\ \A s \in Ids : \A m \in DOMAIN fromWorker'[s] :
           \E n \in DOMAIN fromWorker[s] : fromWorker'[s][m] = fromWorker[s][n]
  <2>1. fromWorker[i] \in Seq(Ids)
    BY DEF IInv, TypeOK
  <2>2. /\ fromWorker'[i] \in Seq(Ids)
        /\ \A m \in DOMAIN fromWorker'[i] :
             k+m \in DOMAIN fromWorker[i] /\ fromWorker'[i][m] = fromWorker[i][k+m]
    BY <1>1, <2>1, SuffixProperties DEF IInv, TypeOK
  <2> QED
    BY <1>1, <2>2 DEF IInv, TypeOK
<1>4. TypeOK'
  <2>1. buf' \in [Ids -> Buffers]
    BY <1>1 DEF IInv, TypeOK, Buffers
  <2>2. status' \in [Ids -> Statuses] /\ interest' \in [Ids -> SUBSET EventBits]
    BY <1>1 DEF IInv, TypeOK, Statuses, EventBits
  <2> QED
    BY <1>1, <1>3, <2>1, <2>2 DEF IInv, TypeOK
<1>5. Registered' /\ Shape' /\ BatchShape'
  <2>1. Registered'
    BY <1>1 DEF IInv, Registered
  <2>2. Shape'
    BY <1>1, <1>2 DEF IInv, TypeOK, Shape, Receivers, Senders
  <2>3. BatchShape'
    BY <1>1, <1>2 DEF IInv, TypeOK, BatchShape, Registered, Shape, Receivers, Senders
  <2> QED
    BY <2>1, <2>2, <2>3
<1>6. QueueShape' /\ ChannelShape' /\ Armed'
  <2>1. ASSUME NEW j PROVE Given(j)' = Given(j)
    BY <1>1 DEF Given
  <2>2. ChannelShape'
    BY <1>1, <1>3, <2>1 DEF IInv, TypeOK, ChannelShape
  <2>3. QueueShape' /\ Armed'
    BY <1>1, <1>2 DEF IInv, TypeOK, QueueShape, Given, Armed
  <2> QED
    BY <2>2, <2>3
<1> QED
  BY <1>4, <1>5, <1>6 DEF IInv

\* Teardown leaves no trace of the app, in the trees, the queues or elsewhere.
LEMMA TeardownParts ==
  ASSUME IInv, NEW i \in Ids, Teardown(i)
  PROVE  /\ pc' \in {"top", "wait", "events", "settle"} /\ ready' \in [Ids -> SUBSET EventBits]
              /\ cur' \in Ids \cup {NoApp} => TypeOK'
         /\ Registered' /\ QueueShape' /\ ChannelShape'
         /\ task' # <<>> => task # <<>>
         /\ \A k \in DOMAIN worker' : worker'[k] # i /\ \E j \in DOMAIN worker : worker'[k] = worker[j]
<1> USE DEF Teardown, FreeApp, Dequeue, Uncount
<1>1. /\ task \in Seq(Ids) /\ worker \in Seq(Ids) /\ IsInjective(task) /\ IsInjective(worker)
  BY DEF IInv, TypeOK, QueueShape
<1>2. /\ task' \in Seq(Ids) /\ IsInjective(task')
      /\ \A k \in DOMAIN task' : task'[k] # i /\ \E j \in DOMAIN task : task'[k] = task[j]
  BY <1>1, UnlinkProperties
<1>3. /\ worker' \in Seq(Ids) /\ IsInjective(worker')
      /\ \A k \in DOMAIN worker' : worker'[k] # i /\ \E j \in DOMAIN worker : worker'[k] = worker[j]
  BY <1>1, UnlinkProperties
<1>4. /\ peer' \in [Ids -> {"none", "open", "shut", "gone"}]
      /\ rx' \in [Ids -> BOOLEAN]
      /\ resp' \in [Ids -> {"none", "whole", "part"}]
  BY DEF CloseFd, IInv, TypeOK, chanVars
<1>5. /\ toWorker' \in [Ids -> Seq(Ids)]
      /\ held' \in [Ids -> SUBSET Ids]
      /\ fromWorker' \in [Ids -> Seq(Ids)]
      /\ \A s \in Ids : /\ toWorker'[s] \in {toWorker[s], <<>>}
                        /\ held'[s] \subseteq held[s]
                        /\ fromWorker'[s] \in {fromWorker[s], <<>>}
  <2>1. <<>> \in Seq(Ids)
    OBVIOUS
  <2>2. CASE SharesSocket(i)
    BY <2>2 DEF CloseFd, chanVars, IInv, TypeOK
  <2>3. CASE ~ SharesSocket(i)
    <3>1. PICK s : /\ toWorker' = [toWorker EXCEPT ![s] = <<>>]
                   /\ held' = [held EXCEPT ![s] = {}]
                   /\ fromWorker' = [fromWorker EXCEPT ![s] = <<>>]
      BY <2>3 DEF CloseFd
    <3> QED
      BY <2>1, <3>1 DEF IInv, TypeOK
  <2> QED
    BY <2>2, <2>3
<1>6. ASSUME pc' \in {"top", "wait", "events", "settle"}, ready' \in [Ids -> SUBSET EventBits],
             cur' \in Ids \cup {NoApp}
      PROVE  TypeOK'
  <2>1. /\ nextId' \in 2 .. MaxApps /\ idTree' \subseteq Ids /\ aliveComm' \in Int
        /\ backlog' \in [Listeners -> Nat]
    BY DEF IInv, TypeOK
  <2>2. /\ handler' \in [Ids -> Handlers] /\ status' \in [Ids -> Statuses]
        /\ interest' \in [Ids -> SUBSET EventBits] /\ ttl' \in [Ids -> Nat \cup {-1}]
        /\ buf' \in [Ids -> Buffers]
    BY DEF IInv, TypeOK, Handlers, Statuses, EventBits, Buffers
  <2> QED
    BY <1>2, <1>3, <1>4, <1>5, <1>6, <2>1, <2>2 DEF TypeOK
<1>7. Registered'
  BY DEF IInv, TypeOK, Registered
<1>8. QueueShape'
  <2>1. \A k \in DOMAIN task' : /\ handler'[task'[k]] = "send_http"
                                /\ "OUT" \notin interest'[task'[k]]
    BY <1>1, <1>2 DEF IInv, TypeOK, QueueShape
  <2>2. \A k \in DOMAIN worker' : handler'[worker'[k]] = "send_local"
    BY <1>1, <1>3 DEF IInv, TypeOK, QueueShape
  <2> QED
    BY <1>2, <1>3, <2>1, <2>2 DEF QueueShape
<1>9. ChannelShape'
  <2>1. ASSUME NEW j \in Ids, Given(j) PROVE Given(j)'
    BY <1>2, <2>1 DEF IInv, TypeOK, Given
  <2>2. ASSUME NEW s \in Ids
        PROVE  /\ \A k \in DOMAIN toWorker'[s] : toWorker'[s][k] \in Ids /\ Given(toWorker'[s][k])
               /\ \A j \in held'[s] : j \in Ids /\ Given(j)
               /\ \A k \in DOMAIN fromWorker'[s] : fromWorker'[s][k] \in Ids /\ Given(fromWorker'[s][k])
    <3>1. toWorker[s] \in Seq(Ids) /\ fromWorker[s] \in Seq(Ids) /\ held[s] \subseteq Ids
      BY DEF IInv, TypeOK
    <3>2. \A k \in DOMAIN toWorker'[s] : k \in DOMAIN toWorker[s] /\ toWorker'[s][k] = toWorker[s][k]
      BY <1>5
    <3>3. \A k \in DOMAIN fromWorker'[s] : k \in DOMAIN fromWorker[s] /\ fromWorker'[s][k] = fromWorker[s][k]
      BY <1>5
    <3> QED
      BY <1>5, <3>1, <3>2, <3>3 DEF IInv, ChannelShape
  <2> QED
    BY <2>1, <2>2 DEF ChannelShape
<1>10. task' # <<>> => task # <<>>
  BY <1>1, <1>2
<1> QED
  BY <1>3, <1>6, <1>7, <1>8, <1>9, <1>10

LEMMA ExpireTimerInv ==
  ASSUME IInv, NEW i \in Ids, ExpireTimer(i) PROVE IInv'
<1> USE DEF ExpireTimer, loopVars
<1>1. TypeOK' /\ Registered' /\ QueueShape' /\ ChannelShape'
  BY TeardownParts DEF IInv, TypeOK
<1>2. Shape' /\ BatchShape'
  BY DEF Teardown, FreeApp, Uncount, IInv, TypeOK, Shape, BatchShape, Registered, Receivers, Senders
<1>3. Armed'
  <2>1. \A k \in DOMAIN worker' : worker'[k] # i /\ \E j \in DOMAIN worker : worker'[k] = worker[j]
    BY TeardownParts
  <2>2. task' # <<>> => task # <<>>
    BY TeardownParts
  <2> QED
    BY <2>1, <2>2 DEF Teardown, FreeApp, IInv, TypeOK, Armed
<1> QED
  BY <1>1, <1>2, <1>3 DEF IInv

LEMMA SettleInv ==
  ASSUME IInv, Settle PROVE IInv'
<1> USE DEF Settle
<1>1. cur \in Ids
  BY DEF IInv, TypeOK, BatchShape
<1>2. /\ pc' \in {"top", "wait", "events", "settle"} /\ ready' \in [Ids -> SUBSET EventBits]
      /\ cur' \in Ids \cup {NoApp}
  BY DEF IInv, TypeOK
<1>3. Armed'
  BY DEF Armed
<1>4. CASE ready[cur] \cap {"HUP", "RDHUP"} # {} \/ status[cur] = "close"
  <2>1. TypeOK' /\ Registered' /\ QueueShape' /\ ChannelShape'
    BY <1>1, <1>2, <1>4, TeardownParts
  <2>2. Shape'
    <3>1. /\ handler'[cur] = "none" /\ status'[cur] = "none" /\ interest'[cur] = {}
          /\ \A i \in Ids \ {cur} : /\ handler'[i] = handler[i] /\ status'[i] = status[i]
                                    /\ interest'[i] = interest[i] /\ buf'[i] = buf[i]
      BY <1>1, <1>4 DEF Teardown, FreeApp, IInv, TypeOK
    <3> QED
      BY <3>1 DEF IInv, Shape, Receivers, Senders
  <2>3. BatchShape'
    BY <1>1, <1>4
    DEF Teardown, FreeApp, Uncount, IInv, TypeOK, BatchShape, Registered, Receivers, Senders
  <2> QED
    BY <1>3, <2>1, <2>2, <2>3 DEF IInv
<1>5. CASE ~(ready[cur] \cap {"HUP", "RDHUP"} # {} \/ status[cur] = "close")
  <2> USE <1>5 DEF treeVars, appVars, queueVars, netVars, chanVars
  <2>1. TypeOK'
    BY <1>2 DEF IInv, TypeOK
  <2>2. Registered' /\ Shape' /\ BatchShape'
    BY <1>1 DEF IInv, TypeOK, Registered, Shape, BatchShape, Receivers, Senders
  <2>3. QueueShape' /\ ChannelShape'
    BY DEF IInv, QueueShape, ChannelShape, Given
  <2> QED
    BY <1>3, <2>1, <2>2, <2>3 DEF IInv
<1> QED
  BY <1>4, <1>5

\* Tasks leave the head of the queue; the rest of it is a queue as before.
LEMMA TakeTasksParts ==
  ASSUME IInv, NEW n \in 0 .. SendQuota, TakeTasks(n)
  PROVE  /\ n \in 0 .. Len(task)
         /\ task' \in Seq(Ids) /\ IsInjective(task')
         /\ \A k \in DOMAIN task' : \E j \in DOMAIN task : task'[k] = task[j]
         /\ \A k \in DOMAIN task', j \in 1 .. n : task'[k] # task[j]
<1>1. task \in Seq(Ids) /\ IsInjective(task)
  BY DEF IInv, TypeOK, QueueShape
<1>2. n \in 0 .. Len(task)
  BY <1>1, BoundsAssumption DEF SendQuota, AtMost
<1>3. /\ task' \in Seq(Ids) /\ IsInjective(task')
      /\ \A k \in DOMAIN task' : n+k \in DOMAIN task /\ task'[k] = task[n+k]
      /\ \A k \in DOMAIN task', j \in 1 .. n : task'[k] # task[j]
  BY <1>1, <1>2, SuffixProperties DEF TakeTasks
<1> QED
  BY <1>2, <1>3

LEMMA TasksLostInv ==
  ASSUME IInv, NEW i \in Ids, Handle(i, "send_local"), TasksLost(i) PROVE IInv'
<1> USE DEF Handle, treeVars, appVars, queueVars, netVars, chanVars
<1> PICK n \in 0 .. SendQuota :
      /\ TakeTasks(n)
      /\ status' = [status EXCEPT ![i] = "close"]
      /\ UNCHANGED <<treeVars, handler, interest, ttl, buf, worker, netVars>>
  BY BoundsAssumption DEF TasksLost, SendQuota, AtMost, IInv, TypeOK
<1>1. /\ task' \in Seq(Ids) /\ IsInjective(task')
      /\ \A k \in DOMAIN task' : \E j \in DOMAIN task : task'[k] = task[j]
  BY TakeTasksParts
<1>2. TypeOK'
  BY <1>1 DEF IInv, TypeOK, Statuses
<1>3. Registered' /\ Shape' /\ BatchShape'
  BY DEF IInv, TypeOK, Registered, Shape, BatchShape, Receivers, Senders
<1>4. QueueShape' /\ Armed'
  BY <1>1 DEF IInv, TypeOK, QueueShape, Armed
<1>5. ChannelShape'
  <2>1. ASSUME NEW j \in Ids, Given(j) PROVE Given(j)'
    BY <1>1, <2>1 DEF Given
  <2> QED
    BY <2>1 DEF IInv, TypeOK, ChannelShape
<1> QED
  BY <1>2, <1>3, <1>4, <1>5 DEF IInv

\* A channel after the n first tasks were written to it.
LEMMA ForwardedProperties ==
  ASSUME NEW S, NEW q \in Seq(S), NEW t \in Seq(S), NEW n \in 0 .. Len(t),
         NEW r, r = q \o SubSeq(t, 1, n)
  PROVE  /\ r \in Seq(S)
         /\ \A m \in DOMAIN r : \/ m \in DOMAIN q /\ r[m] = q[m]
                               \/ \E j \in 1 .. n : r[m] = t[j]
<1>1. ASSUME NEW u, u = SubSeq(t, 1, n)
      PROVE  u \in Seq(S) /\ Len(u) = n /\ \A j \in 1 .. n : u[j] = t[j]
  BY <1>1
<1>2. ASSUME NEW u \in Seq(S), Len(u) = n, \A j \in 1 .. n : u[j] = t[j]
      PROVE  /\ q \o u \in Seq(S)
             /\ \A m \in DOMAIN (q \o u) :
                  \/ m \in DOMAIN q /\ (q \o u)[m] = q[m]
                  \/ \E j \in 1 .. n : (q \o u)[m] = t[j]
  <2>1. ASSUME NEW m \in DOMAIN (q \o u), m \notin DOMAIN q
        PROVE  \E j \in 1 .. n : (q \o u)[m] = t[j]
    <3>1. m - Len(q) \in 1 .. n /\ (q \o u)[m] = u[m - Len(q)]
      BY <1>2, <2>1
    <3> QED
      BY <1>2, <3>1
  <2> QED
    BY <1>2, <2>1
<1>3. /\ SubSeq(t, 1, n) \in Seq(S) /\ Len(SubSeq(t, 1, n)) = n
      /\ \A j \in 1 .. n : SubSeq(t, 1, n)[j] = t[j]
  BY <1>1, Zenon
<1> QED
  BY <1>2, <1>3, Zenon

LEMMA TasksSentInv ==
  ASSUME IInv, NEW i \in Ids, Handle(i, "send_local"), TasksSent(i) PROVE IInv'
<1> USE DEF Handle, treeVars, appVars, queueVars, netVars, chanVars
<1> PICK n \in 0 .. SendQuota :
      /\ TakeTasks(n)
      /\ toWorker' = [toWorker EXCEPT ![Sock(i)] = @ \o SubSeq(task, 1, n)]
      /\ \/ worker' = Append(Unlink(worker, i), i)
         \/ UNCHANGED worker
      /\ UNCHANGED <<treeVars, appVars, backlog, peer, rx, held, fromWorker, resp>>
  BY DEF TasksSent
<1>1. /\ n \in 0 .. Len(task) /\ task \in Seq(Ids)
      /\ task' \in Seq(Ids) /\ IsInjective(task')
      /\ \A k \in DOMAIN task' : \E j \in DOMAIN task : task'[k] = task[j]
      /\ \A k \in DOMAIN task', j \in 1 .. n : task'[k] # task[j]
  BY TakeTasksParts DEF IInv, TypeOK
<1>2. /\ worker' \in Seq(Ids) /\ IsInjective(worker')
      /\ \A k \in DOMAIN worker' : worker'[k] = i \/ \E j \in DOMAIN worker : worker'[k] = worker[j]
  <2>1. worker \in Seq(Ids) /\ IsInjective(worker)
    BY DEF IInv, TypeOK, QueueShape
  <2>2. CASE UNCHANGED worker
    BY <2>1, <2>2
  <2>3. CASE worker' = Append(Unlink(worker, i), i)
    <3>1. /\ Unlink(worker, i) \in Seq(Ids) /\ IsInjective(Unlink(worker, i))
          /\ \A k \in DOMAIN Unlink(worker, i) :
               Unlink(worker, i)[k] # i /\ \E j \in DOMAIN worker : Unlink(worker, i)[k] = worker[j]
      BY <2>1, UnlinkProperties
    <3> QED
      BY <2>3, <3>1, InsertTailProperties
  <2> QED
    BY <2>2, <2>3
<1>3. /\ toWorker' \in [Ids -> Seq(Ids)]
      /\ \A s \in Ids : \A m \in DOMAIN toWorker'[s] :
           \/ m \in DOMAIN toWorker[s] /\ toWorker'[s][m] = toWorker[s][m]
           \/ \E j \in 1 .. n : toWorker'[s][m] = task[j]
  <2>1. CASE Sock(i) \in Ids
    <3>1. /\ toWorker[Sock(i)] \in Seq(Ids)
          /\ toWorker'[Sock(i)] = toWorker[Sock(i)] \o SubSeq(task, 1, n)
          /\ \A s \in Ids : s # Sock(i) => toWorker'[s] = toWorker[s]
          /\ toWorker' = [s \in Ids |-> toWorker'[s]]
      BY <2>1 DEF IInv, TypeOK
    <3>2. /\ toWorker'[Sock(i)] \in Seq(Ids)
          /\ \A m \in DOMAIN toWorker'[Sock(i)] :
               \/ m \in DOMAIN toWorker[Sock(i)] /\ toWorker'[Sock(i)][m] = toWorker[Sock(i)][m]
               \/ \E j \in 1 .. n : toWorker'[Sock(i)][m] = task[j]
      <4> PICK q, r, t : q = toWorker[Sock(i)] /\ r = toWorker'[Sock(i)] /\ t = task
        OBVIOUS
      <4>1. q \in Seq(Ids) /\ t \in Seq(Ids) /\ n \in 0 .. Len(t) /\ r = q \o SubSeq(t, 1, n)
        BY <1>1, <3>1
      <4>2. /\ r \in Seq(Ids)
            /\ \A m \in DOMAIN r : \/ m \in DOMAIN q /\ r[m] = q[m]
                                  \/ \E j \in 1 .. n : r[m] = t[j]
        BY <4>1, ForwardedProperties
      <4> QED
        BY <4>2, SMTT(20)
    <3>3. \A s \in Ids : toWorker'[s] \in Seq(Ids)
      BY <3>1, <3>2 DEF IInv, TypeOK
    <3>4. toWorker' \in [Ids -> Seq(Ids)]
      BY <3>1, <3>3
    <3>5. ASSUME NEW s \in Ids, NEW m \in DOMAIN toWorker'[s]
          PROVE  \/ m \in DOMAIN toWorker[s] /\ toWorker'[s][m] = toWorker[s][m]
                 \/ \E j \in 1 .. n : toWorker'[s][m] = task[j]
      <4>1. CASE s = Sock(i)
        BY <3>2, <4>1
      <4>2. CASE s # Sock(i)
        BY <3>1, <4>2
      <4> QED
        BY <4>1, <4>2
    <3> QED
      BY <3>4, <3>5
  <2>2. CASE Sock(i) \notin Ids
    BY <2>2 DEF IInv, TypeOK
  <2> QED
    BY <2>1, <2>2
<1>4. TypeOK'
  BY <1>1, <1>2, <1>3 DEF IInv, TypeOK
<1>5. Registered' /\ Shape' /\ BatchShape'
  BY DEF IInv, TypeOK, Registered, Shape, BatchShape, Receivers, Senders
<1>6. QueueShape' /\ Armed'
  <2>1. \A k \in DOMAIN task' : handler[task'[k]] = "send_http" /\ "OUT" \notin interest[task'[k]]
    BY <1>1 DEF IInv, QueueShape
  <2>2. \A k \in DOMAIN worker' : handler[worker'[k]] = "send_local"
    BY <1>2 DEF IInv, QueueShape
  <2> QED
    BY <1>1, <1>2, <2>1, <2>2 DEF QueueShape, Armed
<1>7. ChannelShape'
  <2>1. ASSUME NEW j \in Ids, Given(j) PROVE Given(j)'
    BY <1>1, <2>1 DEF Given
  <2>2. ASSUME NEW x, NEW j \in 1 .. n, x = task[j] PROVE Given(x)'
    <3>1. j \in DOMAIN task /\ x \in Ids
      BY <1>1, <2>2
    <3>2. handler[x] = "send_http" /\ x < nextId
      BY <2>2, <3>1 DEF IInv, TypeOK, QueueShape, Registered
    <3> QED
      BY <1>1, <2>2, <3>2 DEF Given
  <2>3. ASSUME NEW s \in Ids, NEW m \in DOMAIN toWorker'[s], NEW x, x = toWorker'[s][m]
        PROVE  Given(x)'
    <3>1. CASE m \in DOMAIN toWorker[s] /\ x = toWorker[s][m]
      <4>1. x \in Ids /\ Given(x)
        BY <3>1 DEF IInv, TypeOK, ChannelShape
      <4> QED
        BY <2>1, <4>1
    <3>2. CASE \E j \in 1 .. n : x = task[j]
      BY <2>2, <3>2
    <3> QED
      BY <1>3, <2>3, <3>1, <3>2
  <2>4. ASSUME NEW s \in Ids
        PROVE  /\ \A x \in held[s] : Given(x)'
               /\ \A k \in DOMAIN fromWorker[s] : fromWorker[s][k] \in Ids /\ Given(fromWorker[s][k])
    BY <2>1 DEF IInv, TypeOK, ChannelShape
  <2> QED
    BY <2>1, <2>3, <2>4 DEF ChannelShape
<1> QED
  BY <1>4, <1>5, <1>6, <1>7 DEF IInv

\* New apps get ids that no app, queue, event or channel mentions.
LEMMA RegisterParts ==
  ASSUME IInv, NEW n \in Nat, Register(n)
  PROVE  /\ nextId' \in 2 .. MaxApps /\ nextId' >= nextId
         /\ idTree' \subseteq Ids /\ aliveComm' \in Int
         /\ \A j \in idTree' : j < nextId'
         /\ \A j \in NewIds(n) : /\ j \in Ids /\ j \notin idTree /\ j >= nextId
                                /\ handler[j] = "none" /\ ready[j] = {}
<1>1. /\ nextId \in 2 .. MaxApps /\ MaxApps \in Nat /\ nextId' = nextId + n
      /\ \A j \in NewIds(n) : j \in Int /\ j >= nextId /\ j < nextId'
      /\ NewIds(n) \subseteq Ids
  BY BoundsAssumption DEF IInv, TypeOK, Register, NewIds
<1>2. nextId' \in 2 .. MaxApps /\ nextId' >= nextId
  <2>1. CASE n = 0
    BY <1>1, <2>1
  <2>2. CASE n > 0
    <3>1. nextId+n-1 \in NewIds(n)
      BY <1>1, <2>2 DEF NewIds
    <3>2. nextId+n-1 \in 0 .. MaxApps-1
      BY <1>1, <3>1 DEF Ids
    <3> QED
      BY <1>1, <2>2, <3>2
  <2> QED
    BY <2>1, <2>2
<1>3. idTree' \subseteq Ids /\ aliveComm' \in Int
  BY <1>1 DEF Register, IInv, TypeOK
<1>4. \A j \in idTree' : j < nextId'
  <2>1. \A j \in idTree : j \in Int /\ j < nextId
    BY DEF IInv, TypeOK, Registered, Ids
  <2> QED
    BY <1>1, <1>2, <2>1 DEF Register
<1>5. \A j \in NewIds(n) : j \notin idTree
  BY <1>1 DEF IInv, Registered
<1>6. \A j \in NewIds(n) : handler[j] = "none" /\ ready[j] = {}
  BY <1>1, <1>5 DEF IInv, TypeOK, Registered, BatchShape
<1> QED
  BY <1>1, <1>2, <1>3, <1>4, <1>5, <1>6

LEMMA AcceptHttpInv ==
  ASSUME IInv, NEW i \in Ids, AcceptHttp(i) PROVE IInv'
<1> USE DEF AcceptHttp, Handle, treeVars, appVars, queueVars, netVars, chanVars
<1> PICK n \in 0 .. MaxPending, d \in 0 .. MaxPending :
      /\ n+d <= AtMost(backlog[i], Backlog)
      /\ Register(n)
      /\ handler' = [j \in Ids |-> IF j \in NewIds(n) THEN "recv_http" ELSE handler[j]]
      /\ status' = [j \in Ids |-> IF j \in NewIds(n) THEN "read" ELSE status[j]]
      /\ interest' = [j \in Ids |-> IF j \in NewIds(n) THEN {"IN"} ELSE interest[j]]
      /\ ttl' = [j \in Ids |-> IF j \in NewIds(n) THEN Timeout ELSE ttl[j]]
      /\ buf' = [j \in Ids |-> IF j \in NewIds(n) THEN "request" ELSE buf[j]]
      /\ peer' = [j \in Ids |-> IF j \in NewIds(n) THEN "open" ELSE peer[j]]
      /\ backlog' = [backlog EXCEPT ![i] = @ - n - d]
  OBVIOUS
<1>1. /\ nextId' \in 2 .. MaxApps /\ nextId' >= nextId
      /\ idTree' \subseteq Ids /\ aliveComm' \in Int
      /\ \A j \in idTree' : j < nextId'
      /\ \A j \in NewIds(n) : /\ j \in Ids /\ j \notin idTree /\ j >= nextId
                             /\ handler[j] = "none" /\ ready[j] = {}
  BY RegisterParts, BoundsAssumption
<1>2. idTree' = idTree \cup NewIds(n)
  BY DEF Register
<1>3. backlog' \in [Listeners -> Nat]
  <2>1. CASE i \in Listeners
    <3>1. backlog[i] \in Nat /\ n+d <= backlog[i]
      BY <2>1, BoundsAssumption DEF IInv, TypeOK, AtMost
    <3>2. n \in Nat /\ d \in Nat
      BY BoundsAssumption
    <3> DEFINE b == backlog[i]
    <3>3. b - n - d \in Nat
      <4>1. b \in Nat /\ n+d <= b
        BY <3>1
      <4> HIDE DEF b
      <4> QED
        BY <3>2, <4>1
    <3>4. backlog \in [Listeners -> Nat] /\ backlog' = [backlog EXCEPT ![i] = b - n - d]
      BY DEF IInv, TypeOK
    <3> HIDE DEF b
    <3> QED
      BY <3>3, <3>4
  <2>2. CASE i \notin Listeners
    <3>1. backlog' = backlog
      BY <2>2 DEF IInv, TypeOK
    <3> QED
      BY <3>1 DEF IInv, TypeOK
  <2> QED
    BY <2>1, <2>2
<1>4. TypeOK'
  BY <1>1, <1>3, BoundsAssumption DEF IInv, TypeOK, Handlers, Statuses, EventBits, Buffers
<1>5. Registered'
  BY <1>1, <1>2 DEF IInv, TypeOK, Registered
<1>6. Shape'
  BY <1>1 DEF IInv, TypeOK, Shape, Receivers, Senders
<1>7. BatchShape'
  BY <1>1, <1>2 DEF IInv, TypeOK, BatchShape, Receivers, Senders
<1>8. QueueShape' /\ Armed'
  <2>1. /\ \A k \in DOMAIN task : task[k] \in Ids /\ handler[task[k]] = "send_http"
        /\ \A k \in DOMAIN worker : worker[k] \in Ids /\ handler[worker[k]] = "send_local"
    BY DEF IInv, TypeOK, QueueShape
  <2>2. \A j \in Ids : handler[j] # "none" =>
          handler'[j] = handler[j] /\ interest'[j] = interest[j]
    BY <1>1
  <2> QED
    BY <2>1, <2>2 DEF IInv, QueueShape, Armed
<1>9. ChannelShape'
  <2>1. ASSUME NEW j \in Ids, Given(j) PROVE Given(j)'
    <3>1. j \in Int /\ nextId \in Int /\ nextId' \in Int
      BY <1>1 DEF IInv, TypeOK, Ids
    <3>2. j \notin NewIds(n)
      BY <1>1, <2>1, <3>1 DEF Given
    <3> QED
      BY <1>1, <2>1, <3>1, <3>2 DEF Given
  <2> QED
    BY <2>1 DEF IInv, TypeOK, ChannelShape
<1> QED
  BY <1>4, <1>5, <1>6, <1>7, <1>8, <1>9 DEF IInv


LEMMA AcceptLocalInv ==
  ASSUME IInv, NEW i \in Ids, AcceptLocal(i) PROVE IInv'
<1> USE DEF AcceptLocal, Handle, treeVars, appVars, queueVars, netVars, chanVars
<1> DEFINE New(n, first, second, old) ==
      [j \in Ids |-> CASE j \in NewIds(n) /\ j = nextId -> first
                       [] j \in NewIds(n) /\ j # nextId -> second
                       [] OTHER -> old[j]]
<1> PICK n \in 0 .. 2 :
      /\ Register(n)
      /\ handler' = New(n, "recv_local", "send_local", handler)
      /\ status' = New(n, "read", "write", status)
      /\ interest' = New(n, {"IN"}, {"OUT", "RDHUP"}, interest)
      /\ peer' = New(n, "open", "none", peer)
      /\ worker' = IF n = 2 THEN Append(worker, nextId+1) ELSE worker
  OBVIOUS
<1>1. /\ nextId' \in 2 .. MaxApps /\ nextId' >= nextId
      /\ idTree' \subseteq Ids /\ aliveComm' \in Int
      /\ \A j \in idTree' : j < nextId'
      /\ \A j \in NewIds(n) : /\ j \in Ids /\ j \notin idTree /\ j >= nextId
                             /\ handler[j] = "none" /\ ready[j] = {}
  BY RegisterParts
<1>2. idTree' = idTree \cup NewIds(n)
  BY DEF Register
<1>3. /\ \A j \in Ids \ NewIds(n) : /\ handler'[j] = handler[j] /\ status'[j] = status[j]
                                    /\ interest'[j] = interest[j] /\ peer'[j] = peer[j]
      /\ \A j \in NewIds(n) :
           /\ peer'[j] \in {"open", "none"}
           /\ \/ handler'[j] = "recv_local" /\ status'[j] = "read" /\ interest'[j] = {"IN"}
              \/ handler'[j] = "send_local" /\ status'[j] = "write" /\ interest'[j] = {"OUT", "RDHUP"}
  BY <1>1
<1>4. /\ DOMAIN handler' = Ids /\ handler' = [j \in Ids |-> handler'[j]]
      /\ DOMAIN status' = Ids /\ status' = [j \in Ids |-> status'[j]]
      /\ DOMAIN interest' = Ids /\ interest' = [j \in Ids |-> interest'[j]]
      /\ DOMAIN peer' = Ids /\ peer' = [j \in Ids |-> peer'[j]]
  OBVIOUS
<1> HIDE DEF New
<1>5. backlog' \in [Listeners -> Nat]
  <2>1. CASE i \in Listeners
    BY <2>1 DEF IInv, TypeOK
  <2>2. CASE i \notin Listeners
    BY <2>2 DEF IInv, TypeOK
  <2> QED
    BY <2>1, <2>2
<1>6. /\ worker' \in Seq(Ids) /\ IsInjective(worker')
      /\ \A k \in DOMAIN worker' : handler'[worker'[k]] = "send_local"
  <2>1. /\ worker \in Seq(Ids) /\ IsInjective(worker)
        /\ \A k \in DOMAIN worker : handler[worker[k]] = "send_local" /\ handler'[worker[k]] = "send_local"
    BY <1>1, <1>3, SMTT(40) DEF IInv, TypeOK, QueueShape
  <2>2. CASE n = 2
    <3>1. nextId \in Int /\ nextId+1 \in NewIds(n)
      BY <2>2 DEF IInv, TypeOK, NewIds
    <3>2. nextId+1 \in Ids /\ handler[nextId+1] = "none" /\ handler'[nextId+1] = "send_local"
      BY <1>1, <3>1 DEF New
    <3>3. \A k \in DOMAIN worker : worker[k] # nextId+1
      BY <2>1, <3>2
    <3>4. worker' = Append(worker, nextId+1)
      BY <2>2
    <3> QED
      <4> PICK x \in Ids : x = nextId+1
        BY <3>2
      <4>1. /\ worker' \in Seq(Ids) /\ IsInjective(worker')
            /\ \A k \in DOMAIN worker' : worker'[k] = x \/ \E j \in DOMAIN worker : worker'[k] = worker[j]
        BY <2>1, <3>3, <3>4, InsertTailProperties
      <4>2. handler'[x] = "send_local"
        BY <3>2
      <4>3. ASSUME NEW k \in DOMAIN worker' PROVE handler'[worker'[k]] = "send_local"
        <5> HIDE DEF AcceptLocal
        <5> QED
          BY <2>1, <4>1, <4>2, Zenon
      <4> QED
        BY <4>1, <4>3
  <2>3. CASE n # 2
    BY <2>1, <2>3
  <2> QED
    BY <2>2, <2>3
<1>7. TypeOK'
  <2>1. /\ handler' \in [Ids -> Handlers] /\ status' \in [Ids -> Statuses]
        /\ interest' \in [Ids -> SUBSET EventBits]
        /\ peer' \in [Ids -> {"none", "open", "shut", "gone"}]
    BY <1>3, <1>4 DEF IInv, TypeOK, Handlers, Statuses, EventBits
  <2> QED
    BY <1>1, <1>5, <1>6, <2>1 DEF IInv, TypeOK
<1>8. Registered'
  <2>1. ASSUME NEW j \in Ids
        PROVE  (j \in idTree' <=> handler'[j] # "none") /\ (handler'[j] = "none" => ttl'[j] = -1)
    <3>1. (j \in idTree <=> handler[j] # "none") /\ (handler[j] = "none" => ttl[j] = -1) /\ ttl' = ttl
      BY DEF IInv, Registered
    <3>2. CASE j \in NewIds(n)
      BY <1>2, <1>3, <3>1, <3>2, Zenon
    <3>3. CASE j \notin NewIds(n)
      BY <1>2, <1>3, <3>1, <3>3, Zenon
    <3> QED
      BY <3>2, <3>3
  <2> QED
    BY <1>1, <2>1 DEF Registered
<1>9. Shape'
  BY <1>1, <1>3 DEF IInv, TypeOK, Shape, Receivers, Senders
<1>10. BatchShape'
  BY <1>1, <1>2, <1>3 DEF IInv, TypeOK, BatchShape, Receivers, Senders
<1>11. QueueShape' /\ Armed'
  <2>1. \A k \in DOMAIN task : task[k] \in Ids /\ handler[task[k]] = "send_http"
    BY DEF IInv, TypeOK, QueueShape
  <2>2. \A k \in DOMAIN task : handler'[task[k]] = handler[task[k]] /\ interest'[task[k]] = interest[task[k]]
    BY <1>1, <1>3, <2>1
  <2>3. task' = task /\ IsInjective(task)
    BY DEF IInv, QueueShape
  <2>4. QueueShape'
    <3>1. \A k \in DOMAIN task : handler'[task[k]] = "send_http" /\ "OUT" \notin interest'[task[k]]
      BY <2>1, <2>2 DEF IInv, QueueShape
    <3> HIDE DEF AcceptLocal
    <3> QED
      BY <1>6, <2>3, <3>1 DEF QueueShape
  <2>5. Armed'
    <3>1. pc' = "settle"
      BY DEF Handle
    <3> QED
      BY <3>1 DEF Armed
  <2> QED
    BY <2>4, <2>5
<1>12. ChannelShape'
  <2>1. ASSUME NEW j \in Ids, Given(j) PROVE Given(j)'
    <3>1. j \in Int /\ nextId \in Int /\ nextId' \in Int
      BY <1>1 DEF IInv, TypeOK, Ids
    <3>2. j \notin NewIds(n)
      BY <1>1, <2>1, <3>1 DEF Given
    <3> QED
      BY <1>1, <1>3, <2>1, <3>1, <3>2 DEF Given
  <2> QED
    BY <2>1 DEF IInv, TypeOK, ChannelShape
<1> QED
  BY <1>7, <1>8, <1>9, <1>10, <1>11, <1>12 DEF IInv

\* A handler's step, case by case of what the kernel answered.
LEMMA HandlerInv ==
  ASSUME IInv, NEW i \in Ids, Handler(i) PROVE IInv'
<1>1. {"recv_http", "send_http", "recv_local", "send_local"} \subseteq Handlers
  BY DEF Handlers
<1>2. CASE AcceptHttp(i)
  BY <1>2, AcceptHttpInv
<1>3. CASE AcceptLocal(i)
  BY <1>3, AcceptLocalInv
<1>4. CASE RecvHttp(i)
  BY <1>1, <1>4, RecvMoreInv, RecvDoneInv, SetCloseInv, IdleInv DEF RecvHttp
<1>5. CASE SendHttp(i)
  BY <1>1, <1>5, AnswerSentInv, IdleInv, SetCloseInv DEF SendHttp, AnswerRetry, AnswerFailed
<1>6. CASE RecvLocal(i)
  BY <1>1, <1>6, FramesReceivedInv, SetCloseInv DEF RecvLocal, ReceiveEnds
<1>7. CASE SendLocal(i)
  BY <1>1, <1>7, WorkerIdleInv, TasksSentInv, TasksLostInv DEF SendLocal
<1>8. CASE SkipHandler(i)
  BY <1>8, SkipHandlerInv
<1> QED
  BY <1>2, <1>3, <1>4, <1>5, <1>6, <1>7, <1>8 DEF Handler

\* Every step of the loop, of the peers and of time preserves the invariant.
LEMMA NextInv == IInv /\ [Next]_vars => IInv'
<1> SUFFICES ASSUME IInv, [Next]_vars PROVE IInv'
  OBVIOUS
<1>1. CASE Loop
  <2>1. ASSUME NEW i \in Ids, ExpireTimer(i) PROVE IInv'
    BY <2>1, ExpireTimerInv
  <2>2. ASSUME NEW i \in Ids, Handler(i) PROVE IInv'
    BY <2>2, HandlerInv
  <2> QED
    BY <1>1, <2>1, <2>2, EnterWaitInv, PollReadyInv, PollTimeoutInv, SettleInv, WakeInv DEF Loop
<1>2. CASE Environment
  BY <1>2, ConnectInv, ClientSendInv, PeerClosesInv, WorkerTakeInv, WorkerAnswerInv DEF Environment
<1>3. CASE Tick
  BY <1>3, TickInv
<1>4. CASE UNCHANGED vars
  BY <1>4 DEF vars, appVars, treeVars, queueVars, loopVars, chanVars, netVars,
       IInv, TypeOK, Registered, Shape, QueueShape, BatchShape, ChannelShape, Given, Armed
<1> QED
  BY <1>1, <1>2, <1>3, <1>4 DEF Next

\* The invariant holds in every state the server reaches, for any number of ids,
\* connections, workers and events, any timeout, and with or without failures.
THEOREM Invariance == Spec => []IInv
<1>1. Init => IInv
  BY InitInv
<1>2. IInv /\ [Next]_vars => IInv'
  BY NextInv
<1> QED
  BY <1>1, <1>2, PTL DEF Spec

----------------------------------------------------------------------------
(* What follows from the invariant.                                         *)

\* Type correctness of the server's state.
THEOREM TypeCorrect == Spec => []TypeOK
<1>1. IInv => TypeOK
  BY DEF IInv
<1> QED
  BY <1>1, Invariance, PTL

\* Memory safety of the loop: the trees, the queues, the timers and the batch of
\* events only name apps that have not been freed, whatever is torn down when.
THEOREM NoDangling == Spec => []NoDanglingReference
<1>1. ASSUME IInv PROVE NoDanglingReference
  <2>1. /\ \A i \in idTree : i \in Ids /\ handler[i] # "none"
        /\ \A i \in Ids : handler[i] # "none" => i \in idTree
        /\ \A i \in Ids : ttl[i] # -1 \/ ready[i] # {} => i \in idTree
        /\ pc = "settle" => cur \in idTree
    BY <1>1 DEF IInv, TypeOK, Registered, BatchShape
  <2>2. \A k \in DOMAIN task : task[k] \in Ids /\ handler[task[k]] # "none"
    BY <1>1 DEF IInv, TypeOK, QueueShape
  <2>3. \A k \in DOMAIN worker : worker[k] \in Ids /\ handler[worker[k]] # "none"
    BY <1>1 DEF IInv, TypeOK, QueueShape
  <2>4. ToSet(task) \cup ToSet(worker) \subseteq idTree
    BY <2>1, <2>2, <2>3 DEF ToSet
  <2> QED
    BY <2>1, <2>4 DEF NoDanglingReference
<1> QED
  BY <1>1, Invariance, PTL

\* send_http_cb never sends a request back to its client, nor an answer that came
\* before a worker was given the request.
THEOREM AnswersOnly == Spec => []SendsOnlyAnswers
<1>1. ASSUME IInv PROVE SendsOnlyAnswers
  <2> SUFFICES ASSUME NEW i \in Ids, pc = "events", handler[i] = "send_http",
                      ready[i] \cap {"IN", "OUT"} # {}
               PROVE  buf[i] # "request" /\ i \notin ToSet(task)
    BY DEF SendsOnlyAnswers
  <2>1. "IN" \notin ready[i]
    BY <1>1 DEF IInv, BatchShape, Receivers
  <2>2. "OUT" \in interest[i]
    BY <1>1, <2>1 DEF IInv, BatchShape
  <2>3. buf[i] # "request"
    BY <1>1, <2>2 DEF IInv, Shape
  <2>4. \A k \in DOMAIN task : task[k] # i
    BY <1>1, <2>2 DEF IInv, QueueShape
  <2> QED
    BY <2>3, <2>4 DEF ToSet
<1> QED
  BY <1>1, Invariance, PTL

\* The wake-up of server_start_loop is never lost: when the loop goes to wait with
\* a task queued, every worker in the queue is watched for room in its socket.
THEOREM WakeupKept == Spec => []NoLostWakeup
<1>1. ASSUME IInv PROVE NoLostWakeup
  BY <1>1 DEF IInv, Armed, NoLostWakeup, ToSet
<1> QED
  BY <1>1, Invariance, PTL
============================================================================
