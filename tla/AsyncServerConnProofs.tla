----------------------- MODULE AsyncServerConnProofs -----------------------
(* Proofs about how connections begin and end.                               *)
EXTENDS AsyncServerProofs, FiniteSetTheorems

\* Every step is one of these: the union over i, flattened.
Quiet == UNCHANGED <<treeVars, appVars, queueVars, netVars>>

LEMMA StepCases ==
  ASSUME [Next]_vars
  PROVE  \/ \E i \in Ids : ExpireTimer(i)
         \/ EnterWait \/ PollReady \/ PollTimeout \/ Settle \/ Wake
         \/ \E i \in Ids : AcceptHttp(i) \/ AcceptLocal(i) \/ SkipHandler(i)
         \/ \E i \in Ids : Handle(i, "recv_http") /\ (RecvMore(i) \/ RecvDone(i))
         \/ \E i \in Ids : Handle(i, "send_http") /\ AnswerSent(i)
         \/ \E i \in Ids : Handle(i, "recv_local") /\ FramesReceived(i)
         \/ \E i \in Ids : Handle(i, "recv_local") /\ ReceiveEnds(i)
         \/ \E i \in Ids : Handle(i, "send_local") /\ (WorkerIdle(i) \/ TasksSent(i) \/ TasksLost(i))
         \/ \E i \in Ids, h \in {"recv_http", "send_http"} : Handle(i, h) /\ (Quiet \/ SetClose(i))
         \/ \E l \in Listeners : Connect(l)
         \/ \E i \in Ids : ClientSend(i) \/ PeerCloses(i) \/ WorkerTake(i) \/ WorkerAnswer(i)
         \/ Tick
         \/ UNCHANGED vars
BY DEF Next, Loop, Environment, Handler, RecvHttp, SendHttp, RecvLocal, SendLocal, AnswerRetry, AnswerFailed, Quiet

\* What closing an app does to a socket: nothing, or it is emptied, if no other app
\* shares it.
LEMMA CloseFdParts ==
  ASSUME IInv, NEW i \in Ids, Teardown(i), NEW t \in Ids
  PROVE  IF t = Sock(i) /\ ~SharesSocket(i)
           THEN /\ peer'[t] = "none" /\ resp'[t] = "none"
                /\ toWorker'[t] = <<>> /\ held'[t] = {} /\ fromWorker'[t] = <<>>
           ELSE /\ peer'[t] = peer[t] /\ resp'[t] = resp[t]
                /\ toWorker'[t] = toWorker[t] /\ held'[t] = held[t] /\ fromWorker'[t] = fromWorker[t]
BY DEF Teardown, CloseFd, IInv, TypeOK, chanVars

LEMMA FreeAppParts ==
  ASSUME IInv, NEW i \in Ids, Teardown(i)
  PROVE  /\ handler'[i] = "none" /\ status'[i] = "none" /\ interest'[i] = {}
         /\ ttl'[i] = -1 /\ buf'[i] = "none"
         /\ \A j \in Ids \ {i} : /\ handler'[j] = handler[j] /\ status'[j] = status[j]
                                 /\ interest'[j] = interest[j] /\ ttl'[j] = ttl[j]
                                 /\ buf'[j] = buf[j]
         /\ nextId' = nextId /\ idTree' = idTree \ {i} /\ aliveComm' = aliveComm - 1
BY DEF Teardown, FreeApp, Uncount, IInv, TypeOK

\* The live apps that answers are for are clients whose request was given away.
LEMMA MatchedClients ==
  ASSUME IInv, NEW i \in Ids, NEW k \in 0 .. Len(fromWorker[i]), NEW j \in Matched(i, k)
  PROVE  j \in idTree /\ Given(j) /\ handler[j] = "send_http"
<1>1. PICK m \in 1 .. k : j = fromWorker[i][m] /\ j \in idTree
  BY DEF Matched
<1>2. m \in DOMAIN fromWorker[i]
  BY DEF IInv, TypeOK
<1>3. Given(j)
  BY <1>1, <1>2 DEF IInv, ChannelShape
<1> QED
  BY <1>1, <1>3 DEF IInv, TypeOK, Given, Registered

\* No event of the batch, status or timer ends a listener.
LEMMA ListenersStep ==
  ASSUME IInv, ListenersKept, Halves, [Next]_vars
  PROVE  ListenersKept'
<1> USE DEF treeVars, appVars, queueVars, netVars, chanVars, loopVars, Quiet
<1> SUFFICES ASSUME NEW l \in Listeners PROVE ListenerKept(l)'
  BY DEF ListenersKept
<1>0. /\ l \in Ids /\ l < nextId /\ nextId \in Int
      /\ ListenerKept(l) /\ ttl[l] = -1 /\ interest[l] = {"IN"} /\ Sock(l) = l
  <2>1. l \in Ids /\ l < nextId /\ nextId \in Int
    BY BoundsAssumption DEF IInv, TypeOK, Listeners, HttpListener, LocalListener, Ids
  <2>2. ListenerKept(l)
    BY DEF ListenersKept
  <2>3. ttl[l] = -1 /\ interest[l] = {"IN"} /\ Sock(l) = l
    BY <2>1, <2>2 DEF ListenerKept, Halves, Half, IInv, Shape, Receivers, Sock
  <2> QED
    BY <2>1, <2>2, <2>3
<1>1. ASSUME NEW i \in Ids, Teardown(i), i # l, ready'[l] \subseteq {"IN"}
      PROVE  ListenerKept(l)'
  BY <1>0, <1>1, FreeAppParts, CloseFdParts DEF ListenerKept
<1>2. ASSUME NEW i \in Ids, ExpireTimer(i) PROVE ListenerKept(l)'
  BY <1>0, <1>1, <1>2 DEF ExpireTimer, ListenerKept
<1>3. CASE EnterWait \/ PollTimeout \/ Tick \/ UNCHANGED vars
  BY <1>0, <1>3 DEF EnterWait, PollTimeout, Tick, vars, ListenerKept
<1>4. CASE PollReady
  BY <1>0, <1>4 DEF PollReady, Events, ListenerKept
<1>5. CASE Settle
  <2>1. cur \in Ids /\ ready'[l] \subseteq {"IN"}
    BY <1>0, <1>5 DEF Settle, IInv, TypeOK, BatchShape, ListenerKept
  <2>2. CASE ready[cur] \cap {"HUP", "RDHUP"} # {} \/ status[cur] = "close"
    BY <1>0, <1>1, <1>5, <2>1, <2>2 DEF Settle, ListenerKept
  <2> QED
    BY <1>0, <1>5, <2>1, <2>2 DEF Settle, ListenerKept
<1>6. CASE Wake
  <2>1. l \notin IdleWorkers
    BY <1>0, SMTT(20) DEF IdleWorkers, ToSet, IInv, TypeOK, QueueShape, ListenerKept
  <2> QED
    BY <1>0, <1>6, <2>1 DEF Wake, ListenerKept
<1>7. ASSUME NEW i \in Ids, AcceptHttp(i) PROVE ListenerKept(l)'
  BY <1>0, <1>7 DEF AcceptHttp, Handle, NewIds, ListenerKept
<1>8. ASSUME NEW i \in Ids, AcceptLocal(i) PROVE ListenerKept(l)'
  BY <1>0, <1>8 DEF AcceptLocal, Handle, NewIds, ListenerKept
<1>9. ASSUME NEW i \in Ids, SkipHandler(i) PROVE ListenerKept(l)'
  BY <1>0, <1>9 DEF SkipHandler, ListenerKept
<1>10. ASSUME NEW i \in Ids, Handle(i, "recv_http"), RecvMore(i) \/ RecvDone(i)
       PROVE  ListenerKept(l)'
  BY <1>0, <1>10 DEF Handle, RecvMore, RecvDone, IInv, TypeOK, ListenerKept
<1>11. ASSUME NEW i \in Ids, Handle(i, "send_http"), AnswerSent(i) PROVE ListenerKept(l)'
  BY <1>0, <1>11 DEF Handle, AnswerSent, IInv, TypeOK, ListenerKept
<1>12. ASSUME NEW i \in Ids, Handle(i, "recv_local"), FramesReceived(i) PROVE ListenerKept(l)'
  BY <1>0, <1>12, MatchedClients DEF Handle, FramesReceived, ListenerKept
<1>13. ASSUME NEW i \in Ids, NEW h \in {"recv_http", "send_http", "recv_local"}, Handle(i, h),
              Quiet \/ SetClose(i)
       PROVE  ListenerKept(l)'
  BY <1>0, <1>13 DEF Handle, SetClose, IInv, TypeOK, ListenerKept
<1>14. ASSUME NEW i \in Ids, Handle(i, "send_local"), WorkerIdle(i) \/ TasksSent(i) \/ TasksLost(i)
       PROVE  ListenerKept(l)'
  BY <1>0, <1>14 DEF Handle, WorkerIdle, TasksSent, TasksLost, IInv, TypeOK, ListenerKept
<1>15. ASSUME NEW k \in Listeners, Connect(k) PROVE ListenerKept(l)'
  BY <1>0, <1>15 DEF Connect, ListenerKept
<1>16. ASSUME NEW i \in Ids, ClientSend(i) \/ PeerCloses(i) \/ WorkerTake(i) \/ WorkerAnswer(i)
       PROVE  ListenerKept(l)'
  BY <1>0, <1>16 DEF ClientSend, PeerCloses, WorkerTake, WorkerAnswer, IInv, TypeOK, ListenerKept
<1> QED
  BY <1>2, <1>3, <1>4, <1>5, <1>6, <1>7, <1>8, <1>9, <1>10, <1>11, <1>12, <1>13, <1>14,
     <1>15, <1>16, StepCases DEF ReceiveEnds

\* The apps of a new worker connection: both halves, or the first, or none.
NewHalves(n) ==
  /\ NewIds(n) \subseteq Ids
  /\ nextId' = nextId + n /\ idTree' = idTree \cup NewIds(n) /\ aliveComm' = aliveComm + n
  /\ \A j \in NewIds(n) : j \in Int /\ j \notin idTree /\ j >= nextId /\ handler[j] = "none" /\ ready[j] = {}
  /\ \A j \in Ids \ NewIds(n) : /\ handler'[j] = handler[j] /\ status'[j] = status[j]
                                /\ interest'[j] = interest[j] /\ peer'[j] = peer[j]
  /\ \A j \in NewIds(n) :
       \/ /\ j = nextId /\ handler'[j] = "recv_local" /\ status'[j] = "read"
          /\ peer'[j] = "open"
       \/ /\ j = nextId+1 /\ nextId \in NewIds(n) /\ handler'[j] = "send_local" /\ status'[j] = "write"
          /\ peer'[j] = "none"
  /\ worker' = IF n = 2 THEN Append(worker, nextId+1) ELSE worker
  /\ UNCHANGED <<ttl, buf, task, rx, chanVars, resp, ready>>

LEMMA AcceptLocalParts ==
  ASSUME IInv, NEW i \in Ids, AcceptLocal(i)
  PROVE  \E n \in 0 .. 2 : NewHalves(n)
<1> USE DEF AcceptLocal
<1> DEFINE New(n, first, second, old) ==
      [j \in Ids |-> CASE j \in NewIds(n) /\ j = nextId -> first
                       [] j \in NewIds(n) /\ j # nextId -> second
                       [] OTHER -> old[j]]
<1> PICK n \in 0 .. 2 :
      /\ Register(n)
      /\ handler' = New(n, "recv_local", "send_local", handler)
      /\ status' = New(n, "read", "write", status)
      /\ interest' = New(n, {"IN"}, {"OUT", "RDHUP"}, interest)
      /\ peer' = New(n, "open", "none", peer)
      /\ worker' = IF n = 2 THEN Append(worker, nextId+1) ELSE worker
  OBVIOUS
<1>1. /\ NewIds(n) \subseteq Ids /\ nextId \in Int
      /\ \A j \in NewIds(n) : /\ j \in Ids /\ j \notin idTree /\ j >= nextId
                             /\ handler[j] = "none" /\ ready[j] = {}
  <2>1. \A j \in NewIds(n) : /\ j \in Ids /\ j \notin idTree /\ j >= nextId
                            /\ handler[j] = "none" /\ ready[j] = {}
    BY RegisterParts
  <2>2. nextId \in Int
    BY DEF IInv, TypeOK
  <2> QED
    BY <2>1, <2>2
<1>2. \A j \in NewIds(n) : j \in Int /\ (j = nextId \/ (j = nextId+1 /\ nextId \in NewIds(n)))
  BY <1>1 DEF NewIds
<1>3. /\ \A j \in Ids \ NewIds(n) : /\ handler'[j] = handler[j] /\ status'[j] = status[j]
                                    /\ interest'[j] = interest[j] /\ peer'[j] = peer[j]
      /\ \A j \in NewIds(n) :
           \/ /\ j = nextId /\ handler'[j] = "recv_local" /\ status'[j] = "read"
              /\ peer'[j] = "open"
           \/ /\ j = nextId+1 /\ nextId \in NewIds(n) /\ handler'[j] = "send_local"
              /\ status'[j] = "write" /\ peer'[j] = "none"
  BY <1>1, <1>2
<1>4. UNCHANGED <<ttl, buf, task, rx, chanVars, resp, ready>>
  BY DEF Handle
<1> HIDE DEF New
<1>5. NewHalves(n)
  BY <1>1, <1>2, <1>3, <1>4 DEF NewHalves, Register
<1> QED
  BY <1>5

\* Timers are set with the app of a client and cleared with it, and the id below a
\* sending half is never given to another kind of app.
LEMMA HalvesStep ==
  ASSUME IInv, Halves, [Next]_vars
  PROVE  Halves'
<1> USE DEF treeVars, appVars, queueVars, netVars, chanVars, loopVars, Quiet
<1>0. \A j \in Ids : j \in Int /\ Half(j) /\ (handler[j] # "none" => j < nextId)
  BY DEF Halves, IInv, Registered, Ids
<1>1. ASSUME NEW i \in Ids, Teardown(i) PROVE Halves'
  BY <1>0, <1>1, FreeAppParts DEF Halves, Half
<1>2. ASSUME NEW i \in Ids, ExpireTimer(i) PROVE Halves'
  BY <1>1, <1>2 DEF ExpireTimer
<1>3. ASSUME UNCHANGED <<handler, ttl>> PROVE Halves'
  BY <1>0, <1>3 DEF Halves, Half
<1>4. CASE EnterWait \/ PollReady \/ PollTimeout \/ Wake \/ UNCHANGED vars
  BY <1>3, <1>4 DEF EnterWait, PollReady, PollTimeout, Wake, vars
<1>5. CASE Settle
  <2>1. cur \in Ids
    BY <1>5 DEF Settle, IInv, TypeOK, BatchShape
  <2> QED
    BY <1>1, <1>3, <1>5, <2>1 DEF Settle
<1>6. CASE Tick
  BY <1>0, <1>6 DEF Tick, Halves, Half
<1>7. ASSUME NEW i \in Ids, AcceptHttp(i) PROVE Halves'
  BY <1>0, <1>7, SMTT(20) DEF AcceptHttp, NewIds, IInv, TypeOK, Registered, Halves, Half
<1>8. ASSUME NEW i \in Ids, AcceptLocal(i) PROVE Halves'
  <2>1. PICK n \in 0 .. 2 : NewHalves(n)
    BY <1>8, AcceptLocalParts
  <2>2. ASSUME NEW j \in Ids PROVE Half(j)'
    <3>1. CASE j \in NewIds(n)
      BY <1>0, <2>1, <3>1 DEF NewHalves, IInv, Registered, Half
    <3>2. CASE j \notin NewIds(n)
      <4>1. handler'[j] = handler[j] /\ ttl'[j] = ttl[j]
        BY <2>1, <3>2 DEF NewHalves
      <4>2. handler[j] = "send_local" => j-1 \in Ids /\ j-1 \notin NewIds(n)
        BY <1>0, <2>1 DEF NewHalves, Half, IInv, TypeOK, Ids
      <4> QED
        BY <1>0, <2>1, <4>1, <4>2 DEF NewHalves, Half
    <3> QED
      BY <3>1, <3>2
  <2> QED
    BY <2>2 DEF Halves
<1>9. ASSUME NEW i \in Ids, Handle(i, "recv_http"), RecvDone(i) PROVE Halves'
  BY <1>0, <1>9 DEF Handle, RecvDone, IInv, TypeOK, Halves, Half
<1>10. ASSUME NEW i \in Ids,
              \/ SkipHandler(i) \/ Quiet \/ RecvMore(i) \/ SetClose(i) \/ AnswerSent(i)
              \/ FramesReceived(i) \/ WorkerIdle(i) \/ TasksSent(i) \/ TasksLost(i)
       PROVE  Halves'
  BY <1>3, <1>10 DEF SkipHandler, RecvMore, SetClose, AnswerSent, FramesReceived, WorkerIdle,
     TasksSent, TasksLost
<1>11. ASSUME NEW l \in Listeners, Connect(l) PROVE Halves'
  BY <1>3, <1>11 DEF Connect
<1>12. ASSUME NEW i \in Ids, ClientSend(i) \/ PeerCloses(i) \/ WorkerTake(i) \/ WorkerAnswer(i)
       PROVE  Halves'
  BY <1>3, <1>12 DEF ClientSend, PeerCloses, WorkerTake, WorkerAnswer
<1> QED
  BY <1>2, <1>4, <1>5, <1>6, <1>7, <1>8, <1>9, <1>10, <1>11, <1>12, StepCases DEF ReceiveEnds

\* While workers stay, no hang-up, error or timer ends a sending half, and closing
\* another app leaves its socket open.
LEMMA StayingStep ==
  ASSUME IInv, Halves, StayingWorkers, [Next]_vars
  PROVE  StayingWorkers'
<1> USE DEF treeVars, appVars, queueVars, netVars, chanVars, loopVars, Quiet
<1> SUFFICES ASSUME "worker" \notin Closers, NEW j \in Ids PROVE Stays(j)'
  BY DEF StayingWorkers
<1>0. /\ j \in Int /\ Stays(j) /\ Half(j)
      /\ \A i \in Ids : Stays(i) /\ Half(i)
      /\ \A i \in idTree : i \in Ids /\ handler[i] # "none"
      /\ \A i \in Ids : handler[i] # "none" => i < nextId
  BY DEF StayingWorkers, Halves, IInv, TypeOK, Registered, Ids
<1>1. ASSUME NEW i \in Ids, handler[i] \notin {"none", "send_local"}, Teardown(i),
             ready'[j] \subseteq ready[j]
      PROVE  Stays(j)'
  <2>1. Sock(i) = i /\ i \in Int
    BY <1>1 DEF Sock, Ids
  <2>2. ASSUME handler[j] = "send_local" PROVE peer'[j-1] = peer[j-1]
    <3>1. j-1 \in Ids /\ handler[j-1] \in {"recv_local", "none"}
      BY <1>0, <2>2 DEF Half
    <3>2. j-1 = i => SharesSocket(i)
      BY <1>0, <1>1, <2>1, <2>2, <3>1 DEF SharesSocket
    <3> QED
      BY <1>1, <2>1, <3>1, <3>2, CloseFdParts
  <2>3. toWorker'[j] # <<>> \/ held'[j] # {} => toWorker[j] # <<>> \/ held[j] # {}
    BY <1>1, CloseFdParts
  <2>4. /\ handler'[i] = "none"
        /\ \A k \in Ids \ {i} : handler'[k] = handler[k] /\ status'[k] = status[k]
    BY <1>1, FreeAppParts
  <2>5. handler'[j] = "send_local" =>
          handler[j] = "send_local" /\ status'[j] = status[j] /\ peer'[j-1] = peer[j-1]
    BY <2>2, <2>4
  <2>6. j+1 \in Ids /\ handler[j+1] = "send_local" => handler'[j+1] = "send_local"
    BY <1>1, <2>4
  <2> QED
    BY <1>0, <1>1, <2>3, <2>5, <2>6 DEF Stays
<1>2. ASSUME NEW i \in Ids, ExpireTimer(i) PROVE Stays(j)'
  BY <1>0, <1>1, <1>2 DEF ExpireTimer, Half
<1>3. ASSUME UNCHANGED <<handler, status, peer, toWorker, held>>, ready'[j] \subseteq ready[j]
      PROVE  Stays(j)'
  BY <1>0, <1>3 DEF Stays
<1>4. CASE EnterWait \/ PollTimeout \/ Tick \/ UNCHANGED vars
  BY <1>3, <1>4 DEF EnterWait, PollTimeout, Tick, vars
<1>5. CASE PollReady
  BY <1>0, <1>5 DEF PollReady, Events, PeerClosed, Sock, Stays
<1>6. CASE Settle
  <2>1. cur \in Ids /\ handler[cur] # "none" /\ ready'[j] \subseteq ready[j]
    BY <1>0, <1>6 DEF Settle, IInv, TypeOK, BatchShape
  <2>2. CASE ready[cur] \cap {"HUP", "RDHUP"} # {} \/ status[cur] = "close"
    <3>1. handler[cur] # "send_local"
      BY <1>0, <2>1, <2>2 DEF Stays
    <3> QED
      BY <1>1, <1>6, <2>1, <2>2, <3>1 DEF Settle
  <2> QED
    BY <1>3, <1>6, <2>1, <2>2 DEF Settle
<1>7. CASE Wake
  BY <1>0, <1>7 DEF Wake, Stays
<1>8. ASSUME NEW i \in Ids, AcceptHttp(i) PROVE Stays(j)'
  <2>1. PICK n \in 0 .. MaxPending :
          /\ Register(n)
          /\ handler' = [k \in Ids |-> IF k \in NewIds(n) THEN "recv_http" ELSE handler[k]]
          /\ status' = [k \in Ids |-> IF k \in NewIds(n) THEN "read" ELSE status[k]]
          /\ peer' = [k \in Ids |-> IF k \in NewIds(n) THEN "open" ELSE peer[k]]
    BY <1>8 DEF AcceptHttp
  <2>2. \A k \in NewIds(n) : k \in Ids /\ handler[k] = "none"
    BY RegisterParts, BoundsAssumption, <2>1
  <2> QED
    BY <1>0, <1>8, <2>1, <2>2 DEF AcceptHttp, Handle, Stays, Half
<1>9. ASSUME NEW i \in Ids, AcceptLocal(i) PROVE Stays(j)'
  <2>1. PICK n \in 0 .. 2 : NewHalves(n)
    BY <1>9, AcceptLocalParts
  <2> QED
    BY <1>0, <2>1, SMTT(20) DEF NewHalves, Stays, Half
<1>10. ASSUME NEW i \in Ids, SkipHandler(i) PROVE Stays(j)'
  BY <1>3, <1>10 DEF SkipHandler
<1>11. ASSUME NEW i \in Ids, Handle(i, "recv_http"), RecvMore(i) \/ RecvDone(i)
       PROVE  Stays(j)'
  BY <1>0, <1>11, SMTT(20) DEF Handle, RecvMore, RecvDone, IInv, TypeOK, Stays
<1>12. ASSUME NEW i \in Ids, NEW h \in {"recv_http", "send_http", "recv_local"}, Handle(i, h),
              Quiet \/ SetClose(i) \/ AnswerSent(i)
       PROVE  Stays(j)'
  BY <1>0, <1>12 DEF Handle, SetClose, AnswerSent, IInv, TypeOK, Stays
<1>13. ASSUME NEW i \in Ids, Handle(i, "recv_local"), FramesReceived(i) PROVE Stays(j)'
  BY <1>0, <1>13 DEF Handle, FramesReceived, Stays
<1>14. ASSUME NEW i \in Ids, Handle(i, "send_local"), WorkerIdle(i) PROVE Stays(j)'
  BY <1>0, <1>14 DEF Handle, WorkerIdle, IInv, TypeOK, Stays
<1>15. ASSUME NEW i \in Ids, Handle(i, "send_local"), TasksSent(i) PROVE Stays(j)'
  <2>1. Sock(i) = i-1
    BY <1>15 DEF Handle, Sock
  <2>2. j = i-1 \/ toWorker'[j] = toWorker[j]
    BY <1>15, <2>1 DEF TasksSent, IInv, TypeOK
  <2>3. j = i-1 => j+1 \in Ids /\ handler[j+1] = "send_local"
    BY <1>0, <1>15 DEF Handle, Ids
  <2> QED
    BY <1>0, <1>15, <2>2, <2>3 DEF TasksSent, Handle, Stays
<1>16. ASSUME NEW i \in Ids, Handle(i, "send_local"), TasksLost(i) PROVE FALSE
  BY <1>0, <1>16 DEF Handle, TasksLost, Sock, Stays
<1>17. ASSUME NEW l \in Listeners, Connect(l) PROVE Stays(j)'
  BY <1>3, <1>17 DEF Connect
<1>18. ASSUME NEW s \in Ids, PeerCloses(s) PROVE Stays(j)'
  <2>1. ~ (s+1 \in Ids /\ handler[s+1] = "send_local") /\ s \in Int
    BY <1>18 DEF PeerCloses, WorkerSocket, Ids
  <2>2. /\ handler[j] = "send_local" => peer'[j-1] = peer[j-1]
        /\ toWorker'[j] # <<>> \/ held'[j] # {} => toWorker[j] # <<>> \/ held[j] # {}
    BY <1>0, <1>18, <2>1, SMTT(20) DEF PeerCloses, IInv, TypeOK, Half
  <2> QED
    BY <1>0, <1>18, <2>2 DEF PeerCloses, Stays
<1>19. ASSUME NEW s \in Ids, WorkerTake(s) PROVE Stays(j)'
  BY <1>0, <1>19 DEF WorkerTake, IInv, TypeOK, Stays
<1>20. ASSUME NEW i \in Ids, ClientSend(i) \/ WorkerAnswer(i) PROVE Stays(j)'
  BY <1>3, <1>20 DEF ClientSend, WorkerAnswer
<1> QED
  BY <1>2, <1>4, <1>5, <1>6, <1>7, <1>8, <1>9, <1>10, <1>11, <1>12, <1>13, <1>14, <1>15,
     <1>16, <1>17, <1>18, <1>19, <1>20, StepCases DEF ReceiveEnds

\* A receiving half that ends leaves its closed socket to the sending half.
LEMMA HeardStep ==
  ASSUME IInv, Halves, HeardWorkers, [Next]_vars
  PROVE  HeardWorkers'
<1> USE DEF treeVars, appVars, queueVars, netVars, chanVars, loopVars, Quiet
<1> SUFFICES ASSUME ~OversizeAnswers, NEW j \in Ids PROVE Heard(j)'
  BY DEF HeardWorkers
<1>0. /\ j \in Int /\ Heard(j) /\ Half(j)
      /\ \A i \in Ids : Heard(i) /\ Half(i)
      /\ \A i \in idTree : i \in Ids /\ handler[i] # "none"
  BY DEF HeardWorkers, Halves, IInv, TypeOK, Registered, Ids
<1>1. ASSUME NEW i \in Ids, handler[i] # "none", handler[i] = "recv_local" => PeerClosed(i),
             Teardown(i), ready'[j] \subseteq ready[j]
      PROVE  Heard(j)'
  <2>1. i \in Int /\ Sock(i) = IF handler[i] = "send_local" THEN i-1 ELSE i
    BY DEF Sock, Ids
  <2>2. ASSUME handler'[j] = "recv_local" PROVE Heard(j)'
    <3>1. handler[j] = "recv_local" /\ status'[j] = status[j] /\ i # j
      BY <1>1, <2>2, FreeAppParts
    <3>2. j = Sock(i) => SharesSocket(i)
      BY <1>0, <2>1, <3>1 DEF SharesSocket
    <3>3. peer'[j] = peer[j]
      BY <1>1, <3>2, CloseFdParts
    <3> QED
      BY <1>0, <1>1, <2>2, <3>1, <3>3 DEF Heard, PeerClosed
  <2>3. ASSUME handler'[j] = "send_local" PROVE Heard(j)'
    <3>1. handler[j] = "send_local" /\ i # j /\ j-1 \in Ids
      BY <1>0, <1>1, <2>3, FreeAppParts DEF Half
    <3>2. j-1 = i => SharesSocket(i) /\ PeerClosed(i)
      BY <1>0, <1>1, <3>1 DEF SharesSocket, Half
    <3>3. handler'[j-1] = handler[j-1] \/ j-1 = i
      BY <1>1, <3>1, FreeAppParts
    <3>4. j-1 = Sock(i) => j-1 = i
      BY <1>0, <2>1, <3>1
    <3>5. peer'[j-1] = peer[j-1]
      BY <1>1, <3>1, <3>2, <3>4, CloseFdParts
    <3> QED
      BY <1>0, <2>3, <3>1, <3>2, <3>3, <3>5 DEF Heard, PeerClosed
  <2> QED
    BY <2>2, <2>3 DEF Heard
<1>2. ASSUME NEW i \in Ids, ExpireTimer(i) PROVE Heard(j)'
  BY <1>0, <1>1, <1>2 DEF ExpireTimer, Half
<1>3. ASSUME UNCHANGED <<handler, status, peer>>, ready'[j] \subseteq ready[j]
      PROVE  Heard(j)'
  BY <1>0, <1>3 DEF Heard, PeerClosed
<1>4. CASE EnterWait \/ PollTimeout \/ Tick \/ UNCHANGED vars
  BY <1>3, <1>4 DEF EnterWait, PollTimeout, Tick, vars
<1>5. CASE PollReady
  BY <1>0, <1>5 DEF PollReady, Events, PeerClosed, Sock, Heard
<1>6. CASE Settle
  <2>1. cur \in Ids /\ handler[cur] # "none" /\ ready'[j] \subseteq ready[j]
    BY <1>0, <1>6 DEF Settle, IInv, TypeOK, BatchShape
  <2>2. CASE ready[cur] \cap {"HUP", "RDHUP"} # {} \/ status[cur] = "close"
    <3>1. handler[cur] = "recv_local" => PeerClosed(cur)
      BY <1>0, <2>1, <2>2 DEF Heard
    <3> QED
      BY <1>1, <1>6, <2>1, <2>2, <3>1 DEF Settle
  <2> QED
    BY <1>3, <1>6, <2>1, <2>2 DEF Settle
<1>7. CASE Wake
  BY <1>0, <1>7 DEF Wake, Heard, PeerClosed
<1>8. ASSUME NEW i \in Ids, AcceptHttp(i) PROVE Heard(j)'
  <2>1. PICK n \in 0 .. MaxPending :
          /\ Register(n)
          /\ handler' = [k \in Ids |-> IF k \in NewIds(n) THEN "recv_http" ELSE handler[k]]
          /\ status' = [k \in Ids |-> IF k \in NewIds(n) THEN "read" ELSE status[k]]
          /\ peer' = [k \in Ids |-> IF k \in NewIds(n) THEN "open" ELSE peer[k]]
    BY <1>8 DEF AcceptHttp
  <2>2. \A k \in NewIds(n) : k \in Ids /\ k \notin idTree /\ handler[k] = "none" /\ k >= nextId
    BY RegisterParts, BoundsAssumption, <2>1
  <2>3. handler[j] = "send_local" => j-1 \in Ids /\ j-1 \notin NewIds(n)
    BY <1>0, <2>2 DEF Half, IInv, TypeOK, Registered
  <2> QED
    BY <1>0, <1>8, <2>1, <2>2, <2>3 DEF AcceptHttp, Handle, Heard, PeerClosed
<1>9. ASSUME NEW i \in Ids, AcceptLocal(i) PROVE Heard(j)'
  <2>1. PICK n \in 0 .. 2 : NewHalves(n)
    BY <1>9, AcceptLocalParts
  <2>2. handler[j] = "send_local" => j-1 \in Ids /\ j-1 \notin NewIds(n)
    BY <1>0, <2>1 DEF NewHalves, Half, IInv, TypeOK, Registered
  <2>3. CASE j \in NewIds(n)
    BY <1>0, <2>1, <2>3 DEF NewHalves, Heard, PeerClosed
  <2>4. CASE j \notin NewIds(n)
    BY <1>0, <2>1, <2>2, <2>4 DEF NewHalves, Heard, PeerClosed
  <2> QED
    BY <2>3, <2>4
<1>10. ASSUME NEW i \in Ids, SkipHandler(i) PROVE Heard(j)'
  BY <1>3, <1>10 DEF SkipHandler
<1>11. ASSUME NEW i \in Ids, Handle(i, "recv_http"), RecvMore(i) \/ RecvDone(i)
       PROVE  Heard(j)'
  BY <1>0, <1>11 DEF Handle, RecvMore, RecvDone, IInv, TypeOK, Half, Heard, PeerClosed
<1>12. ASSUME NEW i \in Ids, NEW h \in {"recv_http", "send_http"}, Handle(i, h),
              Quiet \/ SetClose(i) \/ AnswerSent(i)
       PROVE  Heard(j)'
  BY <1>0, <1>12 DEF Handle, SetClose, AnswerSent, IInv, TypeOK, Heard, PeerClosed
<1>13. ASSUME NEW i \in Ids, Handle(i, "recv_local"), FramesReceived(i) PROVE Heard(j)'
  <2>1. UNCHANGED <<handler, peer, ready>> /\ status'[j] \in {status[j], "write"}
    BY <1>13 DEF FramesReceived, Handle
  <2> QED
    BY <1>0, <2>1 DEF Heard, PeerClosed
<1>14. ASSUME NEW i \in Ids, Handle(i, "recv_local"), ReceiveEnds(i) PROVE Heard(j)'
  BY <1>0, <1>14 DEF Handle, ReceiveEnds, SetClose, IInv, TypeOK, Heard, PeerClosed
<1>15. ASSUME NEW i \in Ids, Handle(i, "send_local"), WorkerIdle(i) \/ TasksSent(i) \/ TasksLost(i)
       PROVE  Heard(j)'
  BY <1>0, <1>15 DEF Handle, WorkerIdle, TasksSent, TasksLost, IInv, TypeOK, Heard, PeerClosed
<1>16. ASSUME NEW l \in Listeners, Connect(l) PROVE Heard(j)'
  BY <1>3, <1>16 DEF Connect
<1>17. ASSUME NEW s \in Ids, PeerCloses(s) PROVE Heard(j)'
  <2>1. \A t \in Ids : PeerClosed(t) => peer'[t] \in {"shut", "gone"}
    BY <1>17 DEF PeerCloses, PeerClosed, IInv, TypeOK
  <2> QED
    BY <1>0, <1>17, <2>1 DEF PeerCloses, Heard, Half, PeerClosed
<1>18. ASSUME NEW i \in Ids, ClientSend(i) \/ WorkerTake(i) \/ WorkerAnswer(i) PROVE Heard(j)'
  BY <1>3, <1>18 DEF ClientSend, WorkerTake, WorkerAnswer
<1> QED
  BY <1>2, <1>4, <1>5, <1>6, <1>7, <1>8, <1>9, <1>10, <1>11, <1>12, <1>13, <1>14, <1>15,
     <1>16, <1>17, <1>18, StepCases

\* Tasks only leave at the head of the queue, at most SendQuota of them.
LEMMA TasksLeave ==
  ASSUME IInv, NEW i \in Ids, TasksSent(i) \/ TasksLost(i)
  PROVE  \E n \in 0 .. SendQuota : TakeTasks(n)
<1>1. SendQuota \in Nat
  BY BoundsAssumption DEF SendQuota, AtMost, IInv, TypeOK
<1>2. CASE TasksSent(i)
  BY <1>2 DEF TasksSent
<1>3. CASE TasksLost(i)
  <2>1. PICK n \in 0 .. SendQuota-1 : TakeTasks(n)
    BY <1>3 DEF TasksLost
  <2> QED
    BY <1>1, <2>1
<1> QED
  BY <1>2, <1>3

\* A request is only answered after it left the queue, an answer is only sent by
\* the handler of its client, and the client is torn down by the same event.
LEMMA ResponsesStep ==
  ASSUME IInv, Responses, [Next]_vars
  PROVE  Responses'
<1> USE DEF treeVars, appVars, queueVars, netVars, chanVars, loopVars, Quiet
<1> DEFINE Queued(j) == \E k \in DOMAIN task : task[k] = j
           Open(j) == /\ Queued(j) => buf[j] = "request"
                      /\ resp[j] # "none" =>
                           handler[j] = "send_http" /\ buf[j] = "answer" /\ status[j] = "close"
<1>a. Responses <=> \A j \in Ids : Open(j)
  BY DEF IInv, TypeOK, Responses
<1>b. (\A j \in Ids : Open(j)') /\ task' \in Seq(Ids) => Responses'
  BY DEF Responses
<1>c. task' \in Seq(Ids)
  BY NextInv DEF IInv, TypeOK
<1> SUFFICES ASSUME NEW j \in Ids PROVE Open(j)'
  BY <1>b, <1>c
<1>0. /\ Open(j)
      /\ Queued(j) => handler[j] = "send_http" /\ "OUT" \notin interest[j]
      /\ status[j] = "close" => pc = "settle" /\ cur = j
      /\ handler[j] = "recv_http" => buf[j] = "request"
  BY <1>a DEF IInv, QueueShape, Shape
<1> HIDE DEF Queued
<1>1. ASSUME NEW i \in Ids, Teardown(i) PROVE Open(j)'
  <2>1. Queued(j)' => Queued(j) /\ j # i
    BY <1>1, TeardownParts, UnlinkProperties DEF Queued, Teardown, Dequeue, IInv, TypeOK, QueueShape
  <2>2. resp'[j] # "none" => resp[j] # "none" /\ j # i
    <3>1. handler[j] = "send_http" => Sock(j) = j /\ ~SharesSocket(j)
      BY DEF Sock, SharesSocket
    <3> QED
      BY <1>0, <1>1, <3>1, CloseFdParts
  <2> QED
    BY <1>0, <1>1, <2>1, <2>2, FreeAppParts
<1>2. ASSUME NEW i \in Ids, ExpireTimer(i) PROVE Open(j)'
  BY <1>1, <1>2 DEF ExpireTimer
<1>3. ASSUME UNCHANGED <<task, handler, status, buf, resp>> PROVE Open(j)'
  BY <1>0, <1>3 DEF Queued
<1>4. CASE EnterWait \/ PollReady \/ PollTimeout \/ Tick \/ UNCHANGED vars
  BY <1>3, <1>4 DEF EnterWait, PollReady, PollTimeout, Tick, vars
<1>5. CASE Settle
  <2>1. cur \in Ids
    BY <1>5 DEF Settle, IInv, TypeOK, BatchShape
  <2> QED
    BY <1>1, <1>3, <1>5, <2>1 DEF Settle
<1>6. CASE Wake
  <2>1. j \in IdleWorkers => handler[j] = "send_local"
    BY DEF IdleWorkers, ToSet, IInv, TypeOK, QueueShape
  <2> QED
    BY <1>0, <1>6, <2>1 DEF Wake, Queued
<1>7. ASSUME NEW i \in Ids, AcceptHttp(i) PROVE Open(j)'
  <2>1. PICK n \in 0 .. MaxPending :
          /\ Register(n)
          /\ handler' = [k \in Ids |-> IF k \in NewIds(n) THEN "recv_http" ELSE handler[k]]
          /\ status' = [k \in Ids |-> IF k \in NewIds(n) THEN "read" ELSE status[k]]
          /\ buf' = [k \in Ids |-> IF k \in NewIds(n) THEN "request" ELSE buf[k]]
    BY <1>7 DEF AcceptHttp
  <2>2. \A k \in NewIds(n) : k \in Ids /\ handler[k] = "none"
    BY RegisterParts, BoundsAssumption, <2>1
  <2> QED
    BY <1>0, <1>7, <2>1, <2>2 DEF AcceptHttp, Queued
<1>8. ASSUME NEW i \in Ids, AcceptLocal(i) PROVE Open(j)'
  <2>1. PICK n \in 0 .. 2 : NewHalves(n)
    BY <1>8, AcceptLocalParts
  <2> QED
    BY <1>0, <2>1 DEF NewHalves, Queued
<1>9. ASSUME NEW i \in Ids, SkipHandler(i) \/ RecvMore(i) \/ Quiet PROVE Open(j)'
  BY <1>3, <1>9 DEF SkipHandler, RecvMore
<1>10. ASSUME NEW i \in Ids, Handle(i, "recv_http"), RecvDone(i) PROVE Open(j)'
  <2>1. Queued(j)' => Queued(j) \/ j = i
    BY <1>10, InsertTailProperties DEF RecvDone, Enqueue, Queued, IInv, TypeOK
  <2> QED
    BY <1>0, <1>10, <2>1 DEF Handle, RecvDone, IInv, TypeOK
<1>11. ASSUME NEW i \in Ids, NEW h \in Handlers, Handle(i, h), SetClose(i) PROVE Open(j)'
  BY <1>0, <1>11 DEF Handle, SetClose, Queued, IInv, TypeOK
<1>12. ASSUME NEW i \in Ids, Handle(i, "send_http"), AnswerSent(i) PROVE Open(j)'
  BY <1>0, <1>12 DEF Handle, AnswerSent, Queued, IInv, TypeOK
<1>13. ASSUME NEW i \in Ids, Handle(i, "recv_local"), FramesReceived(i) PROVE Open(j)'
  <2>1. PICK k \in 0 .. Len(fromWorker[i]) :
          /\ j \notin Matched(i, k) => buf'[j] = buf[j] /\ status'[j] = status[j]
          /\ UNCHANGED <<handler, task, resp>>
    BY <1>13 DEF FramesReceived
  <2>2. j \in Matched(i, k) => ~Queued(j)
    BY MatchedClients DEF Given, Queued
  <2>3. resp[j] = "none"
    BY <1>0, <1>13 DEF Handle
  <2> QED
    BY <1>0, <2>1, <2>2, <2>3 DEF Queued
<1>14. ASSUME NEW i \in Ids, Handle(i, "send_local"), WorkerIdle(i) PROVE Open(j)'
  BY <1>0, <1>14 DEF Handle, WorkerIdle, Queued, IInv, TypeOK
<1>15. ASSUME NEW i \in Ids, Handle(i, "send_local"), TasksSent(i) \/ TasksLost(i) PROVE Open(j)'
  <2>1. Queued(j)' => Queued(j)
    <3>1. PICK n \in 0 .. SendQuota : TakeTasks(n)
      BY <1>15, TasksLeave
    <3> QED
      BY <3>1, TakeTasksParts DEF Queued
  <2> QED
    BY <1>0, <1>15, <2>1 DEF Handle, TasksSent, TasksLost, IInv, TypeOK
<1>16. ASSUME NEW l \in Listeners, Connect(l) PROVE Open(j)'
  BY <1>3, <1>16 DEF Connect
<1>17. ASSUME NEW i \in Ids, ClientSend(i) \/ PeerCloses(i) \/ WorkerTake(i) \/ WorkerAnswer(i)
       PROVE  Open(j)'
  BY <1>3, <1>17 DEF ClientSend, PeerCloses, WorkerTake, WorkerAnswer
<1> QED
  BY <1>2, <1>4, <1>5, <1>6, <1>7, <1>8, <1>9, <1>10, <1>11, <1>12, <1>13, <1>14, <1>15,
     <1>16, <1>17, StepCases DEF ReceiveEnds, Handlers

LEMMA ConnInit == Init => ConnInv
<1> SUFFICES ASSUME Init PROVE ConnInv
  OBVIOUS
<1>1. ListenersKept
  BY BoundsAssumption DEF Init, Ids, Listeners, HttpListener, LocalListener, ListenersKept, ListenerKept
<1>2. Halves /\ StayingWorkers /\ HeardWorkers /\ Responses
  BY BoundsAssumption DEF Init, Ids, Listeners, HttpListener, LocalListener, Halves, Half,
     StayingWorkers, Stays, HeardWorkers, Heard, Responses
<1> QED
  BY <1>1, <1>2 DEF ConnInv

\* How connections begin and end, for every value of the constants: the listeners
\* stay, and what the halves of a worker connection and the clients rely on.
THEOREM ConnInvariance == Spec => []ConnInv
<1>1. IInv /\ ConnInv /\ [Next]_vars => ConnInv'
  BY ListenersStep, HalvesStep, StayingStep, HeardStep, ResponsesStep DEF ConnInv
<1> QED
  BY <1>1, ConnInit, Invariance, PTL DEF Spec

----------------------------------------------------------------------------
(* What follows.                                                            *)

\* A worker that is sent tasks can still be heard, unless it has closed: as long as
\* no answer is larger than the receive buffer of its connection.
THEOREM WorkersHeard ==
  ASSUME ~OversizeAnswers
  PROVE  Spec => []DuplexWorkers
<1>1. ASSUME IInv, ConnInv PROVE DuplexWorkers
  <2>1. \A k \in DOMAIN worker : worker[k] \in Ids /\ handler[worker[k]] = "send_local"
    BY <1>1 DEF IInv, TypeOK, QueueShape
  <2>2. \A i \in Ids : Heard(i)
    BY <1>1 DEF ConnInv, HeardWorkers
  <2> QED
    BY <2>1, <2>2 DEF DuplexWorkers, ToSet, Heard
<1> QED
  BY <1>1, Invariance, ConnInvariance, PTL

LEMMA DisjointUnion ==
  ASSUME NEW S, IsFiniteSet(S), NEW T, IsFiniteSet(T), \A x \in T : x \notin S
  PROVE  Cardinality(S \cup T) = Cardinality(S) + Cardinality(T)
<1>1. S \cap T = {}
  OBVIOUS
<1>2. Cardinality(S) \in Nat /\ Cardinality(T) \in Nat /\ Cardinality({}) = 0
  BY FS_CardinalityType, FS_EmptySet
<1>3. Cardinality(S \cup T) = Cardinality(S) + Cardinality(T) - Cardinality(S \cap T)
  BY FS_Union
<1>4. Cardinality(S \cap T) = 0
  BY <1>1, <1>2, Zenon
<1> QED
  BY <1>2, <1>3, <1>4

LEMMA FiniteTree ==
  ASSUME IInv
  PROVE  IsFiniteSet(idTree \ Listeners) /\ Cardinality(idTree \ Listeners) \in Nat
<1>1. IsFiniteSet(0 .. MaxApps-1)
  <2>1. 0 \in Int /\ MaxApps-1 \in Int
    BY BoundsAssumption
  <2> QED
    BY <2>1, FS_Interval
<1>2. idTree \ Listeners \in SUBSET (0 .. MaxApps-1)
  BY DEF IInv, TypeOK, Ids
<1>3. IsFiniteSet(idTree \ Listeners)
  BY <1>1, <1>2, FS_Subset
<1> QED
  BY <1>3, FS_CardinalityType

\* One connection less.
LEMMA UncountCounts ==
  ASSUME IInv, ListenersKept, AliveCommCounts, NEW i \in Ids \ Listeners, handler[i] # "none",
         Teardown(i)
  PROVE  AliveCommCounts'
<1>1. IsFiniteSet(idTree \ Listeners)
  BY FiniteTree
<1>2. i \in idTree \ Listeners
  BY DEF IInv, Registered
<1>3. idTree' \ Listeners = (idTree \ Listeners) \ {i} /\ aliveComm' = aliveComm - 1
  BY FreeAppParts
<1> QED
  BY <1>1, <1>2, <1>3, FS_RemoveElement DEF AliveCommCounts

\* n connections more.
LEMMA RegisterCounts ==
  ASSUME IInv, AliveCommCounts, NEW n \in Nat, Register(n)
  PROVE  AliveCommCounts'
<1>1. IsFiniteSet(idTree \ Listeners)
  BY FiniteTree
<1>2. nextId \in Int /\ nextId >= 2
  BY BoundsAssumption DEF IInv, TypeOK
<1>3. IsFiniteSet(NewIds(n)) /\ Cardinality(NewIds(n)) = n
  <2>1. nextId+n-1 \in Int
    BY <1>2
  <2> QED
    BY <1>2, <2>1, FS_Interval DEF NewIds
<1>4. \A j \in NewIds(n) : j \notin idTree /\ j \notin Listeners
  <2>1. \A j \in NewIds(n) : j \notin idTree
    BY RegisterParts
  <2> QED
    BY <1>2, <2>1 DEF NewIds, Listeners, HttpListener, LocalListener
<1>5. idTree' \ Listeners = (idTree \ Listeners) \cup NewIds(n) /\ aliveComm' = aliveComm + n
  BY <1>4 DEF Register
<1>6. Cardinality((idTree \ Listeners) \cup NewIds(n)) = Cardinality(idTree \ Listeners) + n
  BY <1>1, <1>3, <1>4, DisjointUnion
<1> QED
  BY <1>5, <1>6 DEF AliveCommCounts

LEMMA CountStep ==
  ASSUME IInv, ListenersKept, Halves, AliveCommCounts, [Next]_vars
  PROVE  AliveCommCounts'
<1> USE DEF treeVars, Quiet
<1>1. \A l \in Listeners : ListenerKept(l) /\ ttl[l] = -1 /\ l \in Ids
  BY BoundsAssumption
  DEF ListenersKept, Halves, Half, ListenerKept, Listeners, HttpListener, LocalListener, Ids
<1>2. ASSUME NEW i \in Ids, ExpireTimer(i) PROVE AliveCommCounts'
  BY <1>1, <1>2, UncountCounts DEF ExpireTimer, Halves, Half, IInv, Registered
<1>3. ASSUME UNCHANGED <<idTree, aliveComm>> PROVE AliveCommCounts'
  BY <1>3 DEF AliveCommCounts
<1>4. CASE EnterWait \/ PollReady \/ PollTimeout \/ Wake \/ Tick \/ UNCHANGED vars
  BY <1>3, <1>4 DEF EnterWait, PollReady, PollTimeout, Wake, Tick, vars
<1>5. CASE Settle
  <2>1. cur \in Ids /\ handler[cur] # "none"
    BY <1>5 DEF Settle, IInv, TypeOK, BatchShape, Registered
  <2>2. CASE ready[cur] \cap {"HUP", "RDHUP"} # {} \/ status[cur] = "close"
    BY <1>1, <1>5, <2>1, <2>2, UncountCounts DEF Settle, ListenerKept
  <2> QED
    BY <1>3, <1>5, <2>2 DEF Settle
<1>6. ASSUME NEW i \in Ids, AcceptHttp(i) PROVE AliveCommCounts'
  BY <1>6, RegisterCounts, BoundsAssumption DEF AcceptHttp
<1>7. ASSUME NEW i \in Ids, AcceptLocal(i) PROVE AliveCommCounts'
  BY <1>7, RegisterCounts DEF AcceptLocal
<1>8. ASSUME NEW i \in Ids,
             \/ SkipHandler(i) \/ Quiet \/ RecvMore(i) \/ RecvDone(i) \/ SetClose(i)
             \/ AnswerSent(i) \/ FramesReceived(i) \/ WorkerIdle(i) \/ TasksSent(i) \/ TasksLost(i)
             \/ ClientSend(i) \/ PeerCloses(i) \/ WorkerTake(i) \/ WorkerAnswer(i)
      PROVE  AliveCommCounts'
  BY <1>3, <1>8 DEF SkipHandler, RecvMore, RecvDone, SetClose, AnswerSent, FramesReceived,
     WorkerIdle, TasksSent, TasksLost, ClientSend, PeerCloses, WorkerTake, WorkerAnswer
<1>9. ASSUME NEW l \in Listeners, Connect(l) PROVE AliveCommCounts'
  BY <1>3, <1>9 DEF Connect
<1> QED
  BY <1>2, <1>4, <1>5, <1>6, <1>7, <1>8, <1>9, StepCases DEF ReceiveEnds

\* alive_comm is the number of connections, however many came and whichever way
\* each of them ended: by a timer, a hang-up, an error or its answer.
THEOREM CommCounted == Spec => []AliveCommCounts
<1>1. ASSUME Init PROVE AliveCommCounts
  <2>1. idTree \ Listeners = {} /\ aliveComm = 0
    BY <1>1 DEF Init
  <2> QED
    BY <2>1, FS_EmptySet DEF AliveCommCounts
<1>2. IInv /\ ConnInv /\ AliveCommCounts /\ [Next]_vars => AliveCommCounts'
  BY CountStep DEF ConnInv
<1> QED
  BY <1>1, <1>2, Invariance, ConnInvariance, PTL DEF Spec
============================================================================
