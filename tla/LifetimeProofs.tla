--------------------------- MODULE LifetimeProofs ---------------------------
(* Proofs about the process: its ids and its descriptors, for any number of   *)
(* descriptors, ids and connections, whatever fails and wherever a signal or  *)
(* a kill comes.                                                              *)
EXTENDS Lifetime, FiniteSetTheorems, TLAPS

----------------------------------------------------------------------------
(* The table of descriptors.                                                *)

Tables == [Fds -> Fds \cup {Free}]

LEMMA MinNat ==
  ASSUME NEW S, S \subseteq Nat, S # {}
  PROVE  Min(S) \in S
<1> DEFINE R == {ss \in Nat \X Nat : ss[1] < ss[2]}
<1>1. OpToRel(<, Nat) = R
  BY Zenon DEF OpToRel
<1>2. IsWellFoundedOn(R, Nat)
  BY <1>1, NatLessThanWellFounded, Zenon
<1>3. PICK x \in S : \A y \in S : ~ (<<y, x>> \in R)
  <2> HIDE DEF R
  <2> QED
    BY <1>2, WFMin
<1>4. ASSUME NEW y \in S PROVE x =< y
  <2>1. x \in Nat /\ y \in Nat /\ (y < x => <<y, x>> \in R)
    OBVIOUS
  <2> QED
    BY <1>3, <2>1
<1> QED
  BY <1>4 DEF Min

\* A call that makes descriptor n of the table t, which becomes u.
Makes(t, u, n) ==
  /\ n \in Fds \ Used(t)
  /\ u \in Tables /\ u[n] \in Fds
  /\ \A fd \in Fds \ {n} : u[fd] = t[fd]
  /\ Used(u) = Used(t) \cup {n}

LEMMA FdsAreNat == /\ Fds \subseteq Nat /\ NoFd \notin Fds /\ Free \notin Fds
                   /\ NoFds \in Tables /\ Used(NoFds) = {}
BY FdsAssumption DEF Fds, NoFd, Free, NoFds, Tables, Used

LEMMA LowestFree ==
  ASSUME NEW t \in Tables, ~ Full(t)
  PROVE  NextFd(t) \in Fds \ Used(t)
<1>1. Fds \ Used(t) # {} /\ Fds \ Used(t) \subseteq Nat
  BY FdsAreNat DEF Full, Used
<1> QED
  BY <1>1, MinNat DEF NextFd

\* There are as many numbers for open files as for descriptors.
LEMMA FreshFile ==
  ASSUME NEW t \in Tables, ~ Full(t)
  PROVE  NewFile(t) \in Fds
<1> DEFINE unused == {f \in Fds : \A fd \in Fds : t[fd] # f}
<1>1. unused # {}
  <2> SUFFICES ASSUME unused = {} PROVE FALSE
    OBVIOUS
  <2> DEFINE s == [fd \in Used(t) |-> t[fd]]
  <2>1. s \in Surjection(Used(t), Fds)
    <3>1. s \in [Used(t) -> Fds]
      BY DEF Used, Tables
    <3>2. ASSUME NEW f \in Fds PROVE \E fd \in Used(t) : s[fd] = f
      <4>1. PICK fd \in Fds : t[fd] = f
        OBVIOUS
      <4>2. fd \in Used(t)
        BY <4>1, FdsAreNat DEF Used
      <4> QED
        BY <4>1, <4>2
    <3> QED
      BY <3>1, <3>2 DEF Surjection
  <2>2. IsFiniteSet(Fds)
    BY FS_Interval, FdsAssumption DEF Fds
  <2>3. Used(t) \in SUBSET Fds /\ Used(t) # Fds
    BY DEF Used, Full
  <2>4. /\ IsFiniteSet(Used(t)) /\ Cardinality(Used(t)) <= Cardinality(Fds)
        /\ Cardinality(Used(t)) # Cardinality(Fds)
    BY <2>2, <2>3, FS_Subset
  <2>5. Cardinality(Fds) <= Cardinality(Used(t))
    BY <2>1, <2>4, FS_Surjection
  <2>6. Cardinality(Fds) \in Nat /\ Cardinality(Used(t)) \in Nat
    BY <2>2, <2>4, FS_CardinalityType
  <2> QED
    BY <2>4, <2>5, <2>6
<1>2. unused \subseteq Nat
  BY FdsAreNat
<1> QED
  BY <1>1, <1>2, MinNat DEF NewFile

LEMMA OpenMakes ==
  ASSUME NEW t \in Tables, ~ Full(t)
  PROVE  Makes(t, Open(t), NextFd(t))
<1>1. NextFd(t) \in Fds \ Used(t) /\ NewFile(t) \in Fds
  BY LowestFree, FreshFile
<1>2. Open(t) = [t EXCEPT ![NextFd(t)] = NewFile(t)]
  BY DEF Open
<1>3. Open(t) \in Tables /\ Open(t)[NextFd(t)] = NewFile(t)
      /\ \A fd \in Fds \ {NextFd(t)} : Open(t)[fd] = t[fd]
  BY <1>1, <1>2 DEF Tables
<1> QED
  BY <1>1, <1>3, FdsAreNat DEF Makes, Used

LEMMA DupMakes ==
  ASSUME NEW t \in Tables, ~ Full(t), NEW fd \in Used(t)
  PROVE  Makes(t, Dup(t, fd), NextFd(t))
<1>1. NextFd(t) \in Fds \ Used(t) /\ t[fd] \in Fds
  BY LowestFree DEF Used, Tables
<1>2. Dup(t, fd) = [t EXCEPT ![NextFd(t)] = t[fd]]
  BY DEF Dup
<1>3. Dup(t, fd) \in Tables /\ Dup(t, fd)[NextFd(t)] = t[fd]
      /\ \A d \in Fds \ {NextFd(t)} : Dup(t, fd)[d] = t[d]
  BY <1>1, <1>2 DEF Tables
<1> QED
  BY <1>1, <1>3, FdsAreNat DEF Makes, Used

LEMMA CloseFrees ==
  ASSUME NEW t \in Tables, NEW S
  PROVE  /\ Close(t, S) \in Tables
         /\ Used(Close(t, S)) = Used(t) \ S
         /\ \A fd \in Fds \ S : Close(t, S)[fd] = t[fd]
BY DEF Close, Tables, Used

----------------------------------------------------------------------------
(* The invariant.                                                           *)

Handles == Fds \cup {NoFd}
Kinds == {"listen_http", "listen_local", "http", "local"}
Running == stage \in {"setup", "loop", "destroy"}

Types ==
  /\ stage \in {"down", "setup", "loop", "destroy", "lost"}
  /\ file \in 0 .. NoFile /\ id \in 0 .. MaxId
  /\ given \subseteq 0 .. MaxId /\ clean \in BOOLEAN
  /\ sockets \in 0 .. Len(Listeners) /\ blocked \subseteq Signals
  /\ saved \in BOOLEAN /\ stray \subseteq Fds
  /\ table \in Tables
  /\ own \in [epfd : Handles, dummyfd : Handles, id_fd : Handles]
  /\ apps \in [DOMAIN apps -> [kind : Kinds, fd : Fds]]
  /\ \A i \in DOMAIN apps : i \in 0 .. id-1
  /\ pc \in {"wait", "closing"} \cup InHandlerAt
  /\ call \in [at : Range(Listeners) \cup {"none"}, i : Nat, fd : Handles]

\* Which parts of the state mean something in which stage, and where in the loop
\* a descriptor is in hand.
Phases ==
  /\ stage \in {"down", "lost"} => apps = NoApps /\ own = NoOwn /\ stray = {}
  /\ stage \in {"down", "setup", "lost"} => pc = "wait" /\ call = NoCall
  /\ stage = "loop" =>
       /\ pc = "wait" => call = NoCall
       /\ pc \in InHandlerAt => call.at \in Range(Listeners)
       /\ pc \in {"accept", "spare", "reopen", "dup"} => call.fd = NoFd
       /\ pc \in {"made", "turned", "copied", "closing"} => call.fd # NoFd
       /\ pc = "dup" => id-1 \in DOMAIN apps
  /\ saved => stage = "destroy" /\ DOMAIN apps = {} /\ own = NoOwn /\ call = NoCall

\* As long as id_file was read and is open, server->id is beyond every id given,
\* and so is what server_destroy leaves in the file.
IdsKept ==
  clean =>
    /\ Running => \A i \in given : i < id
    /\ Running /\ ~saved => own.id_fd # NoFd
    /\ saved => file = id
    /\ stage = "down" => \A i \in given : file # NoFile /\ i < file

\* No descriptor of the table has two owners, and each has one or was left to
\* nobody; two of epfd, id_fd and dummyfd may only be equal when there is none.
Owned ==
  /\ ~saved => Used(table) = Held \cup stray
  /\ saved => Used(table) \subseteq stray
  /\ \A i, j \in DOMAIN apps : apps[i].fd = apps[j].fd => i = j
  /\ \A i \in DOMAIN apps : apps[i].fd \notin {own.epfd, own.id_fd, call.fd} \cup Reserve \cup stray
  /\ call.fd # NoFd => call.fd \notin {own.epfd, own.id_fd} \cup Reserve \cup stray
  /\ \A fd \in Reserve : fd # NoFd => fd \notin {own.epfd, own.id_fd} \cup stray
  /\ own.epfd \notin stray /\ own.id_fd \notin stray

\* Each signal has left one descriptor to nobody at most.
Strays ==
  /\ IsFiniteSet(stray) /\ IsFiniteSet(blocked)
  /\ Cardinality(stray) <= Cardinality(blocked)

\* epoll knows every app, by its own descriptor, and nothing else.
Watched == [fd : Fds, file : Fds, app : 0 .. MaxId]
Entry(i) == [fd |-> apps[i].fd, file |-> table[apps[i].fd], app |-> i]
Registered == epoll = {Entry(i) : i \in DOMAIN apps}

IInv == Types /\ Phases /\ IdsKept /\ Owned /\ Strays /\ Registered

LEMMA InitIInv == Init => IInv
<1> SUFFICES ASSUME Init PROVE IInv
  OBVIOUS
<1>1. /\ stage = "down" /\ file = NoFile /\ id = 0 /\ given = {} /\ clean = TRUE
      /\ sockets = 0 /\ blocked = {} /\ saved = FALSE
      /\ table = NoFds /\ epoll = {} /\ own = NoOwn /\ apps = NoApps
      /\ pc = "wait" /\ call = NoCall /\ stray = {}
  BY DEF Init
<1>2. NoFile \in 0 .. NoFile /\ 0 \in 0 .. MaxId /\ NoFd \in Handles /\ 0 \in 0 .. Len(Listeners)
  BY LifetimeAssumption DEF NoFile, Handles, Listeners
<1>3. DOMAIN NoApps = {} /\ NoApps \in [{} -> [kind : Kinds, fd : Fds]]
  BY DEF NoApps
<1>4. Types
  BY <1>1, <1>2, <1>3, FdsAreNat DEF Types, NoOwn, NoCall
<1>5. Phases
  BY <1>1 DEF Phases, NoCall
<1>6. IdsKept
  BY <1>1 DEF IdsKept, Running
<1>7. Owned
  BY <1>1, <1>3, FdsAreNat DEF Owned, Held, Reserve, NoOwn, NoCall
<1>8. Registered
  BY <1>1, <1>3 DEF Registered
<1>9. Strays
  BY <1>1, FS_EmptySet DEF Strays
<1> QED
  BY <1>4, <1>5, <1>6, <1>7, <1>8, <1>9 DEF IInv

\* server_create gets from one to three descriptors, all different.
LEMMA CreateMakes ==
  ASSUME Create, Types
  PROVE  /\ stage = "down" /\ stage' = "setup" /\ table' \in Tables
         /\ own' \in [epfd : Handles, dummyfd : Handles, id_fd : Handles]
         /\ Used(table') = {own'.epfd, own'.dummyfd, own'.id_fd} \ {NoFd}
         /\ own'.epfd # own'.id_fd
         /\ own'.dummyfd # NoFd => own'.dummyfd \notin {own'.epfd, own'.id_fd}
         /\ id' \in 0 .. MaxId
         /\ clean' => clean /\ own'.id_fd # NoFd /\ given' = given /\ (file # NoFile => id' = file)
         /\ clean' \in BOOLEAN
         /\ given' = {} \/ given' = given
<1> DEFINE one == Open(NoFds)
           a == NextFd(NoFds)
<1>1. /\ 1 \in Fds /\ 2 \in Fds /\ 3 \in Fds
  BY LifetimeAssumption, FdsAssumption DEF Fds
<1>2. Makes(NoFds, one, a)
  BY <1>1, FdsAreNat, OpenMakes DEF Full
<1> HIDE DEF one, a
<1>3. one \in Tables /\ a \in Fds /\ Used(one) = {a}
  BY <1>2, FdsAreNat DEF Makes
<1>4. PICK spare \in BOOLEAN, opened \in BOOLEAN, read \in BOOLEAN :
        LET second == IF spare THEN Open(one) ELSE one IN
        /\ read => opened
        /\ table' = IF opened THEN Open(second) ELSE second
        /\ own' = [epfd |-> a,
                   dummyfd |-> IF spare THEN NextFd(one) ELSE NoFd,
                   id_fd |-> IF opened THEN NextFd(second) ELSE NoFd]
        /\ id' = IF read /\ file # NoFile THEN file ELSE 0
        /\ clean' = (clean /\ read)
  BY DEF Create, one, a
<1> DEFINE two == IF spare THEN Open(one) ELSE one
           b == IF spare THEN NextFd(one) ELSE NoFd
<1>5. ~ Full(one)
  BY <1>1, <1>3 DEF Full
<1>6. two \in Tables /\ Used(two) = {a, b} \ {NoFd} /\ b \in Handles /\ (b # NoFd => b # a)
  <2>1. CASE spare
    <3>1. Makes(one, Open(one), NextFd(one))
      BY <1>3, <1>5, OpenMakes
    <3> QED
      BY <1>3, <2>1, <3>1, FdsAreNat DEF Makes, Handles
  <2>2. CASE ~ spare
    BY <1>3, <2>2, FdsAreNat DEF Handles
  <2> QED
    BY <2>1, <2>2
<1> HIDE DEF two, b
<1>7. /\ read => opened
      /\ table' = IF opened THEN Open(two) ELSE two
      /\ own' = [epfd |-> a, dummyfd |-> b, id_fd |-> IF opened THEN NextFd(two) ELSE NoFd]
      /\ id' = IF read /\ file # NoFile THEN file ELSE 0
      /\ clean' = (clean /\ read)
  BY <1>4 DEF two, b
<1>8. ~ Full(two)
  BY <1>1, <1>6 DEF Full
<1>9. /\ table' \in Tables /\ own'.epfd = a /\ own'.dummyfd = b /\ own'.id_fd \in Handles
      /\ Used(table') = {a, b, own'.id_fd} \ {NoFd}
      /\ own'.id_fd # NoFd => own'.id_fd \notin {a, b}
      /\ own' \in [epfd : Handles, dummyfd : Handles, id_fd : Handles]
  <2>1. CASE opened
    <3>1. Makes(two, Open(two), NextFd(two))
      BY <1>6, <1>8, OpenMakes
    <3> QED
      BY <1>3, <1>6, <1>7, <2>1, <3>1, FdsAreNat DEF Makes, Handles
  <2>2. CASE ~ opened
    BY <1>3, <1>6, <1>7, <2>2, FdsAreNat DEF Handles
  <2> QED
    BY <2>1, <2>2
<1>10. id' \in 0 .. MaxId
  BY <1>7, LifetimeAssumption DEF Types, NoFile
<1>11. clean' => clean /\ own'.id_fd # NoFd /\ given' = given /\ (file # NoFile => id' = file)
  <2> SUFFICES ASSUME clean' PROVE clean /\ own'.id_fd # NoFd /\ given' = given /\ (file # NoFile => id' = file)
    OBVIOUS
  <2>1. clean /\ read /\ opened
    BY <1>7 DEF Types
  <2>2. own'.id_fd # NoFd
    BY <1>6, <1>7, <1>8, <2>1, LowestFree, FdsAreNat
  <2> QED
    BY <1>7, <2>1, <2>2 DEF Create
<1> QED
  BY <1>3, <1>6, <1>7, <1>9, <1>10, <1>11, FdsAreNat DEF Create, Types

----------------------------------------------------------------------------
(* Phases and ids, action by action.                                        *)

LEMMA PhasesStep ==
  ASSUME IInv, Next
  PROVE  Phases'
<1> USE DEF NoCall, InHandlerAt, InLoop
<1>0. Phases /\ Types
  BY DEF IInv
<1>1. CASE Create
  BY <1>0, <1>1 DEF Phases, Create, startVars, loopVars
<1>2. CASE AddSocket \/ SetJmp
  BY <1>0, <1>2 DEF Phases, AddSocket, SetJmp, idVars, startVars, fdVars, loopVars
<1>3. CASE StartFails \/ Exit \/ Kill
  BY <1>0, <1>3 DEF Phases, StartFails, Exit, Kill, Gone
<1>4. CASE AcceptOne \/ Spare
  <2>1. NextFd(table) # NoFd
    BY <1>0, <1>4, LowestFree, FdsAreNat DEF AcceptOne, Spare, Types
  <2>2. call'.fd = NextFd(table) /\ call'.at = call.at
    BY <1>0, <1>4 DEF AcceptOne, Spare, InHand, Types
  <2> QED
    BY <1>0, <1>4, <2>1, <2>2 DEF Phases, AcceptOne, Spare, idVars, startVars
<1>5. CASE AcceptNone \/ AcceptFails \/ RunOut \/ SpareFails
  BY <1>0, <1>5 DEF Phases, Types, AcceptNone, AcceptFails, RunOut, SpareFails, Return,
                    idVars, startVars, fdVars
<1>6. CASE TurnAway \/ Reopen \/ Restore
  <2>1. /\ stage = "loop" /\ UNCHANGED <<stage, saved, apps>> /\ pc \in InHandlerAt
        /\ (pc = "turned" /\ pc' = "reopen") \/ (pc = "reopen" /\ pc' = "reopened")
           \/ (pc = "reopened" /\ pc' = "accept")
    BY <1>6 DEF TurnAway, Reopen, Restore, startVars
  <2>2. call'.at = call.at /\ (pc' # "reopened" => call'.fd = NoFd)
    BY <1>0, <1>6 DEF TurnAway, Reopen, Restore, InHand, Types
  <2> QED
    BY <1>0, <2>1, <2>2 DEF Phases
<1>7. CASE HttpAccepted \/ LocalBoth \/ LocalHalf \/ Refused
  <2>1. /\ stage = "loop" /\ pc \in {"made", "copied", "dup"} /\ UNCHANGED <<stage, saved, own>>
        /\ Return \/ NextAccept
    BY <1>7 DEF HttpAccepted, LocalBoth, LocalHalf, Refused, Made, startVars, fdVars
  <2>2. CASE Return
    BY <1>0, <2>1, <2>2 DEF Phases, Return
  <2>3. CASE NextAccept
    <3>1. Return \/ (pc' = "accept" /\ call' = [call EXCEPT !.i = @ + 1, !.fd = NoFd])
      BY <2>3 DEF NextAccept
    <3>2. Return \/ (pc' = "accept" /\ call'.at = call.at /\ call'.fd = NoFd)
      BY <1>0, <3>1 DEF Types
    <3> QED
      BY <1>0, <2>1, <3>2 DEF Phases, Return
  <2> QED
    BY <2>1, <2>2, <2>3
<1>8. CASE LocalAccepted
  <2>1. call'.at = call.at /\ call'.fd = NoFd
    BY <1>0, <1>8 DEF LocalAccepted, InHand, Types
  <2>2. id'-1 \in DOMAIN apps'
    BY <1>0, <1>8 DEF LocalAccepted, Adopt, GiveIds, NewApp, Types
  <2>3. stage = "loop" /\ pc = "made" /\ pc' = "dup" /\ UNCHANGED <<stage, saved, own>>
    BY <1>8 DEF LocalAccepted, Made, startVars
  <2> QED
    BY <1>0, <2>1, <2>2, <2>3 DEF Phases
<1>9. CASE LocalCopied
  <2>1. NextFd(table) # NoFd
    BY <1>0, <1>9, LowestFree, FdsAreNat DEF LocalCopied, Types
  <2>2. call'.fd = NextFd(table) /\ call'.at = call.at
    BY <1>0, <1>9 DEF LocalCopied, InHand, Types
  <2> QED
    BY <1>0, <1>9, <2>1, <2>2 DEF Phases, LocalCopied, idVars, startVars
<1>10. ASSUME NEW l \in Range(Listeners), Readable(l) \/ Connect(l) PROVE Phases'
  BY <1>0, <1>10 DEF Phases, Readable, Connect, idVars, startVars, fdVars, loopVars
<1>11. ASSUME NEW i \in DOMAIN apps, Teardown(i) PROVE Phases'
  <2>1. apps[i].fd # NoFd
    BY <1>0, FdsAreNat DEF Types
  <2> QED
    BY <1>0, <1>11, <2>1 DEF Phases, Teardown, Unlist, startVars
<1>12. ASSUME NEW i \in DOMAIN apps, FreeApp(i) PROVE Phases'
  BY <1>0, <1>12 DEF Phases, FreeApp, Destroying, startVars
<1>13. CASE CloseApp
  BY <1>0, <1>13 DEF Phases, CloseApp, Destroying, startVars
<1>14. ASSUME NEW s \in Signals, Signal(s) PROVE Phases'
  BY <1>0, <1>14 DEF Phases, Signal, Destroying, idVars, fdVars
<1>15. ASSUME NEW s \in Signals, SignalLost(s) PROVE Phases'
  BY <1>0, <1>15 DEF Phases, SignalLost, Gone
<1>16. CASE SaveId \/ SaveFails
  BY <1>0, <1>16 DEF Phases, SaveId, SaveFails, AllFreed, Destroying, CloseOwn, loopVars
<1> QED
  BY <1>1, <1>2, <1>3, <1>4, <1>5, <1>6, <1>7, <1>8, <1>9, <1>10, <1>11, <1>12, <1>13, <1>14, <1>15, <1>16
     DEF Next, Accepting

\* n more ids.
LEMMA IdsGiven ==
  ASSUME Types, NEW n \in Nat, GiveIds(n)
  PROVE  /\ id' = id+n /\ id' \in 0 .. MaxId
         /\ clean => given' = given \cup (id .. id+n-1)
         /\ given' \subseteq 0 .. MaxId
BY LifetimeAssumption DEF GiveIds, Types

LEMMA MoreIds ==
  ASSUME IdsKept, Types, NEW n \in Nat, GiveIds(n), UNCHANGED <<stage, file, clean, saved, own>>,
         Running, stage # "down", ~ saved
  PROVE  IdsKept'
<1> SUFFICES ASSUME clean PROVE (\A i \in given' : i < id') /\ own'.id_fd # NoFd
  BY DEF IdsKept, Running
<1>1. id' = id+n /\ given' = given \cup (id .. id+n-1) /\ id \in Nat /\ given \subseteq Nat
  BY IdsGiven DEF Types
<1>2. (\A i \in given : i < id) /\ own.id_fd # NoFd
  BY DEF IdsKept
<1>3. ASSUME NEW i \in given' PROVE i < id'
  BY <1>1, <1>2
<1> QED
  BY <1>2, <1>3

LEMMA SameIds ==
  ASSUME IdsKept, UNCHANGED <<idVars, saved>>, own'.id_fd = own.id_fd,
         Running, Running', stage # "down", stage' # "down"
  PROVE  IdsKept'
BY DEF IdsKept, idVars

LEMMA IdsStep ==
  ASSUME IInv, Next
  PROVE  IdsKept'
<1>0. Phases /\ Types /\ IdsKept
  BY DEF IInv
<1>1. CASE Create
  BY <1>0, <1>1, CreateMakes DEF IdsKept, Running, Phases, Types, Create, startVars, loopVars, NoFile
<1>2. CASE AddSocket
  <2>1. CASE GiveIds(1)
    <3>2. UNCHANGED <<stage, file, clean, saved, own>> /\ Running /\ stage # "down" /\ ~ saved
      BY <1>0, <1>2 DEF AddSocket, Running, Phases
    <3> QED
      BY <1>0, <2>1, <3>2, MoreIds
  <2>2. CASE UNCHANGED <<id, given>>
    BY <1>0, <1>2, <2>2 DEF AddSocket, IdsKept, Running
  <2> QED
    BY <1>2, <2>1, <2>2 DEF AddSocket
<1>3. CASE SetJmp
  BY <1>0, <1>3, SameIds DEF Running, SetJmp, startVars, fdVars
<1>4. CASE StartFails \/ Kill
  BY <1>4 DEF IdsKept, StartFails, Kill, Unclean
<1>5. CASE Exit
  <2>1. Running /\ saved /\ stage' = "down" /\ ~ saved' /\ UNCHANGED <<file, given, clean>>
    BY <1>5 DEF Exit, Gone, Running
  <2>2. clean => \A i \in given : i < file
    BY <1>0, <2>1 DEF IdsKept
  <2>3. clean => file # NoFile
    BY <1>0, <2>1, LifetimeAssumption DEF IdsKept, Types, NoFile
  <2> QED
    BY <2>1, <2>2, <2>3 DEF IdsKept, Running
<1>6. CASE \/ AcceptOne \/ AcceptNone \/ AcceptFails \/ RunOut \/ Spare \/ SpareFails \/ TurnAway
           \/ Reopen \/ LocalCopied \/ LocalHalf \/ Refused
  <2>1. stage = "loop" /\ UNCHANGED <<stage, idVars, saved, own>>
    BY <1>6 DEF AcceptOne, AcceptNone, AcceptFails, RunOut, Spare, SpareFails, TurnAway,
                Reopen, LocalCopied, LocalHalf, Refused, InLoop, startVars, fdVars
  <2> QED
    BY <1>0, <2>1, SameIds DEF Running
<1>7. CASE Restore
  <2>1. own'.id_fd = own.id_fd
    BY <1>0, <1>7 DEF Restore, Types
  <2>2. stage = "loop" /\ UNCHANGED <<stage, idVars, saved>>
    BY <1>7 DEF Restore, InLoop, startVars
  <2> QED
    BY <1>0, <2>1, <2>2, SameIds DEF Running
<1>8. CASE HttpAccepted \/ LocalAccepted \/ LocalBoth
  <2>1. GiveIds(1)
    BY <1>8 DEF HttpAccepted, LocalAccepted, LocalBoth, Adopt
  <2>3. UNCHANGED <<stage, file, clean, saved, own>> /\ Running /\ stage # "down" /\ ~ saved
    BY <1>0, <1>8 DEF HttpAccepted, LocalAccepted, LocalBoth, Made, InLoop, Running, Phases, startVars
  <2> QED
    BY <1>0, <2>1, <2>3, MoreIds
<1>9. ASSUME NEW l \in Range(Listeners), Readable(l) \/ Connect(l) PROVE IdsKept'
  BY <1>0, <1>9, SameIds DEF Running, Readable, Connect, startVars, fdVars
<1>10. CASE CloseApp \/ \E i \in DOMAIN apps : Teardown(i) \/ FreeApp(i)
  <2>1. stage \in {"loop", "destroy"} /\ UNCHANGED <<stage, idVars, saved, own>>
    BY <1>10 DEF CloseApp, Teardown, FreeApp, InLoop, Destroying, startVars
  <2> QED
    BY <1>0, <2>1, SameIds DEF Running
<1>11. ASSUME NEW s \in Signals, Signal(s) PROVE IdsKept'
  BY <1>0, <1>11, SameIds DEF Running, Signal, Destroying, fdVars
<1>12. ASSUME NEW s \in Signals, SignalLost(s) PROVE IdsKept'
  BY <1>0, <1>12 DEF IdsKept, Running, SignalLost, Gone
<1>13. CASE SaveId
  BY <1>0, <1>13 DEF IdsKept, Running, SaveId, AllFreed, Destroying
<1>14. CASE SaveFails
  BY <1>14 DEF IdsKept, SaveFails, Unclean
<1> QED
  BY <1>1, <1>2, <1>3, <1>4, <1>5, <1>6, <1>7, <1>8, <1>9, <1>10, <1>11, <1>12, <1>13, <1>14
     DEF Next, Accepting

----------------------------------------------------------------------------
(* Descriptors, action by action.                                           *)

Sound == Types /\ Owned /\ Strays /\ Registered

LEMMA OwnedFds ==
  ASSUME IInv, ~ saved
  PROVE  /\ table \in Tables /\ Used(table) \subseteq Fds
         /\ \A i \in DOMAIN apps : apps[i].fd \in Used(table) /\ apps[i].fd # NoFd
         /\ call.fd # NoFd => call.fd \in Used(table)
         /\ \A fd \in {own.epfd, own.id_fd} \cup Reserve : fd # NoFd => fd \in Used(table)
         /\ stray \subseteq Used(table) /\ NoFd \notin stray
<1>1. Types /\ Owned
  BY DEF IInv
<1>2. \A i \in DOMAIN apps : apps[i].fd # NoFd
  BY <1>1, FdsAreNat DEF Types
<1> QED
  BY <1>1, <1>2, FdsAreNat DEF Types, Owned, Held, Used

LEMMA SameReserve ==
  ASSUME own' = own, pc \in ReserveInUse <=> pc' \in ReserveInUse
  PROVE  Reserve' = Reserve
BY DEF Reserve

\* Nothing happens to descriptors.
LEMMA SameFds ==
  ASSUME IInv, UNCHANGED <<table, epoll, own, apps, stray, blocked, saved>>, call'.fd = call.fd,
         pc \in ReserveInUse <=> pc' \in ReserveInUse
  PROVE  Owned' /\ Strays' /\ Registered'
<1>1. Owned /\ Strays /\ Registered /\ Types
  BY DEF IInv
<1>2. Reserve' = Reserve
  BY SameReserve
<1>3. Held' = Held
  BY <1>2 DEF Held
<1>4. Owned'
  BY <1>1, <1>2, <1>3 DEF Owned
<1>5. Registered' /\ Strays'
  BY <1>1 DEF Registered, Entry, Strays
<1> QED
  BY <1>4, <1>5

\* Nothing happens to the apps and their descriptors.
LEMMA SameApps ==
  ASSUME IInv, UNCHANGED <<epoll, apps>>, \A i \in DOMAIN apps : table'[apps[i].fd] = table[apps[i].fd]
  PROVE  Registered'
BY DEF IInv, Registered, Entry

\* A call makes descriptor n, which is then in hand.
LEMMA TakesInHand ==
  ASSUME IInv, ~ saved, NEW n, Makes(table, table', n), call.fd = NoFd, call'.fd = n,
         UNCHANGED <<epoll, own, apps, stray, blocked, saved>>, Reserve' = Reserve
  PROVE  Owned' /\ Strays' /\ Registered'
<1>1. Types /\ Owned /\ Strays
  BY DEF IInv
<1>2. /\ n \in Fds \ Used(table) /\ Used(table') = Used(table) \cup {n} /\ n # NoFd
      /\ \A fd \in Used(table) : table'[fd] = table[fd]
  BY FdsAreNat DEF Makes, Used
<1>3. Held' = Held \cup {n}
  BY <1>2 DEF Held
<1>4. Owned'
  BY <1>1, <1>2, <1>3, OwnedFds DEF Owned
<1>5. Registered'
  BY <1>2, OwnedFds, SameApps
<1>6. Strays'
  BY <1>1 DEF Strays
<1> QED
  BY <1>4, <1>5, <1>6

\* The descriptor in hand is closed.
LEMMA DropsInHand ==
  ASSUME IInv, ~ saved, table' = Close(table, {call.fd}), call'.fd = NoFd, Reserve' = Reserve,
         UNCHANGED <<own, apps, stray, blocked, saved>>, epoll' \in {epoll, Remaining(epoll, table')}
  PROVE  table' \in Tables /\ Owned' /\ Strays' /\ Registered'
<1>1. Types /\ Owned /\ Strays /\ Registered
  BY DEF IInv
<1>2. /\ table' \in Tables /\ Used(table') = Used(table) \ {call.fd}
      /\ \A fd \in Fds \ {call.fd} : table'[fd] = table[fd]
  BY <1>1, CloseFrees DEF Types
<1>3. \A i \in DOMAIN apps : apps[i].fd \in Fds \ {call.fd}
  BY <1>1 DEF Owned, Types
<1>4. Used(table') = Held' \cup stray
  <2>1. Used(table) = Held \cup stray /\ NoFd \notin Used(table) /\ NoFd \notin stray
    BY <1>1, FdsAreNat DEF Owned, Used, Types
  <2>2. Held' = Held \ {call.fd}
    <3>1. CASE call.fd = NoFd
      BY <3>1 DEF Held
    <3>2. CASE call.fd # NoFd
      BY <1>1, <1>3, <3>2 DEF Held, Owned
    <3> QED
      BY <3>1, <3>2
  <2>3. call.fd \notin stray
    BY <1>1, <2>1 DEF Owned
  <2> QED
    BY <1>2, <2>1, <2>2, <2>3
<1>5. Owned'
  <2>1. \A i \in DOMAIN apps : apps[i].fd # NoFd
    BY OwnedFds
  <2> QED
    BY <1>1, <1>4, <2>1 DEF Owned
<1>6. epoll' = epoll
  <2>1. ASSUME NEW r \in epoll PROVE \E fd \in Fds : table'[fd] = r.file
    <3>1. PICK i \in DOMAIN apps : r = Entry(i)
      BY <1>1 DEF Registered
    <3> QED
      BY <1>2, <1>3, <3>1 DEF Entry
  <2> QED
    BY <2>1 DEF Remaining
<1>7. Registered'
  BY <1>2, <1>3, <1>6, SameApps
<1>8. Strays'
  BY <1>1 DEF Strays
<1> QED
  BY <1>2, <1>5, <1>7, <1>8

LEMMA GoneSound ==
  ASSUME Gone, stage' \in {"down", "lost"}, file' \in 0 .. NoFile, given' \subseteq 0 .. MaxId,
         clean' \in BOOLEAN
  PROVE  Sound'
<1>1. /\ id' = 0 /\ sockets' = 0 /\ blocked' = {} /\ saved' = FALSE /\ table' = NoFds
      /\ epoll' = {} /\ own' = NoOwn /\ apps' = NoApps /\ pc' = "wait" /\ call' = NoCall /\ stray' = {}
  BY DEF Gone
<1>2. 0 \in 0 .. MaxId /\ NoFd \in Handles /\ 0 \in 0 .. Len(Listeners)
  BY LifetimeAssumption DEF Handles, Listeners
<1>3. DOMAIN NoApps = {} /\ NoApps \in [{} -> [kind : Kinds, fd : Fds]]
  BY DEF NoApps
<1>4. Types'
  BY <1>1, <1>2, <1>3, FdsAreNat DEF Types, NoOwn, NoCall
<1>5. Owned'
  BY <1>1, <1>3, FdsAreNat DEF Owned, Held, Reserve, NoOwn, NoCall
<1>6. Registered'
  BY <1>1, <1>3 DEF Registered
<1>7. Strays'
  BY <1>1, FS_EmptySet DEF Strays
<1> QED
  BY <1>4, <1>5, <1>6, <1>7 DEF Sound

LEMMA EndsSound ==
  ASSUME IInv, StartFails \/ Exit \/ Kill \/ \E s \in Signals : SignalLost(s)
  PROVE  Sound'
<1>1. Types
  BY DEF IInv
<1>2. /\ Gone /\ stage' \in {"down", "lost"} /\ file' = file
      /\ (given' = {} /\ clean' = FALSE) \/ (given' = given /\ clean' = clean)
  BY DEF StartFails, Exit, Kill, SignalLost, Unclean
<1> QED
  BY <1>1, <1>2, GoneSound DEF Types

LEMMA CreateSound ==
  ASSUME IInv, Create
  PROVE  Sound'
<1>1. Types /\ Phases /\ Owned /\ Strays /\ Registered
  BY DEF IInv
<1>2. /\ stage = "down" /\ stage' = "setup" /\ table' \in Tables
      /\ own' \in [epfd : Handles, dummyfd : Handles, id_fd : Handles]
      /\ Used(table') = {own'.epfd, own'.dummyfd, own'.id_fd} \ {NoFd}
      /\ own'.dummyfd # NoFd => own'.dummyfd \notin {own'.epfd, own'.id_fd}
      /\ id' \in 0 .. MaxId /\ clean' \in BOOLEAN
      /\ given' = {} \/ given' = given
  BY <1>1, CreateMakes
<1>3. UNCHANGED <<file, sockets, blocked, saved, epoll, apps, pc, call, stray>>
  BY DEF Create, startVars, loopVars
<1>4. /\ apps = NoApps /\ DOMAIN apps = {} /\ pc = "wait" /\ call.fd = NoFd /\ stray = {}
      /\ ~ saved
  BY <1>1, <1>2 DEF Phases, NoApps, NoCall
<1>5. Types'
  BY <1>1, <1>2, <1>3, <1>4 DEF Types
<1>6. Owned'
  BY <1>2, <1>3, <1>4 DEF Owned, Held, Reserve, ReserveInUse
<1>7. Registered' /\ Strays'
  BY <1>1, <1>3, <1>4 DEF Registered, Strays
<1> QED
  BY <1>5, <1>6, <1>7 DEF Sound

LEMMA QuietSound ==
  ASSUME IInv,
         \/ SetJmp \/ AcceptNone \/ AcceptFails \/ SpareFails \/ LocalHalf
         \/ \E l \in Range(Listeners) : Readable(l) \/ Connect(l)
  PROVE  Sound'
<1> USE DEF InLoop, InHandlerAt
<1>1. Types /\ Phases
  BY DEF IInv
<1>2. CASE SetJmp \/ \E l \in Range(Listeners) : Connect(l)
  <2>1. UNCHANGED <<idVars, startVars, fdVars, loopVars, stray>> /\ stage' \in {"loop", stage}
    BY <1>2 DEF SetJmp, Connect
  <2>2. Types'
    BY <1>1, <2>1 DEF Types, idVars, startVars, fdVars, loopVars
  <2> QED
    BY <2>1, <2>2, SameFds DEF Sound, startVars, fdVars, loopVars
<1>3. CASE AcceptNone \/ AcceptFails \/ LocalHalf
  <2>1. /\ UNCHANGED <<stage, idVars, startVars, fdVars, stray>> /\ stage = "loop"
        /\ pc \in {"accept", "dup"} /\ pc' = "wait" /\ call' = NoCall
    BY <1>3 DEF AcceptNone, AcceptFails, LocalHalf, Return
  <2>2. call.fd = NoFd
    BY <1>1, <2>1 DEF Phases
  <2>3. Types'
    BY <1>1, <2>1 DEF Types, idVars, startVars, fdVars, NoCall, Handles
  <2> QED
    BY <2>1, <2>2, <2>3, SameFds DEF Sound, startVars, fdVars, NoCall, ReserveInUse
<1>4. CASE SpareFails
  <2>1. /\ UNCHANGED <<stage, idVars, startVars, fdVars, call, stray>> /\ pc = "spare" /\ pc' = "reopen"
    BY <1>4 DEF SpareFails
  <2>2. Types'
    BY <1>1, <2>1 DEF Types, idVars, startVars, fdVars
  <2> QED
    BY <2>1, <2>2, SameFds DEF Sound, startVars, fdVars, ReserveInUse
<1>5. ASSUME NEW l \in Range(Listeners), Readable(l) PROVE Sound'
  <2>1. /\ UNCHANGED <<stage, idVars, startVars, fdVars, stray>> /\ stage = "loop"
        /\ pc = "wait" /\ pc' = "accept" /\ call' = [at |-> l, i |-> 0, fd |-> NoFd]
    BY <1>5 DEF Readable
  <2>2. call.fd = NoFd
    BY <1>1, <2>1 DEF Phases, NoCall
  <2>3. Types'
    BY <1>1, <2>1 DEF Types, idVars, startVars, fdVars, Handles
  <2> QED
    BY <2>1, <2>2, <2>3, SameFds DEF Sound, startVars, fdVars, ReserveInUse
<1> QED
  BY <1>2, <1>3, <1>4, <1>5

\* A signal leaves what was in hand to nobody.
LEMMA SignalSound ==
  ASSUME IInv, NEW s \in Signals, Signal(s)
  PROVE  Sound'
<1>1. Types /\ Phases /\ Owned /\ Strays /\ Registered
  BY DEF IInv
<1> DEFINE lost == {call.fd} \ {NoFd}
<1>2. /\ UNCHANGED <<idVars, sockets, saved, fdVars>> /\ stage' = "destroy" /\ ~ saved
      /\ s \notin blocked /\ blocked' = blocked \cup {s}
      /\ stray' = stray \cup lost /\ call' = NoCall
      /\ pc' = IF pc \in ReserveInUse THEN "spare" ELSE "wait"
  BY <1>1 DEF Signal, Destroying, Phases
<1>3. Reserve' = Reserve
  BY <1>2, SameReserve DEF ReserveInUse, fdVars
<1>4. lost \subseteq Fds
  BY <1>1 DEF Types, Handles
<1>5. Types'
  <2>1. pc' \in {"wait", "closing"} \cup InHandlerAt
    BY <1>2 DEF InHandlerAt
  <2> QED
    BY <1>1, <1>2, <1>4, <2>1 DEF Types, idVars, fdVars, NoCall, Handles
<1>6. Owned'
  <2>1. call'.fd = NoFd /\ UNCHANGED <<table, own, apps, saved>>
    BY <1>2 DEF NoCall, fdVars
  <2>2. Held' \cup stray' = Held \cup stray
    BY <1>2, <1>3, <2>1 DEF Held
  <2>3. \A i \in DOMAIN apps : apps[i].fd # NoFd
    BY <1>2, OwnedFds
  <2> QED
    BY <1>1, <1>2, <1>3, <2>1, <2>2, <2>3 DEF Owned
<1>7. Registered'
  BY <1>1, <1>2 DEF Registered, Entry, fdVars
<1>8. Strays'
  <2>1. IsFiniteSet(blocked') /\ Cardinality(blocked') = Cardinality(blocked) + 1
    BY <1>1, <1>2, FS_AddElement DEF Strays
  <2>2. IsFiniteSet(stray \cup {call.fd}) /\ Cardinality(stray \cup {call.fd}) <= Cardinality(stray) + 1
    <3>1. Cardinality(stray) \in Nat /\ Cardinality(stray \cup {call.fd}) \in {Cardinality(stray), Cardinality(stray) + 1}
      BY <1>1, FS_AddElement, FS_CardinalityType DEF Strays
    <3> QED
      BY <1>1, <3>1, FS_AddElement DEF Strays
  <2>3. Cardinality(stray) \in Nat /\ Cardinality(blocked) \in Nat
    BY <1>1, FS_CardinalityType DEF Strays
  <2>4. stray' = stray \/ stray' = stray \cup {call.fd}
    BY <1>2
  <2>5. IsFiniteSet(stray') /\ Cardinality(stray') <= Cardinality(stray) + 1
    <3>1. CASE stray' = stray
      BY <1>1, <2>3, <3>1 DEF Strays
    <3>2. CASE stray' = stray \cup {call.fd}
      BY <2>2, <3>2
    <3> QED
      BY <2>4, <3>1, <3>2
  <2>6. Cardinality(stray') \in Nat
    BY <2>5, FS_CardinalityType
  <2> QED
    BY <1>1, <2>1, <2>3, <2>5, <2>6 DEF Strays
<1> QED
  BY <1>5, <1>6, <1>7, <1>8 DEF Sound

\* accept and open.
LEMMA OpenedSound ==
  ASSUME IInv, AcceptOne \/ Spare
  PROVE  Sound'
<1> DEFINE n == NextFd(table)
<1>1. Types /\ Phases /\ Owned
  BY DEF IInv
<1>2. /\ UNCHANGED <<stage, idVars, startVars, epoll, own, apps, stray>> /\ stage = "loop"
      /\ (pc = "accept" /\ pc' = "made") \/ (pc = "spare" /\ pc' = "turned")
      /\ call' = [call EXCEPT !.fd = n] /\ Makes(table, table', n)
  BY <1>1, OpenMakes DEF AcceptOne, Spare, InLoop, InHand, Types
<1> HIDE DEF n
<1>3. n \in Fds /\ table' \in Tables
  BY <1>2 DEF Makes
<1>4. call'.fd = n /\ call.fd = NoFd /\ ~ saved
  BY <1>1, <1>2 DEF Types, Phases
<1>5. Types'
  BY <1>1, <1>2, <1>3 DEF Types, idVars, startVars, Handles, InHandlerAt
<1>6. Reserve' = Reserve
  BY <1>2, SameReserve DEF ReserveInUse
<1>7. Owned' /\ Strays' /\ Registered'
  BY <1>2, <1>4, <1>6, TakesInHand DEF startVars
<1> QED
  BY <1>5, <1>7 DEF Sound

LEMMA RunOutSound ==
  ASSUME IInv, RunOut
  PROVE  Sound'
<1>1. Types /\ Phases /\ Owned /\ Strays
  BY DEF IInv
<1>2. /\ UNCHANGED <<stage, idVars, startVars, epoll, own, apps, call, stray>> /\ stage = "loop"
      /\ pc = "accept" /\ pc' = "spare" /\ table' = Close(table, {own.dummyfd})
  BY DEF RunOut, InLoop
<1>3. /\ table' \in Tables /\ Used(table') = Used(table) \ {own.dummyfd}
      /\ \A fd \in Fds \ {own.dummyfd} : table'[fd] = table[fd]
  BY <1>1, <1>2, CloseFrees DEF Types
<1>4. Types'
  BY <1>1, <1>2, <1>3 DEF Types, idVars, startVars, InHandlerAt
<1>5. Reserve = {own.dummyfd} /\ Reserve' = {} /\ ~ saved /\ call.fd = NoFd
  BY <1>1, <1>2 DEF Reserve, ReserveInUse, Phases
<1>6. Owned'
  <2>1. Held' = Held \ {own.dummyfd} /\ own.dummyfd \notin stray
    <3>1. CASE own.dummyfd = NoFd
      BY <1>2, <1>5, <3>1, OwnedFds DEF Held
    <3>2. CASE own.dummyfd # NoFd
      BY <1>1, <1>2, <1>5, <3>2 DEF Held, Owned
    <3> QED
      BY <3>1, <3>2
  <2> QED
    BY <1>1, <1>2, <1>3, <1>5, <2>1 DEF Owned, startVars
<1>7. \A i \in DOMAIN apps : apps[i].fd \in Fds \ {own.dummyfd}
  BY <1>1, <1>5 DEF Owned, Types
<1>8. Registered' /\ Strays'
  BY <1>1, <1>2, <1>3, <1>7, SameApps DEF Strays, startVars
<1> QED
  BY <1>4, <1>6, <1>8 DEF Sound

LEMMA TurnAwaySound ==
  ASSUME IInv, TurnAway
  PROVE  Sound'
<1>1. Types /\ Phases
  BY DEF IInv
<1>2. /\ UNCHANGED <<stage, idVars, startVars, epoll, own, apps, stray>> /\ stage = "loop"
      /\ pc = "turned" /\ pc' = "reopen" /\ table' = Close(table, {call.fd})
      /\ call' = [call EXCEPT !.fd = NoFd]
  BY DEF TurnAway, InLoop, InHand
<1>3. ~ saved /\ call'.fd = NoFd /\ Reserve' = Reserve
  BY <1>1, <1>2, SameReserve DEF Phases, Types, ReserveInUse
<1>4. table' \in Tables /\ Owned' /\ Strays' /\ Registered'
  BY <1>2, <1>3, DropsInHand DEF startVars
<1>5. Types'
  BY <1>1, <1>2, <1>4 DEF Types, idVars, startVars, Handles, InHandlerAt
<1> QED
  BY <1>4, <1>5 DEF Sound

LEMMA ReopenSound ==
  ASSUME IInv, Reopen
  PROVE  Sound'
<1> DEFINE n == NextFd(table)
<1>1. Types /\ Phases
  BY DEF IInv
<1>2. /\ UNCHANGED <<stage, idVars, startVars, epoll, own, apps, stray>> /\ stage = "loop"
      /\ pc = "reopen" /\ pc' = "reopened"
      /\ \/ Makes(table, table', n) /\ call' = [call EXCEPT !.fd = n]
         \/ UNCHANGED <<table, call>>
  BY <1>1, OpenMakes DEF Reopen, InLoop, InHand, Types
<1> HIDE DEF n
<1>3. call.fd = NoFd /\ ~ saved /\ Reserve' = Reserve
  BY <1>1, <1>2, SameReserve DEF Phases, ReserveInUse
<1>4. CASE Makes(table, table', n) /\ call' = [call EXCEPT !.fd = n]
  <2>1. n \in Fds /\ table' \in Tables /\ call'.fd = n
    BY <1>1, <1>4 DEF Makes, Types
  <2>2. Types'
    BY <1>1, <1>2, <1>4, <2>1 DEF Types, idVars, startVars, Handles, InHandlerAt
  <2>3. Owned' /\ Strays' /\ Registered'
    BY <1>2, <1>3, <1>4, <2>1, TakesInHand DEF startVars
  <2> QED
    BY <2>2, <2>3 DEF Sound
<1>5. CASE UNCHANGED <<table, call>>
  <2>1. Types'
    BY <1>1, <1>2, <1>5 DEF Types, idVars, startVars, InHandlerAt
  <2> QED
    BY <1>2, <1>5, <2>1, SameFds DEF Sound, startVars, ReserveInUse
<1> QED
  BY <1>2, <1>4, <1>5

LEMMA RestoreSound ==
  ASSUME IInv, Restore
  PROVE  Sound'
<1>1. Types /\ Phases /\ Owned /\ Strays
  BY DEF IInv
<1>2. /\ UNCHANGED <<stage, idVars, startVars, table, epoll, apps, stray>> /\ stage = "loop"
      /\ pc = "reopened" /\ pc' = "accept" /\ own' = [own EXCEPT !.dummyfd = call.fd]
      /\ call' = [call EXCEPT !.fd = NoFd]
  BY DEF Restore, InLoop, InHand
<1>3. /\ own'.dummyfd = call.fd /\ own'.epfd = own.epfd /\ own'.id_fd = own.id_fd
      /\ call'.fd = NoFd /\ ~ saved
  BY <1>1, <1>2 DEF Types, Phases
<1>4. Reserve = {} /\ Reserve' = {call.fd}
  BY <1>2, <1>3 DEF Reserve, ReserveInUse
<1>5. Types'
  BY <1>1, <1>2 DEF Types, idVars, startVars, Handles, InHandlerAt
<1>6. Owned'
  <2>1. Held' = Held
    BY <1>2, <1>3, <1>4 DEF Held
  <2>2. \A i \in DOMAIN apps : apps[i].fd # NoFd
    BY <1>3, OwnedFds
  <2> QED
    BY <1>1, <1>2, <1>3, <1>4, <2>1, <2>2 DEF Owned, startVars
<1>7. Registered' /\ Strays'
  BY <1>1, <1>2, SameApps DEF Strays, startVars
<1> QED
  BY <1>5, <1>6, <1>7 DEF Sound

\* How an accept handler goes on.
LEMMA Returns ==
  ASSUME IInv, pc \in {"made", "copied"}, Return \/ NextAccept
  PROVE  /\ pc' \in {"wait", "accept"} /\ call'.fd = NoFd
         /\ call' \in [at : Range(Listeners) \cup {"none"}, i : Nat, fd : Handles]
         /\ own' = own => Reserve' = Reserve
<1>1. Types
  BY DEF IInv
<1>2. Return \/ (pc' = "accept" /\ call' = [call EXCEPT !.i = @ + 1, !.fd = NoFd])
  BY DEF NextAccept
<1>3. pc' \in {"wait", "accept"}
  BY <1>2 DEF Return
<1>4. own' = own => Reserve' = Reserve
  BY <1>3, SameReserve DEF ReserveInUse
<1>5. CASE Return
  BY <1>3, <1>4, <1>5 DEF Return, NoCall, Handles
<1>6. CASE pc' = "accept" /\ call' = [call EXCEPT !.i = @ + 1, !.fd = NoFd]
  <2>1. call \in [at : Range(Listeners) \cup {"none"}, i : Nat, fd : Handles]
    BY <1>1 DEF Types
  <2>2. call.i + 1 \in Nat /\ call.at \in Range(Listeners) \cup {"none"} /\ NoFd \in Handles
    BY <2>1 DEF Handles
  <2>3. call' = [at |-> call.at, i |-> call.i + 1, fd |-> NoFd]
    BY <1>6, <2>1
  <2> QED
    BY <1>3, <1>4, <2>2, <2>3
<1> QED
  BY <1>2, <1>5, <1>6

LEMMA RefusedSound ==
  ASSUME IInv, Refused
  PROVE  Sound'
<1>1. Types /\ Phases
  BY DEF IInv
<1>2. /\ UNCHANGED <<stage, idVars, startVars, epoll, own, apps, stray>> /\ stage = "loop"
      /\ pc \in {"made", "copied"} /\ table' = Close(table, {call.fd}) /\ (Return \/ NextAccept)
  BY DEF Refused, InLoop
<1>3. /\ pc' \in {"wait", "accept"} /\ call'.fd = NoFd
      /\ call' \in [at : Range(Listeners) \cup {"none"}, i : Nat, fd : Handles]
      /\ Reserve' = Reserve
  BY <1>2, Returns
<1>4. ~ saved
  BY <1>1, <1>2 DEF Phases
<1>5. table' \in Tables /\ Owned' /\ Strays' /\ Registered'
  BY <1>2, <1>3, <1>4, DropsInHand DEF startVars
<1>6. Types'
  BY <1>1, <1>2, <1>3, <1>5 DEF Types, idVars, startVars, InHandlerAt
<1> QED
  BY <1>5, <1>6 DEF Sound

\* An app leaves epoll and the tree, and its descriptor is in hand.
LEMMA UnlistSound ==
  ASSUME IInv, NEW i \in DOMAIN apps, Teardown(i) \/ FreeApp(i)
  PROVE  Sound'
<1> DEFINE gone == apps[i].fd
<1>1. Types /\ Phases /\ Owned /\ Strays /\ Registered
  BY DEF IInv
<1>2. /\ UNCHANGED <<stage, idVars, startVars, table, own, stray>> /\ ~ saved
      /\ call.fd = NoFd /\ call' = [NoCall EXCEPT !.fd = gone]
      /\ pc' \in {pc, "closing"} /\ (pc' # pc => pc = "wait")
      /\ apps' = Restrict(apps, DOMAIN apps \ {i})
      /\ epoll' = Unwatch(epoll, table, gone)
  BY <1>1 DEF Teardown, FreeApp, Unlist, Destroying, InLoop, Phases, NoCall
<1> HIDE DEF gone
<1>3. gone \in Fds /\ gone # NoFd /\ call'.fd = gone
  BY <1>1, <1>2, FdsAreNat DEF Types, NoCall, gone
<1>4. DOMAIN apps' = DOMAIN apps \ {i} /\ \A j \in DOMAIN apps \ {i} : apps'[j] = apps[j]
  BY <1>2 DEF Restrict
<1>5. apps' = [j \in DOMAIN apps' |-> apps'[j]]
  BY <1>2 DEF Restrict
<1>6. \A j \in DOMAIN apps \ {i} : apps[j].fd \in Fds \ {gone}
  BY <1>1 DEF Owned, Types, gone
<1>7. Types'
  <2>1. apps' \in [DOMAIN apps' -> [kind : Kinds, fd : Fds]]
    BY <1>1, <1>4, <1>5 DEF Types
  <2>2. call' \in [at : Range(Listeners) \cup {"none"}, i : Nat, fd : Handles]
    BY <1>2, <1>3 DEF NoCall, Handles
  <2> QED
    BY <1>1, <1>2, <1>4, <2>1, <2>2 DEF Types, idVars, startVars
<1>8. Owned'
  <2>1. gone \notin {own.epfd, own.id_fd} \cup Reserve \cup stray
    BY <1>1 DEF Owned, gone
  <2>2. {apps[j].fd : j \in DOMAIN apps} = {apps'[j].fd : j \in DOMAIN apps'} \cup {gone}
    BY <1>4 DEF gone
  <2>3. Reserve' = Reserve
    BY <1>2, SameReserve DEF ReserveInUse
  <2>4. Held' = Held
    BY <1>2, <1>3, <2>2, <2>3 DEF Held
  <2>5. UNCHANGED <<table, own, stray, saved>>
    BY <1>2 DEF startVars
  <2>6. ~ saved /\ Used(table') = Held' \cup stray'
    BY <1>1, <1>2, <2>4, <2>5 DEF Owned
  <2>7. \A j, k \in DOMAIN apps' : apps'[j].fd = apps'[k].fd => j = k
    BY <1>1, <1>4 DEF Owned
  <2>8. \A j \in DOMAIN apps' : apps'[j].fd \notin {own.epfd, own.id_fd, gone} \cup Reserve \cup stray
    BY <1>1, <1>4, <1>6 DEF Owned
  <2>9. /\ \A fd \in Reserve : fd # NoFd => fd \notin {own.epfd, own.id_fd} \cup stray
        /\ own.epfd \notin stray /\ own.id_fd \notin stray
    BY <1>1 DEF Owned
  <2> QED
    BY <1>3, <2>1, <2>3, <2>5, <2>6, <2>7, <2>8, <2>9 DEF Owned
<1>9. Registered'
  <2>1. ASSUME NEW j \in DOMAIN apps \ {i} PROVE Entry(j) \in epoll'
    <3>1. Entry(j) \in epoll /\ Entry(j).fd = apps[j].fd
      BY <1>1 DEF Registered, Entry
    <3> QED
      BY <1>2, <1>6, <3>1 DEF Unwatch
  <2>2. ASSUME NEW r \in epoll' PROVE \E j \in DOMAIN apps \ {i} : r = Entry(j)
    <3>1. r \in epoll /\ (r.fd # gone \/ r.file # table[gone])
      BY <1>2 DEF Unwatch
    <3>2. PICK j \in DOMAIN apps : r = Entry(j)
      BY <1>1, <3>1 DEF Registered
    <3>3. j # i
      BY <3>1, <3>2 DEF Entry, gone
    <3> QED
      BY <3>2, <3>3
  <2>3. \A j \in DOMAIN apps \ {i} : Entry(j)' = Entry(j)
    BY <1>2, <1>4 DEF Entry
  <2> QED
    BY <1>4, <2>1, <2>2, <2>3 DEF Registered
<1>10. Strays'
  BY <1>1, <1>2 DEF Strays, startVars
<1> QED
  BY <1>7, <1>8, <1>9, <1>10 DEF Sound

LEMMA CloseAppSound ==
  ASSUME IInv, CloseApp
  PROVE  Sound'
<1>1. Types /\ Phases
  BY DEF IInv
<1>2. /\ UNCHANGED <<stage, idVars, startVars, own, apps, stray>> /\ ~ saved
      /\ table' = Close(table, {call.fd}) /\ epoll' = Remaining(epoll, table') /\ call' = NoCall
      /\ pc' \in {pc, "wait"} /\ (pc' # pc => pc = "closing")
  BY <1>1 DEF CloseApp, InLoop, Destroying, Phases
<1>3. call'.fd = NoFd /\ Reserve' = Reserve
  BY <1>2, SameReserve DEF NoCall, ReserveInUse
<1>4. table' \in Tables /\ Owned' /\ Strays' /\ Registered'
  BY <1>2, <1>3, DropsInHand DEF startVars
<1>5. Types'
  BY <1>1, <1>2, <1>4 DEF Types, idVars, startVars, NoCall, Handles
<1> QED
  BY <1>4, <1>5 DEF Sound

\* The apps in S are new, and registered.
LEMMA MoreApps ==
  ASSUME IInv, NEW S, DOMAIN apps' = DOMAIN apps \cup S, \A i \in DOMAIN apps : apps'[i] = apps[i],
         \A i \in DOMAIN apps : table'[apps[i].fd] = table[apps[i].fd],
         epoll' = epoll \cup {[fd |-> apps'[i].fd, file |-> table'[apps'[i].fd], app |-> i] : i \in S}
  PROVE  Registered'
<1>1. epoll = {Entry(i) : i \in DOMAIN apps}
  BY DEF IInv, Registered
<1>2. \A i \in DOMAIN apps : Entry(i)' = Entry(i)
  BY DEF Entry
<1>3. \A i \in S : Entry(i)' = [fd |-> apps'[i].fd, file |-> table'[apps'[i].fd], app |-> i]
  BY DEF Entry
<1>4. epoll' = {Entry(i)' : i \in DOMAIN apps \cup S}
  BY <1>1, <1>2, <1>3
<1> QED
  BY <1>4 DEF Registered

\* One new app, with descriptor n.
LEMMA OneApp ==
  ASSUME IInv, NEW k \in Kinds, NEW n \in Fds, GiveIds(1), apps' = NewApp(id, k, n),
         epoll' = Watch(epoll, table', n, id),
         \A i \in DOMAIN apps : table'[apps[i].fd] = table[apps[i].fd]
  PROVE  /\ DOMAIN apps' = DOMAIN apps \cup {id} /\ id \notin DOMAIN apps
         /\ \A i \in DOMAIN apps : apps'[i] = apps[i]
         /\ apps'[id].fd = n
         /\ apps' \in [DOMAIN apps' -> [kind : Kinds, fd : Fds]]
         /\ id' \in 0 .. MaxId /\ given' \subseteq 0 .. MaxId
         /\ \A i \in DOMAIN apps' : i \in 0 .. id'-1
         /\ Registered'
<1>1. Types
  BY DEF IInv
<1>2. id' = id+1 /\ id' \in 0 .. MaxId /\ given' \subseteq 0 .. MaxId
  BY <1>1, IdsGiven
<1>3. id \in Nat /\ id \notin DOMAIN apps /\ \A i \in DOMAIN apps : i \in 0 .. id-1
  BY <1>1 DEF Types
<1>4. /\ DOMAIN apps' = DOMAIN apps \cup {id} /\ apps'[id] = [kind |-> k, fd |-> n]
      /\ \A i \in DOMAIN apps : apps'[i] = apps[i]
      /\ apps' = [i \in DOMAIN apps \cup {id} |-> IF i = id THEN [kind |-> k, fd |-> n] ELSE apps[i]]
  BY <1>3 DEF NewApp
<1>5. apps' \in [DOMAIN apps' -> [kind : Kinds, fd : Fds]]
  <2>1. \A i \in DOMAIN apps : apps[i] \in [kind : Kinds, fd : Fds]
    BY <1>1 DEF Types
  <2>2. [kind |-> k, fd |-> n] \in [kind : Kinds, fd : Fds]
    OBVIOUS
  <2>3. \A i \in DOMAIN apps \cup {id} :
          (IF i = id THEN [kind |-> k, fd |-> n] ELSE apps[i]) \in [kind : Kinds, fd : Fds]
    BY <2>1, <2>2
  <2> QED
    BY <1>4, <2>3
<1>6. \A i \in DOMAIN apps' : i \in 0 .. id'-1
  BY <1>2, <1>3, <1>4
<1>7. Registered'
  <2>1. apps'[id].fd = n
    BY <1>4
  <2>2. epoll' = epoll \cup {[fd |-> apps'[i].fd, file |-> table'[apps'[i].fd], app |-> i] : i \in {id}}
    BY <2>1 DEF Watch
  <2> QED
    BY <1>4, <2>2, MoreApps
<1> QED
  BY <1>2, <1>3, <1>4, <1>5, <1>6, <1>7

LEMMA AddSocketSound ==
  ASSUME IInv, AddSocket
  PROVE  Sound'
<1> DEFINE n == NextFd(table)
           k == Listeners[sockets']
<1>1. Types /\ Phases /\ Owned /\ Strays /\ Registered
  BY DEF IInv
<1>2. /\ UNCHANGED <<stage, file, clean, blocked, saved, own, loopVars, stray>> /\ stage = "setup"
      /\ sockets' \in 1 .. Len(Listeners)
      /\ \/ /\ Makes(table, table', n) /\ GiveIds(1)
            /\ epoll' = Watch(epoll, table', n, id) /\ apps' = NewApp(id, k, n)
         \/ UNCHANGED <<id, given, table, epoll, apps>>
  <2>1. sockets' \in 1 .. Len(Listeners)
    BY <1>1 DEF AddSocket, Types, Listeners
  <2> QED
    BY <1>1, <2>1, OpenMakes DEF AddSocket, Types
<1>3. k \in Kinds /\ sockets' \in 0 .. Len(Listeners)
  BY <1>2 DEF Listeners, Kinds
<1>4. call.fd = NoFd /\ pc = "wait" /\ ~ saved
  BY <1>1, <1>2 DEF Phases, NoCall
<1>5. Reserve' = Reserve
  BY <1>2, SameReserve DEF loopVars
<1> HIDE DEF n, k
<1>6. CASE /\ Makes(table, table', n) /\ GiveIds(1)
           /\ epoll' = Watch(epoll, table', n, id) /\ apps' = NewApp(id, k, n)
  <2>1. /\ n \in Fds \ Used(table) /\ table' \in Tables /\ Used(table') = Used(table) \cup {n} /\ n # NoFd
        /\ \A fd \in Used(table) : table'[fd] = table[fd]
    BY <1>6, FdsAreNat DEF Makes, Used
  <2>2. \A i \in DOMAIN apps : table'[apps[i].fd] = table[apps[i].fd]
    BY <1>4, <2>1, OwnedFds
  <2>3. /\ DOMAIN apps' = DOMAIN apps \cup {id} /\ id \notin DOMAIN apps
        /\ \A i \in DOMAIN apps : apps'[i] = apps[i]
        /\ apps'[id].fd = n
        /\ apps' \in [DOMAIN apps' -> [kind : Kinds, fd : Fds]]
        /\ id' \in 0 .. MaxId /\ given' \subseteq 0 .. MaxId
        /\ \A i \in DOMAIN apps' : i \in 0 .. id'-1
        /\ Registered'
    BY <1>3, <1>6, <2>1, <2>2, OneApp
  <2>4. Types'
    BY <1>1, <1>2, <1>3, <2>1, <2>3 DEF Types, loopVars
  <2>5. Owned'
    <3>1. {apps'[i].fd : i \in DOMAIN apps'} = {apps[i].fd : i \in DOMAIN apps} \cup {n}
      BY <2>3
    <3>2. UNCHANGED <<own, call, saved, stray>>
      BY <1>2 DEF loopVars
    <3>3. Used(table') = Held' \cup stray
      BY <1>1, <1>4, <1>5, <2>1, <3>1, <3>2 DEF Owned, Held
    <3>4. /\ n \notin {own.epfd, own.id_fd, call.fd} \cup Reserve \cup stray
          /\ \A i \in DOMAIN apps : apps[i].fd # n
      BY <1>4, <2>1, OwnedFds
    <3> QED
      BY <1>1, <1>4, <1>5, <2>3, <3>2, <3>3, <3>4 DEF Owned
  <2>6. Strays'
    BY <1>1, <1>2 DEF Strays
  <2> QED
    BY <2>3, <2>4, <2>5, <2>6 DEF Sound
<1>7. CASE UNCHANGED <<id, given, table, epoll, apps>>
  <2>1. Types'
    BY <1>1, <1>2, <1>3, <1>7 DEF Types, loopVars
  <2> QED
    BY <1>2, <1>7, <2>1, SameFds DEF Sound, loopVars
<1> QED
  BY <1>2, <1>6, <1>7

\* The descriptor in hand gets an app: an HTTP client, or half of a worker.
LEMMA AdoptedSound ==
  ASSUME IInv, HttpAccepted \/ LocalAccepted \/ LocalBoth
  PROVE  Sound'
<1>1. Types /\ Phases /\ Owned /\ Strays /\ Registered
  BY DEF IInv
<1>2. /\ UNCHANGED <<stage, file, clean, startVars, table, own, stray>> /\ stage = "loop"
      /\ pc \in {"made", "copied"} /\ (Adopt("http") \/ Adopt("local"))
      /\ Return \/ NextAccept \/ (InHand(NoFd) /\ pc' = "dup")
  BY DEF HttpAccepted, LocalAccepted, LocalBoth, Made, InLoop
<1>3. /\ pc' \in {"wait", "accept", "dup"} /\ call'.fd = NoFd
      /\ call' \in [at : Range(Listeners) \cup {"none"}, i : Nat, fd : Handles]
      /\ Reserve' = Reserve
  <2>1. CASE Return \/ NextAccept
    BY <1>2, <2>1, Returns
  <2>2. CASE InHand(NoFd) /\ pc' = "dup"
    <3>1. Reserve' = Reserve
      BY <1>2, <2>2, SameReserve DEF ReserveInUse
    <3> QED
      BY <1>1, <2>2, <3>1 DEF InHand, Types, Handles
  <2> QED
    BY <1>2, <2>1, <2>2
<1>4. call.fd # NoFd /\ call.fd \in Fds /\ ~ saved
  BY <1>1, <1>2 DEF Phases, Types, Handles
<1>5. /\ DOMAIN apps' = DOMAIN apps \cup {id} /\ id \notin DOMAIN apps
      /\ \A i \in DOMAIN apps : apps'[i] = apps[i]
      /\ apps'[id].fd = call.fd
      /\ apps' \in [DOMAIN apps' -> [kind : Kinds, fd : Fds]]
      /\ id' \in 0 .. MaxId /\ given' \subseteq 0 .. MaxId
      /\ \A i \in DOMAIN apps' : i \in 0 .. id'-1
      /\ Registered'
  <2>1. PICK k \in Kinds : Adopt(k)
    BY <1>2 DEF Kinds
  <2>2. /\ GiveIds(1) /\ apps' = NewApp(id, k, call.fd) /\ epoll' = Watch(epoll, table', call.fd, id)
        /\ \A i \in DOMAIN apps : table'[apps[i].fd] = table[apps[i].fd]
    BY <1>2, <2>1 DEF Adopt
  <2> QED
    BY <1>4, <2>2, OneApp
<1>6. Types'
  BY <1>1, <1>2, <1>3, <1>5 DEF Types, startVars, InHandlerAt
<1>7. Owned'
  <2>1. {apps'[i].fd : i \in DOMAIN apps'} = {apps[i].fd : i \in DOMAIN apps} \cup {call.fd}
    BY <1>5
  <2>2. UNCHANGED <<own, table, stray, saved>>
    BY <1>2 DEF startVars
  <2>3. Held' = Held
    BY <1>3, <1>4, <2>1, <2>2 DEF Held
  <2>4. /\ call.fd \notin {own.epfd, own.id_fd} \cup Reserve \cup stray
        /\ \A i \in DOMAIN apps : apps[i].fd # call.fd
    BY <1>1, <1>4 DEF Owned
  <2>5. \A i \in DOMAIN apps : apps[i].fd # NoFd
    BY <1>4, OwnedFds
  <2> QED
    BY <1>1, <1>3, <1>4, <1>5, <2>2, <2>3, <2>4, <2>5 DEF Owned
<1>8. Strays'
  BY <1>1, <1>2 DEF Strays, startVars
<1> QED
  BY <1>5, <1>6, <1>7, <1>8 DEF Sound

\* The second descriptor of a worker's socket.
LEMMA LocalCopiedSound ==
  ASSUME IInv, LocalCopied
  PROVE  Sound'
<1> DEFINE n == NextFd(table)
<1>1. Types /\ Phases /\ Owned
  BY DEF IInv
<1>2. /\ UNCHANGED <<stage, idVars, startVars, epoll, own, apps, stray>> /\ stage = "loop"
      /\ pc = "dup" /\ pc' = "copied" /\ call' = [call EXCEPT !.fd = n]
      /\ ~ Full(table) /\ table' = Dup(table, apps[id-1].fd)
  BY DEF LocalCopied, InLoop, InHand
<1>3. ~ saved /\ call.fd = NoFd /\ id-1 \in DOMAIN apps
  BY <1>1, <1>2 DEF Phases
<1>4. Makes(table, table', n)
  <2>1. apps[id-1].fd \in Used(table)
    BY <1>3, OwnedFds
  <2> QED
    BY <1>1, <1>2, <2>1, DupMakes DEF Types
<1> HIDE DEF n
<1>5. n \in Fds /\ table' \in Tables /\ call'.fd = n
  BY <1>1, <1>2, <1>4 DEF Makes, Types
<1>6. Types'
  BY <1>1, <1>2, <1>5 DEF Types, idVars, startVars, Handles, InHandlerAt
<1>7. Reserve' = Reserve
  BY <1>2, SameReserve DEF ReserveInUse
<1>8. Owned' /\ Strays' /\ Registered'
  BY <1>2, <1>3, <1>4, <1>5, <1>7, TakesInHand DEF startVars
<1> QED
  BY <1>6, <1>8 DEF Sound

LEMMA SaveSound ==
  ASSUME IInv, SaveId \/ SaveFails
  PROVE  Sound'
<1>1. Types /\ Phases /\ Owned /\ Strays
  BY DEF IInv
<1>2. /\ UNCHANGED <<stage, id, sockets, blocked, apps, loopVars, stray>> /\ ~ saved /\ saved' = TRUE
      /\ DOMAIN apps = {} /\ call = NoCall
      /\ file' \in {id, file} /\ clean' \in {clean, FALSE} /\ given' \in {given, {}}
      /\ table' = Close(table, Range(own)) /\ own' = NoOwn /\ epoll' = {}
  BY DEF SaveId, SaveFails, AllFreed, Destroying, CloseOwn, Unclean
<1>3. table' \in Tables /\ Used(table') = Used(table) \ Range(own)
  BY <1>1, <1>2, CloseFrees DEF Types
<1>4. own.epfd \in Range(own) /\ own.dummyfd \in Range(own) /\ own.id_fd \in Range(own)
  BY <1>1 DEF Range, Types
<1>5. Used(table') \subseteq stray
  BY <1>1, <1>2, <1>3, <1>4 DEF Owned, Held, Reserve, NoCall
<1>6. Types'
  <2>1. file' \in 0 .. NoFile /\ NoFd \in Handles
    BY <1>1, <1>2, LifetimeAssumption DEF Types, NoFile, Handles
  <2> QED
    BY <1>1, <1>2, <1>3, <2>1 DEF Types, loopVars, NoOwn
<1>7. Owned'
  <2>1. own'.epfd = NoFd /\ own'.dummyfd = NoFd /\ own'.id_fd = NoFd /\ call'.fd = NoFd /\ DOMAIN apps' = {}
    BY <1>2 DEF NoOwn, NoCall, loopVars
  <2>2. NoFd \notin stray
    BY <1>1, FdsAreNat DEF Types
  <2> QED
    BY <1>2, <1>5, <2>1, <2>2 DEF Owned, Reserve
<1>8. Registered' /\ Strays'
  BY <1>1, <1>2 DEF Registered, Strays
<1> QED
  BY <1>6, <1>7, <1>8 DEF Sound

----------------------------------------------------------------------------
(* The theorems.                                                            *)

\* The server knows what it may use and to whom it belongs, whatever happens.
THEOREM LifetimeInvariance == Spec => []IInv
<1>1. IInv /\ [Next]_vars => IInv'
  <2> SUFFICES ASSUME IInv, [Next]_vars PROVE IInv'
    OBVIOUS
  <2>1. CASE Next
    <3>1. Phases' /\ IdsKept'
      BY <2>1, PhasesStep, IdsStep
    <3>2. Sound'
      <4>1. CASE Create \/ AddSocket \/ SetJmp \/ StartFails \/ Kill \/ SaveId \/ SaveFails \/ Exit
        BY <4>1, CreateSound, AddSocketSound, QuietSound, EndsSound, SaveSound
      <4>2. CASE Accepting
        BY <4>2, QuietSound, OpenedSound, RunOutSound, TurnAwaySound, ReopenSound, RestoreSound,
           AdoptedSound, LocalCopiedSound, RefusedSound DEF Accepting
      <4>3. CASE \E l \in Range(Listeners) : Readable(l) \/ Connect(l)
        BY <4>3, QuietSound
      <4>4. CASE CloseApp \/ \E i \in DOMAIN apps : Teardown(i) \/ FreeApp(i)
        BY <4>4, UnlistSound, CloseAppSound
      <4>5. CASE \E s \in Signals : Signal(s) \/ SignalLost(s)
        BY <4>5, SignalSound, EndsSound
      <4> QED
        BY <2>1, <4>1, <4>2, <4>3, <4>4, <4>5 DEF Next
    <3> QED
      BY <3>1, <3>2 DEF IInv, Sound
  <2>2. CASE UNCHANGED vars
    <3> USE <2>2 DEF vars, idVars, startVars, fdVars, loopVars
    <3>0. Types /\ Phases /\ IdsKept
      BY DEF IInv
    <3>1. Types'
      BY <3>0 DEF Types
    <3>2. Phases' /\ IdsKept'
      BY <3>0 DEF Phases, IdsKept, Running
    <3>3. Owned' /\ Strays' /\ Registered'
      BY SameFds
    <3> QED
      BY <3>1, <3>2, <3>3 DEF IInv
  <2> QED
    BY <2>1, <2>2
<1> QED
  BY <1>1, InitIInv, PTL DEF Spec

\* Every variable keeps its type; descriptors and ids stay in their bounds.
THEOREM TypeCorrect == Spec => []TypeOK
<1>1. IInv => TypeOK
  <2> SUFFICES ASSUME IInv PROVE TypeOK
    OBVIOUS
  <2>1. Types /\ Phases /\ Registered
    BY DEF IInv
  <2>2. Range(own) \subseteq Fds \cup {NoFd}
    BY <2>1 DEF Types, Range, Handles
  <2>3. DOMAIN apps \subseteq 0 .. MaxId
    BY <2>1, LifetimeAssumption DEF Types
  <2>4. ASSUME NEW i \in DOMAIN apps PROVE Entry(i) \in [fd : Fds, file : Fds, app : 0 .. MaxId]
    <3>1. apps[i].fd \in Used(table)
      BY <2>1, OwnedFds DEF Phases
    <3>2. apps[i].fd \in Fds /\ table[apps[i].fd] \in Fds
      BY <2>1, <3>1 DEF Types, Used, Tables
    <3> QED
      BY <2>3, <3>2 DEF Entry
  <2>5. epoll \subseteq [fd : Fds, file : Fds, app : 0 .. MaxId]
    BY <2>1, <2>4 DEF Registered
  <2> QED
    BY <2>1, <2>2, <2>3, <2>5 DEF TypeOK, Types, Tables
<1> QED
  BY <1>1, LifetimeInvariance, PTL

\* What a run that read and saved id_file leaves in it is beyond every id it and
\* the runs before it gave.
THEOREM FileStaysAhead == Spec => []FileAhead
<1>1. IInv => FileAhead
  BY DEF IInv, IdsKept, FileAhead
<1> QED
  BY <1>1, LifetimeInvariance, PTL

\* No id is given twice, in one run or over restarts.
THEOREM IdsAreUnique == Spec => IdsUnique
<1>1. IInv /\ [Next]_vars => [clean /\ stage # "down" => (id .. id'-1) \cap given = {}]_vars
  <2> SUFFICES ASSUME IInv, Next, clean, stage # "down" PROVE (id .. id'-1) \cap given = {}
    BY Zenon
  <2>1. Types /\ IdsKept
    BY DEF IInv
  <2>2. CASE Running
    <3>1. (\A i \in given : i < id) /\ id \in Nat /\ given \subseteq Nat
      BY <2>1, <2>2 DEF IdsKept, Types
    <3> QED
      BY <3>1
  <2>3. CASE stage = "lost"
    <3>1. ~ Accepting
      BY <2>3 DEF Accepting, AcceptOne, AcceptNone, AcceptFails, RunOut, Spare, SpareFails, TurnAway, Reopen,
                  Restore, HttpAccepted, LocalAccepted, LocalCopied, LocalHalf, LocalBoth, Refused, Made, InLoop
    <3>2. Kill
      BY <2>3, <3>1 DEF Next, Create, AddSocket, SetJmp, StartFails, Readable, Connect, Teardown, FreeApp,
                  CloseApp, Signal, SignalLost, SaveId, SaveFails, AllFreed, Exit, InLoop, Destroying
    <3>3. id' = 0 /\ id \in Nat
      BY <2>1, <3>2 DEF Kill, Gone, Types
    <3> QED
      BY <3>3
  <2> QED
    BY <2>1, <2>2, <2>3 DEF Types, Running
<1> QED
  BY <1>1, LifetimeInvariance, PTL DEF Spec, IdsUnique

\* The open descriptors are those that the server knows of, each once, and those
\* a signal left to nobody.
THEOREM DescriptorsKnown == Spec => []DescriptorsOwned
<1>1. IInv => DescriptorsOwned
  BY DEF IInv, Owned, DescriptorsOwned
<1> QED
  BY <1>1, LifetimeInvariance, PTL

\* In the loop epoll knows the apps that exist, every one of them and no other.
THEOREM RegistrationsStayLive == Spec => []RegistrationsLive
<1>1. IInv => RegistrationsLive
  <2> SUFFICES ASSUME IInv PROVE RegistrationsLive
    OBVIOUS
  <2>1. Registered
    BY DEF IInv
  <2>2. \A i \in DOMAIN apps : /\ Entry(i).app = i /\ Entry(i).fd = apps[i].fd
                               /\ Entry(i).file = table[apps[i].fd]
    BY DEF Entry
  <2> QED
    BY <2>1, <2>2 DEF Registered, RegistrationsLive
<1> QED
  BY <1>1, LifetimeInvariance, PTL

\* server_destroy closes all that the server knows of, wherever in the handlers or
\* in server_destroy itself signals came; each of them costs one descriptor at most.
THEOREM DestroyCloses == Spec => []ClosesAllKnown
<1>1. IInv => ClosesAllKnown
  BY DEF IInv, Owned, Strays, ClosesAllKnown
<1> QED
  BY <1>1, LifetimeInvariance, PTL
============================================================================
