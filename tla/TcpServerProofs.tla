-------------------------- MODULE TcpServerProofs --------------------------
(***************************************************************************)
(* Proofs about TcpServer, for any number of workers, clients and          *)
(* descriptors: whichever number accept gives out again, the Task that     *)
(* carries it and the connection behind it stay together.                  *)
(*                                                                         *)
(* Every step of the server is a step of the pool or leaves the pool       *)
(* alone, so the pool's invariant holds here as well, and with it that a   *)
(* Task is in one place at a time.                                         *)
(***************************************************************************)
EXTENDS TcpServer, ThreadPoolProofs, FiniteSetTheorems, WellFoundedInduction

(* The Tasks the pool has, and the one main has made for it. *)
InPool == Queued \cup Held \cup (IF main = "put" THEN {arg} ELSE {})

PendingIsNew == pending # NoTask => main = "idle" /\ pending \notin InPool

TcpInv == /\ IInv /\ TcpTypeOK /\ PendingIsNew
          /\ OwnConnection /\ EveryFdHasItsTask

PoolSteps == \/ Starting \/ Put \/ PushUnlock
             \/ \E w \in Workers : Taking(w) \/ SpuriousWakeup(w)

-----------------------------------------------------------------------------
(* Every set of numbers has a least one: of the intervals that begin at 0  *)
(* and end in the set, one includes no other.                              *)
LEMMA LeastNumber ==
  ASSUME NEW S \in SUBSET Nat, S # {}
  PROVE  \E x \in S : \A y \in S : x <= y
<1> DEFINE Below  == {0 .. x : x \in S}
           Finite == FiniteSubsetsOf(Nat)
           Less   == StrictSubsetOrdering(Nat)
<1>1. \A x \in S : IsFiniteSet(0 .. x)
  BY FS_Interval
<1>2. Below \subseteq Finite /\ Below # {}
  <2>1. \A x \in S : 0 .. x \in SUBSET Nat
    OBVIOUS
  <2>2. \A x \in S : 0 .. x \in Finite
    BY <1>1, <2>1 DEF FiniteSubsetsOf
  <2> QED BY <2>2
<1>3. IsWellFoundedOn(Less, Finite)
  BY FS_StrictSubsetOrderingWellFounded
<1> HIDE DEF Below, Finite, Less
<1>4. PICK I \in Below : \A J \in Below : ~ (<<J, I>> \in Less)
  BY <1>2, <1>3, WFMin
<1>5. PICK x \in S : I = 0 .. x
  BY <1>4 DEF Below
<1>6. SUFFICES ASSUME NEW y \in S, y < x PROVE FALSE
  BY <1>5
<1>7. 0 .. y \in Below /\ 0 .. y \in SUBSET Nat /\ 0 .. x \in SUBSET Nat
  BY DEF Below
<1>8. 0 .. y \subseteq 0 .. x /\ x \in 0 .. x /\ x \notin 0 .. y
  BY <1>6
<1>9. <<0 .. y, I>> \in Less
  BY <1>5, <1>7, <1>8 DEF Less, StrictSubsetOrdering
<1> QED BY <1>4, <1>7, <1>9

LEMMA AcceptFinds ==
  ASSUME Free_fds # {}
  PROVE  (CHOOSE f \in Free_fds : \A g \in Free_fds : f <= g) \in Free_fds
<1>1. Free_fds \in SUBSET Nat
  BY FdsAssumption DEF Free_fds
<1>2. \E f \in Free_fds : \A g \in Free_fds : f <= g
  BY <1>1, LeastNumber
<1> QED BY <1>2

-----------------------------------------------------------------------------
(* What the steps of the pool do to the Tasks in it. *)
LEMMA SamePlaces ==
  ASSUME UNCHANGED <<tasks_, t>>, main' = "put" <=> main = "put",
         main = "put" => arg' = arg,
         \A w \in Workers : pc'[w] \in {"unlock", "run"} <=> pc[w] \in {"unlock", "run"}
  PROVE  InPool' = InPool
BY SameQueue, SameHeld DEF InPool

LEMMA PoolKeeps ==
  ASSUME IInv, PoolSteps
  PROVE  /\ InPool' = InPool
         /\ main = "idle" => main' = "idle"
<1> USE WorkersAssumption DEF IInv, TypeOK, Goto
<1>1. CASE StoreTid
  BY <1>1, SamePlaces DEF StoreTid
<1>2. ASSUME NEW w \in Workers, Create(w) PROVE InPool' = InPool /\ main # "idle"
  BY <1>2, SamePlaces DEF Create
<1>3. CASE Put
  <2>1. /\ tasks_' = Append(tasks_, arg) /\ arg \in Tasks /\ main # "idle"
        /\ main = "put" /\ main' # "put"
    BY <1>3 DEF Put, ArgIsNew
  <2>2. Held' = Held
    BY <1>3, SameHeld DEF Put, Sleeping
  <2>3. Queued' = Queued \cup {arg}
    <3>1. /\ DOMAIN tasks_ = 1 .. Len(tasks_) /\ Len(tasks_) \in Nat
          /\ DOMAIN tasks_' = 1 .. Len(tasks_) + 1
          /\ \A i \in 1 .. Len(tasks_) : tasks_'[i] = tasks_[i]
          /\ tasks_'[Len(tasks_) + 1] = arg
      BY <2>1, AppendProperties, LenProperties
    <3>2. \A i \in DOMAIN tasks_' : i \in DOMAIN tasks_ \/ i = Len(tasks_) + 1
      BY <3>1
    <3>3. \A i \in DOMAIN tasks_ : i \in DOMAIN tasks_'
      BY <3>1
    <3>4. Len(tasks_) + 1 \in DOMAIN tasks_'
      BY <3>1
    <3> QED BY <3>1, <3>2, <3>3, <3>4 DEF Queued
  <2> QED BY <2>1, <2>2, <2>3 DEF InPool
<1>4. CASE PushUnlock
  BY <1>4, SamePlaces DEF PushUnlock
<1>5. ASSUME NEW w \in Workers, GetThreadName(w) PROVE InPool' = InPool /\ main' = main
  BY <1>5, SamePlaces DEF GetThreadName
<1>6. ASSUME NEW w \in Workers, Acquire(w) PROVE InPool' = InPool /\ main' = main
  BY <1>6, SamePlaces DEF Acquire
<1>7. ASSUME NEW w \in Workers, Sleep(w) PROVE InPool' = InPool /\ main' = main
  BY <1>7, SamePlaces DEF Sleep
<1>8. ASSUME NEW w \in Workers, Front(w) PROVE InPool' = InPool /\ main' = main
  <2>1. \A u \in Workers : /\ pc'[u] \in {"unlock", "run"} <=> pc[u] \in {"unlock", "run"}
                           /\ pc[u] \in {"unlock", "run"} => t'[u] = t[u]
    BY <1>8 DEF Front
  <2>2. Held' = Held /\ Queued' = Queued
    BY <1>8, <2>1, SameQueue DEF Held, Front
  <2> QED BY <1>8, <2>2 DEF Front, InPool
<1>9. ASSUME NEW w \in Workers, PopFront(w) PROVE InPool' = InPool /\ main' = main
  <2>1. /\ tasks_ # << >> /\ t[w] = Head(tasks_) /\ tasks_' = Tail(tasks_)
        /\ UNCHANGED <<t, main, arg>>
    BY <1>9 DEF PopFront, FrontIsMine
  <2>2. /\ DOMAIN tasks_ = 1 .. Len(tasks_) /\ Len(tasks_) \in Nat \ {0}
        /\ DOMAIN tasks_' = 1 .. Len(tasks_) - 1
        /\ \A i \in 1 .. Len(tasks_) - 1 : tasks_'[i] = tasks_[i + 1]
        /\ t[w] = tasks_[1]
    BY <2>1, HeadTailProperties, EmptySeq, LenProperties
  <2>3. Queued = Queued' \cup {t[w]}
    <3>1. \A i \in DOMAIN tasks_' : i + 1 \in DOMAIN tasks_ /\ tasks_'[i] = tasks_[i + 1]
      BY <2>2
    <3>2. 1 \in DOMAIN tasks_
      BY <2>2
    <3>3. ASSUME NEW i \in DOMAIN tasks_, i # 1
          PROVE  \E j \in DOMAIN tasks_' : tasks_'[j] = tasks_[i]
      <4>1. i - 1 \in DOMAIN tasks_' /\ (i - 1) + 1 = i
        BY <2>2, <3>3
      <4> QED BY <4>1, <3>1
    <3> QED BY <2>2, <3>1, <3>2, <3>3 DEF Queued
  <2>4. /\ pc'[w] = "unlock" /\ pc[w] = "pop"
        /\ \A u \in Workers : u # w => pc'[u] = pc[u]
    BY <1>9 DEF PopFront
  <2>5. Held' = Held \cup {t[w]}
    BY <2>1, <2>4 DEF Held
  <2> QED BY <2>1, <2>3, <2>5 DEF InPool
<1>10. ASSUME NEW w \in Workers, Unlock(w) PROVE InPool' = InPool /\ main' = main
  BY <1>10, SamePlaces DEF Unlock
<1>11. ASSUME NEW w \in Workers, SpuriousWakeup(w) PROVE InPool' = InPool /\ main' = main
  BY <1>11, SamePlaces DEF SpuriousWakeup
<1>12. main = "idle" => ~StoreTid /\ ~Put /\ ~PushUnlock
  BY DEF StoreTid, Put, PushUnlock
<1> QED BY <1>1, <1>2, <1>3, <1>4, <1>5, <1>6, <1>7, <1>8, <1>9, <1>10, <1>11, <1>12
        DEF PoolSteps, Starting, Taking

(* A Task that ends was in one place, and is nowhere then. *)
LEMMA RunTakesOne ==
  ASSUME IInv, NEW w \in Workers, Run(w)
  PROVE  /\ t[w] \in Tasks /\ t[w] \in InPool
         /\ InPool' = InPool \ {t[w]} /\ main' = main
<1> USE DEF IInv, TypeOK, Goto
<1>1. pc[w] = "run" /\ t[w] \in Tasks /\ t[w] \in Held
  BY DEF Run, HeldAreTasks, Held
<1>2. t[w] \notin Queued /\ (main = "put" => arg # t[w])
  BY <1>1 DEF EachTaskOnce, ArgIsNew
<1>3. \A u \in Workers : u # w /\ pc[u] \in {"unlock", "run"} => t[u] # t[w]
  BY <1>1 DEF EachTaskOnce
<1>4. UNCHANGED <<tasks_, t, main, arg>> /\ pc'[w] = "lock"
  BY DEF Run
<1>5. \A u \in Workers : u # w => pc'[u] = pc[u]
  BY DEF Run
<1>6. Held' = Held \ {t[w]}
  BY <1>1, <1>3, <1>4, <1>5 DEF Held
<1> QED BY <1>1, <1>2, <1>4, <1>6, SameQueue DEF InPool

(* In flight is what the pool has and main keeps, now and in the next state. *)
LEMMA InFlightIs ==
  ASSUME IInv
  PROVE  InFlight = InPool \cup ({pending} \ {NoTask}) /\ InPool \subseteq Tasks
<1>1. Queued \subseteq Tasks
  BY LenProperties DEF Queued, IInv, TypeOK
<1>2. Held \subseteq Tasks
  BY DEF Held, IInv, HeldAreTasks
<1>3. main = "put" => arg \in Tasks
  BY DEF IInv, ArgIsNew
<1> QED BY <1>1, <1>2, <1>3, TasksAssumption DEF InFlight, InPool

LEMMA InFlightIsNext ==
  ASSUME IInv'
  PROVE  InFlight' = InPool' \cup ({pending'} \ {NoTask})
<1>1. Queued' \subseteq Tasks
  BY LenProperties DEF Queued, IInv, TypeOK
<1>2. Held' \subseteq Tasks
  BY DEF Held, IInv, HeldAreTasks
<1>3. main' = "put" => arg' \in Tasks
  BY DEF IInv, ArgIsNew
<1> QED BY <1>1, <1>2, <1>3, TasksAssumption DEF InFlight, InPool

(* What is in flight and the descriptor table are all the two properties   *)
(* speak of.                                                               *)
LEMMA Same ==
  ASSUME OwnConnection, EveryFdHasItsTask, InFlight' = InFlight, fds' = fds
  PROVE  OwnConnection' /\ EveryFdHasItsTask'
BY DEF OwnConnection, EveryFdHasItsTask

LEMMA TcpInductive ==
  ASSUME Tasks = SocketTasks, TcpInv, [TcpNext]_allvars
  PROVE  TcpInv'
<1> USE DEF TcpInv, TcpTypeOK, tcpvars
<1>1. ASSUME PoolSteps, UNCHANGED tcpvars PROVE TcpInv'
  <2>1. [Next]_vars
    BY <1>1 DEF PoolSteps, Next, Pushing
  <2>2. IInv'
    BY <2>1, Inductive
  <2>3. InPool' = InPool /\ (main = "idle" => main' = "idle")
    BY <1>1, PoolKeeps
  <2>4. InFlight' = InFlight
    BY <1>1, <2>2, <2>3, InFlightIs, InFlightIsNext
  <2>5. PendingIsNew'
    BY <1>1, <2>3 DEF PendingIsNew
  <2> QED BY <1>1, <2>2, <2>4, <2>5, Same
<1>2. ASSUME UNCHANGED <<vars, fds, pending>>, TcpTypeOK' PROVE TcpInv'
  <2>1. IInv'
    BY <1>2, Inductive
  <2>2. InPool' = InPool /\ main' = main
    BY <1>2 DEF vars, InPool, Queued, Held
  <2>3. InFlight' = InFlight
    BY <1>2, <2>1, <2>2, InFlightIs, InFlightIsNext
  <2>4. PendingIsNew'
    BY <1>2, <2>2 DEF PendingIsNew
  <2> QED BY <1>2, <2>1, <2>3, <2>4, Same
<1>3. CASE Accept
  <2> DEFINE fd == CHOOSE f \in Free_fds : \A g \in Free_fds : f <= g
             c  == Head(backlog)
             k  == [fd |-> fd, conn |-> c]
  <2>1. fd \in Fds /\ fds[fd] = NoConn
    BY <1>3, AcceptFinds DEF Accept, Free_fds
  <2>2. c \in Conns /\ Tail(backlog) \in Seq(Conns) /\ c # NoConn
    BY <1>3, HeadTailProperties, ConnsAssumption DEF Accept
  <2>3. /\ main = "idle" /\ pending = NoTask
        /\ fds' = [fds EXCEPT ![fd] = c] /\ pending' = k
        /\ backlog' = Tail(backlog)
        /\ UNCHANGED <<vars, peer, request, closed, io, up>>
    BY <1>3 DEF Accept
  <2> HIDE DEF fd, c
  <2>4. k \in SocketTasks /\ k # NoTask /\ k.fd = fd /\ k.conn = c
    BY <2>1, <2>2, TasksAssumption DEF SocketTasks
  <2>5. IInv' /\ InPool' = InPool /\ main' = main
    BY <2>3, Inductive DEF vars, InPool, Queued, Held
  <2> HIDE DEF k
  <2>6. InFlight' = InFlight \cup {k}
    BY <2>3, <2>4, <2>5, InFlightIs, InFlightIsNext
  <2>7. k \notin InFlight /\ \A j \in InFlight : j \in SocketTasks /\ j.fd # fd
    <3>1. \A j \in InFlight : fds[j.fd] = j.conn
      BY DEF OwnConnection
    <3>2. InFlight \subseteq SocketTasks
      BY <2>3, InFlightIs
    <3>3. \A j \in SocketTasks : j.conn # NoConn
      BY ConnsAssumption DEF SocketTasks
    <3> QED BY <2>1, <2>4, <3>1, <3>2, <3>3
  <2>8. TcpTypeOK'
    BY <2>1, <2>2, <2>3, <2>4
  <2>9. PendingIsNew'
    BY <2>3, <2>5, <2>7, InFlightIs DEF PendingIsNew
  <2>10. OwnConnection'
    BY <2>1, <2>3, <2>4, <2>6, <2>7 DEF OwnConnection, SocketTasks
  <2>11. EveryFdHasItsTask'
    BY <2>1, <2>3, <2>4, <2>6 DEF EveryFdHasItsTask
  <2> QED BY <2>5, <2>8, <2>9, <2>10, <2>11
<1>4. CASE PushTask
  <2>1. /\ pending \in Tasks /\ pending # NoTask /\ PushLock(pending) /\ pending' = NoTask
        /\ UNCHANGED <<fds, backlog, peer, request, closed, io, up>>
    BY <1>4 DEF PushTask
  <2>2. IInv'
    BY <2>1, Inductive DEF Next, Pushing
  <2>3. main = "idle" /\ main' = "put" /\ arg' = pending /\ UNCHANGED <<tasks_, pc, t>>
    BY <2>1 DEF PushLock
  <2>4. InPool' = InPool \cup {pending}
    BY <2>3 DEF InPool, Queued, Held
  <2>5. InFlight' = InFlight
    BY <2>1, <2>2, <2>4, InFlightIs, InFlightIsNext
  <2>6. PendingIsNew'
    BY <2>1 DEF PendingIsNew
  <2>7. TcpTypeOK'
    BY <2>1
  <2> QED BY <2>1, <2>2, <2>5, <2>6, <2>7, Same
<1>5. ASSUME NEW w \in Workers, Close(w) PROVE TcpInv'
  <2>1. /\ Run(w) /\ fds' = [fds EXCEPT ![t[w].fd] = NoConn]
        /\ closed' = closed \cup ({Conn(w)} \ {NoConn})
        /\ io' = [io EXCEPT ![w] = "read"]
        /\ UNCHANGED <<backlog, peer, request, pending, up>>
    BY <1>5 DEF Close, Statement
  <2>2. IInv'
    BY <2>1, Inductive DEF Next
  <2>3. /\ t[w] \in Tasks /\ t[w] \in InPool
        /\ InPool' = InPool \ {t[w]} /\ main' = main
    BY <2>1, RunTakesOne
  <2>4. InFlight' = InFlight \ {t[w]} /\ t[w] \in InFlight
    BY <2>1, <2>2, <2>3, InFlightIs, InFlightIsNext DEF PendingIsNew
  <2>5. t[w].fd \in Fds /\ Conn(w) \in Conns \cup {NoConn}
    BY <2>3 DEF SocketTasks, Conn
  <2>6. TcpTypeOK'
    BY <2>1, <2>5
  <2>7. PendingIsNew'
    BY <2>1, <2>3 DEF PendingIsNew
  <2>8. \A k \in InFlight : k \in SocketTasks /\ fds[k.fd] = k.conn
    BY <2>4, InFlightIs DEF OwnConnection
  <2>9. \A k \in InFlight' : k.fd # t[w].fd
    <3>1. ASSUME NEW k \in InFlight, k.fd = t[w].fd PROVE k = t[w]
      <4>1. k.conn = t[w].conn /\ k \in SocketTasks /\ t[w] \in SocketTasks
        BY <2>4, <2>8, <3>1
      <4> QED BY <3>1, <4>1 DEF SocketTasks
    <3> QED BY <2>4, <3>1
  <2>10. OwnConnection'
    BY <2>1, <2>4, <2>8, <2>9 DEF OwnConnection, SocketTasks
  <2>11. EveryFdHasItsTask'
    BY <2>1, <2>4, <2>5 DEF EveryFdHasItsTask
  <2> QED BY <2>2, <2>6, <2>7, <2>10, <2>11
<1>6. ASSUME NEW w \in Workers, Read(w) PROVE TcpInv'
  BY <1>2, <1>6 DEF Read, ReadRequest, Statement
<1>7. ASSUME NEW w \in Workers, LogQuit(w) PROVE TcpInv'
  BY <1>2, <1>7 DEF LogQuit
<1>8. ASSUME NEW w \in Workers, Write(w) PROVE TcpInv'
  BY <1>2, <1>8 DEF Write, Statement
<1>9. ASSUME NEW c \in Conns, Client(c) PROVE TcpInv'
  <2>1. CASE Connect(c)
    BY <1>2, <2>1, AppendProperties DEF Connect
  <2>2. CASE Send(c)
    BY <1>2, <2>2 DEF Send
  <2>3. CASE Quit(c)
    BY <1>2, <2>3 DEF Quit
  <2>4. CASE Again(c)
    BY <1>2, <2>4 DEF Again
  <2> QED BY <1>9, <2>1, <2>2, <2>3, <2>4 DEF Client
<1>10. CASE UNCHANGED allvars
  BY <1>2, <1>10 DEF allvars
<1> QED
  BY <1>1, <1>3, <1>4, <1>5, <1>6, <1>7, <1>8, <1>9, <1>10
  DEF TcpNext, MainThread, Worker, Ended, PoolSteps

LEMMA TcpStart == TcpInit => TcpInv
<1> SUFFICES ASSUME TcpInit PROVE TcpInv
  OBVIOUS
<1>1. IInv
  BY PoolStart DEF TcpInit
<1>2. InFlight = {}
  <2>1. tasks_ = << >> /\ DOMAIN tasks_ = {}
    BY EmptySeq, LenProperties DEF TcpInit, Init
  <2>2. Queued = {} /\ Held = {}
    BY <2>1 DEF TcpInit, Init, Queued, Held
  <2> QED BY <2>2 DEF TcpInit, Init, InFlight
<1>3. << >> \in Seq(Conns)
  BY EmptySeq
<1>4. TcpTypeOK
  BY <1>3 DEF TcpInit, TcpTypeOK
<1> QED
  BY <1>1, <1>2, <1>4
  DEF TcpInit, TcpInv, PendingIsNew, OwnConnection, EveryFdHasItsTask

LEMMA TcpInvariant ==
  ASSUME Tasks = SocketTasks
  PROVE  TcpSpec => []TcpInv
<1>1. TcpInit => TcpInv
  BY TcpStart
<1>2. TcpInv /\ [TcpNext]_allvars => TcpInv'
  BY TcpInductive
<1> QED BY <1>1, <1>2, PTL DEF TcpSpec

-----------------------------------------------------------------------------
(* What this module adds to the pool keeps its type.                       *)
THEOREM TcpTypeCorrect ==
  ASSUME Tasks = SocketTasks
  PROVE  TcpSpec => []TcpTypeOK
<1>1. TcpInv => TcpTypeOK
  BY DEF TcpInv
<1> QED BY <1>1, TcpInvariant, PTL

(* Task.hpp:18, 24 and 33: although accept gives the numbers of closed     *)
(* descriptors out again, a Task only ever uses its own connection.        *)
THEOREM TasksOwnTheirConnection ==
  ASSUME Tasks = SocketTasks
  PROVE  TcpSpec => []OwnConnection
<1>1. TcpInv => OwnConnection
  BY DEF TcpInv
<1> QED BY <1>1, TcpInvariant, PTL

(* TcpServer.hpp:91 and Task.hpp:33: no open descriptor is without a Task  *)
(* that will close it.                                                     *)
THEOREM NoFdIsLost ==
  ASSUME Tasks = SocketTasks
  PROVE  TcpSpec => []EveryFdHasItsTask
<1>1. TcpInv => EveryFdHasItsTask
  BY DEF TcpInv
<1> QED BY <1>1, TcpInvariant, PTL
=============================================================================
