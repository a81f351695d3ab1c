-------------------------- MODULE ThreadPoolProofs -------------------------
(***************************************************************************)
(* What holds of ThreadPool for every number of workers and of tasks in    *)
(* flight, with and without spurious wakeups.                              *)
(***************************************************************************)
EXTENDS ThreadPool, SequenceTheorems, FiniteSetTheorems, TLAPS

-----------------------------------------------------------------------------
(* The inductive invariant: the mutex protects the queue between its test  *)
(* and the unlock, so the task a worker has read is still the front when   *)
(* the worker removes it.                                                  *)
Owner == /\ \A w \in Workers : pc[w] \in {"test", "pop", "unlock"} <=> mutex_ = w
         /\ main \in {"put", "unlock"} <=> mutex_ = Main

FrontIsMine == \A w \in Workers :
                 pc[w] = "pop" => tasks_ # << >> /\ t[w] = Head(tasks_)

ArgIsNew == /\ main = "store" => arg \in Workers
            /\ main = "put" => arg \in Tasks /\ arg \notin Queued \cup Held

HeldAreTasks == \A w \in Workers : pc[w] \in {"unlock", "run"} => t[w] \in Tasks

IInv == /\ TypeOK /\ Owner /\ FrontIsMine /\ ArgIsNew /\ HeldAreTasks
        /\ EachTaskOnce

LEMMA QueuedIs ==
  ASSUME tasks_ \in Seq(Tasks)
  PROVE  Queued = {tasks_[i] : i \in 1 .. Len(tasks_)} /\ Len(tasks_) \in Nat
BY LenProperties DEF Queued

LEMMA SameQueue ==
  ASSUME UNCHANGED tasks_
  PROVE  Queued' = Queued
BY DEF Queued

LEMMA SameHeld ==
  ASSUME UNCHANGED t,
         \A w \in Workers : pc'[w] \in {"unlock", "run"} <=> pc[w] \in {"unlock", "run"}
  PROVE  Held' = Held
BY DEF Held

(* A step that leaves the queue, the tasks at work and the argument alone  *)
(* keeps the part of the invariant that is about tasks.                    *)
Placed == FrontIsMine /\ HeldAreTasks /\ EachTaskOnce

LEMMA PlacedStays ==
  ASSUME Placed, UNCHANGED <<tasks_, t>>,
         \A w \in Workers : /\ pc'[w] \in {"unlock", "run"} <=> pc[w] \in {"unlock", "run"}
                            /\ pc'[w] = "pop" => pc[w] = "pop"
  PROVE  Placed' /\ Queued' = Queued /\ Held' = Held
<1>1. Queued' = Queued /\ Held' = Held
  BY SameQueue, SameHeld
<1>2. FrontIsMine'
  BY DEF Placed, FrontIsMine
<1>3. HeldAreTasks'
  BY DEF Placed, HeldAreTasks
<1>4. EachTaskOnce'
  BY <1>1 DEF Placed, EachTaskOnce
<1> QED BY <1>1, <1>2, <1>3, <1>4 DEF Placed

LEMMA Inductive ==
  ASSUME IInv, [Next]_vars
  PROVE  IInv'
<1> USE WorkersAssumption DEF IInv, TypeOK, Owner, ArgIsNew, Goto
<1>0. Placed
  BY DEF Placed
<1>1. CASE StoreTid
  <2>1. Placed' /\ Queued' = Queued /\ Held' = Held
    BY <1>0, <1>1, PlacedStays DEF StoreTid
  <2> QED BY <1>1, <2>1 DEF StoreTid, Placed
<1>2. ASSUME NEW w \in Workers, Create(w) PROVE IInv'
  <2>1. Placed' /\ Queued' = Queued /\ Held' = Held
    BY <1>0, <1>2, PlacedStays DEF Create
  <2> QED BY <1>2, <2>1 DEF Create, Placed
<1>3. ASSUME NEW k \in Tasks, PushLock(k) PROVE IInv'
  <2>1. Placed' /\ Queued' = Queued /\ Held' = Held
    BY <1>0, <1>3, PlacedStays DEF PushLock
  <2> QED BY <1>3, <2>1 DEF PushLock, Placed
<1>4. CASE Put
  <2>1. /\ pc' \in [Workers -> {"none", "lookup", "lock", "test", "asleep",
                                "relock", "pop", "unlock", "run"}]
        /\ \A w \in Workers : pc'[w] = pc[w] \/ (pc[w] = "asleep" /\ pc'[w] = "relock")
    BY <1>4 DEF Put, Sleeping
  <2>2. arg \in Tasks /\ arg \notin Queued \cup Held
    BY <1>4 DEF Put
  <2>3. /\ tasks_' = Append(tasks_, arg) /\ tasks_' \in Seq(Tasks)
        /\ Len(tasks_') = Len(tasks_) + 1 /\ Len(tasks_) \in Nat
        /\ \A i \in 1 .. Len(tasks_) : tasks_'[i] = tasks_[i]
        /\ tasks_'[Len(tasks_) + 1] = arg
    BY <1>4, <2>2, AppendProperties, LenProperties DEF Put
  <2>4. Held' = Held
    BY <1>4, <2>1, SameHeld DEF Put
  <2>5. FrontIsMine'
    <3>1. \A w \in Workers : pc[w] # "pop"
      BY <1>4 DEF Put
    <3> QED BY <2>1, <3>1 DEF FrontIsMine
  <2>6. HeldAreTasks'
    BY <1>4, <2>1 DEF HeldAreTasks, Put
  <2>7. EachTaskOnce'
    <3>1. DOMAIN tasks_ = 1 .. Len(tasks_) /\ DOMAIN tasks_' = 1 .. Len(tasks_) + 1
      BY <2>3, LenProperties
    <3>2. \A i \in 1 .. Len(tasks_) : tasks_[i] # arg
      BY <2>2, <3>1 DEF Queued
    <3>3. \A i, j \in DOMAIN tasks_' : tasks_'[i] = tasks_'[j] => i = j
      <4> SUFFICES ASSUME NEW i \in DOMAIN tasks_', NEW j \in DOMAIN tasks_',
                          tasks_'[i] = tasks_'[j]
                   PROVE  i = j
        OBVIOUS
      <4>1. i \in 1 .. Len(tasks_) \/ i = Len(tasks_) + 1
        BY <2>3, <3>1
      <4>2. j \in 1 .. Len(tasks_) \/ j = Len(tasks_) + 1
        BY <2>3, <3>1
      <4> QED BY <2>3, <3>1, <3>2, <4>1, <4>2 DEF EachTaskOnce
    <3>4. Queued' \subseteq Queued \cup {arg}
      <4>1. \A i \in DOMAIN tasks_' : i \in DOMAIN tasks_ \/ i = Len(tasks_) + 1
        BY <2>3, <3>1
      <4> QED BY <2>3, <3>1, <4>1 DEF Queued
    <3> QED BY <1>4, <2>1, <2>2, <2>4, <3>3, <3>4 DEF EachTaskOnce, Put
  <2> QED BY <1>4, <2>1, <2>3, <2>5, <2>6, <2>7 DEF Put
<1>5. CASE PushUnlock
  <2>1. Placed' /\ Queued' = Queued /\ Held' = Held
    BY <1>0, <1>5, PlacedStays DEF PushUnlock
  <2> QED BY <1>5, <2>1 DEF PushUnlock, Placed
<1>6. ASSUME NEW w \in Workers, GetThreadName(w) PROVE IInv'
  <2>1. Placed' /\ Queued' = Queued /\ Held' = Held
    BY <1>0, <1>6, PlacedStays DEF GetThreadName
  <2> QED BY <1>6, <2>1 DEF GetThreadName, Placed
<1>7. ASSUME NEW w \in Workers, Acquire(w) PROVE IInv'
  <2>1. Placed' /\ Queued' = Queued /\ Held' = Held
    BY <1>0, <1>7, PlacedStays DEF Acquire
  <2> QED BY <1>7, <2>1 DEF Acquire, Placed
<1>8. ASSUME NEW w \in Workers, Sleep(w) PROVE IInv'
  <2>1. Placed' /\ Queued' = Queued /\ Held' = Held
    BY <1>0, <1>8, PlacedStays DEF Sleep
  <2> QED BY <1>8, <2>1 DEF Sleep, Placed
<1>9. ASSUME NEW w \in Workers, Front(w) PROVE IInv'
  <2>1. Head(tasks_) \in Tasks
    BY <1>9, HeadTailProperties DEF Front
  <2>2. Queued' = Queued
    BY <1>9, SameQueue DEF Front
  <2>3. \A u \in Workers : pc[u] \in {"unlock", "run"} =>
          pc'[u] = pc[u] /\ t'[u] = t[u]
    BY <1>9 DEF Front
  <2>4. \A u \in Workers : pc'[u] \in {"unlock", "run"} => pc[u] \in {"unlock", "run"}
    BY <1>9 DEF Front
  <2>5. Held' = Held
    BY <2>3, <2>4 DEF Held
  <2>6. FrontIsMine'
    BY <1>9 DEF Front, FrontIsMine
  <2>7. HeldAreTasks'
    BY <2>3, <2>4 DEF HeldAreTasks
  <2>8. EachTaskOnce'
    BY <1>9, <2>2, <2>3, <2>4, <2>5 DEF EachTaskOnce, Front
  <2> QED BY <1>9, <2>1, <2>2, <2>5, <2>6, <2>7, <2>8 DEF Front
<1>10. ASSUME NEW w \in Workers, PopFront(w) PROVE IInv'
  <2>1. tasks_ # << >> /\ t[w] = Head(tasks_)
    BY <1>10 DEF PopFront, FrontIsMine
  <2>2. /\ tasks_' = Tail(tasks_) /\ tasks_' \in Seq(Tasks)
        /\ Len(tasks_') = Len(tasks_) - 1 /\ Len(tasks_) \in Nat \ {0}
        /\ \A i \in 1 .. Len(tasks_) - 1 : tasks_'[i] = tasks_[i + 1]
        /\ t[w] = tasks_[1] /\ t[w] \in Tasks
    BY <1>10, <2>1, HeadTailProperties, EmptySeq DEF PopFront
  <2>3. DOMAIN tasks_ = 1 .. Len(tasks_) /\ DOMAIN tasks_' = 1 .. Len(tasks_) - 1
    BY <2>2, LenProperties
  <2>4. \A i \in DOMAIN tasks_' : /\ i + 1 \in DOMAIN tasks_ /\ i + 1 # 1 /\ i \in Nat
                                  /\ tasks_'[i] = tasks_[i + 1]
    BY <2>2, <2>3
  <2>5. 1 \in DOMAIN tasks_
    BY <2>2, <2>3
  <2>6. \A i, j \in DOMAIN tasks_' : tasks_'[i] = tasks_'[j] => i = j
    <3> SUFFICES ASSUME NEW i \in DOMAIN tasks_', NEW j \in DOMAIN tasks_',
                        tasks_'[i] = tasks_'[j]
                 PROVE  i = j
      OBVIOUS
    <3>1. i + 1 = j + 1
      BY <2>4 DEF EachTaskOnce
    <3> QED BY <2>4, <3>1
  <2>7. Queued' \subseteq Queued /\ t[w] \notin Queued' /\ t[w] \in Queued
    BY <2>2, <2>4, <2>5 DEF EachTaskOnce, Queued
  <2>8. \A u \in Workers : u # w => pc'[u] = pc[u]
    BY <1>10 DEF PopFront
  <2>9. pc'[w] = "unlock" /\ t' = t /\ t[w] \notin Held
    BY <1>10, <2>7 DEF PopFront, EachTaskOnce
  <2>10. Held' \subseteq Held \cup {t[w]}
    BY <2>8, <2>9 DEF Held
  <2>11. \A u \in Workers : u # w /\ pc[u] \in {"unlock", "run"} => t[u] # t[w]
    BY <2>9 DEF Held
  <2>12. EachTaskOnce'
    <3>1. Queued' \cap Held' = {}
      BY <2>7, <2>10 DEF EachTaskOnce
    <3>2. \A u, v \in Workers :
            /\ pc'[u] \in {"unlock", "run"} /\ pc'[v] \in {"unlock", "run"}
            /\ t'[u] = t'[v]
            => u = v
      BY <2>8, <2>9, <2>11 DEF EachTaskOnce
    <3> QED BY <2>6, <3>1, <3>2 DEF EachTaskOnce
  <2>13. FrontIsMine'
    BY <1>10, <2>8 DEF PopFront, FrontIsMine
  <2>14. HeldAreTasks'
    BY <2>2, <2>8, <2>9 DEF HeldAreTasks
  <2>15. Owner' /\ ArgIsNew' /\ TypeOK'
    BY <1>10, <2>2, <2>9 DEF PopFront
  <2> QED BY <2>12, <2>13, <2>14, <2>15
<1>11. ASSUME NEW w \in Workers, Unlock(w) PROVE IInv'
  <2>1. Placed' /\ Queued' = Queued /\ Held' = Held
    BY <1>0, <1>11, PlacedStays DEF Unlock
  <2> QED BY <1>11, <2>1 DEF Unlock, Placed
<1>12. ASSUME NEW w \in Workers, Run(w) PROVE IInv'
  <2>1. Queued' = Queued /\ t' = t
    BY <1>12, SameQueue DEF Run
  <2>2. \A u \in Workers : /\ pc'[u] \in {"unlock", "run"} => pc[u] \in {"unlock", "run"}
                           /\ pc'[u] = "pop" => pc[u] = "pop"
    BY <1>12 DEF Run
  <2>3. Held' \subseteq Held
    BY <2>1, <2>2 DEF Held
  <2>4. FrontIsMine' /\ HeldAreTasks' /\ EachTaskOnce'
    BY <1>12, <2>1, <2>2, <2>3 DEF FrontIsMine, HeldAreTasks, EachTaskOnce, Run
  <2> QED BY <1>12, <2>1, <2>3, <2>4 DEF Run
<1>13. ASSUME NEW w \in Workers, SpuriousWakeup(w) PROVE IInv'
  <2>1. Placed' /\ Queued' = Queued /\ Held' = Held
    BY <1>0, <1>13, PlacedStays DEF SpuriousWakeup
  <2> QED BY <1>13, <2>1 DEF SpuriousWakeup, Placed
<1>14. CASE UNCHANGED vars
  <2>1. Placed' /\ Queued' = Queued /\ Held' = Held
    BY <1>0, <1>14, PlacedStays DEF vars
  <2> QED BY <1>14, <2>1 DEF vars, Placed
<1> QED BY <1>1, <1>2, <1>3, <1>4, <1>5, <1>6, <1>7, <1>8, <1>9, <1>10, <1>11, <1>12,
           <1>13, <1>14 DEF Next, Starting, Pushing, Taking

LEMMA PoolStart == Init => IInv
<1> SUFFICES ASSUME Init PROVE IInv
  OBVIOUS
<1>1. tasks_ \in Seq(Tasks) /\ DOMAIN tasks_ = {}
  BY EmptySeq, LenProperties DEF Init
<1>2. Queued = {} /\ Held = {}
  BY <1>1 DEF Init, Queued, Held
<1> QED BY <1>1, <1>2, WorkersAssumption
        DEF Init, IInv, TypeOK, Owner, FrontIsMine, ArgIsNew, HeldAreTasks, EachTaskOnce

LEMMA Invariant == Spec => []IInv
<1>1. IInv /\ [Next]_vars => IInv'
  BY Inductive
<1> QED BY PoolStart, <1>1, PTL DEF Spec

(* Every variable keeps to its range.                                      *)
THEOREM TypeCorrect == Spec => []TypeOK
<1>1. IInv => TypeOK
  BY DEF IInv
<1> QED BY <1>1, Invariant, PTL

(* No task is ever in the queue twice, with two workers, or both queued    *)
(* and taken.                                                              *)
THEOREM TasksAreUnique == Spec => []EachTaskOnce
<1>1. IInv => EachTaskOnce
  BY DEF IInv
<1> QED BY <1>1, Invariant, PTL

(* Whatever the interleaving of sleeps and signals, a queued task finds a  *)
(* worker awake.                                                           *)
THEOREM WakeupsAreNotLost == Spec => []NoLostWakeup
<1> USE DEF NoLostWakeup, Sleeping, Goto
<1>1. Init => NoLostWakeup
  BY DEF Init
<1>2. ASSUME TypeOK, NoLostWakeup, [Next]_vars PROVE NoLostWakeup'
  <2> USE DEF TypeOK
  <2>1. CASE StoreTid
    BY <1>2, <2>1 DEF StoreTid
  <2>2. ASSUME NEW w \in Workers, Create(w) PROVE NoLostWakeup'
    BY <1>2, <2>2 DEF Create
  <2>3. ASSUME NEW k \in Tasks, PushLock(k) PROVE NoLostWakeup'
    BY <1>2, <2>3 DEF PushLock
  <2>4. CASE Put
    <3>1. CASE Sleeping = {}
      BY <1>2, <2>4, <3>1, WorkersAssumption DEF Put
    <3>2. CASE Sleeping # {}
      BY <1>2, <2>4, <3>2 DEF Put
    <3> QED BY <3>1, <3>2
  <2>5. CASE PushUnlock
    BY <1>2, <2>5 DEF PushUnlock
  <2>6. ASSUME NEW w \in Workers, Taking(w) PROVE NoLostWakeup'
    <3>1. CASE GetThreadName(w) BY <1>2, <3>1 DEF GetThreadName
    <3>2. CASE Acquire(w)       BY <1>2, <3>2 DEF Acquire
    <3>3. CASE Sleep(w)         BY <3>3 DEF Sleep
    <3>4. CASE Front(w)         BY <1>2, <3>4 DEF Front
    <3>5. CASE PopFront(w)      BY <1>2, <3>5 DEF PopFront
    <3>6. CASE Unlock(w)        BY <1>2, <3>6 DEF Unlock
    <3> QED BY <2>6, <3>1, <3>2, <3>3, <3>4, <3>5, <3>6 DEF Taking
  <2>7. ASSUME NEW w \in Workers, Run(w) PROVE NoLostWakeup'
    BY <1>2, <2>7 DEF Run
  <2>8. ASSUME NEW w \in Workers, SpuriousWakeup(w) PROVE NoLostWakeup'
    BY <1>2, <2>8 DEF SpuriousWakeup
  <2>9. CASE UNCHANGED vars
    BY <1>2, <2>9 DEF vars
  <2> QED BY <1>2, <2>1, <2>2, <2>3, <2>4, <2>5, <2>6, <2>7, <2>8, <2>9 DEF Next, Starting, Pushing
<1> QED BY <1>1, <1>2, TypeCorrect, PTL DEF Spec

-----------------------------------------------------------------------------
(* A queue that holds no task twice is no longer than there are tasks. *)
LEMMA OnceMeansBounded ==
  ASSUME NEW q \in Seq(Tasks), IsFiniteSet(Tasks),
         \A i, j \in DOMAIN q : q[i] = q[j] => i = j
  PROVE  Len(q) <= Cardinality(Tasks)
<1>1. Len(q) \in Nat /\ DOMAIN q = 1 .. Len(q) /\ q \in [1 .. Len(q) -> Tasks]
  BY LenProperties
<1>2. q \in Injection(1 .. Len(q), Tasks)
  BY <1>1 DEF Injection, IsInjective
<1>3. Cardinality(1 .. Len(q)) <= Cardinality(Tasks)
  BY <1>2, FS_Injection
<1>4. Cardinality(1 .. Len(q)) = IF 1 > Len(q) THEN 0 ELSE Len(q) - 1 + 1
  BY <1>1, FS_Interval
<1> QED BY <1>1, <1>3, <1>4

(* Where no worker stands between reading the front and removing it, before *)
(* and after, what is on offer is what is in the queue.                     *)
LEMMA OfferStays ==
  ASSUME UNCHANGED tasks_,
         \A w \in Workers : pc'[w] = "pop" <=> pc[w] = "pop"
  PROVE  OnOffer' = OnOffer
BY DEF OnOffer

(* ThreadPool.hpp: for every number of workers, and tasks, the pool hands  *)
(* every task out once and in the order of the pushes.                     *)
THEOREM PoolRefinesFifo ==
  ASSUME IsFiniteSet(Tasks)
  PROVE  Spec => ImplementsBoundedFifo
<1> USE WorkersAssumption DEF Goto
<1>1. Init => Fifo!Init
  BY DEF Init, Fifo!Init, OnOffer
<1>2. ASSUME IInv, IInv', [Next]_vars
      PROVE  [Fifo!Next]_(Fifo!vars)
  <2> USE <1>2 DEF Fifo!vars, IInv, TypeOK, Owner
  <2>1. CASE Put
    <3>1. OnOffer = tasks_ /\ OnOffer' = tasks_' /\ t' = t
      BY <2>1 DEF Put, OnOffer, Sleeping
    <3>2. arg \in Tasks /\ tasks_' = Append(tasks_, arg)
      BY <2>1 DEF Put, ArgIsNew
    <3>3. Len(tasks_') = Len(tasks_) + 1 /\ Len(tasks_) \in Nat
      BY <3>2, AppendProperties, LenProperties
    <3>4. Len(tasks_') <= Cardinality(Tasks)
      BY OnceMeansBounded DEF EachTaskOnce
    <3>5. Cardinality(Tasks) \in Nat
      BY FS_CardinalityType
    <3>6. Fifo!Enqueue(arg)
      BY <3>1, <3>2, <3>3, <3>4, <3>5 DEF Fifo!Enqueue
    <3> QED BY <3>2, <3>6 DEF Fifo!Next
  <2>2. ASSUME NEW w \in Workers, Front(w) PROVE [Fifo!Next]_(Fifo!vars)
    <3>1. OnOffer = tasks_ /\ OnOffer' = Tail(tasks_)
      BY <2>2 DEF Front, OnOffer
    <3>2. Fifo!Dequeue(w)
      BY <2>2, <3>1 DEF Front, Fifo!Dequeue
    <3> QED BY <3>2 DEF Fifo!Next
  <2>3. ASSUME NEW w \in Workers, PopFront(w) PROVE UNCHANGED <<OnOffer, t>>
    BY <2>3 DEF PopFront, OnOffer
  <2>4. CASE StoreTid
    BY <2>4, OfferStays DEF StoreTid
  <2>5. ASSUME NEW w \in Workers, Create(w) PROVE UNCHANGED <<OnOffer, t>>
    BY <2>5, OfferStays DEF Create
  <2>6. ASSUME NEW k \in Tasks, PushLock(k) PROVE UNCHANGED <<OnOffer, t>>
    BY <2>6, OfferStays DEF PushLock
  <2>7. CASE PushUnlock
    BY <2>7, OfferStays DEF PushUnlock
  <2>8. ASSUME NEW w \in Workers, GetThreadName(w) PROVE UNCHANGED <<OnOffer, t>>
    BY <2>8, OfferStays DEF GetThreadName
  <2>9. ASSUME NEW w \in Workers, Acquire(w) PROVE UNCHANGED <<OnOffer, t>>
    BY <2>9, OfferStays DEF Acquire
  <2>10. ASSUME NEW w \in Workers, Sleep(w) PROVE UNCHANGED <<OnOffer, t>>
    BY <2>10, OfferStays DEF Sleep
  <2>11. ASSUME NEW w \in Workers, Unlock(w) PROVE UNCHANGED <<OnOffer, t>>
    BY <2>11, OfferStays DEF Unlock
  <2>12. ASSUME NEW w \in Workers, Run(w) PROVE UNCHANGED <<OnOffer, t>>
    BY <2>12, OfferStays DEF Run
  <2>13. ASSUME NEW w \in Workers, SpuriousWakeup(w) PROVE UNCHANGED <<OnOffer, t>>
    BY <2>13, OfferStays DEF SpuriousWakeup
  <2>14. CASE UNCHANGED vars
    BY <2>14, OfferStays DEF vars
  <2> QED BY <2>1, <2>2, <2>3, <2>4, <2>5, <2>6, <2>7, <2>8, <2>9, <2>10, <2>11, <2>12,
             <2>13, <2>14 DEF Next, Starting, Pushing, Taking
<1> QED BY <1>1, <1>2, Invariant, PTL DEF Spec, ImplementsBoundedFifo, Fifo!Spec
=============================================================================
