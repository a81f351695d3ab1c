-------------------------- MODULE BlockQueueProofs -------------------------
(***************************************************************************)
(* What holds of BlockQueue for every number of producers and consumers,   *)
(* with and without spurious wakeups, also after pops of an empty queue.   *)
(***************************************************************************)
EXTENDS BlockQueue, SequenceTheorems, TLAPS

-----------------------------------------------------------------------------
(* The size of _q as the code sees it.                                     *)
DebtOnEmpty == debt > 0 => q = << >>

LEMMA SizeValue ==
  ASSUME NEW s \in Seq(Values), NEW d \in 0 .. MaxDebt,
         Len(s) <= MaxCap, d > 0 => s = << >>
  PROVE  Size(s, d) = IF d = 0 THEN Len(s) ELSE SizeMod - d
<1>1. /\ MaxCap \in Nat /\ MaxDebt \in Nat /\ d \in Nat /\ d <= MaxDebt
      /\ Len(s) \in Nat /\ SizeMod = 2 * MaxCap + MaxDebt + 1
  BY MaxCapAssumption, MaxDebtAssumption, LenProperties DEF SizeMod
<1>2. CASE d = 0
  <2>1. Len(s) - d = Len(s) /\ Len(s) < SizeMod /\ SizeMod > 0
    BY <1>1, <1>2
  <2>2. Len(s) % SizeMod = Len(s)
    BY <1>1, <2>1
  <2> QED BY <1>2, <2>1, <2>2 DEF Size
<1>3. CASE d > 0
  <2>1. Len(s) = 0
    BY <1>3, EmptySeq
  <2>2. Len(s) - d = -d /\ SizeMod - d \in 0 .. SizeMod - 1 /\ SizeMod > 0
    BY <1>1, <1>3, <2>1
  <2>3. (-d) % SizeMod = SizeMod - d
    BY <1>1, <2>2, Z3
  <2> QED BY <1>1, <1>3, <2>2, <2>3 DEF Size
<1> QED BY <1>1, <1>2, <1>3

LEMMA SizeIsNat ==
  ASSUME NEW s \in Seq(Values), NEW d \in 0 .. MaxDebt
  PROVE  Size(s, d) \in Nat
<1>1. /\ MaxCap \in Nat /\ MaxDebt \in Nat /\ d \in Nat /\ Len(s) \in Nat
      /\ SizeMod = 2 * MaxCap + MaxDebt + 1
  BY MaxCapAssumption, MaxDebtAssumption, LenProperties DEF SizeMod
<1>2. SizeMod \in Nat \ {0} /\ Len(s) - d \in Int
  BY <1>1
<1> QED BY <1>2, Z3 DEF Size

-----------------------------------------------------------------------------
(* The first invariant: who is inside the critical section, and what it    *)
(* has made sure of there.                                                 *)
Inside == {"test", "put", "take", "unlock"}

Owner      == \A t \in Threads : pc[t] \in Inside <=> mutex = t
PutReady   == \A p \in Producers : pc[p] = "put" => Size(q, debt) # MaxCap
PopAllowed == \A c \in Consumers : pc[c] \in {"test", "take"} => debt < MaxDebt

Arguments  == \A p \in Producers : pc[p] # "lock" /\ pc[p] # "unlock" => in[p] \in Values

IInv == /\ TypeOK /\ Owner /\ PutReady /\ PopAllowed /\ Arguments
        /\ DebtOnEmpty /\ NeverOverfull

LEMMA SizeNow ==
  ASSUME IInv
  PROVE  Size(q, debt) = IF debt = 0 THEN Len(q) ELSE SizeMod - debt
BY SizeValue DEF IInv, TypeOK, DebtOnEmpty, NeverOverfull

(* What the two statements that change _q do to it.                        *)
LEMMA PutEffect ==
  ASSUME IInv, NEW p \in Producers, Put(p)
  PROVE  /\ q' \in Seq(Values) /\ debt' \in 0 .. MaxDebt
         /\ debt' > 0 => q' = << >>
         /\ Len(q') <= MaxCap
         /\ debt' <= debt
<1> USE DEF IInv, TypeOK
<1>1. /\ Len(q) \in Nat /\ debt \in Nat /\ debt <= MaxDebt /\ MaxDebt \in Nat /\ MaxCap \in Nat
  BY LenProperties, MaxDebtAssumption, MaxCapAssumption
<1>2. CASE debt > 0
  <2>1. q' = q /\ debt' = debt - 1 /\ q = << >>
    BY <1>2 DEF Put, DebtOnEmpty
  <2> QED BY <1>1, <1>2, <2>1 DEF NeverOverfull
<1>3. CASE debt = 0
  <2>1. q' = Append(q, in[p]) /\ debt' = 0
    BY <1>3 DEF Put
  <2>2. in[p] \in Values
    BY DEF Put, Arguments
  <2>3. q' \in Seq(Values) /\ Len(q') = Len(q) + 1
    BY <2>1, <2>2, AppendProperties
  <2>4. Len(q) # MaxCap /\ Len(q) <= MaxCap
    BY <1>3, SizeNow DEF Put, PutReady, NeverOverfull
  <2> QED BY <1>1, <1>3, <2>1, <2>3, <2>4
<1> QED BY <1>1, <1>2, <1>3

LEMMA TakeEffect ==
  ASSUME IInv, NEW c \in Consumers, Take(c)
  PROVE  /\ q' \in Seq(Values) /\ debt' \in 0 .. MaxDebt
         /\ debt' > 0 => q' = << >>
         /\ Len(q') <= MaxCap
         /\ ret' \in [Consumers -> Values \cup {NoValue, Garbage}]
<1> USE DEF IInv, TypeOK
<1>1. /\ Len(q) \in Nat /\ debt \in Nat /\ MaxDebt \in Nat /\ MaxCap \in Nat /\ debt < MaxDebt
  BY LenProperties, MaxDebtAssumption, MaxCapAssumption DEF Take, PopAllowed
<1>2. CASE q = << >>
  <2>1. q' = q /\ debt' = debt + 1 /\ ret' = [ret EXCEPT ![c] = Garbage]
    BY <1>2 DEF Take
  <2> QED BY <1>1, <1>2, <2>1 DEF NeverOverfull
<1>3. CASE q # << >>
  <2>1. q' = Tail(q) /\ debt' = debt /\ ret' = [ret EXCEPT ![c] = Head(q)]
    BY <1>3 DEF Take
  <2>2. Head(q) \in Values /\ q' \in Seq(Values) /\ Len(q') = Len(q) - 1
    BY <1>3, <2>1, HeadTailProperties
  <2>3. debt = 0
    BY <1>1, <1>3 DEF DebtOnEmpty
  <2> QED BY <1>1, <2>1, <2>2, <2>3 DEF NeverOverfull
<1> QED BY <1>2, <1>3

LEMMA SignalKeeps ==
  ASSUME pc \in [Threads -> Places], NEW t \in Threads, NEW side, side \subseteq Threads,
         Signal(side, t, "unlock") \/ Goto(t, "unlock")
  PROVE  /\ pc' \in [Threads -> Places]
         /\ pc'[t] = "unlock" \/ pc[t] = "waiting"
         /\ \A u \in Threads \ {t} : pc'[u] = pc[u] \/ (pc[u] = "waiting" /\ pc'[u] = "relock")
BY DEF Signal, Goto, Waiting, Places

LEMMA Inductive ==
  ASSUME IInv, [Next]_vars
  PROVE  IInv'
<1> USE DEF IInv, TypeOK, Owner, PutReady, PopAllowed, Arguments, DebtOnEmpty,
            NeverOverfull, Inside, Goto, Acquire, Sleep, Threads
<1>1. Producers \cap Consumers = {} /\ Free \notin Threads
  BY ThreadsAssumption
<1>2. ASSUME NEW p \in Producers, push(p) PROVE IInv'
  <2>1. CASE PushLock(p)   BY <1>1, <2>1 DEF PushLock, Places
  <2>2. CASE PushRelock(p) BY <1>1, <2>2 DEF PushRelock, Places
  <2>3. CASE PushTest(p)   BY <1>1, <2>3 DEF PushTest, Places
  <2>4. CASE Put(p)
    <3>1. /\ q' \in Seq(Values) /\ debt' \in 0 .. MaxDebt /\ Len(q') <= MaxCap
          /\ debt' > 0 => q' = << >>
          /\ mutex' = mutex /\ in' = in /\ ret' = ret
          /\ pc[p] = "put"
      BY <2>4, PutEffect DEF Put
    <3>2. /\ pc' \in [Threads -> Places] /\ pc'[p] = "unlock"
          /\ \A u \in Threads \ {p} : pc'[u] = pc[u] \/ (pc[u] = "waiting" /\ pc'[u] = "relock")
      BY <2>4, <3>1, SignalKeeps DEF Put
    <3>3. mutex = p
      BY <3>1
    <3>4. \A u \in Threads \ {p} : pc[u] \notin Inside /\ pc'[u] \notin Inside
      BY <3>2, <3>3
    <3> QED BY <1>1, <3>1, <3>2, <3>3, <3>4
  <2>5. CASE Unlock(p)     BY <1>1, <2>5 DEF Unlock, Places
  <2> QED BY <1>2, <2>1, <2>2, <2>3, <2>4, <2>5 DEF push
<1>3. ASSUME NEW c \in Consumers, pop(c) PROVE IInv'
  <2>1. CASE PopLock(c)   BY <1>1, <2>1 DEF PopLock, Places
  <2>2. CASE PopRelock(c) BY <1>1, <2>2 DEF PopRelock, Places
  <2>3. CASE PopTest(c)   BY <1>1, <2>3 DEF PopTest, Places
  <2>4. CASE Take(c)
    <3>1. /\ q' \in Seq(Values) /\ debt' \in 0 .. MaxDebt /\ Len(q') <= MaxCap
          /\ debt' > 0 => q' = << >>
          /\ mutex' = mutex /\ in' = in
          /\ ret' \in [Consumers -> Values \cup {NoValue, Garbage}]
          /\ pc[c] = "take"
      BY <2>4, TakeEffect DEF Take
    <3>2. /\ pc' \in [Threads -> Places] /\ pc'[c] = "unlock"
          /\ \A u \in Threads \ {c} : pc'[u] = pc[u] \/ (pc[u] = "waiting" /\ pc'[u] = "relock")
      BY <2>4, <3>1, SignalKeeps DEF Take
    <3>3. mutex = c
      BY <3>1
    <3>4. \A u \in Threads \ {c} : pc[u] \notin Inside /\ pc'[u] \notin Inside
      BY <3>2, <3>3
    <3> QED BY <1>1, <3>1, <3>2, <3>3, <3>4
  <2>5. CASE Unlock(c)     BY <1>1, <2>5 DEF Unlock, Places
  <2> QED BY <1>3, <2>1, <2>2, <2>3, <2>4, <2>5 DEF pop
<1>4. ASSUME NEW t \in Threads, SpuriousWakeup(t) PROVE IInv'
  BY <1>1, <1>4 DEF SpuriousWakeup, Places
<1>5. CASE UNCHANGED vars
  BY <1>5 DEF vars
<1> QED BY <1>2, <1>3, <1>4, <1>5 DEF Next

LEMMA Invariant == Spec => []IInv
<1>1. Init => IInv
  <2> SUFFICES ASSUME Init PROVE IInv
    OBVIOUS
  <2>1. q \in Seq(Values) /\ Len(q) = 0
    BY EmptySeq DEF Init
  <2> QED BY <2>1, MaxCapAssumption, MaxDebtAssumption, ThreadsAssumption
          DEF Init, IInv, TypeOK, Owner, PutReady, PopAllowed, Arguments, DebtOnEmpty,
              NeverOverfull, Inside, Threads, Places
<1>2. IInv /\ [Next]_vars => IInv'
  BY Inductive
<1> QED BY <1>1, <1>2, PTL DEF Spec

(* Every variable keeps to its range, also when an empty queue is popped.  *)
THEOREM TypeCorrect == Spec => []TypeOK
<1>1. IInv => TypeOK
  BY DEF IInv
<1> QED BY <1>1, Invariant, PTL

(* The while of push keeps the queue at or below _maxcap.                  *)
THEOREM CapacityHolds == Spec => []NeverOverfull
<1>1. IInv => NeverOverfull
  BY DEF IInv
<1> QED BY <1>1, Invariant, PTL

-----------------------------------------------------------------------------
(* The water marks.  They are inductive together with SomeoneIsAwake: the  *)
(* last consumer to fall asleep has seen an empty queue, so by the low     *)
(* mark a producer is awake; the last producer has seen a full one.  This  *)
(* needs low_water > 0, that is _maxcap > 2.                               *)
LEMMA Marks ==
  ASSUME MaxCap >= 3
  PROVE  /\ low_water \in Nat /\ high_water \in Nat
         /\ 1 <= low_water /\ low_water <= MaxCap
         /\ high_water < MaxCap
BY MaxCapAssumption DEF low_water, high_water

LEMMA MarksInductive ==
  ASSUME MaxCap >= 3, IInv, WaterMarks, SomeoneIsAwake, [Next]_vars
  PROVE  (WaterMarks /\ SomeoneIsAwake)'
<1> USE DEF IInv, TypeOK, WaterMarks, SomeoneIsAwake, Asleep, Waiting, Goto, Acquire, Sleep, Threads
<1>1. Producers \cap Consumers = {} /\ Producers # {} /\ Consumers # {}
  BY ThreadsAssumption
<1>2. /\ low_water \in Nat /\ high_water \in Nat /\ MaxCap \in Nat
      /\ 1 <= low_water /\ low_water <= MaxCap /\ high_water < MaxCap
  BY Marks, MaxCapAssumption
<1>3. ASSUME NEW p \in Producers, push(p) PROVE (WaterMarks /\ SomeoneIsAwake)'
  <2>1. CASE PushLock(p)   BY <1>1, <2>1 DEF PushLock
  <2>2. CASE PushRelock(p) BY <1>1, <2>2 DEF PushRelock
  <2>3. CASE PushTest(p)
    <3>1. CASE Size(q, debt) = MaxCap /\ Sleep(p)
      <4>1. ~ Asleep(Consumers)
        BY <1>2, <3>1
      <4>2. UNCHANGED <<q, debt>> /\ \A c \in Consumers : pc'[c] = pc[c]
        BY <1>1, <2>3, <3>1 DEF PushTest
      <4> QED BY <1>2, <3>1, <4>1, <4>2
    <3>2. CASE Goto(p, "put")
      BY <1>1, <2>3, <3>2 DEF PushTest
    <3> QED BY <2>3, <3>1, <3>2 DEF PushTest
  <2>4. CASE Put(p)
    <3>1. pc'[p] # "waiting"
      BY <2>4, SignalKeeps DEF Put
    <3>2. \A c \in Consumers : pc'[c] = "waiting" => pc[c] = "waiting"
      BY <1>1, <2>4, SignalKeeps DEF Put
    <3>3. Size(q', debt') > high_water => ~ Asleep(Consumers)'
      <4> SUFFICES ASSUME Size(q', debt') > high_water PROVE ~ Asleep(Consumers)'
        OBVIOUS
      <4>1. Signal(Consumers, p, "unlock")
        BY <2>4 DEF Put
      <4>2. CASE Waiting(Consumers) = {}
        BY <1>1, <3>2, <4>2
      <4>3. CASE Waiting(Consumers) # {}
        BY <1>1, <4>1, <4>3 DEF Signal
      <4> QED BY <4>2, <4>3
    <3>4. q' \in Seq(Values) /\ debt' \in 0 .. MaxDebt /\ Size(q', debt') \in Nat
      BY <2>4, PutEffect, SizeIsNat
    <3> QED BY <1>2, <3>1, <3>2, <3>3, <3>4
  <2>5. CASE Unlock(p)     BY <1>1, <2>5 DEF Unlock
  <2> QED BY <1>3, <2>1, <2>2, <2>3, <2>4, <2>5 DEF push
<1>4. ASSUME NEW c \in Consumers, pop(c) PROVE (WaterMarks /\ SomeoneIsAwake)'
  <2>1. CASE PopLock(c)   BY <1>1, <2>1 DEF PopLock
  <2>2. CASE PopRelock(c) BY <1>1, <2>2 DEF PopRelock
  <2>3. CASE PopTest(c)
    <3>1. CASE Size(q, debt) = 0 /\ Sleep(c)
      <4>1. ~ Asleep(Producers)
        BY <1>2, <3>1
      <4>2. UNCHANGED <<q, debt>> /\ \A p \in Producers : pc'[p] = pc[p]
        BY <1>1, <2>3, <3>1 DEF PopTest
      <4> QED BY <1>2, <3>1, <4>1, <4>2
    <3>2. CASE Goto(c, "take")
      BY <1>1, <2>3, <3>2 DEF PopTest
    <3> QED BY <2>3, <3>1, <3>2 DEF PopTest
  <2>4. CASE Take(c)
    <3>1. pc'[c] # "waiting"
      BY <2>4, SignalKeeps DEF Take
    <3>2. \A p \in Producers : pc'[p] = "waiting" => pc[p] = "waiting"
      BY <1>1, <2>4, SignalKeeps DEF Take
    <3>3. Size(q', debt') < low_water => ~ Asleep(Producers)'
      <4> SUFFICES ASSUME Size(q', debt') < low_water PROVE ~ Asleep(Producers)'
        OBVIOUS
      <4>1. Signal(Producers, c, "unlock")
        BY <2>4 DEF Take
      <4>2. CASE Waiting(Producers) = {}
        BY <1>1, <3>2, <4>2
      <4>3. CASE Waiting(Producers) # {}
        BY <1>1, <4>1, <4>3 DEF Signal
      <4> QED BY <4>2, <4>3
    <3>4. q' \in Seq(Values) /\ debt' \in 0 .. MaxDebt /\ Size(q', debt') \in Nat
      BY <2>4, TakeEffect, SizeIsNat
    <3> QED BY <1>2, <3>1, <3>2, <3>3, <3>4
  <2>5. CASE Unlock(c)    BY <1>1, <2>5 DEF Unlock
  <2> QED BY <1>4, <2>1, <2>2, <2>3, <2>4, <2>5 DEF pop
<1>5. ASSUME NEW t \in Threads, SpuriousWakeup(t) PROVE (WaterMarks /\ SomeoneIsAwake)'
  <2>1. UNCHANGED <<q, debt>> /\ pc'[t] = "relock" /\ \A u \in Threads \ {t} : pc'[u] = pc[u]
    BY <1>5 DEF SpuriousWakeup
  <2> QED BY <1>1, <2>1
<1>6. CASE UNCHANGED vars
  BY <1>6 DEF vars
<1> QED BY <1>3, <1>4, <1>5, <1>6 DEF Next

(* With a capacity of three or more the two sides never all sleep: there   *)
(* is always a thread left to send the next signal.                        *)
THEOREM NoGlobalSleep ==
  ASSUME MaxCap >= 3
  PROVE  Spec => [](WaterMarks /\ SomeoneIsAwake)
<1>1. Init => WaterMarks /\ SomeoneIsAwake
  BY ThreadsAssumption DEF Init, WaterMarks, SomeoneIsAwake, Asleep, Waiting, Threads
<1>2. IInv /\ WaterMarks /\ SomeoneIsAwake /\ [Next]_vars => (WaterMarks /\ SomeoneIsAwake)'
  BY MarksInductive
<1> QED BY <1>1, <1>2, Invariant, PTL DEF Spec

-----------------------------------------------------------------------------
(* The if of line 24 is all that separates the queue from a FIFO: whatever *)
(* the number of consumers, and however they are woken, in every behaviour *)
(* in which none of them gets as far as front() with _q empty, push and    *)
(* pop are the bounded FIFO.  (That some do get there is what the run      *)
(* BlockQueueEmptyPop shows.)                                              *)
LEMMA NoDebt ==
  ASSUME IInv, NoEmptyPop, debt = 0, [Next]_vars
  PROVE  debt' = 0
<1>1. CASE \E p \in Producers : push(p)
  BY <1>1 DEF push, PushLock, PushRelock, PushTest, Put, Unlock
<1>2. CASE \E c \in Consumers : pop(c)
  <2>1. PICK c \in Consumers : pop(c)
    BY <1>2
  <2>2. CASE Take(c)
    BY <2>2 DEF Take, NoEmptyPop
  <2>3. CASE PopLock(c) \/ PopRelock(c) \/ PopTest(c) \/ Unlock(c)
    BY <2>3 DEF PopLock, PopRelock, PopTest, Unlock
  <2> QED BY <2>1, <2>2, <2>3 DEF pop
<1>3. CASE \E t \in Threads : SpuriousWakeup(t)
  BY <1>3 DEF SpuriousWakeup
<1>4. CASE UNCHANGED vars
  BY <1>4 DEF vars
<1> QED BY <1>1, <1>2, <1>3, <1>4 DEF Next

LEMMA StepOfFifo ==
  ASSUME IInv, NoEmptyPop, debt = 0, [Next]_vars
  PROVE  [Fifo!Next]_(Fifo!vars)
<1> USE DEF Fifo!vars
<1>1. ASSUME NEW p \in Producers, push(p) PROVE [Fifo!Next]_(Fifo!vars)
  <2>1. CASE Put(p)
    <3>1. q' = Append(q, in[p]) /\ ret' = ret
      BY <2>1 DEF Put
    <3>2. in[p] \in Values
      BY <2>1 DEF Put, Arguments, IInv
    <3>3. Len(q) < MaxCap
      <4>1. Len(q) # MaxCap /\ Len(q) <= MaxCap
        BY <2>1, SizeNow DEF Put, PutReady, IInv, NeverOverfull
      <4>2. Len(q) \in Nat /\ MaxCap \in Nat
        BY LenProperties, MaxCapAssumption DEF IInv, TypeOK
      <4> QED BY <4>1, <4>2
    <3>4. Fifo!Enqueue(in[p])
      BY <3>1, <3>3 DEF Fifo!Enqueue
    <3> QED BY <3>2, <3>4 DEF Fifo!Next
  <2>2. CASE PushLock(p) \/ PushRelock(p) \/ PushTest(p) \/ Unlock(p)
    BY <2>2 DEF PushLock, PushRelock, PushTest, Unlock
  <2> QED BY <1>1, <2>1, <2>2 DEF push
<1>2. ASSUME NEW c \in Consumers, pop(c) PROVE [Fifo!Next]_(Fifo!vars)
  <2>1. CASE Take(c)
    <3>1. q # << >>
      BY <2>1 DEF Take, NoEmptyPop
    <3>2. Fifo!Dequeue(c)
      BY <2>1, <3>1 DEF Take, Fifo!Dequeue
    <3> QED BY <3>2 DEF Fifo!Next
  <2>2. CASE PopLock(c) \/ PopRelock(c) \/ PopTest(c) \/ Unlock(c)
    BY <2>2 DEF PopLock, PopRelock, PopTest, Unlock
  <2> QED BY <1>2, <2>1, <2>2 DEF pop
<1>3. ASSUME NEW t \in Threads, SpuriousWakeup(t) PROVE UNCHANGED Fifo!vars
  BY <1>3 DEF SpuriousWakeup
<1>4. CASE UNCHANGED vars
  BY <1>4 DEF vars
<1> QED BY <1>1, <1>2, <1>3, <1>4 DEF Next

(* Any threads, any capacity, spurious and stolen wakeups: unless an empty *)
(* queue is popped, BlockQueue implements the bounded FIFO.                *)
THEOREM FifoUnlessEmptyPop == Spec /\ []NoEmptyPop => ImplementsBoundedFifo
<1>1. Init => Fifo!Init /\ debt = 0
  BY DEF Init, Fifo!Init
<1>2. IInv /\ NoEmptyPop /\ debt = 0 /\ [Next]_vars => (debt = 0)'
  BY NoDebt
<1>3. IInv /\ NoEmptyPop /\ debt = 0 /\ [Next]_vars => [Fifo!Next]_(Fifo!vars)
  BY StepOfFifo
<1> QED BY <1>1, <1>2, <1>3, Invariant, PTL DEF Spec, ImplementsBoundedFifo, Fifo!Spec
=============================================================================
