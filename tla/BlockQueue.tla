---------------------------- MODULE BlockQueue -----------------------------
(***************************************************************************)
(* pthread/blockQueue/BlockQueue.hpp: a queue bounded by _maxcap, guarded  *)
(* by one mutex, with a condition variable for each side.  A push wakes a  *)
(* consumer only above high_water, a pop wakes a producer only below       *)
(* low_water.  push tests its condition in a `while`, pop in an `if`.      *)
(*                                                                         *)
(* The threads are those of main.cc: each one calls push (or pop) again    *)
(* and again.  A call to pthread_cond_wait is three steps: it releases the *)
(* mutex and sleeps, it is woken, it takes the mutex back.                 *)
(***************************************************************************)
EXTENDS Integers, Sequences, FiniteSets

CONSTANTS Producers, Consumers,
          Values,          \* what push may be given
          MaxCap,          \* _maxcap
          Spurious,        \* may pthread_cond_wait return without a signal?
          MaxDebt,         \* bound: no pop is begun while debt is this large
          NoValue,         \* initial content of locals
          Garbage,         \* what front() of an empty queue yields
          Free             \* the owner of an unlocked mutex

ASSUME MaxCapAssumption  == MaxCap \in Nat \ {0}
ASSUME ThreadsAssumption == /\ Producers # {} /\ Consumers # {}
                            /\ Producers \cap Consumers = {}
                            /\ Free \notin Producers \cup Consumers
ASSUME SpuriousAssumption == Spurious \in BOOLEAN
ASSUME MaxDebtAssumption == MaxDebt \in Nat \ {0}

VARIABLES
  q,        \* _q
  debt,     \* pops of the empty _q that no push has made up for
  mutex,    \* owner of _mutex, or Free
  pc,       \* what each thread does next
  in,       \* the argument of a producer's current push
  ret       \* what a consumer's latest pop returned

vars == <<q, debt, mutex, pc, in, ret>>

Threads == Producers \cup Consumers

(* Mutant: the mark below which a pop wakes a producer is never reached. *)
LowWaterZero == 0

low_water  == MaxCap \div 3
high_water == (MaxCap * 2) \div 3

(* _q.size() is the distance between two iterators, a size_t.  pop() moves *)
(* the front iterator whether or not there is an item, so popping an empty *)
(* queue wraps the size to the top of size_t and the next push only brings *)
(* it back, its item lost.  Only 0, _maxcap and the water marks are ever   *)
(* compared with it, so any modulus beyond those behaves like 2^64.        *)
SizeMod == 2 * MaxCap + MaxDebt + 1
Size(queue, d) == (Len(queue) - d) % SizeMod

Init == /\ q = << >>
        /\ debt = 0
        /\ mutex = Free
        /\ pc = [t \in Threads |-> "lock"]
        /\ in = [p \in Producers |-> NoValue]
        /\ ret = [c \in Consumers |-> NoValue]

Goto(t, to) == pc' = [pc EXCEPT ![t] = to]

Waiting(threads) == {t \in threads : pc[t] = "waiting"}

(* pthread_cond_signal on the condition variable of `side`, by thread t,   *)
(* which goes on to `to`: it moves one sleeper, if there is one.           *)
Signal(side, t, to) ==
  IF Waiting(side) = {} THEN Goto(t, to)
  ELSE \E w \in Waiting(side) : pc' = [pc EXCEPT ![t] = to, ![w] = "relock"]

(* pthread_mutex_lock, on entry and on the way out of pthread_cond_wait.   *)
Acquire(t, from, to) == /\ pc[t] = from /\ Goto(t, to)
                        /\ mutex = Free /\ mutex' = t

(* The first half of pthread_cond_wait: release and sleep, in one step.    *)
Sleep(t) == Goto(t, "waiting") /\ mutex' = Free

-----------------------------------------------------------------------------
PushLock(p) ==
  /\ Acquire(p, "lock", "test")
  /\ \E v \in Values : in' = [in EXCEPT ![p] = v]
  /\ UNCHANGED <<q, debt, ret>>

(* Mutant: an `if` in push as well. *)
PushRelockIf(p) == Acquire(p, "relock", "put") /\ UNCHANGED <<q, debt, in, ret>>

(* The `while`: whoever comes back from the wait tests again. *)
PushRelock(p) == Acquire(p, "relock", "test") /\ UNCHANGED <<q, debt, in, ret>>

PushTest(p) ==
  /\ pc[p] = "test"
  /\ \/ Size(q, debt) = MaxCap /\ Sleep(p)
     \/ Size(q, debt) # MaxCap /\ Goto(p, "put") /\ UNCHANGED mutex
  /\ UNCHANGED <<q, debt, in, ret>>

Put(p) ==
  /\ pc[p] = "put"
  /\ IF debt > 0 THEN debt' = debt - 1 /\ UNCHANGED q
                 ELSE q' = Append(q, in[p]) /\ UNCHANGED debt
  /\ IF Size(q', debt') > high_water THEN Signal(Consumers, p, "unlock")
                                     ELSE Goto(p, "unlock")
  /\ UNCHANGED <<mutex, in, ret>>

-----------------------------------------------------------------------------
PopLock(c) == /\ debt < MaxDebt
              /\ Acquire(c, "lock", "test")
              /\ UNCHANGED <<q, debt, in, ret>>

(* Mutant: line 24 is missing. *)
PopTestNone(c) == pc[c] = "test" /\ Goto(c, "take") /\ UNCHANGED <<q, debt, mutex, in, ret>>

PopTest(c) ==
  /\ pc[c] = "test"
  /\ \/ Size(q, debt) = 0 /\ Sleep(c)
     \/ Size(q, debt) # 0 /\ Goto(c, "take") /\ UNCHANGED mutex
  /\ UNCHANGED <<q, debt, in, ret>>

(* The `if`: whoever comes back from the wait takes. *)
PopRelock(c) == /\ debt < MaxDebt
                /\ Acquire(c, "relock", "take")
                /\ UNCHANGED <<q, debt, in, ret>>

Take(c) ==
  /\ pc[c] = "take"
  /\ IF q = << >>
     THEN /\ debt' = debt + 1
          /\ ret' = [ret EXCEPT ![c] = Garbage]
          /\ UNCHANGED q
     ELSE /\ ret' = [ret EXCEPT ![c] = Head(q)]
          /\ q' = Tail(q)
          /\ UNCHANGED debt
  /\ IF Size(q', debt') < low_water THEN Signal(Producers, c, "unlock")
                                    ELSE Goto(c, "unlock")
  /\ UNCHANGED <<mutex, in>>

-----------------------------------------------------------------------------
Unlock(t) == /\ pc[t] = "unlock" /\ Goto(t, "lock")
             /\ mutex' = Free
             /\ UNCHANGED <<q, debt, in, ret>>

(* POSIX: a wait may end without any signal. *)
SpuriousWakeup(t) == /\ Spurious
                     /\ pc[t] = "waiting" /\ Goto(t, "relock")
                     /\ UNCHANGED <<q, debt, mutex, in, ret>>

push(p) == PushLock(p) \/ PushRelock(p) \/ PushTest(p) \/ Put(p) \/ Unlock(p)
pop(c)  == PopLock(c) \/ PopRelock(c) \/ PopTest(c) \/ Take(c) \/ Unlock(c)

Next == \/ \E p \in Producers : push(p)
        \/ \E c \in Consumers : pop(c)
        \/ \E t \in Threads : SpuriousWakeup(t)

Spec == Init /\ [][Next]_vars

(* A thread that can go on does so some day.  Nothing is assumed about the *)
(* order in which the mutex is granted, nor that a sleeper wakes unasked.  *)
FairSpec == /\ Spec
            /\ \A p \in Producers : WF_vars(push(p))
            /\ \A c \in Consumers : WF_vars(pop(c))

-----------------------------------------------------------------------------
Places == {"lock", "test", "put", "take", "unlock", "waiting", "relock"}

(* The type invariant. *)
TypeOK == /\ q \in Seq(Values)
          /\ debt \in 0 .. MaxDebt
          /\ mutex \in Threads \cup {Free}
          /\ pc \in [Threads -> Places]
          /\ in \in [Producers -> Values \cup {NoValue}]
          /\ ret \in [Consumers -> Values \cup {NoValue, Garbage}]

(* Line 39 never pushes beyond _maxcap, even when wakeups are spurious and *)
(* another producer got in between the signal and the relock.              *)
NeverOverfull == Len(q) <= MaxCap

(* A signal is only sent above one mark or below the other, so sleepers    *)
(* could wait for a signal nobody is left to send.  The marks prevent it:  *)
(* while every consumer sleeps the queue is not above high_water, while    *)
(* every producer sleeps it is not below low_water, and never do all sleep.*)
Asleep(threads) == Waiting(threads) = threads

WaterMarks == /\ Asleep(Consumers) => Size(q, debt) <= high_water
              /\ Asleep(Producers) => Size(q, debt) >= low_water

SomeoneIsAwake == ~ (Asleep(Consumers) /\ Asleep(Producers))

(* Line 35 asks that a thread be protected from false wakeups, and line 39 *)
(* that its condition hold when it goes ahead; for pop that means that no  *)
(* thread reaches front() and pop() while _q is empty.                     *)
NoEmptyPop == \A c \in Consumers : pc[c] = "take" => q # << >>

(* Neither side stops for good: items keep going in and keep coming out.   *)
BothSidesProgress == /\ []<>(\E p \in Producers : pc[p] = "unlock")
                     /\ []<>(\E c \in Consumers : pc[c] = "unlock")

(* As long as no empty _q is popped the queue is the bounded FIFO: that is *)
(* so with a single consumer and no wakeup but those of the queue itself.  *)
Fifo == INSTANCE BoundedFifo WITH items <- q, got <- ret, Cap <- MaxCap

ImplementsBoundedFifo == Fifo!Spec
=============================================================================
