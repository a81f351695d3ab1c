----------------------------- MODULE RingQueue -----------------------------
(***************************************************************************)
(* pthread/RingQueue/RingQueue.hpp: a fixed array shared by producers and  *)
(* consumers.  Two counting semaphores hand out the free and the filled    *)
(* slots; p_mutex orders the producers among themselves, c_mutex the       *)
(* consumers.  Nothing but the semaphores keeps a producer away from the   *)
(* slot a consumer is copying, so the module takes Push and Pop apart      *)
(* statement by statement.                                                 *)
(*                                                                         *)
(* The threads are those of Main.cc: each one calls Push (or Pop) again    *)
(* and again, forever.  Blocking in sem_wait or pthread_mutex_lock is the  *)
(* guard of the action that returns from the call.                         *)
(***************************************************************************)
EXTENDS Integers, FiniteSets

CONSTANTS Producers, Consumers,     \* the threads of Main.cc
          Values,                   \* what Push may be given
          Cap,                      \* the constructor's cap
          NoValue,                  \* initial content of slots and locals
          Free                      \* the owner of an unlocked mutex

ASSUME CapAssumption     == Cap \in Nat \ {0}
ASSUME ThreadsAssumption == /\ IsFiniteSet(Producers) /\ IsFiniteSet(Consumers)
                            /\ Producers \cap Consumers = {}
                            /\ Free \notin Producers \cup Consumers
ASSUME ValuesAssumption  == NoValue \notin Values

VARIABLES
  ringqueue,        \* the array
  c_step, p_step,   \* next slot to read, next slot to write
  cdata_sem,        \* filled slots announced to the consumers
  pspace_sem,       \* free slots announced to the producers
  c_mutex, p_mutex, \* owner, or Free
  pc,               \* the statement each thread executes next
  in,               \* the argument of a producer's current Push
  out,              \* what a consumer's latest Pop delivered
  unread            \* history: slots written and not read since

vars == <<ringqueue, c_step, p_step, cdata_sem, pspace_sem,
          c_mutex, p_mutex, pc, in, out, unread>>

Threads == Producers \cup Consumers
Slots   == 0 .. Cap - 1

InitWith(space) ==
  /\ ringqueue = [s \in Slots |-> NoValue]
  /\ c_step = 0 /\ p_step = 0
  /\ cdata_sem = 0
  /\ pspace_sem = space
  /\ c_mutex = Free /\ p_mutex = Free
  /\ pc = [t \in Threads |-> "wait"]
  /\ in = [p \in Producers |-> NoValue]
  /\ out = [c \in Consumers |-> NoValue]
  /\ unread = {}

(* Mutant: one token too many. *)
InitOneTooMany == InitWith(Cap + 1)

Init == InitWith(Cap)

(* Thread t executes the statement `from`; its next one is `to`. *)
Step(t, from, to) == /\ pc[t] = from
                     /\ pc' = [pc EXCEPT ![t] = to]

-----------------------------------------------------------------------------
(* Push(in) *)

(* P(pspace_sem): the semaphore first, the lock after it. *)
PushWait(p) ==
  /\ Step(p, "wait", "lock")
  /\ pspace_sem > 0
  /\ pspace_sem' = pspace_sem - 1
  /\ \E v \in Values : in' = [in EXCEPT ![p] = v]
  /\ UNCHANGED <<ringqueue, c_step, p_step, cdata_sem, c_mutex, p_mutex, out, unread>>

PushLock(p) ==
  /\ Step(p, "lock", "copy")
  /\ p_mutex = Free
  /\ p_mutex' = p
  /\ UNCHANGED <<ringqueue, c_step, p_step, cdata_sem, pspace_sem, c_mutex, in, out, unread>>

PushCopy(p) ==
  /\ Step(p, "copy", "advance")
  /\ ringqueue' = [ringqueue EXCEPT ![p_step] = in[p]]
  /\ unread' = unread \cup {p_step}
  /\ UNCHANGED <<c_step, p_step, cdata_sem, pspace_sem, c_mutex, p_mutex, in, out>>

PushAdvance(p) ==
  /\ Step(p, "advance", "unlock")
  /\ p_step' = (p_step + 1) % Cap
  /\ UNCHANGED <<ringqueue, c_step, cdata_sem, pspace_sem, c_mutex, p_mutex, in, out, unread>>

PushUnlock(p) ==
  /\ Step(p, "unlock", "post")
  /\ p_mutex' = Free
  /\ UNCHANGED <<ringqueue, c_step, p_step, cdata_sem, pspace_sem, c_mutex, in, out, unread>>

(* Mutant: the item is not announced. *)
PushPostLost(p) ==
  /\ Step(p, "post", "wait")
  /\ UNCHANGED <<ringqueue, c_step, p_step, cdata_sem, pspace_sem, c_mutex, p_mutex, in, out, unread>>

PushPost(p) ==
  /\ Step(p, "post", "wait")
  /\ cdata_sem' = cdata_sem + 1
  /\ UNCHANGED <<ringqueue, c_step, p_step, pspace_sem, c_mutex, p_mutex, in, out, unread>>

Push(p) == \/ PushWait(p)    \/ PushLock(p)   \/ PushCopy(p)
           \/ PushAdvance(p) \/ PushUnlock(p) \/ PushPost(p)

-----------------------------------------------------------------------------
(* Pop(out) *)

PopWait(c) ==
  /\ Step(c, "wait", "lock")
  /\ cdata_sem > 0
  /\ cdata_sem' = cdata_sem - 1
  /\ UNCHANGED <<ringqueue, c_step, p_step, pspace_sem, c_mutex, p_mutex, in, out, unread>>

(* Mutant: the consumers do not exclude each other. *)
PopLockUnguarded(c) ==
  /\ Step(c, "lock", "copy")
  /\ c_mutex' = c
  /\ UNCHANGED <<ringqueue, c_step, p_step, cdata_sem, pspace_sem, p_mutex, in, out, unread>>

PopLock(c) ==
  /\ Step(c, "lock", "copy")
  /\ c_mutex = Free
  /\ c_mutex' = c
  /\ UNCHANGED <<ringqueue, c_step, p_step, cdata_sem, pspace_sem, p_mutex, in, out, unread>>

PopCopy(c) ==
  /\ Step(c, "copy", "advance")
  /\ out' = [out EXCEPT ![c] = ringqueue[c_step]]
  /\ unread' = unread \ {c_step}
  /\ UNCHANGED <<ringqueue, c_step, p_step, cdata_sem, pspace_sem, c_mutex, p_mutex, in>>

PopAdvance(c) ==
  /\ Step(c, "advance", "unlock")
  /\ c_step' = (c_step + 1) % Cap
  /\ UNCHANGED <<ringqueue, p_step, cdata_sem, pspace_sem, c_mutex, p_mutex, in, out, unread>>

PopUnlock(c) ==
  /\ Step(c, "unlock", "post")
  /\ c_mutex' = Free
  /\ UNCHANGED <<ringqueue, c_step, p_step, cdata_sem, pspace_sem, p_mutex, in, out, unread>>

PopPost(c) ==
  /\ Step(c, "post", "wait")
  /\ pspace_sem' = pspace_sem + 1
  /\ UNCHANGED <<ringqueue, c_step, p_step, cdata_sem, c_mutex, p_mutex, in, out, unread>>

Pop(c) == \/ PopWait(c)    \/ PopLock(c)   \/ PopCopy(c)
          \/ PopAdvance(c) \/ PopUnlock(c) \/ PopPost(c)

-----------------------------------------------------------------------------
Next == \/ \E p \in Producers : Push(p)
        \/ \E c \in Consumers : Pop(c)

Spec == Init /\ [][Next]_vars

(* A runnable thread is scheduled again; nothing is assumed about who wins *)
(* a semaphore or a mutex, neither of which is fair.                       *)
FairSpec == /\ Spec
            /\ \A p \in Producers : WF_vars(Push(p))
            /\ \A c \in Consumers : WF_vars(Pop(c))

-----------------------------------------------------------------------------
Statements == {"wait", "lock", "copy", "advance", "unlock", "post"}

At(threads, statements) == {t \in threads : pc[t] \in statements}

(* The threads that hold a token of one semaphore and have not posted the  *)
(* other yet: producers before and after their copy, consumers likewise.   *)
Claimed  == Cardinality(At(Producers, {"lock", "copy"}))
Written  == Cardinality(At(Producers, {"advance", "unlock", "post"}))
Taken    == Cardinality(At(Consumers, {"lock", "copy"}))
Returned == Cardinality(At(Consumers, {"advance", "unlock", "post"}))

(* How many items the ring holds: announced, written but not announced     *)
(* yet, or taken by a consumer that has not copied them out yet.           *)
Filled == cdata_sem + Written + Taken

(* The slots the next read and the next write take.  A thread between its  *)
(* copy and its advance is one ahead of the index.                         *)
NextRead  == IF At(Consumers, {"advance"}) = {} THEN c_step ELSE (c_step + 1) % Cap
NextWrite == IF At(Producers, {"advance"}) = {} THEN p_step ELSE (p_step + 1) % Cap

(* The slot k places after the next one to be read. *)
Ahead(k) == (NextRead + k) % Cap

(* The type invariant: every variable keeps to the range its C++ type and  *)
(* the ring allow.                                                         *)
TypeOK == /\ ringqueue \in [Slots -> Values \cup {NoValue}]
          /\ c_step \in Slots /\ p_step \in Slots
          /\ cdata_sem \in Nat /\ pspace_sem \in Nat
          /\ c_mutex \in Consumers \cup {Free}
          /\ p_mutex \in Producers \cup {Free}
          /\ pc \in [Threads -> Statements]
          /\ in \in [Producers -> Values \cup {NoValue}]
          /\ out \in [Consumers -> Values \cup {NoValue}]
          /\ unread \in SUBSET Slots

(* The semaphores, which know nothing of the indices, agree with them: the *)
(* unread slots are the Filled ones from the next read on, round the ring, *)
(* and the next write goes just behind them.                               *)
RingShape == /\ Filled \in 0 .. Cap
             /\ unread = {Ahead(k) : k \in 0 .. Filled - 1}
             /\ NextWrite = Ahead(Filled)

(* Push lines 32 and 40 and Pop lines 43 and 51 move tokens between two    *)
(* semaphores through the hands of the threads: the slots counted free,    *)
(* counted filled and in somebody's hand are always all Cap of them.       *)
TokensConserved ==
  pspace_sem + Claimed + Written + cdata_sem + Taken + Returned = Cap

(* The assignment of line 34 never lands on an item nobody has read, in    *)
(* whatever order the producers and the consumers leave their semaphores.  *)
NoOverwrite == \A p \in Producers : pc[p] = "copy" => p_step \notin unread

(* The read of line 45 never takes a slot that is empty or already read,   *)
(* though c_step moves without regard to which producer posted the token.  *)
NoStaleRead == \A c \in Consumers : pc[c] = "copy" => c_step \in unread

(* Lines 34 and 45 hold different mutexes; they still never touch one slot *)
(* at the same time, which would be a data race on the element.            *)
NoSlotRace == \A p \in Producers, c \in Consumers :
                pc[p] = "copy" /\ pc[c] = "copy" => p_step # c_step

(* No item is left behind: a slot that was written is read some day, even  *)
(* though any single consumer may starve at the semaphore or the mutex.    *)
EveryItemIsRead == \A s \in Slots : s \in unread ~> s \notin unread

-----------------------------------------------------------------------------
(* The queue a caller sees: the filled slots, the next to be read first.   *)
Contents == [i \in 1 .. Filled |-> ringqueue[Ahead(i - 1)]]

Fifo == INSTANCE BoundedFifo WITH items <- Contents, got <- out

(* The ring implements the bounded FIFO: an item enters it at line 34 and  *)
(* leaves it at line 45, once, in order, and never beyond _cap items.      *)
ImplementsBoundedFifo == Fifo!Spec
=============================================================================
