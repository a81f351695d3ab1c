---------------------------- MODULE ThreadPool -----------------------------
(***************************************************************************)
(* ThreadPool.hpp, of which the repository keeps two copies that do the    *)
(* same: pthread/threadPool/ and NetWork/TCP/.  One thread starts the      *)
(* workers and then pushes tasks forever; every worker takes a task off    *)
(* the queue and runs it, or sleeps while there is none.                   *)
(***************************************************************************)
EXTENDS Integers, Sequences, FiniteSets

CONSTANTS Workers,     \* the threads of threads_
          Tasks,       \* what Push may be given; a task is pushed again only
                       \* after it has run, so |Tasks| bounds the queue
          Spurious,    \* may pthread_cond_wait return without a signal?
          NoTask,      \* initial content of locals
          Main, Free   \* the pushing thread; the owner of an unlocked mutex

ASSUME WorkersAssumption  == /\ Workers # {} /\ IsFiniteSet(Workers)
                             /\ Main \notin Workers /\ Free \notin Workers \cup {Main}
ASSUME TasksAssumption    == NoTask \notin Tasks
ASSUME SpuriousAssumption == Spurious \in BOOLEAN

VARIABLES
  tasks_,     \* the queue
  mutex_,     \* its owner, or Free
  pc,         \* what each worker does next; "none" before pthread_create
  t,          \* the task a worker took last
  main,       \* what the pushing thread does next
  arg,        \* the argument of its current Push
  stored,     \* the workers whose tid has reached threads_
  named       \* the workers whose GetThreadName found their name

vars == <<tasks_, mutex_, pc, t, main, arg, stored, named>>

Init == /\ tasks_ = << >>
        /\ mutex_ = Free
        /\ pc = [w \in Workers |-> "none"]
        /\ t = [w \in Workers |-> NoTask]
        /\ main = "start"
        /\ arg = NoTask
        /\ stored = {} /\ named = {}

Goto(w, from, to) == pc[w] = from /\ pc' = [pc EXCEPT ![w] = to]

Sleeping == {w \in Workers : pc[w] = "asleep"}
Held     == {t[w] : w \in {u \in Workers : pc[u] \in {"unlock", "run"}}}
Queued   == {tasks_[i] : i \in DOMAIN tasks_}

-----------------------------------------------------------------------------
(* Start: one pthread_create after the other.  The new thread may run      *)
(* before pthread_create has stored its tid in threads_[i].                *)
Create(w) ==
  /\ main = "start"
  /\ Goto(w, "none", "lookup")
  /\ main' = "store" /\ arg' = w
  /\ UNCHANGED <<tasks_, mutex_, t, stored, named>>

StoreTid ==
  /\ main = "store"
  /\ stored' = stored \cup {arg}
  /\ main' = IF stored' = Workers THEN "idle" ELSE "start"
  /\ arg' = NoTask
  /\ UNCHANGED <<tasks_, mutex_, pc, t, named>>

-----------------------------------------------------------------------------
(* Push *)
PushLock(k) ==
  /\ main = "idle" /\ main' = "put"
  /\ k \notin Queued \cup Held
  /\ mutex_ = Free /\ mutex_' = Main
  /\ arg' = k
  /\ UNCHANGED <<tasks_, pc, t, stored, named>>

(* Mutant: no WakeUp. *)
PutSilently ==
  /\ main = "put" /\ main' = "unlock"
  /\ tasks_' = Append(tasks_, arg)
  /\ UNCHANGED <<mutex_, pc, t, arg, stored, named>>

(* tasks_.push(t); WakeUp(): one sleeper, if there is one. *)
Put ==
  /\ main = "put" /\ main' = "unlock"
  /\ tasks_' = Append(tasks_, arg)
  /\ IF Sleeping = {} THEN UNCHANGED pc
     ELSE \E w \in Sleeping : pc' = [pc EXCEPT ![w] = "relock"]
  /\ UNCHANGED <<mutex_, t, arg, stored, named>>

PushUnlock ==
  /\ main = "unlock" /\ main' = "idle"
  /\ mutex_' = Free
  /\ UNCHANGED <<tasks_, pc, t, arg, stored, named>>

-----------------------------------------------------------------------------
(* HandlerTask *)
GetThreadName(w) ==
  /\ Goto(w, "lookup", "lock")
  /\ named' = IF w \in stored THEN named \cup {w} ELSE named
  /\ UNCHANGED <<tasks_, mutex_, t, main, arg, stored>>

(* Lock(), and the return from Sleep() with the mutex held again. *)
Acquire(w) ==
  /\ Goto(w, "lock", "test") \/ Goto(w, "relock", "test")
  /\ mutex_ = Free /\ mutex_' = w
  /\ UNCHANGED <<tasks_, t, main, arg, stored, named>>

Sleep(w) ==
  /\ tasks_ = << >>
  /\ Goto(w, "test", "asleep")
  /\ mutex_' = Free
  /\ UNCHANGED <<tasks_, t, main, arg, stored, named>>

(* Mutant: the task pushed last is read. *)
FrontLast(w) ==
  /\ tasks_ # << >>
  /\ Goto(w, "test", "pop")
  /\ t' = [t EXCEPT ![w] = tasks_[Len(tasks_)]]
  /\ UNCHANGED <<tasks_, mutex_, main, arg, stored, named>>

Front(w) ==
  /\ tasks_ # << >>
  /\ Goto(w, "test", "pop")
  /\ t' = [t EXCEPT ![w] = Head(tasks_)]
  /\ UNCHANGED <<tasks_, mutex_, main, arg, stored, named>>

PopFront(w) ==
  /\ Goto(w, "pop", "unlock")
  /\ tasks_' = Tail(tasks_)
  /\ UNCHANGED <<mutex_, t, main, arg, stored, named>>

Unlock(w) ==
  /\ Goto(w, "unlock", "run")
  /\ mutex_' = Free
  /\ UNCHANGED <<tasks_, t, main, arg, stored, named>>

(* t(), outside the lock. *)
Run(w) ==
  /\ Goto(w, "run", "lock")
  /\ UNCHANGED <<tasks_, mutex_, t, main, arg, stored, named>>

(* POSIX: a wait may end without any signal. *)
SpuriousWakeup(w) ==
  /\ Spurious
  /\ Goto(w, "asleep", "relock")
  /\ UNCHANGED <<tasks_, mutex_, t, main, arg, stored, named>>

-----------------------------------------------------------------------------
Starting  == StoreTid \/ \E w \in Workers : Create(w)
Pushing   == Put \/ PushUnlock \/ \E k \in Tasks : PushLock(k)
Taking(w) == GetThreadName(w) \/ Acquire(w) \/ Sleep(w)
                            \/ Front(w) \/ PopFront(w) \/ Unlock(w)

Next == \/ Starting \/ Pushing
        \/ \E w \in Workers : Taking(w) \/ Run(w) \/ SpuriousWakeup(w)

Spec == Init /\ [][Next]_vars

(* Every thread that can go on does so some day; nothing is assumed about  *)
(* who gets the mutex or which sleeper a signal wakes.                     *)
FairSpec == /\ Spec
            /\ WF_vars(Starting \/ Pushing)
            /\ \A w \in Workers : WF_vars(Taking(w) \/ Run(w))

-----------------------------------------------------------------------------
(* The type invariant. *)
TypeOK == /\ tasks_ \in Seq(Tasks)
          /\ mutex_ \in Workers \cup {Main, Free}
          /\ pc \in [Workers -> {"none", "lookup", "lock", "test", "asleep",
                                 "relock", "pop", "unlock", "run"}]
          /\ t \in [Workers -> Tasks \cup {NoTask}]
          /\ main \in {"start", "store", "idle", "put", "unlock"}
          /\ arg \in Tasks \cup Workers \cup {NoTask}
          /\ stored \in SUBSET Workers /\ named \in SUBSET stored

(* A task is never left in the queue with every worker asleep: the signal  *)
(* of Push (line 75) is neither lost nor sent before the sleeper sleeps.   *)
NoLostWakeup == tasks_ # << >> => Sleeping # Workers

(* No task is run twice: it is in the queue at most once, at most one      *)
(* worker has it, and never both, though every worker reads the front      *)
(* (line 55) in one step and removes it (line 56) in another.              *)
EachTaskOnce ==
  /\ \A i, j \in DOMAIN tasks_ : tasks_[i] = tasks_[j] => i = j
  /\ \A w, u \in Workers :
       /\ pc[w] \in {"unlock", "run"} /\ pc[u] \in {"unlock", "run"}
       /\ t[w] = t[u]
       => w = u
  /\ Queued \cap Held = {}

(* Every pushed task is run some day, by somebody.                         *)
EveryTaskRuns == \A k \in Tasks :
                   k \in Queued ~> \E w \in Workers : pc[w] = "run" /\ t[w] = k

(* The pool hands every task out once, in the order of the pushes.  The    *)
(* task a worker has read but not removed yet is no longer on offer.       *)
OnOffer == IF \E w \in Workers : pc[w] = "pop" THEN Tail(tasks_) ELSE tasks_

Fifo == INSTANCE BoundedFifo WITH items <- OnOffer, got <- t, Consumers <- Workers,
                                  Values <- Tasks, Cap <- Cardinality(Tasks), NoValue <- NoTask

ImplementsBoundedFifo == Fifo!Spec
=============================================================================
