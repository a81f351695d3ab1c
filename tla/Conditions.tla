----------------------------- MODULE Conditions -----------------------------
(***************************************************************************)
(* pthread/mycond.cc, and the same in pthread/condition: threads that wait *)
(* for no condition at all, and a main thread that wakes them once a       *)
(* second.  A broadcast that nobody waits for is lost.                     *)
(***************************************************************************)
EXTENDS Naturals, FiniteSets

CONSTANTS Threads,
          Free,         \* the owner of an unlocked mutex
          Wrap          \* bound: cnt is counted modulo Wrap

ThreadsAssumption == Free \notin Threads /\ Wrap \in Nat \ {0, 1}

VARIABLES mutex,
          thread,       \* what each thread does next; "none" before its creation
          created,      \* main has left its first loop
          cnt

vars == <<mutex, thread, created, cnt>>

Init == /\ mutex = Free /\ created = FALSE /\ cnt = 0
        /\ thread = [t \in Threads |-> "none"]

Goto(t, from, to) == thread[t] = from /\ thread' = [thread EXCEPT ![t] = to]

-----------------------------------------------------------------------------
(* Count *)
Lock(t)   == /\ \/ Goto(t, "lock", "wait")        \* pthread_mutex_lock
                \/ Goto(t, "relock", "count")     \* the end of pthread_cond_wait
             /\ mutex = Free /\ mutex' = t
             /\ UNCHANGED <<created, cnt>>

Wait(t)   == /\ Goto(t, "wait", "asleep") /\ mutex' = Free
             /\ UNCHANGED <<created, cnt>>

PrintCnt(t) == /\ Goto(t, "count", "unlock") /\ cnt' = (cnt + 1) % Wrap
             /\ UNCHANGED <<mutex, created>>

(* Mutant: the mutex stays locked. *)
NoUnlock(t) == /\ Goto(t, "unlock", "lock")
               /\ UNCHANGED <<mutex, created, cnt>>

Unlock(t) == /\ Goto(t, "unlock", "lock") /\ mutex' = Free
             /\ UNCHANGED <<created, cnt>>

Count(t) == Lock(t) \/ Wait(t) \/ PrintCnt(t) \/ Unlock(t)

(* POSIX: a wait may end without a signal. *)
SpuriousWakeup(t) == Goto(t, "asleep", "relock") /\ UNCHANGED <<mutex, created, cnt>>

(* main *)
Create == /\ ~created
          /\ \/ \E t \in Threads : Goto(t, "none", "lock") /\ UNCHANGED created
             \/ /\ \A t \in Threads : thread[t] # "none"
                /\ created' = TRUE /\ UNCHANGED thread
          /\ UNCHANGED <<mutex, cnt>>

Broadcast == /\ created
             /\ thread' = [t \in Threads |-> IF thread[t] = "asleep" THEN "relock" ELSE thread[t]]
             /\ UNCHANGED <<mutex, created, cnt>>

-----------------------------------------------------------------------------
Next == \/ Create \/ Broadcast
        \/ \E t \in Threads : Count(t) \/ SpuriousWakeup(t)

Spec == Init /\ [][Next]_vars

(* Every thread is scheduled; who gets the mutex is anybody's guess. *)
FairSpec == /\ Spec
            /\ WF_vars(Create) /\ WF_vars(Broadcast)
            /\ \A t \in Threads : WF_vars(Count(t))

-----------------------------------------------------------------------------
(* The type invariant. *)
TypeOK == /\ mutex \in Threads \cup {Free} /\ created \in BOOLEAN
          /\ thread \in [Threads -> {"none", "lock", "wait", "asleep", "relock", "count", "unlock"}]
          /\ cnt \in 0 .. Wrap - 1

(* Lines 17-19 of condition/mycond.cc: although the wait has no predicate  *)
(* and a broadcast may come while nobody waits, the counting never stops.  *)
CountGoesOn == []<><<\E t \in Threads : PrintCnt(t)>>_vars
=============================================================================
