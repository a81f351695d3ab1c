---------------------------- MODULE BoundedFifo ----------------------------
(***************************************************************************)
(* What the two producer/consumer containers of pthread/ promise their     *)
(* callers: a queue of at most Cap items, shared by any number of threads, *)
(* from which every item that was pushed comes out once, in the order in   *)
(* which the pushes took effect.  RingQueue and BlockQueue are shown to    *)
(* implement it; nothing here is code.                                     *)
(***************************************************************************)
EXTENDS Naturals, Sequences

CONSTANTS Consumers,    \* the threads that pop
          Values,       \* what a push may carry
          Cap,          \* capacity
          NoValue       \* "nothing popped yet"

VARIABLES items,        \* the queue, oldest first
          got           \* per consumer, what its latest pop delivered

vars == <<items, got>>

Init == /\ items = << >>
        /\ got = [c \in Consumers |-> NoValue]

Enqueue(v) == /\ Len(items) < Cap
              /\ items' = Append(items, v)
              /\ UNCHANGED got

Dequeue(c) == /\ items # << >>
              /\ got' = [got EXCEPT ![c] = Head(items)]
              /\ items' = Tail(items)

Next == \/ \E v \in Values : Enqueue(v)
        \/ \E c \in Consumers : Dequeue(c)

Spec == Init /\ [][Next]_vars
=============================================================================
