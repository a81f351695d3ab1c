------------------------------ MODULE Tickets ------------------------------
(***************************************************************************)
(* pthread/ticket.cc and LockGuard.hpp: threads sell the same tickets.     *)
(* The LockGuard is made at the top of each turn of the loop and destroyed *)
(* at its end, also by the break.                                          *)
(***************************************************************************)
EXTENDS Naturals, FiniteSets

CONSTANTS Sellers,      \* NUM threads
          Total,        \* tickets at the start: 1000
          Free          \* the owner of an unlocked mutex

TicketsAssumption == Total \in Nat /\ Free \notin Sellers

VARIABLES tickets, lock,
          seller,       \* what each thread does next
          sold          \* history: how often each number was printed

vars == <<tickets, lock, seller, sold>>

Init == /\ tickets = Total /\ lock = Free
        /\ seller = [s \in Sellers |-> "lock"]
        /\ sold = [n \in 0 .. Total |-> 0]

Goto(s, from, to) == seller[s] = from /\ seller' = [seller EXCEPT ![s] = to]

-----------------------------------------------------------------------------
(* Mutant: a Mutex that is not locked. *)
NoLockGuard(s) == /\ Goto(s, "lock", "test")
                  /\ UNCHANGED <<tickets, lock, sold>>

LockGuard(s) == /\ Goto(s, "lock", "test")
                /\ lock = Free /\ lock' = s
                /\ UNCHANGED <<tickets, sold>>

(* ~LockGuard, at the end of the turn or with the break. *)
Unlock(s) == lock' = IF lock = s THEN Free ELSE lock

Test(s) == /\ IF tickets > 0 THEN Goto(s, "test", "print") /\ UNCHANGED lock
                             ELSE Goto(s, "test", "quit") /\ Unlock(s)
           /\ UNCHANGED <<tickets, sold>>

PrintTicket(s) == /\ Goto(s, "print", "decrement")
                  /\ sold' = [sold EXCEPT ![tickets] = @ + 1]
                  /\ UNCHANGED <<tickets, lock>>

Decrement(s) == /\ Goto(s, "decrement", "lock")
                /\ tickets' = tickets - 1
                /\ Unlock(s)
                /\ UNCHANGED sold

getTicket(s) == LockGuard(s) \/ Test(s) \/ PrintTicket(s) \/ Decrement(s)

(* main joins them all and returns. *)
Joined == (\A s \in Sellers : seller[s] = "quit") /\ UNCHANGED vars

-----------------------------------------------------------------------------
Next == Joined \/ \E s \in Sellers : getTicket(s)

Spec == Init /\ [][Next]_vars

-----------------------------------------------------------------------------
(* The type invariant. *)
TypeOK == /\ tickets \in 0 .. Total
          /\ lock \in Sellers \cup {Free}
          /\ seller \in [Sellers -> {"lock", "test", "print", "decrement", "quit"}]
          /\ sold \in [0 .. Total -> Nat]

(* Lines 32-36: no number is sold twice and none that does not exist, and  *)
(* when a thread quits, all have been sold.                                *)
EachTicketOnce ==
  /\ \A n \in 0 .. Total : sold[n] <= (IF n = 0 THEN 0 ELSE 1)
  /\ (\E s \in Sellers : seller[s] = "quit") => \A n \in 1 .. Total : sold[n] = 1
=============================================================================
