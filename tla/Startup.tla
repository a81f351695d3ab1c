------------------------------ MODULE Startup ------------------------------
(***************************************************************************)
(* NetWork/TCP from the first statement to the accept loop: the            *)
(* dictionary, the listening socket, Daemon, which main and Start both     *)
(* call, and the pool's singleton.  What is left of a fork is the child,   *)
(* and of all the threads only the one that forked; GetInstance locks      *)
(* lock_ and never unlocks it, and is called for every connection.         *)
(*                                                                         *)
(* From the loop on, the module TcpServer goes into detail.                *)
(***************************************************************************)
EXTENDS Naturals

CONSTANTS defaultnum,     \* threads of the pool: 5
          MaxLinks        \* bound: connections

StartupAssumption == defaultnum \in Nat /\ MaxLinks \in Nat

VARIABLES step,           \* the statement the server executes next
          proc,           \* which process it is: 1, and one more for each fork
          terminal,       \* it has a controlling terminal
          tp_, lock_,     \* the singleton exists; its mutex is locked
          pool,           \* where the pool's threads live, and how many run
          waiting, links, pushed    \* connections: complete, accepted, in the queue

vars == <<step, proc, terminal, tp_, lock_, pool, waiting, links, pushed>>

process == <<proc, terminal>>
single  == <<tp_, lock_, pool>>
network == <<waiting, links, pushed>>

Init == /\ step = "Init" /\ proc = 1 /\ terminal = TRUE
        /\ tp_ = FALSE /\ lock_ = FALSE
        /\ pool = [of |-> 0, threads |-> 0]
        /\ waiting = 0 /\ links = 0 /\ pushed = 0

Goto(from, to) == step = from /\ step' = to

-----------------------------------------------------------------------------
(* The constructor of init runs before main; like socket, bind and listen  *)
(* it ends the program when it fails.                                      *)
Dictionary == Goto("Init", "socket") /\ UNCHANGED <<process, single, network>>
Socket     == Goto("socket", "bind") /\ UNCHANGED <<process, single, network>>
Bind       == Goto("bind", "listen") /\ UNCHANGED <<process, single, network>>
Listen     == Goto("listen", "Daemon1") /\ UNCHANGED <<process, single, network>>

Exit == /\ \E failed \in {"Init", "socket", "bind", "listen"} : Goto(failed, "exited")
        /\ UNCHANGED <<process, single, network>>

(* Daemon.  "fork() > 0" takes a fork that fails for the child: the same   *)
(* process goes on, and setsid fails, as it leads its group.               *)
Daemon(from, to) ==
  /\ Goto(from, to)
  /\ \/ proc' = proc + 1 /\ terminal' = FALSE
     \/ UNCHANGED process
  /\ UNCHANGED <<single, network>>

(* ThreadPool::Start; pthread_create may fail, unnoticed. *)
StartPool(from, to) ==
  /\ Goto(from, to) /\ tp_
  /\ \E n \in 0 .. defaultnum : pool' = [of |-> proc, threads |-> n]
  /\ UNCHANGED <<tp_, lock_, process, network>>

-----------------------------------------------------------------------------
(* GetInstance, lines 82-91, between the statements from and to.           *)
(* Mutant: the test before the lock is gone. *)
NoOuterTest(from, locking, to) == Goto(from, locking)

OuterTest(from, locking, to) == Goto(from, IF tp_ THEN to ELSE locking)

(* Whether or not the object is made here, lock_ stays locked. *)
LockAndTest(locking, to) == /\ Goto(locking, to)
                            /\ ~lock_ /\ lock_' = TRUE
                            /\ tp_' = TRUE

GetInstance(from, locking, to) ==
  /\ \/ OuterTest(from, locking, to) /\ UNCHANGED <<tp_, lock_>>
     \/ LockAndTest(locking, to)
  /\ UNCHANGED <<pool, process, network>>

-----------------------------------------------------------------------------
(* Mutant: Start starts the pool before it calls Daemon. *)
StartSwapped == \/ GetInstance("Daemon2", "lock1", "Start")
                \/ StartPool("Start", "GetInstance")
                \/ Daemon("GetInstance", "accept")

(* The first statements of Start. *)
StartStatements == \/ Daemon("Daemon2", "GetInstance")
                   \/ GetInstance("GetInstance", "lock1", "Start")
                   \/ StartPool("Start", "accept")

Accept == /\ Goto("accept", "again")
          /\ waiting > 0 /\ waiting' = waiting - 1
          /\ links' = links + 1
          /\ UNCHANGED <<process, single, pushed>>

Push == /\ Goto("Push", "accept")
        /\ pushed' = pushed + 1
        /\ UNCHANGED <<process, single, waiting, links>>

(* A client: the kernel completes connections once there is a listener. *)
Connect == /\ step \notin {"Init", "socket", "bind", "listen", "exited"}
           /\ waiting + links < MaxLinks /\ waiting' = waiting + 1
           /\ UNCHANGED <<step, process, single, links, pushed>>

Server == \/ Dictionary \/ Socket \/ Bind \/ Listen \/ Exit
          \/ Daemon("Daemon1", "Daemon2") \/ StartStatements
          \/ Accept \/ GetInstance("again", "lock2", "Push") \/ Push

(* Nobody to accept, a locked mutex, or the end. *)
Blocked == /\ \/ step = "accept" /\ waiting = 0
              \/ step \in {"lock1", "lock2"} /\ lock_
              \/ step = "exited"
           /\ UNCHANGED vars

-----------------------------------------------------------------------------
Next == Server \/ Connect \/ Blocked

Spec == Init /\ [][Next]_vars

(* The server runs. *)
FairSpec == Spec /\ WF_vars(Server)

-----------------------------------------------------------------------------
(* The type invariant. *)
TypeOK == /\ step \in {"Init", "socket", "bind", "listen", "exited", "Daemon1", "Daemon2",
                       "GetInstance", "lock1", "Start", "accept", "again", "lock2", "Push"}
          /\ proc \in 1 .. 3 /\ {terminal, tp_, lock_} \subseteq BOOLEAN
          /\ pool \in [of : 0 .. 3, threads : 0 .. defaultnum]
          /\ {waiting, links, pushed} \subseteq 0 .. MaxLinks

(* Lines 82-83 of TcpServer.hpp: the process that accepts is the one that  *)
(* started the pool's threads, which no fork would have taken along, and   *)
(* it has no terminal, unless both forks failed.  How many of the threads  *)
(* could be created is another matter: nobody looks.                       *)
ServesAsDaemon == step \in {"accept", "again", "lock2", "Push"} =>
                    /\ tp_ /\ pool.of = proc
                    /\ terminal => proc = 1

(* Lines 82-91 of ThreadPool.hpp: although lock_ is never unlocked, the    *)
(* call of GetInstance before the loop returns, and so do those in it, so  *)
(* that what was accepted is pushed.                                       *)
EveryCallReturns == /\ step \in {"GetInstance", "lock1"} ~> step = "Start"
                    /\ links > pushed ~> links = pushed
=============================================================================
