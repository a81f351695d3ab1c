------------------------------ MODULE MCPools ------------------------------
(***************************************************************************)
(* Threads that hand out work, under fairness: the bounded queue with one  *)
(* consumer, a thread pool and the translation server.  The first state    *)
(* says which of them runs.  NoEmptyPop and ImplementsBoundedFifo are      *)
(* those of BlockQueue.  Clients, tasks and workers are interchangeable,   *)
(* and one of them stands for each.                                        *)
(***************************************************************************)
EXTENDS BlockQueue

CONSTANTS p1, p2, g1, v1, v2,       \* producers, the consumer and values of the queue
          w1, w2, w3, k1, k2,       \* workers and tasks
          c1, c2,                   \* clients of the server
          NoTask, NoConn, Main, Fds

VARIABLES program,
          tasks_, mutex_, tpc, t, main, arg, stored, named,
          fds, backlog, peer, request, closed, pending, io, up,
          ptasks_, pmutex_, ppc, pt, pmain, parg, pstored, pnamed

SocketTasks == [fd : Fds, conn : {c1, c2}]

Tcp == INSTANCE TcpServer WITH Workers <- {w1}, Tasks <- SocketTasks, Conns <- {c1, c2},
          pc <- tpc
Pool == INSTANCE ThreadPool WITH Workers <- {w1, w2, w3}, Tasks <- {k1, k2}, Spurious <- TRUE,
          tasks_ <- ptasks_, mutex_ <- pmutex_, pc <- ppc, t <- pt, main <- pmain,
          arg <- parg, stored <- pstored, named <- pnamed

tcp  == <<tasks_, mutex_, tpc, t, main, arg, stored, named,
          fds, backlog, peer, request, closed, pending, io, up>>
pool == <<ptasks_, pmutex_, ppc, pt, pmain, parg, pstored, pnamed>>

PoolsInit == program \in {"queue", "pool", "tcp"} /\ Init /\ Pool!Init /\ Tcp!TcpInit

PoolsNext == /\ UNCHANGED program
             /\ \/ program = "queue" /\ Next        /\ UNCHANGED <<pool, tcp>>
                \/ program = "pool"  /\ Pool!Next   /\ UNCHANGED <<vars, tcp>>
                \/ program = "tcp"   /\ Tcp!TcpNext /\ UNCHANGED <<vars, pool>>

(* The fairness of each module's FairSpec, for the program that runs. *)
PoolsSpec ==
  /\ PoolsInit /\ [][PoolsNext]_<<program, vars, pool, tcp>>
  /\ \A p \in Producers : WF_vars(program = "queue" /\ push(p))
  /\ \A c \in Consumers : WF_vars(program = "queue" /\ pop(c))
  /\ WF_pool(program = "pool" /\ (Pool!Starting \/ Pool!Pushing))
  /\ \A w \in {w1, w2, w3} : WF_pool(program = "pool" /\ (Pool!Taking(w) \/ Pool!Run(w)))
  /\ WF_tcp(program = "tcp" /\ up /\ Tcp!MainThread)
  /\ WF_tcp(program = "tcp" /\ up /\ Tcp!Worker(w1))
  /\ \A c \in {c1, c2} : WF_tcp(program = "tcp" /\ (Tcp!Send(c) \/ Tcp!Quit(c)))

-----------------------------------------------------------------------------
(* BlockQueue.hpp: neither side of the queue stops. *)
QueueMovesOn == program = "queue" => BothSidesProgress

(* ThreadPool.hpp: a task that is pushed is run. *)
EveryTaskRuns == k1 \in Pool!Queued ~> \E w \in {w1, w2, w3} : ppc[w] = "run" /\ pt[w] = k1

(* Task.hpp: every connection ends. *)
EveryConnectionEnds == program = "tcp" /\ peer[c1] = "here" ~> c1 \in closed \/ ~up
=============================================================================
