----------------------------- MODULE TcpServer -----------------------------
(***************************************************************************)
(* NetWork/TCP: the translation server.  Its main thread accepts           *)
(* connections and pushes one Task per connection into the ThreadPool; a   *)
(* worker that runs the Task reads once, answers once and closes the       *)
(* descriptor.  The Task carries the descriptor by number, so everything   *)
(* rests on that number meaning the same connection until the close.       *)
(*                                                                         *)
(* The pool is the module ThreadPool, whose Run is split here into the     *)
(* statements of Task::run.  The kernel's descriptor table and the clients *)
(* are modelled from how the code uses them.                               *)
(***************************************************************************)
EXTENDS ThreadPool

CONSTANTS Conns,    \* the clients
          Fds,      \* descriptors left for connections
          NoConn    \* a free descriptor

ASSUME FdsAssumption   == Fds \subseteq Nat /\ Fds # {}
ASSUME ConnsAssumption == NoConn \notin Conns

(* Task(sockfd, clientip, clientport): a descriptor, and who it was for. *)
SocketTasks == [fd : Fds, conn : Conns]

VARIABLES
  fds,       \* the process's descriptor table
  backlog,   \* connections the kernel has completed and nobody accepted
  peer,      \* what each client is doing
  request,   \* connections with a request nobody has read
  closed,    \* connections the server has closed
  pending,   \* the Task main has made and not pushed yet
  io,        \* within t(): the statement each worker executes next
  up         \* the server process lives

tcpvars == <<fds, backlog, peer, request, closed, pending, io, up>>
allvars == <<vars, tcpvars>>

TcpInit == /\ Init
           /\ fds = [f \in Fds |-> NoConn]
           /\ backlog = << >>
           /\ peer = [c \in Conns |-> "away"]
           /\ request = {} /\ closed = {}
           /\ pending = NoTask
           /\ io = [w \in Workers |-> "read"]
           /\ up = TRUE

Free_fds == {f \in Fds : fds[f] = NoConn}

-----------------------------------------------------------------------------
(* The clients: TcpClient.cc connects, sends a line, may quit at any time. *)
Connect(c) ==
  /\ up /\ peer[c] = "away" /\ peer' = [peer EXCEPT ![c] = "here"]
  /\ backlog' = Append(backlog, c)
  /\ UNCHANGED <<vars, fds, request, closed, pending, io, up>>

Send(c) ==
  /\ peer[c] = "here" /\ c \notin request \cup closed
  /\ request' = request \cup {c}
  /\ UNCHANGED <<vars, fds, backlog, peer, closed, pending, io, up>>

Quit(c) ==
  /\ peer[c] = "here" /\ peer' = [peer EXCEPT ![c] = "gone"]
  /\ UNCHANGED <<vars, fds, backlog, request, closed, pending, io, up>>

(* The user starts the client again once the server is done with it. *)
Again(c) ==
  /\ c \in closed /\ peer' = [peer EXCEPT ![c] = "away"]
  /\ closed' = closed \ {c} /\ request' = request \ {c}
  /\ UNCHANGED <<vars, fds, backlog, pending, io, up>>

-----------------------------------------------------------------------------
(* Start, after the pool runs: accept gives the lowest free descriptor.    *)
(* With none free it fails and the loop tries again, changing nothing.     *)
Accept ==
  /\ main = "idle" /\ pending = NoTask
  /\ backlog # << >> /\ Free_fds # {}
  /\ LET fd == CHOOSE f \in Free_fds : \A g \in Free_fds : f <= g
     IN  /\ fds' = [fds EXCEPT ![fd] = Head(backlog)]
         /\ pending' = [fd |-> fd, conn |-> Head(backlog)]
  /\ backlog' = Tail(backlog)
  /\ UNCHANGED <<vars, peer, request, closed, io, up>>

(* GetInstance()->Push(t): the lock, then the rest as in the pool. *)
PushTask ==
  /\ pending # NoTask /\ PushLock(pending)
  /\ pending' = NoTask
  /\ UNCHANGED <<fds, backlog, peer, request, closed, io, up>>

-----------------------------------------------------------------------------
(* Task::run *)
Conn(w) == fds[t[w].fd]

Statement(w, from, to) == /\ pc[w] = "run" /\ io[w] = from
                          /\ io' = [io EXCEPT ![w] = to]

(* read returns 0, or fails on a reset or a descriptor that is not open. *)
NothingToRead(w) == /\ Conn(w) \notin request
                    /\ Conn(w) = NoConn \/ peer[Conn(w)] = "gone"

ReadRequest(w) == /\ Statement(w, "read", "write")
                  /\ Conn(w) \in request
                  /\ request' = request \ {Conn(w)}

(* Mutant: at the end of file the descriptor is closed here already. *)
ReadCloses(w) ==
  /\ \/ ReadRequest(w) /\ UNCHANGED fds
     \/ /\ Statement(w, "read", "close") /\ NothingToRead(w)
        /\ fds' = [fds EXCEPT ![t[w].fd] = NoConn]
        /\ UNCHANGED request
  /\ UNCHANGED <<vars, backlog, peer, closed, pending, up>>

(* read blocks until there is a request or nothing will ever come. *)
Read(w) ==
  /\ \/ ReadRequest(w)
     \/ /\ Statement(w, "read", "close") /\ NothingToRead(w)
        /\ UNCHANGED request
  /\ UNCHANGED <<vars, fds, backlog, peer, closed, pending, up>>

(* The message of line 27 begins with %s and its first argument is the     *)
(* number of a descriptor: undefined, and where the number is taken for an *)
(* address the process ends.  Otherwise line 33 follows, as in Read.       *)
LogQuit(w) ==
  /\ pc[w] = "run" /\ io[w] = "read" /\ NothingToRead(w)
  /\ up' = FALSE
  /\ UNCHANGED <<vars, fds, backlog, peer, request, closed, pending, io>>

Write(w) ==
  /\ Statement(w, "write", "close")
  /\ UNCHANGED <<vars, fds, backlog, peer, request, closed, pending, up>>

(* Mutant: the descriptor is not closed. *)
CloseForgotten(w) ==
  /\ Statement(w, "close", "read")
  /\ Run(w)
  /\ closed' = closed \cup ({Conn(w)} \ {NoConn})
  /\ UNCHANGED <<fds, backlog, peer, request, pending, up>>

Close(w) ==
  /\ Statement(w, "close", "read")
  /\ Run(w)
  /\ fds' = [fds EXCEPT ![t[w].fd] = NoConn]
  /\ closed' = closed \cup ({Conn(w)} \ {NoConn})
  /\ UNCHANGED <<backlog, peer, request, pending, up>>

-----------------------------------------------------------------------------
Client(c) == Connect(c) \/ Send(c) \/ Quit(c) \/ Again(c)

MainThread == \/ (Starting \/ Put \/ PushUnlock) /\ UNCHANGED tcpvars
              \/ Accept \/ PushTask

Worker(w) == \/ Taking(w) /\ UNCHANGED tcpvars
             \/ Read(w) \/ Write(w) \/ Close(w)

(* The process is gone. *)
Ended == ~up /\ UNCHANGED allvars

TcpNext == \/ up /\ MainThread
           \/ up /\ \E w \in Workers :
                \/ Worker(w) \/ LogQuit(w)
                \/ SpuriousWakeup(w) /\ UNCHANGED tcpvars
           \/ \E c \in Conns : Client(c)
           \/ Ended

TcpSpec == TcpInit /\ [][TcpNext]_allvars

(* The threads are scheduled; a connected user types a line or gives up.   *)
TcpFairSpec == /\ TcpSpec
               /\ WF_allvars(up /\ MainThread)
               /\ \A w \in Workers : WF_allvars(up /\ Worker(w))
               /\ \A c \in Conns : WF_allvars(Send(c) \/ Quit(c))

-----------------------------------------------------------------------------
(* The type invariant of what this module adds. *)
TcpTypeOK == /\ fds \in [Fds -> Conns \cup {NoConn}]
             /\ backlog \in Seq(Conns)
             /\ peer \in [Conns -> {"away", "here", "gone"}]
             /\ request \in SUBSET Conns /\ closed \in SUBSET Conns
             /\ pending \in SocketTasks \cup {NoTask}
             /\ io \in [Workers -> {"read", "write", "close"}]
             /\ up \in BOOLEAN

(* The Tasks between accept and close: with main, in the queue, at work.   *)
InFlight == ({pending} \cup (IF main = "put" THEN {arg} ELSE {}) \cup Queued \cup Held)
            \ {NoTask}

(* Line 91's descriptor still means the connection the Task was made for   *)
(* when line 18, 24 or 33 of Task.hpp uses it, although the numbers of     *)
(* closed descriptors are given out again.                                 *)
OwnConnection == \A k \in InFlight : fds[k.fd] = k.conn

(* Every open descriptor belongs to exactly one Task that will close it:   *)
(* none is leaked, none is closed twice.                                   *)
EveryFdHasItsTask ==
  \A f \in Fds : fds[f] # NoConn => \E k \in InFlight : k.fd = f

(* If users type or give up, every connection is closed some day, though   *)
(* a worker is blocked for as long as its user is silent.                  *)
EveryConnectionEnds == \A c \in Conns : peer[c] = "here" ~> c \in closed \/ ~up
=============================================================================
