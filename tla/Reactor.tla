------------------------------ MODULE Reactor ------------------------------
(***************************************************************************)
(* IOModel/Reactor: a dispatcher over an edge-triggered epoll instance,    *)
(* with a Connection and its callbacks for every descriptor.  An edge is   *)
(* reported once, so whoever handles it must go on until nothing is left.  *)
(*                                                                         *)
(* Only the listening Connection has a callback so far (line 140 is a      *)
(* TODO); an event of any other connection is taken and dropped.           *)
(***************************************************************************)
EXTENDS Sockets

CONSTANT num        \* room in revs

(* 0 is the terminal's, so accept never returns it and lines 142-156,      *)
(* which were meant for its failures, are never reached.                   *)
NumAssumption  == num \in Nat \ {0}
ZeroAssumption == 0 \notin Fds

VARIABLES
  connections,      \* the keys of _connections
  registered,       \* those of them that epoll knows
  edges,            \* descriptors with an edge nobody has been told of
  revs,             \* the events of the last wait that are still to come
  accepting         \* in the loop of Accepter

reactor == <<connections, registered, edges, revs, accepting>>
vars    == <<net, reactor>>

(* The constructor and Init, which adds the listening socket. *)
Init == /\ NetInit
        /\ connections = {ListenFd}
        /\ registered \in {{}, {ListenFd}}
        /\ edges = {} /\ revs = {}
        /\ accepting = FALSE

-----------------------------------------------------------------------------
(* AddConnection.  EPOLL_CTL_ADD reports what has arrived before it.  It    *)
(* may fail, which is only logged: the Connection is in _connections then, *)
(* and epoll does not know it.                                             *)
AddConnection(sock, ready) ==
  /\ connections' = connections \cup {sock}
  /\ \/ /\ registered' = registered \cup {sock}
        /\ edges' = IF ready THEN edges \cup {sock} ELSE edges
     \/ UNCHANGED <<registered, edges>>

(* What clients do reaches epoll as edges. *)
Edges(sockets) == edges' = edges \cup (sockets \cap registered)

FdOf(c) == {f \in Open : fds[f] = c}

Users == \E c \in Conns :
           /\ \/ Connect(c) /\ Edges({ListenFd})
              \/ (Send(c) \/ Quit(c)) /\ Edges(FdOf(c))
           /\ UNCHANGED <<connections, registered, revs, accepting>>

-----------------------------------------------------------------------------
(* Epoller::EpollerWait, and its return after three seconds. *)
EpollerWait == /\ ~accepting /\ revs = {}
               /\ revs' \in SUBSET edges \ {{}}
               /\ Cardinality(revs') <= num
               /\ edges' = edges \ revs'
               /\ UNCHANGED <<net, connections, registered, accepting>>

TimeOut == ~accepting /\ revs = {} /\ edges = {} /\ UNCHANGED vars

(* The accepted connection, with what its client has done meanwhile. *)
AcceptOne == Accept /\ AddConnection(NextFd, LET c == Head(backlog)
                                             IN  unread[c] > 0 \/ peer[c] = "gone")

(* Mutant: one connection for each edge. *)
AccepterOnce ==
  /\ accepting
  /\ \/ AcceptOne /\ accepting' = FALSE
     \/ AcceptFails /\ UNCHANGED <<connections, registered, edges, accepting>>
  /\ UNCHANGED revs

(* accept, again and again: -1 is neither > 0 nor == 0, so a failure, also *)
(* the EWOULDBLOCK of an empty backlog, changes nothing and the loop goes  *)
(* on.                                                                     *)
Accepter == /\ accepting
            /\ \/ AcceptOne
               \/ AcceptFails /\ UNCHANGED <<connections, registered, edges>>
               \/ backlog = << >> /\ UNCHANGED <<net, connections, registered, edges>>
            /\ UNCHANGED <<revs, accepting>>

(* The event of a descriptor with a Connection; its callback if it has one. *)
Dispatcher == /\ ~accepting
              /\ \E sock \in revs :
                   /\ revs' = revs \ {sock}
                   /\ accepting' = (sock \in connections /\ sock = ListenFd)
              /\ UNCHANGED <<net, connections, registered, edges>>

-----------------------------------------------------------------------------
Loop == EpollerWait \/ TimeOut \/ Dispatcher \/ Accepter

Next == Loop \/ Users

Spec == Init /\ [][Next]_vars

(* The server runs; accept does not fail for ever while there is somebody  *)
(* to accept and a descriptor left.                                        *)
FairSpec == Spec /\ WF_vars(Loop)

-----------------------------------------------------------------------------
(* The type invariant. *)
TypeOK == /\ NetTypeOK
          /\ connections = Open \cup {ListenFd}
          /\ registered \in SUBSET connections
          /\ edges \in SUBSET registered /\ revs \in SUBSET registered
          /\ accepting \in BOOLEAN

(* Line 132: the edge of the listening socket, if epoll knows it, is not   *)
(* used up while there is a connection to accept.  It is still to be       *)
(* reported, or about to be dispatched, or Accepter is at work.            *)
NobodyIsStranded ==
  backlog # << >> /\ ListenFd \in registered => ListenFd \in edges \cup revs \/ accepting

(* Every connection is accepted some day, as long as there are descriptors *)
(* for them: none is ever closed (line 140 is a TODO), so the number of    *)
(* clients this server can have in its whole life is that of its           *)
(* descriptors.  And none is accepted if the listening socket could not be *)
(* added to epoll.                                                         *)
EveryoneIsAccepted ==
  \A c \in Conns : LET Waits == \E k \in DOMAIN backlog : backlog[k] = c
                   IN  <>[]Waits => <>[](Unused = {} \/ ListenFd \notin registered)
=============================================================================
