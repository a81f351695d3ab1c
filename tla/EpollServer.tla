---------------------------- MODULE EpollServer -----------------------------
(***************************************************************************)
(* IOModel/EpollServer: EpollServer.hpp and Epoller.hpp.  One thread takes *)
(* up to num events from epoll_wait and serves them one after the other;   *)
(* unlike the other two servers it echoes what it reads, with a write that *)
(* blocks as long as the client's buffers are full.                        *)
(***************************************************************************)
EXTENDS Sockets

CONSTANTS num,       \* length of revs
          Room       \* how many echoes fit into the buffers of a connection

NumAssumption == num \in Nat \ {0} /\ Room \in Nat

VARIABLES
  tree,      \* the descriptors added to the epoll instance
  lost,      \* those whose EPOLL_CTL_ADD failed
  revs,      \* events that epoll_wait returned and Dispatcher has not served
  writing,   \* the client whose message Recver is echoing, or NoConn
  echoes,    \* how many of its echoes each client has not read
  reset,     \* clients that are gone and have answered an echo with a reset
  up         \* the process lives

server == <<tree, lost, revs, writing, echoes, reset, up>>
vars   == <<net, server>>

(* Start adds the listening socket like any other. *)
Init == /\ NetInit
        /\ \/ tree = {ListenFd} /\ lost = {}
           \/ tree = {} /\ lost = {ListenFd}
        /\ revs = {}
        /\ writing = NoConn /\ echoes = [c \in Conns |-> 0]
        /\ reset = {}
        /\ up = TRUE

-----------------------------------------------------------------------------
(* EpollerUpdate.  That a descriptor could not be added is logged, and no  *)
(* caller looks at what EpollerUpdate returns: it stays open, and is never *)
(* reported.                                                               *)
EPOLL_CTL_ADD(sock) == \/ tree' = tree \cup {sock} /\ UNCHANGED lost
                       \/ lost' = lost \cup {sock} /\ UNCHANGED tree
EPOLL_CTL_DEL(sock) == tree' = tree \ {sock} /\ UNCHANGED lost

(* epoll_wait blocks until there is an event and returns at most num of    *)
(* them, in whatever order they became ready.                              *)
EpollerWait ==
  /\ revs = {} /\ writing = NoConn
  /\ LET ready == {f \in tree : Ready(f)}
     IN  /\ ready # {}
         /\ revs' \in SUBSET ready
         /\ Cardinality(revs') = IF num < Cardinality(ready) THEN num ELSE Cardinality(ready)
  /\ UNCHANGED <<net, tree, lost, writing, echoes, reset, up>>

-----------------------------------------------------------------------------
(* Mutant: the new connection is read straight away. *)
AccepterReads ==
  /\ \/ AcceptFails /\ UNCHANGED <<tree, lost>> /\ revs' = revs \ {ListenFd}
     \/ Accept /\ EPOLL_CTL_ADD(NextFd) /\ revs' = (revs \ {ListenFd}) \cup {NextFd}
  /\ UNCHANGED <<writing, echoes, reset, up>>

(* Mutant: the new connection is not added. *)
AccepterNoAdd ==
  /\ AcceptFails \/ Accept
  /\ revs' = revs \ {ListenFd}
  /\ UNCHANGED <<tree, lost, writing, echoes, reset, up>>

Accepter ==
  /\ \/ AcceptFails /\ UNCHANGED <<tree, lost>>
     \/ Accept /\ EPOLL_CTL_ADD(NextFd)
  /\ revs' = revs \ {ListenFd}
  /\ UNCHANGED <<writing, echoes, reset, up>>

(* Mutant: a descriptor at its end is left as it is. *)
RecverNoClose(fd) ==
  /\ revs' = revs \ {fd}
  /\ \/ ReadData(fd) /\ writing' = fds[fd]
     \/ AtEnd(fd) /\ UNCHANGED <<net, writing>>
  /\ UNCHANGED <<tree, lost, echoes, reset, up>>

(* Up to the write.  The kernel drops a closed descriptor by itself. *)
Recver(fd) ==
  /\ revs' = revs \ {fd}
  /\ \/ /\ ReadData(fd) /\ writing' = fds[fd]
        /\ UNCHANGED <<tree, lost, echoes, reset>>
     \/ /\ AtEnd(fd)
        /\ EPOLL_CTL_DEL(fd) /\ Close(fd)
        /\ echoes' = [echoes EXCEPT ![fds[fd]] = 0]
        /\ reset' = reset \ {fds[fd]}
        /\ UNCHANGED writing
  /\ UNCHANGED up

Listen == ListenFd \in revs /\ Accepter
Serve  == \E fd \in revs \ {ListenFd} : Recver(fd)

Dispatcher == writing = NoConn /\ (Listen \/ Serve)

-----------------------------------------------------------------------------
(* The write of line 54.  It waits until there is room, or the client is   *)
(* gone: then it returns all the same, and what was sent is answered with  *)
(* a reset, sooner or later.                                               *)
Write ==
  /\ writing # NoConn
  /\ \/ /\ peer[writing] # "gone" /\ echoes[writing] < Room
        /\ echoes' = [echoes EXCEPT ![writing] = @ + 1]
        /\ UNCHANGED reset
     \/ /\ peer[writing] = "gone"
        /\ reset' \in {reset, reset \cup {writing}}
        /\ UNCHANGED echoes
  /\ writing' = NoConn
  /\ UNCHANGED <<net, tree, lost, revs, up>>

(* A write after the reset may raise SIGPIPE, which nothing handles: the   *)
(* kernel closes every socket of the process.                              *)
Sigpipe ==
  /\ writing \in reset
  /\ fds' = [f \in DOMAIN fds |-> NoConn] /\ backlog' = << >>
  /\ peer' = [c \in Conns |-> "away"] /\ unread' = [c \in Conns |-> 0]
  /\ tree' = {} /\ lost' = {} /\ revs' = {}
  /\ writing' = NoConn /\ echoes' = [c \in Conns |-> 0] /\ reset' = {}
  /\ up' = FALSE

-----------------------------------------------------------------------------
(* What the users do here besides: one reads an echo, or leaves without    *)
(* having read all, and then its end answers with a reset at once.         *)
ReadEcho(c) == /\ peer[c] = "here" /\ echoes[c] > 0
               /\ echoes' = [echoes EXCEPT ![c] = @ - 1]
               /\ UNCHANGED <<net, reset>>

Leave(c)    == /\ Quit(c)
               /\ reset' \in IF echoes[c] > 0 THEN {reset, reset \cup {c}} ELSE {reset}
               /\ echoes' = [echoes EXCEPT ![c] = 0]

Users == /\ up
         /\ \E c \in Conns : \/ (Connect(c) \/ Send(c)) /\ UNCHANGED <<echoes, reset>>
                             \/ ReadEcho(c) \/ Leave(c)
         /\ UNCHANGED <<tree, lost, revs, writing, up>>

Server == up /\ (EpollerWait \/ Dispatcher \/ Write \/ Sigpipe)

(* The process is gone; or all clients are, and epoll_wait, which has no   *)
(* timeout, waits for ever since it knows none of their sockets.           *)
Ended == /\ \/ ~up
            \/ /\ lost # {} /\ revs = {} /\ writing = NoConn
               /\ \A c \in Conns : peer[c] = "gone"
         /\ UNCHANGED vars

Next == Server \/ Users \/ Ended

Spec == Init /\ [][Next]_vars

(* Nothing is assumed of the users.  The kernel reports descriptors that   *)
(* stay ready in turn, also when there are more of them than revs can hold.*)
FairSpec == /\ Spec /\ WF_vars(Server)
            /\ \A f \in Fds : SF_vars(up /\ EpollerWait /\ f \in revs')

-----------------------------------------------------------------------------
(* The type invariant. *)
TypeOK == /\ NetTypeOK
          /\ tree \in SUBSET (Fds \cup {ListenFd})
          /\ lost \in SUBSET (Fds \cup {ListenFd})
          /\ revs \in SUBSET tree
          /\ writing \in Conns \cup {NoConn}
          /\ echoes \in [Conns -> 0 .. Room]
          /\ reset \in SUBSET Conns
          /\ up \in BOOLEAN

(* Every open descriptor is watched unless the very call that should have  *)
(* added it failed, and then it is not closed either, so its number is     *)
(* never given out again; and every watched one is open, across the reuse  *)
(* of the other numbers.                                                   *)
TreeMatchesDescriptors == up => /\ tree \cup lost = Open \cup {ListenFd}
                                /\ tree \cap lost = {}

(* No read and no accept of Dispatcher blocks (of the write this says      *)
(* nothing), and no event is served on a descriptor that meant another     *)
(* connection when epoll_wait returned it: what was ready is ready when    *)
(* its turn comes, whatever was served first.                              *)
EventsStayTrue == \A fd \in revs : Ready(fd)

(* Line 58: when a client has quit, its descriptor is closed some day.     *)
(* Two things can keep the server from it for good: that the descriptor    *)
(* was never added, and that another client neither reads its echoes nor   *)
(* leaves, so that the write to it does not return.                        *)
Blocked == writing # NoConn /\ peer[writing] = "here" /\ echoes[writing] = Room

QuitsAreFollowed ==
  \A f \in Fds : LET Left == up /\ f \in Open \ lost /\ peer[fds[f]] = "gone"
                 IN  <>[]Left => <>[]Blocked
=============================================================================
