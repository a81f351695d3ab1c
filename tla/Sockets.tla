------------------------------ MODULE Sockets ------------------------------
(***************************************************************************)
(* What the servers of IOModel stand on: the kernel's side of their TCP    *)
(* sockets, and clients that connect, send and quit.  None of it is code   *)
(* of the repository; it is modelled from how Socket.hpp and the servers   *)
(* use it.  A server module adds its own state and its thread.             *)
(*                                                                         *)
(* Data are counted, not looked at: unread[c] is how much of what client c *)
(* sent has not been read yet, in the pieces a read may return.            *)
(***************************************************************************)
EXTENDS Integers, Sequences, FiniteSets

CONSTANTS Conns,       \* the clients
          Fds,         \* descriptor numbers for their connections
          ListenFd,    \* the listening socket
          NoConn,      \* what a closed descriptor refers to
          MaxUnread    \* bound: a client sends no more before it is read

ASSUME ConnsAssumption == NoConn \notin Conns
ASSUME FdsAssumption   == /\ Fds \subseteq Nat /\ Fds # {}
                          /\ ListenFd \in Nat \ Fds
ASSUME MaxUnreadAssumption == MaxUnread \in Nat \ {0}

VARIABLES
  fds,       \* the descriptor table, as far as the process' limit lets it grow
  backlog,   \* connections completed and not accepted
  peer,      \* what each client is doing
  unread

net == <<fds, backlog, peer, unread>>

(* The limit on open files is the user's: any number of Fds may be the last. *)
NetInit == /\ \E last \in Fds : fds = [f \in {g \in Fds : g <= last} |-> NoConn]
           /\ backlog = << >>
           /\ peer = [c \in Conns |-> "away"]
           /\ unread = [c \in Conns |-> 0]

-----------------------------------------------------------------------------
Connect(c) == /\ peer[c] = "away" /\ peer' = [peer EXCEPT ![c] = "here"]
              /\ backlog' = Append(backlog, c)
              /\ UNCHANGED <<fds, unread>>

Send(c) == /\ peer[c] = "here" /\ unread[c] < MaxUnread
           /\ unread' = [unread EXCEPT ![c] = @ + 1]
           /\ UNCHANGED <<fds, backlog, peer>>

Quit(c) == /\ peer[c] = "here" /\ peer' = [peer EXCEPT ![c] = "gone"]
           /\ UNCHANGED <<fds, backlog, unread>>

Client(c) == Connect(c) \/ Send(c) \/ Quit(c)

-----------------------------------------------------------------------------
Open    == {f \in DOMAIN fds : fds[f] # NoConn}
Unused  == DOMAIN fds \ Open
NextFd  == CHOOSE f \in Unused : \A g \in Unused : f <= g

(* A read of f would return at once; accept would return a connection. *)
Readable(f) == LET c == fds[f] IN unread[c] > 0 \/ peer[c] = "gone"
Ready(f)    == IF f = ListenFd THEN backlog # << >> ELSE f \in Open /\ Readable(f)

(* accept takes the lowest number.  It fails when there is none, and may   *)
(* fail for the kernel's own reasons when there is a connection to accept. *)
AcceptFails == (Unused = {} \/ backlog # << >>) /\ UNCHANGED net
Accept      == /\ Unused # {} /\ backlog # << >>
               /\ fds' = [fds EXCEPT ![NextFd] = Head(backlog)]
               /\ backlog' = Tail(backlog)
               /\ UNCHANGED <<peer, unread>>

(* A connection that is over; its client may start again. *)
Forget(c) == /\ peer' = [peer EXCEPT ![c] = "away"]
             /\ unread' = [unread EXCEPT ![c] = 0]

AcceptAndClose == /\ Unused # {} /\ backlog # << >>
                  /\ Forget(Head(backlog))
                  /\ backlog' = Tail(backlog)
                  /\ UNCHANGED fds

(* read blocks until it can return some of the data, or else 0 or an error. *)
ReadData(f) == LET c == fds[f]
               IN  /\ unread[c] > 0
                   /\ \E n \in 1 .. unread[c] : unread' = [unread EXCEPT ![c] = @ - n]
                   /\ UNCHANGED <<fds, backlog, peer>>
Over(c)     == unread[c] = 0 /\ peer[c] = "gone"
AtEnd(f)    == Over(fds[f])
Close(f)    == /\ fds' = [fds EXCEPT ![f] = NoConn]
               /\ Forget(fds[f])
               /\ UNCHANGED backlog

-----------------------------------------------------------------------------
NetTypeOK == /\ DOMAIN fds \subseteq Fds
             /\ fds \in [DOMAIN fds -> Conns \cup {NoConn}]
             /\ backlog \in Seq(Conns)
             /\ peer \in [Conns -> {"away", "here", "gone"}]
             /\ unread \in [Conns -> 0 .. MaxUnread]
=============================================================================
