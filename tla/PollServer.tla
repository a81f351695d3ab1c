----------------------------- MODULE PollServer -----------------------------
(***************************************************************************)
(* IOModel/PollServer/PollServer.hpp: the server of SelectServer with      *)
(* poll.  Dispatcher looks at `events`, what an entry asks for, and not at *)
(* `revents`, what poll answered, which is left out here since nobody reads*)
(* it: once anything is ready, every entry is served, the listening socket *)
(* first.                                                                  *)
(***************************************************************************)
EXTENDS Sockets

CONSTANT fd_max_num      \* length of rds

defaultfd == -1
eventnone == {}
POLLIN    == "POLLIN"
Positions == 0 .. fd_max_num - 1

LengthAssumption == fd_max_num \in Nat \ {0, 1}

VARIABLES rds,           \* entries [fd, events]
          i              \* Dispatcher's loop; fd_max_num outside of it

vars == <<net, rds, i>>

Pollfd(fd, events) == [fd |-> fd, events |-> events]

(* Constructor, and Start up to its loop. *)
Init == /\ NetInit
        /\ rds = [p \in Positions |-> IF p = 0 THEN Pollfd(ListenFd, {POLLIN})
                                              ELSE Pollfd(defaultfd, eventnone)]
        /\ i = fd_max_num

-----------------------------------------------------------------------------
(* poll ignores entries without a descriptor, and returns when there is    *)
(* something to report of another.  On a timeout or an error the loop      *)
(* starts again.                                                           *)
Answers(r) == r.fd # defaultfd /\ POLLIN \in r.events /\ Ready(r.fd)

Poll == /\ i = fd_max_num
        /\ \E p \in Positions : Answers(rds[p])
        /\ i' = 0
        /\ UNCHANGED <<net, rds>>

-----------------------------------------------------------------------------
FreePositions == {p \in Positions \ {0} : rds[p].fd = defaultfd}
FirstFree     == CHOOSE p \in FreePositions : \A r \in FreePositions : p <= r

(* Mutant: the new entry asks for nothing. *)
AccepterNoEvents ==
  \/ AcceptFails /\ UNCHANGED rds
  \/ FreePositions = {} /\ AcceptAndClose /\ UNCHANGED rds
  \/ /\ FreePositions # {} /\ Accept
     /\ rds' = [rds EXCEPT ![FirstFree] = Pollfd(NextFd, eventnone)]

Accepter ==
  \/ AcceptFails /\ UNCHANGED rds
  \/ FreePositions = {} /\ AcceptAndClose /\ UNCHANGED rds
  \/ /\ FreePositions # {} /\ Accept
     /\ rds' = [rds EXCEPT ![FirstFree] = Pollfd(NextFd, {POLLIN})]

(* Only fd is reset; events keeps its old content. *)
Recver(fd, pos) ==
  \/ ReadData(fd) /\ UNCHANGED rds
  \/ /\ AtEnd(fd) /\ Close(fd)
     /\ rds' = [rds EXCEPT ![pos].fd = defaultfd]

Entry(fd) == /\ i \in Positions /\ fd = rds[i].fd
             /\ i' = i + 1

(* Line 99. *)
Asked(p) == POLLIN \in rds[p].events

Skip   == \E fd \in Fds \cup {ListenFd, defaultfd} :
            /\ Entry(fd)
            /\ fd = defaultfd \/ ~Asked(i)
            /\ UNCHANGED <<net, rds>>
Listen == Entry(ListenFd) /\ Asked(i) /\ Accepter
Serve  == \E fd \in Fds : Entry(fd) /\ Asked(i) /\ Recver(fd, i)

Dispatcher == Skip \/ Listen \/ Serve

-----------------------------------------------------------------------------
Server == Poll \/ Dispatcher
Users  == \E c \in Conns : Client(c) /\ UNCHANGED <<rds, i>>

Next == Server \/ Users

Spec == Init /\ [][Next]_vars

(* The server runs whenever it is not blocked in poll, accept or read,     *)
(* accept does not fail for ever, and a connected user types something or  *)
(* gives up some day.                                                      *)
UserActs(c) == (Send(c) \/ Quit(c)) /\ UNCHANGED <<rds, i>>

FairSpec == /\ Spec /\ WF_vars(Server)
            /\ SF_vars(Listen /\ backlog' # backlog)
            /\ \A c \in Conns : WF_vars(UserActs(c))

-----------------------------------------------------------------------------
(* Every open descriptor has exactly one entry of rds, every entry with a  *)
(* descriptor is open, and it asks for input even where lines 82 and 88    *)
(* left the events of an earlier connection behind.                        *)
EntriesMatchDescriptors ==
  /\ {rds[p].fd : p \in Positions} \cap Fds = Open
  /\ \A p, r \in Positions : rds[p].fd = rds[r].fd /\ rds[p].fd # defaultfd => p = r
  /\ \A p \in Positions : rds[p].fd # defaultfd => Asked(p)

(* Whoever connects is accepted some day, or from some time on there is    *)
(* never a descriptor left: accept and read both block this server, but    *)
(* what blocks it ends when users act.                                     *)
EveryoneIsAccepted ==
  \A c \in Conns : LET Waits == \E k \in DOMAIN backlog : backlog[k] = c
                   IN  <>[]Waits => <>[](Unused = {})
=============================================================================
