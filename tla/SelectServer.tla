---------------------------- MODULE SelectServer ----------------------------
(***************************************************************************)
(* IOModel/SelectServer/SelectServer.hpp: one thread, which asks select    *)
(* for the descriptors of fd_array that can be read and then walks the     *)
(* array.  Dispatcher asks about each entry whether the LISTENING socket   *)
(* is ready (line 92), not the entry's own descriptor.                     *)
(***************************************************************************)
EXTENDS Sockets

CONSTANT fd_max_num      \* length of fd_array

defaultfd == -1
Positions == 0 .. fd_max_num - 1

LengthAssumption == fd_max_num \in Nat \ {0, 1}

VARIABLES fd_array,
          rfds,          \* what select returned
          i              \* Dispatcher's loop; fd_max_num outside of it

vars == <<net, fd_array, rfds, i>>

(* Constructor, and Start up to its loop. *)
Init == /\ NetInit
        /\ fd_array = [p \in Positions |-> IF p = 0 THEN ListenFd ELSE defaultfd]
        /\ rfds = {}
        /\ i = fd_max_num

-----------------------------------------------------------------------------
(* Lines 122-148: select returns some of the descriptors of fd_array.  On  *)
(* a timeout or an error nothing changes and the loop starts again.        *)
Watched == {fd_array[p] : p \in Positions} \ {defaultfd}

Select == /\ i = fd_max_num
          /\ rfds' = {f \in Watched : Ready(f)}
          /\ rfds' # {} /\ i' = 0
          /\ UNCHANGED <<net, fd_array>>

-----------------------------------------------------------------------------
FreePositions == {p \in Positions \ {0} : fd_array[p] = defaultfd}
FirstFree     == CHOOSE p \in FreePositions : \A r \in FreePositions : p <= r

(* The first free entry takes the socket; without one it is closed again.  *)
Accepter ==
  \/ AcceptFails /\ UNCHANGED fd_array
  \/ FreePositions = {} /\ AcceptAndClose /\ UNCHANGED fd_array
  \/ /\ FreePositions # {} /\ Accept
     /\ fd_array' = [fd_array EXCEPT ![FirstFree] = NextFd]

(* Mutant: the connection is closed after its first message. *)
RecverOnce(fd, pos) ==
  /\ Readable(fd) /\ Close(fd)
  /\ fd_array' = [fd_array EXCEPT ![pos] = defaultfd]

(* Mutant: the entry is left in fd_array. *)
RecverKeeps(fd, pos) ==
  /\ ReadData(fd) \/ (AtEnd(fd) /\ Close(fd))
  /\ UNCHANGED fd_array

Recver(fd, pos) ==
  \/ ReadData(fd) /\ UNCHANGED fd_array
  \/ /\ AtEnd(fd) /\ Close(fd)
     /\ fd_array' = [fd_array EXCEPT ![pos] = defaultfd]

(* Line 92 names the listening socket, whatever the entry. *)
FD_ISSET(fd) == ListenFd \in rfds

Entry(fd) == /\ i \in Positions /\ fd = fd_array[i]
             /\ i' = i + 1
             /\ rfds' = IF i' = fd_max_num THEN {} ELSE rfds

Skip   == \E fd \in Fds \cup {ListenFd, defaultfd} :
            /\ Entry(fd)
            /\ fd = defaultfd \/ ~FD_ISSET(fd)
            /\ UNCHANGED <<net, fd_array>>
Listen == Entry(ListenFd) /\ FD_ISSET(ListenFd) /\ Accepter
Serve  == \E fd \in Fds : Entry(fd) /\ FD_ISSET(fd) /\ Recver(fd, i)

Dispatcher == Skip \/ Listen \/ Serve

-----------------------------------------------------------------------------
Server == Select \/ Dispatcher
Users  == \E c \in Conns : Client(c) /\ UNCHANGED <<fd_array, rfds, i>>

Next == Server \/ Users

Spec == Init /\ [][Next]_vars

(* The server runs whenever it is not blocked in select or read, accept    *)
(* does not fail for ever, and a connected user types something or gives   *)
(* up some day.                                                            *)
UserActs(c) == (Send(c) \/ Quit(c)) /\ UNCHANGED <<fd_array, rfds, i>>

FairSpec == /\ Spec /\ WF_vars(Server)
            /\ SF_vars(Listen /\ backlog' # backlog)
            /\ \A c \in Conns : WF_vars(UserActs(c))

-----------------------------------------------------------------------------
(* fd_array is what the server knows of its descriptors: every open one    *)
(* has exactly one entry and every entry is open, also when there was no   *)
(* room (lines 51-55), and though numbers of closed ones are used again.   *)
ArrayMatchesDescriptors ==
  /\ {fd_array[p] : p \in Positions} \cap Fds = Open
  /\ \A p, r \in Positions : fd_array[p] = fd_array[r] /\ fd_array[p] # defaultfd => p = r

(* Whoever connects is accepted some day, and be it to be turned away: the *)
(* read of a silent client blocks, but not for good if users act.  Who     *)
(* waits for ever does so because from some time on the process never has  *)
(* a descriptor left: fd_array has room for 1024, more than the usual      *)
(* limit leaves.                                                           *)
EveryoneIsAccepted ==
  \A c \in Conns : LET Waits == \E k \in DOMAIN backlog : backlog[k] = c
                   IN  <>[]Waits => <>[](Unused = {})

(* Line 147: once select has said that a descriptor is ready, the read     *)
(* that follows does not block.                                            *)
ReadsDontBlock ==
  \A fd \in Fds : i \in Positions /\ fd_array[i] = fd /\ FD_ISSET(fd) => Readable(fd)
=============================================================================
