--------------------------- MODULE ServersProofs ----------------------------
(***************************************************************************)
(* The servers of MCServers for any number of clients and descriptors, any *)
(* length of fd_array and of rds and any num.  Each server's inductive     *)
(* invariant adds to its properties that each connection is in one place;  *)
(* the steps of the sockets are those of SocketsProofs.                    *)
(***************************************************************************)
EXTENDS MCServers, SocketsProofs

-----------------------------------------------------------------------------
(* EpollServer.  Only because each connection is in one place does serving *)
(* one event leave the other events of revs true.                          *)
EpollInv == TypeOK /\ OnePlace /\ TreeMatchesDescriptors /\ EventsStayTrue

LEMMA EpollStart == Init => EpollInv
<1> SUFFICES ASSUME Init PROVE EpollInv
  OBVIOUS
<1>0. Room \in Nat
  BY ServersAssumption DEF NumAssumption
<1>1. NetInv
  BY NetStart DEF Init
<1>2. Open = {}
  BY DEF Init, NetInit, Open
<1>3. TypeOK
  BY <1>0, <1>1 DEF Init, NetInv, TypeOK
<1>4. TreeMatchesDescriptors /\ EventsStayTrue
  BY <1>2 DEF Init, TreeMatchesDescriptors, EventsStayTrue
<1> QED BY <1>1, <1>3, <1>4 DEF EpollInv, NetInv

(* What an event on another descriptor than the listening one means.       *)
LEMMA EventsAreOpen ==
  ASSUME EpollInv, up, NEW fd \in revs, fd # ListenFd
  PROVE  fd \in Open /\ fd \in Fds /\ Readable(fd)
BY DEF EpollInv, TypeOK, NetTypeOK, TreeMatchesDescriptors, EventsStayTrue, Ready, Open

(* How readiness passes to the next state: descriptor by descriptor.       *)
LEMMA StillReady ==
  ASSUME NEW fd \in Open', fd # ListenFd, Readable(fd)'
  PROVE  Ready(fd)'
BY DEF Ready

(* A step that leaves the sockets alone. *)
LEMMA NetStays ==
  ASSUME UNCHANGED net
  PROVE  /\ NetInv => NetInv'
         /\ Open' = Open
         /\ \A f : Ready(f)' <=> Ready(f)
BY DEF net, NetInv, NetTypeOK, OnePlace, Backlogged, Open, Ready, Readable

-----------------------------------------------------------------------------
LEMMA EpollWaitKeeps == EpollInv /\ EpollerWait => EpollInv'
<1> SUFFICES ASSUME EpollInv, EpollerWait PROVE EpollInv'
  OBVIOUS
<1>0. NetInv
  BY DEF EpollInv, TypeOK, NetInv
<1>1. /\ revs' \subseteq {f \in tree : Ready(f)}
      /\ UNCHANGED <<net, tree, lost, writing, echoes, reset, up>>
  BY DEF EpollerWait
<1>2. NetInv' /\ Open' = Open /\ \A f \in revs' : Ready(f)'
  BY <1>0, <1>1, NetStays
<1>3. TypeOK' /\ TreeMatchesDescriptors'
  BY <1>1, <1>2 DEF EpollInv, TypeOK, NetInv, TreeMatchesDescriptors
<1> QED BY <1>2, <1>3 DEF EpollInv, NetInv, EventsStayTrue

LEMMA EpollListenKeeps == EpollInv /\ up /\ Listen => EpollInv'
<1> SUFFICES ASSUME EpollInv, up, Listen PROVE EpollInv'
  OBVIOUS
<1>0. NetInv
  BY DEF EpollInv, TypeOK, NetInv
<1>1. revs' = revs \ {ListenFd} /\ UNCHANGED <<writing, echoes, reset, up>>
  BY DEF Listen, Accepter
<1>2. \A f \in revs' : f \in Open /\ f \in DOMAIN fds /\ Readable(f) /\ f # ListenFd
  BY <1>1, EventsAreOpen DEF Open
<1>3. CASE AcceptFails /\ UNCHANGED <<tree, lost>>
  <2>1. NetInv' /\ Open' = Open /\ \A f \in revs' : Ready(f)'
    BY <1>0, <1>2, <1>3, NetStays DEF AcceptFails, Ready
  <2>2. TypeOK' /\ TreeMatchesDescriptors'
    BY <1>1, <1>3, <2>1 DEF EpollInv, TypeOK, NetInv, TreeMatchesDescriptors
  <2> QED BY <2>1, <2>2 DEF EpollInv, NetInv, EventsStayTrue
<1>4. CASE Accept /\ EPOLL_CTL_ADD(NextFd)
  <2>1. /\ NetInv' /\ NextFd \in Unused /\ Open' = Open \cup {NextFd}
        /\ \A f \in DOMAIN fds : f # NextFd => fds'[f] = fds[f]
    BY <1>0, <1>4, AcceptKeeps
  <2>2. /\ UNCHANGED <<peer, unread>>
        /\ \/ tree' = tree \cup {NextFd} /\ lost' = lost
           \/ lost' = lost \cup {NextFd} /\ tree' = tree
    BY <1>4 DEF EPOLL_CTL_ADD, Accept
  <2> DEFINE fd == NextFd
  <2> HIDE DEF fd
  <2>3. fd \in Fds /\ fd \notin Open /\ fd # ListenFd
    BY <1>0, <2>1, FdsAssumption DEF fd, Unused, NetInv, NetTypeOK
  <2>4. \A f \in revs' : f # fd /\ f \in Open' /\ f # ListenFd /\ Readable(f)'
    BY <1>2, <2>1, <2>2, <2>3 DEF fd, Readable
  <2>5. EventsStayTrue'
    BY <2>4, StillReady DEF EventsStayTrue
  <2>6. fd \notin tree /\ fd \notin lost
    BY <2>3 DEF EpollInv, TreeMatchesDescriptors
  <2>7. TreeMatchesDescriptors'
    BY <2>1, <2>2, <2>6 DEF fd, EpollInv, TreeMatchesDescriptors
  <2>8. TypeOK'
    BY <1>1, <2>1, <2>2, <2>3 DEF fd, EpollInv, TypeOK, NetInv
  <2> QED BY <2>1, <2>5, <2>7, <2>8 DEF EpollInv, NetInv
<1> QED BY <1>3, <1>4 DEF Listen, Accepter

LEMMA EpollServeKeeps == EpollInv /\ up /\ Serve => EpollInv'
<1> SUFFICES ASSUME EpollInv, up, NEW fd \in revs, fd # ListenFd, Recver(fd) PROVE EpollInv'
  BY DEF Serve
<1>0. NetInv
  BY DEF EpollInv, TypeOK, NetInv
<1>1. revs' = revs \ {fd} /\ up' = up
  BY DEF Recver
<1>2. fd \in Open /\ fd \in Fds
  BY EventsAreOpen
<1>3. fds[fd] \in Conns
  BY <1>2 DEF Open, EpollInv, TypeOK, NetTypeOK
<1>4. ASSUME NEW f \in revs', f # ListenFd, ReadData(fd) \/ Close(fd)
      PROVE  Readable(f)' /\ fds'[f] = fds[f] /\ f \in Open'
  <2>1. f \in Open /\ Readable(f) /\ f # fd
    BY <1>1, <1>4, EventsAreOpen
  <2>2. Readable(f)' /\ fds'[f] = fds[f]
    BY <1>0, <1>2, <1>4, <2>1, OthersStayReady
  <2>3. DOMAIN fds' = DOMAIN fds
    BY <1>4 DEF ReadData, Close
  <2> QED BY <2>1, <2>2, <2>3 DEF Open
<1>5. ASSUME ReadData(fd) \/ Close(fd)
      PROVE  EventsStayTrue'
  <2>1. UNCHANGED backlog
    BY <1>5 DEF ReadData, Close
  <2>2. ListenFd \in revs' => Ready(ListenFd)'
    BY <1>1, <2>1 DEF EpollInv, EventsStayTrue, Ready
  <2>3. \A f \in revs' : f # ListenFd => Ready(f)'
    BY <1>4, <1>5, StillReady
  <2> QED BY <2>2, <2>3 DEF EventsStayTrue
<1>6. CASE /\ ReadData(fd) /\ writing' = fds[fd]
           /\ UNCHANGED <<tree, lost, echoes, reset>>
  <2>1. NetInv'
    BY <1>0, <1>2, <1>6, ReadKeeps
  <2>2. Open' = Open
    BY <1>6 DEF ReadData, Open
  <2>3. TypeOK' /\ TreeMatchesDescriptors'
    BY <1>1, <1>3, <1>6, <2>1, <2>2 DEF EpollInv, TypeOK, NetInv, TreeMatchesDescriptors
  <2> QED BY <1>5, <1>6, <2>1, <2>3 DEF EpollInv, NetInv
<1>7. CASE /\ AtEnd(fd) /\ EPOLL_CTL_DEL(fd) /\ Close(fd)
           /\ echoes' = [echoes EXCEPT ![fds[fd]] = 0]
           /\ reset' = reset \ {fds[fd]} /\ UNCHANGED writing
  <2>1. NetInv' /\ Open' = Open \ {fd}
    BY <1>0, <1>2, <1>7, CloseKeeps
  <2>2. tree' = tree \ {fd} /\ lost' = lost
    BY <1>7 DEF EPOLL_CTL_DEL
  <2>3. echoes' \in [Conns -> 0 .. Room]
    <3>1. echoes \in [Conns -> 0 .. Room] /\ 0 \in 0 .. Room
      BY ServersAssumption DEF EpollInv, TypeOK, NumAssumption
    <3> QED BY <1>7, <3>1
  <2>4. TypeOK'
    BY <1>1, <1>7, <2>1, <2>2, <2>3 DEF EpollInv, TypeOK, NetInv
  <2>5. fd \in tree
    BY DEF EpollInv, TypeOK
  <2>6. TreeMatchesDescriptors'
    BY <1>1, <1>2, <2>1, <2>2, <2>5, FdsAssumption DEF EpollInv, TreeMatchesDescriptors
  <2> QED BY <1>5, <1>7, <2>1, <2>4, <2>6 DEF EpollInv, NetInv
<1> QED BY <1>6, <1>7 DEF Recver

(* The write touches neither the sockets nor the epoll instance, unless it *)
(* ends the process, and then there is nothing left of either.             *)
LEMMA EpollWriteKeeps == EpollInv /\ Write => EpollInv'
<1> SUFFICES ASSUME EpollInv, Write PROVE EpollInv'
  OBVIOUS
<1>0. NetInv
  BY DEF EpollInv, TypeOK, NetInv
<1>1. UNCHANGED <<net, tree, lost, revs, up>> /\ writing' = NoConn /\ writing \in Conns
  BY DEF Write, EpollInv, TypeOK
<1>2. NetInv' /\ Open' = Open /\ \A f : Ready(f)' <=> Ready(f)
  BY <1>0, <1>1, NetStays
<1>3. reset' \in SUBSET Conns
  BY <1>1 DEF Write, EpollInv, TypeOK
<1>4. echoes' \in [Conns -> 0 .. Room]
  <2>1. CASE echoes[writing] < Room /\ echoes' = [echoes EXCEPT ![writing] = @ + 1]
    BY <1>1, <2>1, ServersAssumption DEF EpollInv, TypeOK, NumAssumption
  <2>2. CASE UNCHANGED echoes
    BY <2>2 DEF EpollInv, TypeOK
  <2> QED BY <2>1, <2>2 DEF Write
<1>5. TypeOK'
  BY <1>1, <1>2, <1>3, <1>4 DEF EpollInv, TypeOK, NetInv
<1>6. TreeMatchesDescriptors' /\ EventsStayTrue'
  BY <1>1, <1>2 DEF EpollInv, TreeMatchesDescriptors, EventsStayTrue
<1> QED BY <1>2, <1>5, <1>6 DEF EpollInv, NetInv

LEMMA EpollSigpipeKeeps == EpollInv /\ Sigpipe => EpollInv'
<1> SUFFICES ASSUME EpollInv, Sigpipe PROVE EpollInv'
  OBVIOUS
<1>1. /\ fds' = [f \in DOMAIN fds |-> NoConn] /\ backlog' = << >>
      /\ peer' = [c \in Conns |-> "away"] /\ unread' = [c \in Conns |-> 0]
      /\ tree' = {} /\ lost' = {} /\ revs' = {} /\ writing' = NoConn
      /\ echoes' = [c \in Conns |-> 0] /\ reset' = {} /\ up' = FALSE
  BY DEF Sigpipe
<1>2. backlog' \in Seq(Conns) /\ Len(backlog') = 0
  BY <1>1, EmptySeq
<1>3. Open' = {}
  BY <1>1 DEF Open
<1>4. DOMAIN fds' = DOMAIN fds /\ fds' \in [DOMAIN fds' -> Conns \cup {NoConn}]
  BY <1>1
<1>5. NetTypeOK'
  BY <1>1, <1>2, <1>4, MaxUnreadAssumption DEF EpollInv, TypeOK, NetTypeOK
<1>6. TypeOK'
  <2>1. 0 \in 0 .. Room
    BY ServersAssumption DEF NumAssumption
  <2> QED BY <1>1, <1>5, <2>1 DEF TypeOK
<1>7. OnePlace'
  BY <1>2, <1>3 DEF OnePlace, Backlogged
<1> QED BY <1>1, <1>6, <1>7 DEF EpollInv, TreeMatchesDescriptors, EventsStayTrue

LEMMA EpollUsersKeep == EpollInv /\ Users => EpollInv'
<1> SUFFICES ASSUME EpollInv, Users PROVE EpollInv'
  OBVIOUS
<1>0. NetInv
  BY DEF EpollInv, TypeOK, NetInv
<1>1. up /\ UNCHANGED <<tree, lost, revs, writing, up>>
  BY DEF Users
<1>2. PICK c \in Conns : \/ (Connect(c) \/ Send(c)) /\ UNCHANGED <<echoes, reset>>
                         \/ ReadEcho(c) \/ Leave(c)
  BY DEF Users
<1>3. reset' \in SUBSET Conns
  BY <1>2 DEF ReadEcho, Leave, EpollInv, TypeOK
<1>4. echoes' \in [Conns -> 0 .. Room]
  <2> USE ServersAssumption DEF EpollInv, TypeOK, NumAssumption
  <2>1. CASE UNCHANGED echoes
    BY <2>1
  <2>2. CASE echoes[c] > 0 /\ echoes' = [echoes EXCEPT ![c] = @ - 1]
    BY <2>2
  <2>3. CASE echoes' = [echoes EXCEPT ![c] = 0]
    BY <2>3
  <2> QED BY <1>2, <2>1, <2>2, <2>3 DEF ReadEcho, Leave
<1>5. CASE UNCHANGED net
  <2>1. NetInv' /\ Open' = Open /\ \A f : Ready(f)' <=> Ready(f)
    BY <1>0, <1>5, NetStays
  <2>2. TypeOK'
    BY <1>1, <1>3, <1>4, <2>1 DEF EpollInv, TypeOK, NetInv
  <2>3. TreeMatchesDescriptors' /\ EventsStayTrue'
    BY <1>1, <2>1 DEF EpollInv, TreeMatchesDescriptors, EventsStayTrue
  <2> QED BY <2>1, <2>2, <2>3 DEF EpollInv, NetInv
<1>6. CASE Client(c)
  <2>1. NetInv'
    BY <1>0, <1>6, ClientKeeps
  <2>2. UNCHANGED fds
    BY <1>6 DEF Client, Connect, Send, Quit
  <2>3. Open' = Open
    BY <2>2 DEF Open
  <2>4. ASSUME NEW f \in revs' PROVE Ready(f)'
    <3>1. CASE f = ListenFd
      <4>1. backlog # << >> => backlog' # << >>
        BY <1>0, <1>6, AppendProperties DEF Client, Connect, Send, Quit, NetInv, NetTypeOK
      <4> QED BY <1>1, <3>1, <4>1 DEF EpollInv, EventsStayTrue, Ready
    <3>2. CASE f # ListenFd
      <4>1. f \in Open /\ Readable(f)
        BY <1>1, <3>2, EventsAreOpen
      <4>2. Readable(f)'
        BY <1>0, <1>6, <4>1, ClientsLeaveReady
      <4> QED BY <2>3, <3>2, <4>1, <4>2, StillReady
    <3> QED BY <3>1, <3>2
  <2>5. TypeOK' /\ TreeMatchesDescriptors'
    BY <1>1, <1>3, <1>4, <2>1, <2>3 DEF EpollInv, TypeOK, NetInv, TreeMatchesDescriptors
  <2> QED BY <2>1, <2>4, <2>5 DEF EpollInv, NetInv, EventsStayTrue
<1> QED BY <1>2, <1>5, <1>6 DEF ReadEcho, Leave, Client

LEMMA EpollStutters == EpollInv /\ UNCHANGED vars => EpollInv'
<1> SUFFICES ASSUME EpollInv, UNCHANGED vars PROVE EpollInv'
  OBVIOUS
<1>1. NetInv /\ NetInv' /\ Open' = Open /\ \A f : Ready(f)' <=> Ready(f)
  BY NetStays DEF vars, EpollInv, TypeOK, NetInv
<1> QED
  BY <1>1 DEF vars, server, EpollInv, TypeOK, NetInv, TreeMatchesDescriptors, EventsStayTrue

LEMMA EpollKeeps == EpollInv /\ [Next]_vars => EpollInv'
BY EpollWaitKeeps, EpollListenKeeps, EpollServeKeeps, EpollWriteKeeps, EpollSigpipeKeeps,
   EpollUsersKeep, EpollStutters
   DEF Next, Server, Dispatcher, Ended

(* A connection ends in Recver, which closes it at its end, or with the    *)
(* whole process.                                                          *)
LEMMA EpollEnds ==
  ASSUME EpollInv, [Next]_vars, NEW c \in Conns, peer[c] # "away", peer'[c] = "away"
  PROVE  Over(c) \/ (up /\ ~up' /\ writing \in reset)
<1>0. NetInv
  BY DEF EpollInv, TypeOK, NetInv
<1>1. CASE up /\ Listen
  BY <1>1 DEF Listen, Accepter, AcceptFails, Accept, net
<1>2. CASE up /\ Serve
  <2>1. PICK fd \in revs \ {ListenFd} : Recver(fd)
    BY <1>2 DEF Serve
  <2>2. CASE ReadData(fd)
    BY <2>2 DEF ReadData
  <2>3. CASE AtEnd(fd) /\ Close(fd)
    <3>1. c = fds[fd]
      BY <1>0, <1>2, <2>1, <2>3, EventsAreOpen, CloseEndsOne
    <3> QED BY <2>3, <3>1 DEF AtEnd
  <2> QED BY <2>1, <2>2, <2>3 DEF Recver
<1>3. CASE up /\ Sigpipe
  BY <1>3 DEF Sigpipe
<1>4. CASE Users
  <2>1. PICK d \in Conns : Client(d) \/ UNCHANGED peer
    BY <1>4 DEF Users, Client, ReadEcho, Leave, net
  <2> QED BY <1>0, <2>1, ClientsEndNone
<1> QED
  BY <1>1, <1>2, <1>3, <1>4 DEF Next, Server, Dispatcher, Write, Ended, EpollerWait, vars, net

-----------------------------------------------------------------------------
(* A table of descriptors, fd_array or the fd members of rds, lists each   *)
(* member of O once; its other entries are the listening socket's and free *)
(* ones.                                                                   *)
Entries == 0 .. fd_max_num - 1
Tables  == [Entries -> Fds \cup {ListenFd, -1}]

Lists(A, O) ==
  /\ {A[p] : p \in Entries} \cap Fds = O
  /\ \A p, r \in Entries : A[p] = A[r] /\ A[p] # -1 => p = r

LEMMA LengthIsNat == fd_max_num \in Nat \ {0, 1} /\ 0 \in Entries
<1>1. Select!LengthAssumption
  BY ServersAssumption
<1>2. fd_max_num \in Nat \ {0, 1}
  BY <1>1 DEF Select!LengthAssumption
<1> QED BY <1>2 DEF Entries

(* At first the listening socket has the first entry and the rest is free. *)
LEMMA TableStarts ==
  ASSUME NEW A, A = [p \in Entries |-> IF p = 0 THEN ListenFd ELSE -1]
  PROVE  A \in Tables /\ Lists(A, {})
BY FdsAssumption, LengthIsNat DEF Tables, Lists

(* A free entry takes a descriptor that was not listed. *)
LEMMA TableAdds ==
  ASSUME NEW A \in Tables, NEW O, Lists(A, O),
         NEW p \in Entries, A[p] = -1, NEW f \in Fds, f \notin O
  PROVE  /\ [A EXCEPT ![p] = f] \in Tables
         /\ Lists([A EXCEPT ![p] = f], O \cup {f})
<1> DEFINE B == [A EXCEPT ![p] = f]
<1>1. B \in Tables /\ B[p] = f /\ \A r \in Entries : r # p => B[r] = A[r]
  BY DEF Tables
<1>2. f # -1 /\ -1 \notin Fds
  BY FdsAssumption
<1>3. \A r \in Entries : A[r] # f
  BY DEF Lists
<1> HIDE DEF B
<1>4. \A r, s \in Entries : B[r] = B[s] /\ B[r] # -1 => r = s
  BY <1>1, <1>3 DEF Lists
<1>5. {B[r] : r \in Entries} \cap Fds = O \cup {f}
  <2>1. \A r \in Entries : B[r] \in Fds => B[r] \in O \cup {f}
    BY <1>1 DEF Lists
  <2>2. \A g \in O : g \in Fds /\ \E r \in Entries : g = A[r] /\ r # p
    BY <1>2 DEF Lists
  <2>3. \A g \in O : g \in Fds /\ \E r \in Entries : g = B[r]
    BY <1>1, <2>2
  <2> QED BY <1>1, <2>1, <2>3
<1> QED BY <1>1, <1>4, <1>5 DEF B, Lists

(* The entry of a descriptor is freed. *)
LEMMA TableRemoves ==
  ASSUME NEW A \in Tables, NEW O, Lists(A, O), NEW p \in Entries, A[p] \in Fds
  PROVE  /\ A[p] \in O
         /\ [A EXCEPT ![p] = -1] \in Tables
         /\ Lists([A EXCEPT ![p] = -1], O \ {A[p]})
<1> DEFINE B == [A EXCEPT ![p] = -1]
<1>1. B \in Tables /\ B[p] = -1 /\ \A r \in Entries : r # p => B[r] = A[r]
  BY DEF Tables
<1>2. A[p] # -1 /\ -1 \notin Fds
  BY FdsAssumption
<1>3. \A r \in Entries : r # p => A[r] # A[p]
  BY <1>2 DEF Lists
<1> HIDE DEF B
<1>4. \A r, s \in Entries : B[r] = B[s] /\ B[r] # -1 => r = s
  BY <1>1 DEF Lists
<1>5. {B[r] : r \in Entries} \cap Fds = O \ {A[p]}
  <2>1. \A r \in Entries : B[r] \in Fds => B[r] \in O \ {A[p]}
    BY <1>1, <1>2, <1>3 DEF Lists
  <2>2. \A g \in O \ {A[p]} : g \in Fds /\ \E r \in Entries : g = A[r] /\ r # p
    BY DEF Lists
  <2>3. \A g \in O \ {A[p]} : g \in Fds /\ \E r \in Entries : g = B[r]
    BY <1>1, <2>2
  <2> QED BY <2>1, <2>3
<1> QED BY <1>1, <1>4, <1>5 DEF B, Lists

(* The loops of Accepter find the first free entry if there is one. *)
LEMMA FirstOfEntries ==
  ASSUME NEW S \in SUBSET Entries, S # {}
  PROVE  (CHOOSE p \in S : \A r \in S : p <= r) \in S
<1>1. S \in SUBSET Nat
  BY LengthIsNat DEF Entries
<1>2. \E p \in S : \A r \in S : p <= r
  BY <1>1, LeastNumber
<1> QED BY <1>2

-----------------------------------------------------------------------------
(* SelectServer.  Its sockets are those of SocketsProofs. *)
LEMMA SelectSockets ==
  /\ Select!NetInit <=> NetInit
  /\ Select!AcceptFails <=> AcceptFails
  /\ Select!Accept <=> Accept
  /\ Select!AcceptAndClose <=> AcceptAndClose
  /\ Select!NextFd = NextFd /\ Select!Open = Open
  /\ \A c : Select!Client(c) <=> Client(c)
  /\ \A f : /\ Select!ReadData(f) <=> ReadData(f)
            /\ Select!Close(f) <=> Close(f)
            /\ Select!AtEnd(f) <=> AtEnd(f)
BY DEF Select!NetInit, NetInit, Select!AcceptFails, AcceptFails, Select!Accept, Accept,
       Select!AcceptAndClose, AcceptAndClose, Select!NextFd, NextFd, Select!Unused, Unused,
       Select!Open, Open, Select!Client, Client, Select!Connect, Connect, Select!Send, Send,
       Select!Quit, Quit, Select!ReadData, ReadData, Select!Close, Close, Select!AtEnd, AtEnd, Select!Over, Over,
       Select!Forget, Forget, Select!net, net

SelectInv == /\ NetInv
             /\ fd_array \in Tables /\ si \in 0 .. fd_max_num
             /\ Lists(fd_array, Open)

LEMMA SelectStart == Select!Init => SelectInv
<1> SUFFICES ASSUME Select!Init PROVE SelectInv
  OBVIOUS
<1>1. NetInit /\ NetInv
  BY SelectSockets, NetStart DEF Select!Init
<1>2. Open = {}
  BY <1>1 DEF NetInit, Open
<1>3. fd_array = [p \in Entries |-> IF p = 0 THEN ListenFd ELSE -1]
  BY DEF Select!Init, Select!Positions, Select!defaultfd, Entries
<1>4. si \in 0 .. fd_max_num
  BY LengthIsNat DEF Select!Init
<1> QED BY <1>1, <1>2, <1>3, <1>4, TableStarts DEF SelectInv

(* An entry that is served moves the loop on. *)
LEMMA SelectEntry ==
  ASSUME SelectInv, NEW fd, Select!Entry(fd)
  PROVE  si \in Entries /\ fd = fd_array[si] /\ si' \in 0 .. fd_max_num
BY LengthIsNat DEF Select!Entry, Select!Positions, Entries, SelectInv

LEMMA SelectListenKeeps == SelectInv /\ Select!Listen => SelectInv'
<1> SUFFICES ASSUME SelectInv, Select!Listen PROVE SelectInv'
  OBVIOUS
<1>1. si' \in 0 .. fd_max_num /\ Select!Accepter
  BY SelectEntry DEF Select!Listen
<1>2. CASE AcceptFails /\ UNCHANGED fd_array
  BY <1>1, <1>2 DEF AcceptFails, net, SelectInv, NetInv, NetTypeOK, OnePlace, Backlogged, Open
<1>3. CASE AcceptAndClose /\ UNCHANGED fd_array
  <2>1. NetInv' /\ Open' = Open
    BY <1>3, AcceptAndCloseKeeps DEF SelectInv, AcceptAndClose, Open
  <2> QED BY <1>1, <1>3, <2>1 DEF SelectInv
<1>4. CASE /\ Select!FreePositions # {} /\ Accept
           /\ fd_array' = [fd_array EXCEPT ![Select!FirstFree] = NextFd]
  <2>1. NetInv' /\ NextFd \in Unused /\ Open' = Open \cup {NextFd}
    BY <1>4, AcceptKeeps DEF SelectInv
  <2>2. Select!FirstFree \in Entries /\ fd_array[Select!FirstFree] = -1
    BY <1>4, FirstOfEntries
       DEF Select!FirstFree, Select!FreePositions, Select!Positions, Select!defaultfd, Entries
  <2>3. NextFd \in Fds /\ NextFd \notin Open
    BY <2>1 DEF Unused, SelectInv, NetInv, NetTypeOK
  <2>4. fd_array' \in Tables /\ Lists(fd_array', Open')
    BY <1>4, <2>1, <2>2, <2>3, TableAdds DEF SelectInv
  <2> QED BY <1>1, <2>1, <2>4 DEF SelectInv
<1> QED BY <1>1, <1>2, <1>3, <1>4, SelectSockets DEF Select!Accepter

LEMMA SelectServeKeeps == SelectInv /\ Select!Serve => SelectInv'
<1> SUFFICES ASSUME SelectInv, NEW fd \in Fds, Select!Entry(fd), Select!Recver(fd, si)
             PROVE  SelectInv'
  BY DEF Select!Serve
<1>1. si \in Entries /\ fd = fd_array[si] /\ si' \in 0 .. fd_max_num
  BY SelectEntry
<1>2. /\ fd \in Open
      /\ [fd_array EXCEPT ![si] = -1] \in Tables
      /\ Lists([fd_array EXCEPT ![si] = -1], Open \ {fd})
  BY <1>1, TableRemoves DEF SelectInv
<1>3. CASE ReadData(fd) /\ UNCHANGED fd_array
  <2>1. NetInv' /\ Open' = Open
    BY <1>2, <1>3, ReadKeeps DEF SelectInv, ReadData, Open
  <2> QED BY <1>1, <1>3, <2>1 DEF SelectInv
<1>4. CASE Close(fd) /\ fd_array' = [fd_array EXCEPT ![si] = -1]
  <2>1. NetInv' /\ Open' = Open \ {fd}
    BY <1>2, <1>4, CloseKeeps DEF SelectInv
  <2> QED BY <1>1, <1>2, <1>4, <2>1 DEF SelectInv
<1> QED BY <1>3, <1>4, SelectSockets DEF Select!Recver, Select!defaultfd

LEMMA SelectUsersKeep == SelectInv /\ Select!Users => SelectInv'
<1> SUFFICES ASSUME SelectInv, NEW c \in Conns, Client(c), UNCHANGED <<fd_array, rfds, si>>
             PROVE  SelectInv'
  BY SelectSockets DEF Select!Users
<1>1. NetInv' /\ Open' = Open
  BY ClientKeeps DEF SelectInv, Client, Connect, Send, Quit, Open
<1> QED BY <1>1 DEF SelectInv

LEMMA SelectKeeps == SelectInv /\ [Select!Next]_Select!vars => SelectInv'
<1> SUFFICES ASSUME SelectInv, [Select!Next]_Select!vars PROVE SelectInv'
  OBVIOUS
<1>1. CASE Select!Select
  BY <1>1, LengthIsNat
     DEF Select!Select, Select!net, SelectInv, NetInv, NetTypeOK, OnePlace, Backlogged, Open
<1>2. CASE Select!Skip
  <2>1. UNCHANGED <<fds, backlog, peer, unread, fd_array>> /\ si' \in 0 .. fd_max_num
    BY <1>2, SelectEntry DEF Select!Skip, Select!net
  <2> QED BY <2>1 DEF SelectInv, NetInv, NetTypeOK, OnePlace, Backlogged, Open
<1>3. CASE UNCHANGED Select!vars
  BY <1>3 DEF Select!vars, Select!net, SelectInv, NetInv, NetTypeOK, OnePlace, Backlogged, Open
<1> QED
  BY <1>1, <1>2, <1>3, SelectListenKeeps, SelectServeKeeps, SelectUsersKeep
     DEF Select!Next, Select!Server, Select!Dispatcher

(* A connection ends at its end, or is turned away while the table is full. *)
LEMMA SelectEnds ==
  ASSUME SelectInv, [Select!Next]_Select!vars,
         NEW c \in Conns, peer[c] # "away", peer'[c] = "away"
  PROVE  Over(c) \/ (backlog # << >> /\ c = Head(backlog) /\ Select!FreePositions = {})
<1>0. NetInv
  BY DEF SelectInv
<1>1. CASE Select!Listen
  <2>1. CASE AcceptFails \/ Accept
    BY <2>1 DEF AcceptFails, Accept, net
  <2>2. CASE Select!FreePositions = {} /\ AcceptAndClose
    BY <1>0, <2>2, TurningAwayEndsOne
  <2> QED BY <1>1, <2>1, <2>2, SelectSockets DEF Select!Listen, Select!Accepter
<1>2. CASE Select!Serve
  <2>1. PICK fd \in Fds : Select!Entry(fd) /\ Select!Recver(fd, si)
    BY <1>2 DEF Select!Serve
  <2>2. CASE ReadData(fd)
    BY <2>2 DEF ReadData
  <2>3. CASE AtEnd(fd) /\ Close(fd)
    <3>1. fd \in Open
      BY <2>1, SelectEntry DEF SelectInv, Lists
    <3>2. c = fds[fd]
      BY <1>0, <2>3, <3>1, CloseEndsOne
    <3> QED BY <2>3, <3>2 DEF AtEnd
  <2> QED BY <2>1, <2>2, <2>3, SelectSockets DEF Select!Recver
<1>3. CASE Select!Users
  BY <1>0, <1>3, SelectSockets, ClientsEndNone DEF Select!Users
<1> QED
  BY <1>1, <1>2, <1>3 DEF Select!Next, Select!Server, Select!Dispatcher, Select!Select,
                          Select!Skip, Select!vars, Select!net

-----------------------------------------------------------------------------
(* PollServer.  The table is made of the fd members of rds; an entry with  *)
(* a descriptor asks for input, and so does the events member that a       *)
(* closed connection leaves behind, since nothing else is ever stored.     *)
LEMMA PollSockets ==
  /\ Poll!NetInit <=> NetInit
  /\ Poll!AcceptFails <=> AcceptFails
  /\ Poll!Accept <=> Accept
  /\ Poll!AcceptAndClose <=> AcceptAndClose
  /\ Poll!NextFd = NextFd /\ Poll!Open = Open
  /\ \A c : Poll!Client(c) <=> Client(c)
  /\ \A f : /\ Poll!ReadData(f) <=> ReadData(f)
            /\ Poll!Close(f) <=> Close(f)
            /\ Poll!AtEnd(f) <=> AtEnd(f)
BY DEF Poll!NetInit, NetInit, Poll!AcceptFails, AcceptFails, Poll!Accept, Accept,
       Poll!AcceptAndClose, AcceptAndClose, Poll!NextFd, NextFd, Poll!Unused, Unused,
       Poll!Open, Open, Poll!Client, Client, Poll!Connect, Connect, Poll!Send, Send,
       Poll!Quit, Quit, Poll!ReadData, ReadData, Poll!Close, Close, Poll!AtEnd, AtEnd, Poll!Over, Over,
       Poll!Forget, Forget, Poll!net, net

Pollfds == [fd : Fds \cup {ListenFd, -1}, events : SUBSET {"POLLIN"}]
Fd      == [p \in Entries |-> rds[p].fd]

PollInv == /\ NetInv
           /\ rds \in [Entries -> Pollfds] /\ pi \in 0 .. fd_max_num
           /\ Lists(Fd, Open)
           /\ \A p \in Entries : rds[p].fd # -1 => rds[p].events = {"POLLIN"}

LEMMA PollStart == Poll!Init => PollInv
<1> SUFFICES ASSUME Poll!Init PROVE PollInv
  OBVIOUS
<1>1. NetInit /\ NetInv
  BY PollSockets, NetStart DEF Poll!Init
<1>2. Open = {}
  BY <1>1 DEF NetInit, Open
<1>3. rds = [p \in Entries |-> IF p = 0
                                 THEN [fd |-> ListenFd, events |-> {"POLLIN"}]
                                 ELSE [fd |-> -1, events |-> {}]]
  BY DEF Poll!Init, Poll!Positions, Poll!Pollfd, Poll!defaultfd, Poll!eventnone,
         Poll!POLLIN, Entries
<1>4. /\ rds \in [Entries -> Pollfds]
      /\ \A p \in Entries : rds[p].fd # -1 => rds[p].events = {"POLLIN"}
  BY <1>3 DEF Pollfds
<1>5. Fd = [p \in Entries |-> IF p = 0 THEN ListenFd ELSE -1]
  BY <1>3 DEF Fd
<1>6. pi \in 0 .. fd_max_num
  BY LengthIsNat DEF Poll!Init
<1> QED BY <1>1, <1>2, <1>4, <1>5, <1>6, TableStarts DEF PollInv

LEMMA FdIsTable ==
  ASSUME rds \in [Entries -> Pollfds]
  PROVE  Fd \in Tables /\ \A p \in Entries : Fd[p] = rds[p].fd
BY DEF Fd, Tables, Pollfds

LEMMA PollEntry ==
  ASSUME PollInv, NEW fd, Poll!Entry(fd)
  PROVE  pi \in Entries /\ fd = rds[pi].fd /\ pi' \in 0 .. fd_max_num
BY LengthIsNat DEF Poll!Entry, Poll!Positions, Entries, PollInv

LEMMA PollPollKeeps == PollInv /\ Poll!Poll => PollInv'
<1> SUFFICES ASSUME PollInv, Poll!Poll PROVE PollInv'
  OBVIOUS
<1>1. pi' \in 0 .. fd_max_num /\ UNCHANGED <<fds, backlog, peer, unread, rds>>
  BY LengthIsNat DEF Poll!Poll, Poll!net
<1> QED BY <1>1 DEF PollInv, NetInv, NetTypeOK, OnePlace, Backlogged, Open, Fd

LEMMA PollListenKeeps == PollInv /\ Poll!Listen => PollInv'
<1> SUFFICES ASSUME PollInv, Poll!Listen PROVE PollInv'
  OBVIOUS
<1>1. pi' \in 0 .. fd_max_num /\ Poll!Accepter
  BY PollEntry DEF Poll!Listen
<1>2. CASE AcceptFails /\ UNCHANGED rds
  BY <1>1, <1>2 DEF AcceptFails, net, PollInv, NetInv, NetTypeOK, OnePlace, Backlogged, Open, Fd
<1>3. CASE AcceptAndClose /\ UNCHANGED rds
  <2>1. NetInv' /\ Open' = Open
    BY <1>3, AcceptAndCloseKeeps DEF PollInv, AcceptAndClose, Open
  <2> QED BY <1>1, <1>3, <2>1 DEF PollInv, Fd
<1>4. CASE /\ Poll!FreePositions # {} /\ Accept
           /\ rds' = [rds EXCEPT ![Poll!FirstFree] = Poll!Pollfd(NextFd, {"POLLIN"})]
  <2> DEFINE p == Poll!FirstFree
             r == [fd |-> NextFd, events |-> {"POLLIN"}]
  <2>1. NetInv' /\ NextFd \in Unused /\ Open' = Open \cup {NextFd}
    BY <1>4, AcceptKeeps DEF PollInv
  <2>2. p \in Entries /\ rds[p].fd = -1
    BY <1>4, FirstOfEntries
       DEF Poll!FirstFree, Poll!FreePositions, Poll!Positions, Poll!defaultfd, Entries
  <2>3. NextFd \in Fds /\ NextFd \notin Open
    BY <2>1 DEF Unused, PollInv, NetInv, NetTypeOK
  <2>4. rds' = [rds EXCEPT ![p] = r] /\ r \in Pollfds
    BY <1>4, <2>3 DEF Poll!Pollfd, Poll!eventnone, Pollfds
  <2> HIDE DEF p
  <2>5. /\ rds' \in [Entries -> Pollfds] /\ rds'[p] = r
        /\ \A s \in Entries : s # p => rds'[s] = rds[s]
    BY <2>2, <2>4 DEF PollInv
  <2>6. Fd' = [Fd EXCEPT ![p] = NextFd]
    <3>1. rds'[p].fd = NextFd
      BY <2>5
    <3> QED BY <2>2, <2>5, <3>1 DEF Fd
  <2>7. Lists(Fd', Open')
    BY <2>1, <2>2, <2>3, <2>6, FdIsTable, TableAdds DEF PollInv
  <2>8. \A s \in Entries : rds'[s].fd # -1 => rds'[s].events = {"POLLIN"}
    BY <2>5 DEF PollInv
  <2> QED BY <1>1, <2>1, <2>5, <2>7, <2>8 DEF PollInv
<1> QED BY <1>1, <1>2, <1>3, <1>4, PollSockets DEF Poll!Accepter, Poll!POLLIN

LEMMA PollServeKeeps == PollInv /\ Poll!Serve => PollInv'
<1> SUFFICES ASSUME PollInv, NEW fd \in Fds, Poll!Entry(fd), Poll!Recver(fd, pi)
             PROVE  PollInv'
  BY DEF Poll!Serve
<1>1. pi \in Entries /\ fd = rds[pi].fd /\ pi' \in 0 .. fd_max_num
  BY PollEntry
<1>2. fd \in Open /\ Lists([Fd EXCEPT ![pi] = -1], Open \ {fd})
  BY <1>1, FdIsTable, TableRemoves DEF PollInv
<1>3. CASE ReadData(fd) /\ UNCHANGED rds
  <2>1. NetInv' /\ Open' = Open
    BY <1>2, <1>3, ReadKeeps DEF PollInv, ReadData, Open
  <2> QED BY <1>1, <1>3, <2>1 DEF PollInv, Fd
<1>4. CASE Close(fd) /\ rds' = [rds EXCEPT ![pi].fd = -1]
  <2>1. NetInv' /\ Open' = Open \ {fd}
    BY <1>2, <1>4, CloseKeeps DEF PollInv
  <2>2. /\ rds' \in [Entries -> Pollfds] /\ rds'[pi].fd = -1
        /\ \A s \in Entries : s # pi => rds'[s] = rds[s]
    BY <1>1, <1>4 DEF PollInv, Pollfds
  <2>3. Fd' = [Fd EXCEPT ![pi] = -1]
    BY <1>1, <2>2 DEF Fd
  <2>4. \A s \in Entries : rds'[s].fd # -1 => rds'[s].events = {"POLLIN"}
    BY <2>2 DEF PollInv
  <2> QED BY <1>1, <1>2, <2>1, <2>2, <2>3, <2>4 DEF PollInv
<1> QED BY <1>3, <1>4, PollSockets DEF Poll!Recver, Poll!defaultfd

LEMMA PollUsersKeep == PollInv /\ Poll!Users => PollInv'
<1> SUFFICES ASSUME PollInv, NEW c \in Conns, Client(c), UNCHANGED <<rds, pi>>
             PROVE  PollInv'
  BY PollSockets DEF Poll!Users
<1>1. NetInv' /\ Open' = Open
  BY ClientKeeps DEF PollInv, Client, Connect, Send, Quit, Open
<1> QED BY <1>1 DEF PollInv, Fd

LEMMA PollKeeps == PollInv /\ [Poll!Next]_Poll!vars => PollInv'
<1> SUFFICES ASSUME PollInv, [Poll!Next]_Poll!vars PROVE PollInv'
  OBVIOUS
<1>1. CASE Poll!Skip
  <2>1. UNCHANGED <<fds, backlog, peer, unread, rds>> /\ pi' \in 0 .. fd_max_num
    BY <1>1, PollEntry DEF Poll!Skip, Poll!net
  <2> QED BY <2>1 DEF PollInv, NetInv, NetTypeOK, OnePlace, Backlogged, Open, Fd
<1>2. CASE UNCHANGED Poll!vars
  BY <1>2 DEF Poll!vars, Poll!net, PollInv, NetInv, NetTypeOK, OnePlace, Backlogged, Open, Fd
<1> QED
  BY <1>1, <1>2, PollPollKeeps, PollListenKeeps, PollServeKeeps, PollUsersKeep
     DEF Poll!Next, Poll!Server, Poll!Dispatcher

LEMMA PollEnds ==
  ASSUME PollInv, [Poll!Next]_Poll!vars,
         NEW c \in Conns, peer[c] # "away", peer'[c] = "away"
  PROVE  Over(c) \/ (backlog # << >> /\ c = Head(backlog) /\ Poll!FreePositions = {})
<1>0. NetInv
  BY DEF PollInv
<1>1. CASE Poll!Listen
  <2>1. CASE AcceptFails \/ Accept
    BY <2>1 DEF AcceptFails, Accept, net
  <2>2. CASE Poll!FreePositions = {} /\ AcceptAndClose
    BY <1>0, <2>2, TurningAwayEndsOne
  <2> QED BY <1>1, <2>1, <2>2, PollSockets DEF Poll!Listen, Poll!Accepter
<1>2. CASE Poll!Serve
  <2>1. PICK fd \in Fds : Poll!Entry(fd) /\ Poll!Recver(fd, pi)
    BY <1>2 DEF Poll!Serve
  <2>2. CASE ReadData(fd)
    BY <2>2 DEF ReadData
  <2>3. CASE AtEnd(fd) /\ Close(fd)
    <3>1. fd \in Open
      BY <2>1, PollEntry, FdIsTable DEF PollInv, Lists
    <3>2. c = fds[fd]
      BY <1>0, <2>3, <3>1, CloseEndsOne
    <3> QED BY <2>3, <3>2 DEF AtEnd
  <2> QED BY <2>1, <2>2, <2>3, PollSockets DEF Poll!Recver
<1>3. CASE Poll!Users
  BY <1>0, <1>3, PollSockets, ClientsEndNone DEF Poll!Users
<1> QED
  BY <1>1, <1>2, <1>3 DEF Poll!Next, Poll!Server, Poll!Dispatcher, Poll!Poll, Poll!Skip,
                          Poll!vars, Poll!net

-----------------------------------------------------------------------------
(* Reactor.  It never closes a descriptor, so connections only grows. *)
LEMMA ReactSockets ==
  /\ React!NetInit <=> NetInit
  /\ React!AcceptFails <=> AcceptFails
  /\ React!Accept <=> Accept
  /\ React!NextFd = NextFd /\ React!Open = Open /\ React!Unused = Unused
  /\ \A c : /\ React!Connect(c) <=> Connect(c)
            /\ React!Send(c) <=> Send(c)
            /\ React!Quit(c) <=> Quit(c)
BY DEF React!NetInit, NetInit, React!AcceptFails, AcceptFails, React!Accept, Accept,
       React!NextFd, NextFd, React!Unused, Unused, React!Open, Open, React!Connect, Connect,
       React!Send, Send, React!Quit, Quit, React!net, net

ReactInv == /\ NetInv
            /\ connections = Open \cup {ListenFd}
            /\ registered \subseteq connections
            /\ edges \subseteq registered /\ rrevs \subseteq registered
            /\ accepting \in BOOLEAN
            /\ React!NobodyIsStranded

LEMMA ReactStart == React!Init => ReactInv
<1> SUFFICES ASSUME React!Init PROVE ReactInv
  OBVIOUS
<1>1. NetInit /\ NetInv
  BY ReactSockets, NetStart DEF React!Init
<1> QED BY <1>1 DEF React!Init, ReactInv, NetInit, Open, React!NobodyIsStranded

LEMMA ListenIsNotNext ==
  ASSUME NetInv, Unused # {}
  PROVE  NextFd # ListenFd
BY NextFdIsUnused, FdsAssumption DEF NetInv, NetTypeOK, Unused

(* Whoever connects makes an edge, if the listening socket is registered.  *)
LEMMA ReactUsersKeep == ReactInv /\ React!Users => ReactInv'
<1> SUFFICES ASSUME ReactInv, NEW c \in Conns,
                    UNCHANGED <<connections, registered, rrevs, accepting>>,
                    \/ Connect(c) /\ edges' = edges \cup ({ListenFd} \cap registered)
                    \/ (Send(c) \/ Quit(c)) /\ edges' = edges \cup (React!FdOf(c) \cap registered)
             PROVE  ReactInv'
  BY ReactSockets DEF React!Users, React!Edges
<1>1. Client(c)
  BY DEF Client
<1>2. NetInv' /\ Open' = Open
  BY <1>1, ClientKeeps DEF ReactInv, Client, Connect, Send, Quit, Open
<1>3. edges' \subseteq registered /\ edges \subseteq edges'
  BY DEF ReactInv
<1>4. backlog' = backlog \/ ListenFd \notin registered \/ ListenFd \in edges'
  BY DEF Send, Quit, ReactInv
<1> QED BY <1>2, <1>3, <1>4 DEF ReactInv, React!NobodyIsStranded

(* Whoever takes the edge of the listening socket goes on to dispatch it,  *)
(* and whoever dispatches it never stops accepting.                        *)
LEMMA ReactLoopKeeps == ReactInv /\ React!Loop => ReactInv'
<1> SUFFICES ASSUME ReactInv, React!Loop PROVE ReactInv'
  OBVIOUS
<1>1. CASE React!EpollerWait
  <2>1. /\ UNCHANGED <<fds, backlog, peer, unread, connections, registered, accepting>>
        /\ rrevs' \subseteq edges /\ edges' = edges \ rrevs' /\ rrevs = {}
    BY <1>1 DEF React!EpollerWait, React!net
  <2> QED
    BY <2>1 DEF ReactInv, NetInv, NetTypeOK, OnePlace, Backlogged, Open, React!NobodyIsStranded
<1>2. CASE React!Dispatcher
  <2>1. PICK sock \in rrevs :
          /\ rrevs' = rrevs \ {sock}
          /\ accepting' = (sock \in connections /\ sock = ListenFd)
    BY <1>2 DEF React!Dispatcher
  <2>2. ~accepting /\ UNCHANGED <<fds, backlog, peer, unread, connections, registered, edges>>
    BY <1>2 DEF React!Dispatcher, React!net
  <2>3. ListenFd \in rrevs => ListenFd \in rrevs' \/ accepting'
    BY <2>1 DEF ReactInv
  <2>4. React!NobodyIsStranded'
    BY <2>2, <2>3 DEF ReactInv, React!NobodyIsStranded
  <2> QED
    BY <2>1, <2>2, <2>4 DEF ReactInv, NetInv, NetTypeOK, OnePlace, Backlogged, Open
<1>3. CASE React!Accepter
  <2>1. accepting /\ UNCHANGED <<rrevs, accepting>>
    BY <1>3 DEF React!Accepter
  <2>2. CASE React!AcceptOne
    <3>1. /\ Accept /\ connections' = connections \cup {NextFd}
          /\ registered \subseteq registered' /\ registered' \subseteq registered \cup {NextFd}
          /\ edges' \subseteq registered'
      BY <2>2, ReactSockets DEF React!AcceptOne, React!AddConnection, ReactInv
    <3>2. edges \subseteq edges' /\ edges' \subseteq edges \cup {NextFd}
      BY <2>2, ReactSockets DEF React!AcceptOne, React!AddConnection
    <3>3. NetInv' /\ Open' = Open \cup {NextFd}
      BY <3>1, AcceptKeeps DEF ReactInv
    <3>4. ListenFd \in registered' => ListenFd \in registered
      BY <3>1, ListenIsNotNext DEF ReactInv, Accept
    <3> QED BY <2>1, <3>1, <3>2, <3>3, <3>4 DEF ReactInv, React!NobodyIsStranded
  <2>3. CASE UNCHANGED <<fds, backlog, peer, unread, connections, registered, edges>>
    BY <2>1, <2>3
       DEF ReactInv, NetInv, NetTypeOK, OnePlace, Backlogged, Open, React!NobodyIsStranded
  <2> QED
    BY <1>3, <2>2, <2>3 DEF React!Accepter, React!AcceptFails, React!net
<1>4. CASE React!TimeOut
  BY <1>4
     DEF React!TimeOut, React!vars, React!net, React!reactor, ReactInv, NetInv, NetTypeOK,
         OnePlace, Backlogged, Open, React!NobodyIsStranded
<1> QED BY <1>1, <1>2, <1>3, <1>4 DEF React!Loop

LEMMA ReactKeeps == ReactInv /\ [React!Next]_React!vars => ReactInv'
<1>1. ReactInv /\ UNCHANGED React!vars => ReactInv'
  BY DEF React!vars, React!net, React!reactor, ReactInv, NetInv, NetTypeOK, OnePlace, Backlogged,
         Open, React!NobodyIsStranded
<1> QED BY <1>1, ReactUsersKeep, ReactLoopKeeps DEF React!Next

LEMMA ReactEnds ==
  ASSUME ReactInv, [React!Next]_React!vars, NEW c \in Conns, peer[c] # "away"
  PROVE  peer'[c] # "away"
<1>1. CASE React!Accepter
  BY <1>1, ReactSockets DEF React!Accepter, React!AcceptOne, React!net, Accept, AcceptFails, net
<1>2. CASE React!Users
  <2>1. PICK d \in Conns : Client(d)
    BY <1>2, ReactSockets DEF React!Users, Client
  <2> QED BY <2>1, ClientsEndNone DEF ReactInv
<1> QED
  BY <1>1, <1>2 DEF React!Next, React!Loop, React!EpollerWait, React!TimeOut, React!Dispatcher,
                    React!vars, React!net

-----------------------------------------------------------------------------
(* The process is one server from the first state on, and the others rest: *)
(* each server's invariant needs to hold only while it is the one.         *)
ServersInv == /\ program \in {"select", "poll", "epoll", "reactor"}
              /\ program = "epoll"   => EpollInv
              /\ program = "select"  => SelectInv
              /\ program = "poll"    => PollInv
              /\ program = "reactor" => ReactInv

(* A step of the process is one of its server. *)
LEMMA StepOfOne ==
  ASSUME ServersInv, [ServersNext]_serversvars
  PROVE  /\ program' = program
         /\ program = "epoll"   => [Next]_vars
         /\ program = "select"  => [Select!Next]_Select!vars
         /\ program = "poll"    => [Poll!Next]_Poll!vars
         /\ program = "reactor" => [React!Next]_React!vars
<1>1. CASE UNCHANGED serversvars
  BY <1>1 DEF serversvars, others, vars, net, select, poll, reactor, Select!vars, Select!net,
              Poll!vars, Poll!net, React!vars, React!net, React!reactor
<1> QED BY <1>1 DEF ServersNext, ByEpoll, BySelect, ByPoll, ByReactor

THEOREM Invariance == ServersSpec => []ServersInv
<1>1. ServersInit => ServersInv
  BY EpollStart, SelectStart, PollStart, ReactStart DEF ServersInit, ServersInv
<1>2. ServersInv /\ [ServersNext]_serversvars => ServersInv'
  BY StepOfOne, EpollKeeps, SelectKeeps, PollKeeps, ReactKeeps DEF ServersInv
<1> QED BY <1>1, <1>2, PTL DEF ServersSpec

-----------------------------------------------------------------------------
(* The book-keeping of each server always has its types, and the sockets   *)
(* under it keep each connection in one place.                             *)
ServersTypeOK ==
  /\ NetInv
  /\ program = "epoll"   => TypeOK
  /\ program = "select"  => fd_array \in Tables /\ si \in 0 .. fd_max_num
  /\ program = "poll"    => rds \in [Entries -> Pollfds] /\ pi \in 0 .. fd_max_num
  /\ program = "reactor" => React!TypeOK

THEOREM TypeCorrect == ServersSpec => []ServersTypeOK
<1>1. ServersInv => ServersTypeOK
  <2>1. ServersInv => NetInv
    BY DEF ServersInv, EpollInv, SelectInv, PollInv, ReactInv, TypeOK, NetInv
  <2>2. ReactInv => React!TypeOK
    BY ReactSockets DEF ReactInv, NetInv, NetTypeOK, React!TypeOK, React!NetTypeOK
  <2> QED BY <2>1, <2>2 DEF ServersInv, ServersTypeOK, EpollInv, SelectInv, PollInv
<1> QED BY Invariance, <1>1, PTL

(* SelectServer.hpp: fd_array has exactly one entry for every open         *)
(* descriptor, for any number of clients and any length, also across       *)
(* turning clients away and the reuse of numbers.                          *)
THEOREM ArrayInStep == ServersSpec => []ArrayMatchesDescriptors
<1>1. ServersInv => ArrayMatchesDescriptors
  BY SelectSockets
     DEF ServersInv, SelectInv, Lists, ArrayMatchesDescriptors, Select!ArrayMatchesDescriptors,
         Select!Positions, Select!defaultfd, Entries
<1> QED BY Invariance, <1>1, PTL

(* PollServer.hpp: the same of rds, and every entry with a descriptor asks *)
(* for input, though Recver resets only the descriptor of an entry.        *)
THEOREM EntriesInStep == ServersSpec => []EntriesMatchDescriptors
<1>1. PollInv => Poll!EntriesMatchDescriptors
  <2> SUFFICES ASSUME PollInv PROVE Poll!EntriesMatchDescriptors
    OBVIOUS
  <2>1. \A p \in Entries : Fd[p] = rds[p].fd
    BY FdIsTable DEF PollInv
  <2>2. {rds[p].fd : p \in Entries} = {Fd[p] : p \in Entries}
    BY <2>1
  <2>3. {rds[p].fd : p \in Entries} \cap Fds = Open
    BY <2>2 DEF PollInv, Lists
  <2>4. \A p, r \in Entries : rds[p].fd = rds[r].fd /\ rds[p].fd # -1 => p = r
    BY <2>1 DEF PollInv, Lists
  <2>5. \A p \in Entries : rds[p].fd # -1 => "POLLIN" \in rds[p].events
    BY DEF PollInv
  <2> QED
    BY <2>3, <2>4, <2>5, PollSockets
       DEF Poll!EntriesMatchDescriptors, Poll!Positions, Poll!defaultfd, Poll!Asked,
           Poll!POLLIN, Entries
<1>2. ServersInv => EntriesMatchDescriptors
  BY <1>1 DEF ServersInv, EntriesMatchDescriptors
<1> QED BY Invariance, <1>2, PTL

(* EpollServer.hpp: while the process lives, an open descriptor is either  *)
(* watched or one that EPOLL_CTL_ADD failed for, never both and never      *)
(* neither, and a watched one is open: Accepter and Recver keep the epoll  *)
(* instance and the descriptor table in step, across the reuse of numbers. *)
THEOREM NoneForgotten == ServersSpec => []EpollWatchesAll
<1>1. ServersInv => EpollWatchesAll
  BY DEF ServersInv, EpollInv, EpollWatchesAll
<1> QED BY Invariance, <1>1, PTL

(* EpollServer.hpp: serving an event of a batch never makes another of the *)
(* batch untrue, so Dispatcher's loop blocks in no read and no accept,     *)
(* however long revs is.                                                   *)
THEOREM NoBlockingCall == ServersSpec => []EpollNeverBlocks
<1>1. ServersInv => EpollNeverBlocks
  BY DEF ServersInv, EpollInv, EpollNeverBlocks
<1> QED BY Invariance, <1>1, PTL

(* Reactor/TcpServer.hpp: while there is somebody to accept, the edge of   *)
(* the listening socket is reported, queued or being served.               *)
THEOREM EdgeNotLost == ServersSpec => []NobodyIsStranded
<1>1. ServersInv => NobodyIsStranded
  BY DEF ServersInv, ReactInv, NobodyIsStranded
<1> QED BY Invariance, <1>1, PTL

(* All four servers: a connection ends when its client has gone and all it *)
(* sent has been read, or by being turned away while the table of the      *)
(* select or the poll server is full, or with the epoll server's process;  *)
(* it never ends in any other way, however messages, quitting clients and  *)
(* the server's walk interleave.                                           *)
THEOREM ReadToTheEnd == ServersSpec => NobodyIsCutOff
<1>1. ASSUME ServersInv, [ServersNext]_serversvars,
             NEW c \in Conns, peer[c] # "away", peer'[c] = "away"
      PROVE  Over(c) \/ TurnedAway(c) \/ EndsBySignal
  <2>1. CASE program = "epoll"
    BY <1>1, <2>1, StepOfOne, EpollEnds DEF ServersInv, EndsBySignal
  <2>2. CASE program = "select"
    BY <1>1, <2>2, StepOfOne, SelectEnds DEF ServersInv, TurnedAway
  <2>3. CASE program = "poll"
    BY <1>1, <2>3, StepOfOne, PollEnds DEF ServersInv, TurnedAway
  <2>4. CASE program = "reactor"
    BY <1>1, <2>4, StepOfOne, ReactEnds DEF ServersInv
  <2> QED BY <1>1, <2>1, <2>2, <2>3, <2>4 DEF ServersInv
<1>2. ServersInv /\ [ServersNext]_serversvars
        => [\A c \in Conns : peer[c] # "away" /\ peer'[c] = "away"
                              => Over(c) \/ TurnedAway(c) \/ EndsBySignal]_vars
  BY <1>1
<1> QED BY Invariance, <1>2, PTL DEF ServersSpec, NobodyIsCutOff
=============================================================================
