--------------------------- MODULE SocketsProofs ----------------------------
(***************************************************************************)
(* What holds of Sockets under every server, for any number of clients and *)
(* descriptors: each connection is in one place, the backlog or one        *)
(* descriptor.  The servers' proofs rest on it.                            *)
(***************************************************************************)
EXTENDS Sockets, SequenceTheorems, FiniteSetTheorems, WellFoundedInduction, TLAPS

Backlogged == 1 .. Len(backlog)

OnePlace ==
  /\ \A j, k \in Backlogged : backlog[j] = backlog[k] => j = k
  /\ \A f, g \in Open : fds[f] = fds[g] => f = g
  /\ \A f \in Open, k \in Backlogged : fds[f] # backlog[k]
  /\ \A k \in Backlogged : peer[backlog[k]] # "away"
  /\ \A f \in Open : peer[fds[f]] # "away"

NetInv == NetTypeOK /\ OnePlace

-----------------------------------------------------------------------------
(* Every set of numbers has a least one: of the intervals that begin at 0  *)
(* and end in the set, one includes no other.                              *)
LEMMA LeastNumber ==
  ASSUME NEW S \in SUBSET Nat, S # {}
  PROVE  \E x \in S : \A y \in S : x <= y
<1> DEFINE Below  == {0 .. x : x \in S}
           Finite == FiniteSubsetsOf(Nat)
           Less   == StrictSubsetOrdering(Nat)
<1>1. \A x \in S : IsFiniteSet(0 .. x)
  BY FS_Interval
<1>2. Below \subseteq Finite /\ Below # {}
  <2>1. \A x \in S : 0 .. x \in SUBSET Nat
    OBVIOUS
  <2>2. \A x \in S : 0 .. x \in Finite
    BY <1>1, <2>1 DEF FiniteSubsetsOf
  <2> QED BY <2>2
<1>3. IsWellFoundedOn(Less, Finite)
  BY FS_StrictSubsetOrderingWellFounded
<1> HIDE DEF Below, Finite, Less
<1>4. PICK I \in Below : \A J \in Below : ~ (<<J, I>> \in Less)
  BY <1>2, <1>3, WFMin
<1>5. PICK x \in S : I = 0 .. x
  BY <1>4 DEF Below
<1>6. SUFFICES ASSUME NEW y \in S, y < x PROVE FALSE
  BY <1>5
<1>7. 0 .. y \in Below /\ 0 .. y \in SUBSET Nat /\ 0 .. x \in SUBSET Nat
  BY DEF Below
<1>8. 0 .. y \subseteq 0 .. x /\ x \in 0 .. x /\ x \notin 0 .. y
  BY <1>6
<1>9. <<0 .. y, I>> \in Less
  BY <1>5, <1>7, <1>8 DEF Less, StrictSubsetOrdering
<1> QED BY <1>4, <1>7, <1>9

(* So accept finds a descriptor as long as there is one. *)
LEMMA NextFdIsUnused ==
  ASSUME NetTypeOK, Unused # {}
  PROVE  NextFd \in Unused
<1>1. Unused \in SUBSET Nat
  BY FdsAssumption DEF Unused, NetTypeOK
<1>2. \E x \in Unused : \A y \in Unused : x <= y
  BY <1>1, LeastNumber
<1> QED BY <1>2 DEF NextFd

LEMMA NetStart == NetInit => NetInv
<1> SUFFICES ASSUME NetInit PROVE NetInv
  OBVIOUS
<1>1. << >> \in Seq(Conns) /\ Len(<< >>) = 0
  BY EmptySeq
<1>2. Open = {}
  BY DEF NetInit, Open
<1> QED
  BY <1>1, <1>2, MaxUnreadAssumption DEF NetInit, NetInv, NetTypeOK, OnePlace, Backlogged

(* The first in the backlog leaves it; the others move up. *)
LEMMA BacklogMoves ==
  ASSUME NetInv, backlog # << >>
  PROVE  /\ Head(backlog) \in Conns /\ Head(backlog) = backlog[1] /\ 1 \in Backlogged
         /\ Tail(backlog) \in Seq(Conns)
         /\ \A k \in 1 .. Len(Tail(backlog)) :
              k + 1 \in Backlogged /\ Tail(backlog)[k] = backlog[k + 1]
BY HeadTailProperties, LenProperties DEF NetInv, NetTypeOK, Backlogged

-----------------------------------------------------------------------------
(* Every operation of the kernel and of the clients keeps NetInv.          *)
LEMMA ClientKeeps ==
  ASSUME NetInv, NEW c \in Conns, Client(c)
  PROVE  NetInv'
<1> USE DEF NetInv, NetTypeOK, OnePlace, Backlogged, Open
<1>1. CASE Connect(c)
  <2>1. /\ backlog' \in Seq(Conns) /\ Len(backlog') = Len(backlog) + 1
        /\ Len(backlog) \in Nat
        /\ \A k \in 1 .. Len(backlog) : backlog'[k] = backlog[k]
        /\ backlog'[Len(backlog) + 1] = c
    BY <1>1, AppendProperties, LenProperties DEF Connect
  <2>2. /\ \A k \in 1 .. Len(backlog) : backlog[k] # c
        /\ \A f \in Open : fds[f] # c
    BY <1>1 DEF Connect
  <2>3. /\ peer' = [peer EXCEPT ![c] = "here"] /\ UNCHANGED <<fds, unread>>
    BY <1>1 DEF Connect
  <2>4. NetTypeOK'
    BY <2>1, <2>3
  <2>0. Backlogged' = Backlogged \cup {Len(backlog) + 1} /\ \A k \in Backlogged : k # Len(backlog) + 1
    BY <2>1
  <2>5. \A j, k \in Backlogged' : backlog'[j] = backlog'[k] => j = k
    <3> SUFFICES ASSUME NEW j \in Backlogged', NEW k \in Backlogged', backlog'[j] = backlog'[k]
                 PROVE  j = k
      OBVIOUS
    <3>1. CASE j \in Backlogged /\ k \in Backlogged
      BY <2>1, <3>1
    <3>2. CASE j \notin Backlogged /\ k \in Backlogged
      BY <2>0, <2>1, <2>2, <3>2
    <3>3. CASE j \in Backlogged /\ k \notin Backlogged
      BY <2>0, <2>1, <2>2, <3>3
    <3>4. CASE j \notin Backlogged /\ k \notin Backlogged
      BY <2>0, <3>4
    <3> QED BY <3>1, <3>2, <3>3, <3>4
  <2>a. \A k \in Backlogged : backlog[k] \in Conns /\ peer[backlog[k]] # "away"
    BY ElementOfSeq
  <2>b. \A k \in Backlogged : peer'[backlog'[k]] # "away"
    BY <2>1, <2>2, <2>3, <2>a
  <2>c. peer'[backlog'[Len(backlog) + 1]] # "away"
    BY <2>1, <2>3
  <2>d. Open' = Open
    BY <2>3
  <2>6. \A f \in Open', k \in Backlogged' : fds'[f] # backlog'[k]
    <3> SUFFICES ASSUME NEW f \in Open, NEW k \in Backlogged'
                 PROVE  fds[f] # backlog'[k]
      BY <2>3, <2>d
    <3>1. CASE k \in Backlogged
      BY <2>1, <3>1
    <3>2. CASE k \notin Backlogged
      BY <2>0, <2>1, <2>2, <3>2
    <3> QED BY <3>1, <3>2
  <2>7. \A k \in Backlogged' : peer'[backlog'[k]] # "away"
    BY <2>0, <2>b, <2>c
  <2>8. \A f \in Open' : peer'[fds'[f]] # "away"
    BY <2>2, <2>3, <2>4
  <2> QED BY <2>3, <2>4, <2>5, <2>6, <2>7, <2>8
<1>2. CASE Send(c)
  BY <1>2, MaxUnreadAssumption DEF Send
<1>3. CASE Quit(c)
  BY <1>3 DEF Quit
<1> QED BY <1>1, <1>2, <1>3 DEF Client

LEMMA AcceptKeeps ==
  ASSUME NetInv, Accept
  PROVE  /\ NetInv'
         /\ NextFd \in Unused /\ fds'[NextFd] = Head(backlog) /\ Head(backlog) \in Conns
         /\ DOMAIN fds' = DOMAIN fds
         /\ \A f \in DOMAIN fds : f # NextFd => fds'[f] = fds[f]
         /\ Open' = Open \cup {NextFd}
<1> DEFINE fd == NextFd
<1>1. fd \in Unused /\ backlog # << >>
  BY NextFdIsUnused DEF Accept, NetInv
<1>2. /\ fds' = [fds EXCEPT ![fd] = Head(backlog)] /\ backlog' = Tail(backlog)
      /\ UNCHANGED <<peer, unread>>
  BY DEF Accept
<1> HIDE DEF fd
<1>3. fd \in DOMAIN fds /\ fd \notin Open /\ fds \in [DOMAIN fds -> Conns \cup {NoConn}]
  BY <1>1 DEF Unused, NetInv, NetTypeOK
<1>4. /\ fds'[fd] = backlog[1] /\ backlog[1] \in Conns /\ DOMAIN fds' = DOMAIN fds
      /\ \A f \in DOMAIN fds : f # fd => fds'[f] = fds[f]
  BY <1>1, <1>2, <1>3, BacklogMoves
<1>5. Open' = Open \cup {fd}
  BY <1>2, <1>3, <1>4, ConnsAssumption DEF Open
<1>6. /\ Head(backlog) = backlog[1] /\ 1 \in Backlogged /\ backlog' \in Seq(Conns)
      /\ \A k \in Backlogged' : k + 1 \in Backlogged /\ backlog'[k] = backlog[k + 1] /\ k + 1 # 1
  BY <1>1, <1>2, BacklogMoves DEF Backlogged
<1>7. NetTypeOK'
  BY <1>2, <1>3, <1>4, <1>6 DEF NetInv, NetTypeOK
<1>8. OnePlace'
  <2> USE <1>4, <1>5, <1>6 DEF NetInv, OnePlace
  <2>1. \A j, k \in Backlogged' : backlog'[j] = backlog'[k] => j = k
    BY DEF Backlogged
  <2>2. \A f \in Open : f \in DOMAIN fds /\ f # fd /\ fds'[f] = fds[f]
    BY <1>3 DEF Open
  <2>3. \A f, g \in Open' : fds'[f] = fds'[g] => f = g
    BY <2>2
  <2>4. \A f \in Open', k \in Backlogged' : fds'[f] # backlog'[k]
    BY <2>2
  <2>5. \A k \in Backlogged' : peer'[backlog'[k]] # "away"
    <3> SUFFICES ASSUME NEW k \in Backlogged' PROVE peer[backlog'[k]] # "away"
      BY <1>2
    <3>1. k + 1 \in Backlogged /\ backlog'[k] = backlog[k + 1]
      OBVIOUS
    <3> QED BY <3>1
  <2>6. \A f \in Open' : peer'[fds'[f]] # "away"
    BY <1>2, <2>2
  <2> QED BY <2>1, <2>3, <2>4, <2>5, <2>6
<1> QED BY <1>1, <1>2, <1>3, <1>4, <1>5, <1>6, <1>7, <1>8 DEF fd, NetInv

LEMMA AcceptAndCloseKeeps ==
  ASSUME NetInv, AcceptAndClose
  PROVE  NetInv'
<1>1. /\ backlog # << >> /\ Forget(Head(backlog)) /\ backlog' = Tail(backlog) /\ UNCHANGED fds
  BY DEF AcceptAndClose
<1>2. /\ Head(backlog) = backlog[1] /\ 1 \in Backlogged /\ backlog' \in Seq(Conns)
      /\ backlog[1] \in Conns
      /\ \A k \in Backlogged' : k + 1 \in Backlogged /\ backlog'[k] = backlog[k + 1] /\ k + 1 # 1
  BY <1>1, BacklogMoves DEF Backlogged
<1>3. /\ peer' = [peer EXCEPT ![backlog[1]] = "away"]
      /\ unread' = [unread EXCEPT ![backlog[1]] = 0]
  BY <1>1, <1>2 DEF Forget
<1>4. NetTypeOK'
  BY <1>1, <1>2, <1>3, MaxUnreadAssumption DEF NetInv, NetTypeOK
<1>5. OnePlace'
  <2> USE <1>1, <1>2 DEF NetInv, OnePlace
  <2>1. Open' = Open
    BY DEF Open
  <2>2. \A j, k \in Backlogged' : backlog'[j] = backlog'[k] => j = k
    BY DEF Backlogged
  <2>3. ASSUME NEW k \in Backlogged'
        PROVE  /\ backlog'[k] # backlog[1] /\ backlog'[k] \in Conns
               /\ \A f \in Open : fds[f] # backlog'[k]
               /\ peer[backlog'[k]] # "away"
    <3>1. k + 1 \in Backlogged /\ backlog'[k] = backlog[k + 1] /\ k + 1 # 1
      OBVIOUS
    <3>2. backlog[k + 1] \in Conns
      BY <3>1, ElementOfSeq DEF Backlogged, NetTypeOK
    <3>3. backlog[k + 1] # backlog[1]
      BY <3>1
    <3>4. \A f \in Open : fds[f] # backlog[k + 1]
      BY <3>1
    <3>5. peer[backlog[k + 1]] # "away"
      BY <3>1
    <3> QED BY <3>1, <3>2, <3>3, <3>4, <3>5
  <2>4. \A c \in Conns : c # backlog[1] => peer'[c] = peer[c]
    BY <1>3 DEF NetTypeOK
  <2>5. \A f \in Open : fds[f] \in Conns /\ fds[f] # backlog[1]
    BY DEF Open, NetTypeOK
  <2>6. \A f, g \in Open' : fds'[f] = fds'[g] => f = g
    BY <2>1
  <2>7. \A f \in Open', k \in Backlogged' : fds'[f] # backlog'[k]
    BY <2>1, <2>3
  <2>8. \A k \in Backlogged' : peer'[backlog'[k]] # "away"
    BY <2>3, <2>4
  <2>9. \A f \in Open' : peer'[fds'[f]] # "away"
    BY <2>1, <2>4, <2>5
  <2> QED BY <2>2, <2>6, <2>7, <2>8, <2>9
<1> QED BY <1>4, <1>5 DEF NetInv

LEMMA ReadKeeps ==
  ASSUME NetInv, NEW f \in Open, ReadData(f)
  PROVE  NetInv'
<1>1. fds[f] \in Conns
  BY DEF Open, NetInv, NetTypeOK
<1>2. UNCHANGED <<fds, backlog, peer>>
  BY DEF ReadData
<1>3. PICK n \in 1 .. unread[fds[f]] : unread' = [unread EXCEPT ![fds[f]] = @ - n]
  BY DEF ReadData
<1>4. unread' \in [Conns -> 0 .. MaxUnread]
  BY <1>1, <1>3, MaxUnreadAssumption DEF NetInv, NetTypeOK
<1>5. OnePlace'
  BY <1>2 DEF NetInv, OnePlace, Backlogged, Open
<1> QED BY <1>2, <1>4, <1>5 DEF NetInv, NetTypeOK

LEMMA CloseKeeps ==
  ASSUME NetInv, NEW f \in Open, Close(f)
  PROVE  /\ NetInv'
         /\ Open' = Open \ {f}
         /\ DOMAIN fds' = DOMAIN fds
         /\ \A g \in DOMAIN fds : g # f => fds'[g] = fds[g]
<1> DEFINE c == fds[f]
<1>1. /\ fds' = [fds EXCEPT ![f] = NoConn] /\ UNCHANGED backlog
      /\ peer' = [peer EXCEPT ![c] = "away"] /\ unread' = [unread EXCEPT ![c] = 0]
  BY DEF Close, Forget
<1>2. f \in DOMAIN fds /\ f \in Fds /\ c \in Conns
  BY DEF Open, NetInv, NetTypeOK
<1>3. Open' = Open \ {f}
  BY <1>1, <1>2 DEF Open, NetInv, NetTypeOK
<1>4. DOMAIN fds' = DOMAIN fds /\ \A g \in DOMAIN fds : g # f => fds'[g] = fds[g]
  BY <1>1, <1>2 DEF NetInv, NetTypeOK
<1>5. NetTypeOK'
  BY <1>1, <1>2, <1>4, MaxUnreadAssumption DEF NetInv, NetTypeOK
<1>6. OnePlace'
  <2> USE DEF NetInv, OnePlace
  <2>1. \A g \in Open' : g \in Open /\ g # f /\ fds'[g] = fds[g] /\ fds[g] # c /\ fds[g] \in Conns
    BY <1>3, <1>4 DEF Open, NetTypeOK
  <2>2. \A k \in Backlogged : backlog[k] # c /\ backlog[k] \in Conns
    BY ElementOfSeq DEF NetTypeOK, Backlogged
  <2>3. \A d \in Conns : d # c => peer'[d] = peer[d]
    BY <1>1 DEF NetTypeOK
  <2>4. Backlogged' = Backlogged
    BY <1>1 DEF Backlogged
  <2> QED BY <1>1, <2>1, <2>2, <2>3, <2>4
<1> QED BY <1>3, <1>4, <1>5, <1>6 DEF NetInv

(* Two descriptors never refer to one connection, so what happens to the   *)
(* connection of one leaves the readiness of the others alone.             *)
LEMMA OthersStayReady ==
  ASSUME NetInv, NEW f \in Open, NEW g \in Open, f # g, Readable(g),
         ReadData(f) \/ Close(f)
  PROVE  fds'[g] = fds[g] /\ Readable(g)'
<1>1. fds[f] \in Conns /\ fds[g] \in Conns /\ fds[f] # fds[g] /\ f \in DOMAIN fds /\ g \in DOMAIN fds
  BY DEF Open, NetInv, NetTypeOK, OnePlace
<1>2. fds'[g] = fds[g]
  BY <1>1 DEF ReadData, Close, NetInv, NetTypeOK
<1>3. unread'[fds[g]] = unread[fds[g]] /\ peer'[fds[g]] = peer[fds[g]]
  BY <1>1 DEF ReadData, Close, Forget, NetInv, NetTypeOK
<1> QED BY <1>2, <1>3 DEF Readable

(* What a client does makes nothing unreadable: it never takes back what   *)
(* it sent, and it starts again only once the server has closed.           *)
LEMMA ClientsLeaveReady ==
  ASSUME NetInv, NEW c \in Conns, Client(c), NEW f \in Open, Readable(f)
  PROVE  Readable(f)'
<1>1. fds[f] \in Conns /\ peer[fds[f]] # "away" /\ unread[fds[f]] \in Nat
  BY MaxUnreadAssumption DEF Open, NetInv, NetTypeOK, OnePlace
<1>2. CASE Connect(c)
  BY <1>1, <1>2 DEF Connect, Readable, NetInv, NetTypeOK
<1>3. CASE Send(c)
  BY <1>1, <1>3 DEF Send, Readable, NetInv, NetTypeOK
<1>4. CASE Quit(c)
  BY <1>1, <1>4 DEF Quit, Readable, NetInv, NetTypeOK
<1> QED BY <1>2, <1>3, <1>4 DEF Client

(* Whose connection ends in a step.                                        *)
LEMMA ClientsEndNone ==
  ASSUME NetInv, NEW d \in Conns, Client(d), NEW c \in Conns, peer[c] # "away"
  PROVE  peer'[c] # "away"
BY DEF Client, Connect, Send, Quit, NetInv, NetTypeOK

LEMMA CloseEndsOne ==
  ASSUME NetInv, NEW f \in Open, Close(f), NEW c \in Conns, peer[c] # "away", peer'[c] = "away"
  PROVE  c = fds[f]
BY DEF Close, Forget, NetInv, NetTypeOK

LEMMA TurningAwayEndsOne ==
  ASSUME NetInv, AcceptAndClose, NEW c \in Conns, peer[c] # "away", peer'[c] = "away"
  PROVE  backlog # << >> /\ c = Head(backlog)
BY DEF AcceptAndClose, Forget, NetInv, NetTypeOK
=============================================================================
