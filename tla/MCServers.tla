----------------------------- MODULE MCServers -----------------------------
(***************************************************************************)
(* The four servers of IOModel, one of which runs: the first state says    *)
(* which of them the process is, and every other step is that server's or  *)
(* a client's.  The sockets and the clients are the same for all of them;  *)
(* the variables of the servers that do not run rest.                      *)
(***************************************************************************)
EXTENDS EpollServer

CONSTANTS c1, c2, c3,
          fd_max_num,     \* SelectServer's and PollServer's
          Limits          \* bound: the last descriptors each program is checked with

VARIABLES program,        \* which server runs
          fd_array, rfds, si,
          rds, pi,
          connections, registered, edges, rrevs, accepting

Select == INSTANCE SelectServer WITH i <- si
Poll   == INSTANCE PollServer WITH i <- pi
React  == INSTANCE Reactor WITH revs <- rrevs

ASSUME ServersAssumption ==
  /\ Select!LengthAssumption /\ Poll!LengthAssumption
  /\ NumAssumption /\ React!ZeroAssumption

select  == <<fd_array, rfds, si>>
poll    == <<rds, pi>>
reactor == <<connections, registered, edges, rrevs, accepting>>
others  == <<select, poll, reactor>>

ServersInit == /\ program \in {"select", "poll", "epoll", "reactor"}
               /\ Init /\ Select!Init /\ Poll!Init /\ React!Init
               /\ \E last \in Limits[program] : DOMAIN fds = {f \in Fds : f <= last}

(* A step of one server leaves the variables of the others alone. *)
ByEpoll(A)   == program = "epoll"   /\ A /\ UNCHANGED <<program, others>>
BySelect(A)  == program = "select"  /\ A /\ UNCHANGED <<program, server, poll, reactor>>
ByPoll(A)    == program = "poll"    /\ A /\ UNCHANGED <<program, server, select, reactor>>
ByReactor(A) == program = "reactor" /\ A /\ UNCHANGED <<program, server, select, poll>>

ServersNext == \/ ByEpoll(Next) \/ BySelect(Select!Next)
               \/ ByPoll(Poll!Next) \/ ByReactor(React!Next)

serversvars == <<program, vars, others>>

(* The fairness of each module's FairSpec, for the server that runs. *)
AServer      == \/ ByEpoll(Server) \/ BySelect(Select!Server)
                \/ ByPoll(Poll!Server) \/ ByReactor(React!Loop)
AnAccept     == (BySelect(Select!Listen) \/ ByPoll(Poll!Listen)) /\ backlog' # backlog
AUserActs(c) == BySelect(Select!UserActs(c)) \/ ByPoll(Poll!UserActs(c))

Fairness ==
  /\ WF_serversvars(AServer)
  /\ SF_serversvars(AnAccept)
  /\ \A c \in Conns : WF_serversvars(AUserActs(c))
  /\ \A f \in Fds : SF_serversvars(ByEpoll(up /\ EpollerWait /\ f \in revs'))

ServersSpec == ServersInit /\ [][ServersNext]_serversvars /\ Fairness

-----------------------------------------------------------------------------
(* SelectServer.hpp: fd_array has an entry for every open descriptor. *)
ArrayMatchesDescriptors == program = "select" => Select!ArrayMatchesDescriptors

(* PollServer.hpp: rds has an entry for every open descriptor. *)
EntriesMatchDescriptors == program = "poll" => Poll!EntriesMatchDescriptors

(* EpollServer.hpp: the open descriptors are the watched ones, and those   *)
(* that could not be added.                                                *)
EpollWatchesAll == program = "epoll" => TreeMatchesDescriptors

(* EpollServer.hpp: no event of a batch is made untrue by an earlier one. *)
EpollNeverBlocks == program = "epoll" => EventsStayTrue

(* Reactor/TcpServer.hpp: no edge of the listening socket is used up       *)
(* while there is somebody to accept.                                      *)
NobodyIsStranded == program = "reactor" => React!NobodyIsStranded

(* All four: a connection ends only when its client has gone and all it    *)
(* sent has been read.  There are two exceptions: the select and the poll  *)
(* server turn the first of the backlog away while their table is full     *)
(* (SelectServer.hpp:54, PollServer.hpp:57), and the epoll server's        *)
(* process may end while it writes to a client that has gone.              *)
TurnedAway(c) == /\ backlog # << >> /\ c = Head(backlog)
                 /\ \/ program = "select" /\ Select!FreePositions = {}
                    \/ program = "poll" /\ Poll!FreePositions = {}
EndsBySignal  == program = "epoll" /\ up /\ ~up' /\ writing \in reset

NobodyIsCutOff ==
  [][\A c \in Conns : peer[c] # "away" /\ peer'[c] = "away"
                        => Over(c) \/ TurnedAway(c) \/ EndsBySignal]_vars

(* SelectServer, PollServer, Reactor: whoever connects is accepted some    *)
(* day, and who waits for ever does so because from some time on the       *)
(* process never has a descriptor left, or because epoll does not know     *)
(* the listening socket.  The clients are interchangeable, and c1 stands   *)
(* for each of them.                                                       *)
EveryoneIsAccepted ==
  LET Waits   == program # "epoll" /\ \E k \in DOMAIN backlog : backlog[k] = c1
      GivenUp == Unused = {} \/ (program = "reactor" /\ ListenFd \notin registered)
  IN  <>[]Waits => <>[]GivenUp

(* EpollServer.hpp: whoever quits is followed, unless the server writes to *)
(* somebody else for ever who neither reads nor leaves, or could not add   *)
(* the descriptor in the first place; again c1.                            *)
AQuitIsFollowed ==
  LET Left == /\ program = "epoll" /\ up /\ peer[c1] = "gone"
              /\ \E f \in Open \ lost : fds[f] = c1
  IN  <>[]Left => <>[]Blocked

-----------------------------------------------------------------------------
(* Values for TLC. *)
SomeLimits == [select |-> {4, 6}, poll |-> {4, 6}, epoll |-> {5}, reactor |-> {4, 6}]
=============================================================================
