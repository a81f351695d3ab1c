\* Three clients.  A select or poll process has one descriptor for them, which is
\* used up before the array or rds is full, or three, and then the array or rds,
\* whose length is three, is full first and a client is turned away.  The epoll
\* server has two, and epoll_wait reports at most two events, so one of three ready
\* sockets waits for the next call; a client's buffers have room for one echo.  The
\* Reactor, which closes none, has one for three clients or one for each.
CONSTANTS
  c1 = c1
  c2 = c2
  c3 = c3
  NoConn = NoConn
  Conns = {c1, c2, c3}
  Fds = {4, 5, 6}
  Limits <- SomeLimits
  ListenFd = 3
  MaxUnread = 1
  fd_max_num = 3
  num = 2
  Room = 1
SPECIFICATION ServersSpec
INVARIANTS ArrayMatchesDescriptors EntriesMatchDescriptors EpollWatchesAll EpollNeverBlocks NobodyIsStranded
PROPERTIES NobodyIsCutOff EveryoneIsAccepted AQuitIsFollowed
