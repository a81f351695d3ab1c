\* Three clients and three entries.
CONSTANTS
  c1 = c1
  c2 = c2
  c3 = c3
  NoConn = NoConn
  Conns = {c1, c2, c3}
  Fds = {4, 5, 6}
  ListenFd = 3
  MaxUnread = 2
  fd_max_num = 3
SPECIFICATION Spec
INVARIANT ReadsDontBlock
