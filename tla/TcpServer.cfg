\* Two workers, two clients and two descriptors, so a descriptor is given out
\* again while the other Task is in flight; spurious wakeups.
CONSTANTS
  w1 = w1
  w2 = w2
  c1 = c1
  c2 = c2
  Workers = {w1, w2}
  Conns = {c1, c2}
  Fds = {5, 6}
  Tasks <- SocketTasks
  Spurious = TRUE
  NoTask = NoTask
  NoConn = NoConn
  Main = Main
  Free = Free
SPECIFICATION TcpSpec
INVARIANTS OwnConnection EveryFdHasItsTask NoLostWakeup
PROPERTY ImplementsBoundedFifo
