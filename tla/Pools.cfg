\* The queue: one consumer and no spurious wakeup, the use in which the if of
\* pop is enough.  The pool: three workers, two tasks, spurious wakeups.  The
\* server: one worker, two clients, one descriptor: a silent user holds up
\* everybody else, and accept fails while the descriptor is taken.
CONSTANTS
  p1 = p1
  p2 = p2
  g1 = g1
  v1 = v1
  v2 = v2
  w1 = w1
  w2 = w2
  w3 = w3
  k1 = k1
  k2 = k2
  c1 = c1
  c2 = c2
  Producers = {p1, p2}
  Consumers = {g1}
  Values = {v1, v2}
  MaxCap = 3
  Spurious = FALSE
  MaxDebt = 1
  Fds = {5}
  NoTask = NoTask
  NoConn = NoConn
  NoValue = NoValue
  Garbage = Garbage
  Main = Main
  Free = Free
SPECIFICATION PoolsSpec
INVARIANT NoEmptyPop
PROPERTIES ImplementsBoundedFifo QueueMovesOn EveryTaskRuns EveryConnectionEnds
