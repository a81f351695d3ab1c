\* The process pool: three slavers, two commands, and any fork may fail; its
\* father may then wait forever for a child that is not told to leave, so the
\* system may stop.  The calculator: two requests, the second before the first
\* answer.  The chat: two clients on one host, one on another.  The FIFO: two
\* clients.  testPipe: the six reads of line 52, three messages in the pipe.
\* mycond: two threads.  The start of the translation server: a pool of two,
\* three clients.
CONSTANTS
  c1 = c1
  c2 = c2
  t1 = t1
  t2 = t2
  NoAddress = NoAddress
  Free = Free
  defaultnum = 2
  MaxLinks = 3
  Codes = {0, 1}
  processNum = 3
  MaxQueued = 2
  ForkMayFail = TRUE
SPECIFICATION ExercisesSpec
INVARIANTS NoStrayWriter ServesAsDaemon
PROPERTIES ImplementsJobLanes QuitCompletes EveryCallReturns EveryRequestIsAnswered UsersHearEveryone ServerFollows FatherEnds CountGoesOn
CHECK_DEADLOCK FALSE
