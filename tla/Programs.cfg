\* The queue: two threads on each side, the default capacity, spurious wakeups and
\* up to two pops of an empty queue.  The tickets: three sellers, three tickets.
\* The calculator: two requests, the second before the first answer, one of them
\* a division by zero.  Mystdio: two programs that write to one file, a buffer of
\* two bytes.  The game: three in a line on a board of three by three.  The shell:
\* three lines, two files.  The log: two threads and descriptors, three methods and
\* none.  The
\* HTTP server: two browsers, two descriptors, a URL with its file and one without.
\* The segment: one text.
CONSTANTS
  p1 = p1
  p2 = p2
  g1 = g1
  g2 = g2
  v1 = v1
  s1 = s1
  s2 = s2
  s3 = s3
  a1 = a1
  a2 = a2
  f1 = f1
  f2 = f2
  w1 = w1
  w2 = w2
  c1 = c1
  c2 = c2
  u1 = u1
  u2 = u2
  t1 = t1
  NoValue = NoValue
  Garbage = Garbage
  Free = Free
  NoConn = NoConn
  Terminal = Terminal
  Nothing = Nothing
  Empty = Empty
  Producers = {p1, p2}
  Consumers = {g1, g2}
  Values = {v1}
  MaxCap = 5
  Spurious = TRUE
  MaxDebt = 2
  Sellers = {s1, s2, s3}
  Total = 3
  Requests <- SomeRequests
  Rounds = 2
  Eager = TRUE
  Programs = {a1, a2}
  SIZE = 2
  Flags = {2, 4}
  Texts <- SomeTexts
  MaxBytes = 3
  ROW = 3
  COL = 3
  Five = 3
  Files = {f1, f2}
  MaxLines = 3
  Writers = {w1, w2}
  Levels = {"Info"}
  Methods = {"Screen", "Onefile", "Classfile", "off"}
  Numbers = {4, 5}
  NoFile = NoFile
  Conns = {c1, c2}
  Fds = {4, 5}
  ListenFd = 3
  MaxUnread = 1
  Urls = {u1, u2}
  Pages = {u1}
  Typed = {t1}
SPECIFICATION ProgramsSpec
INVARIANTS SomeoneIsAwake EachTicketOnce AnswersInOrder FileThenBuffer VerdictIsRight OwnLineOnly EachInItsFile ServesItsOwn AMayAttach
