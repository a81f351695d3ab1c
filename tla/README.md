# LinuxPractice in TLA+

The repository is a collection of practice programs for Linux: containers for
threads, a thread pool, a pool of processes, TCP and UDP servers, servers over
select, poll and epoll, a Reactor, a calculator protocol, an HTTP server, a
buffered file library, a shell, a game, and exercises with pipes, shared memory
and condition variables. This directory models the programs that keep state, or
whose correctness depends on an *order* of things (threads, processes, clients,
the kernel), checks the models with TLC and proves the most important results
with TLAPS for every size.

1. [Inventory](#1-inventory)
2. [Modules and code](#2-modules-and-code)
3. [Runs](#3-runs)
4. [Fairness](#4-fairness)
5. [Proofs](#5-proofs)
6. [What the runs found](#6-what-the-runs-found)
7. [Not modelled, and limits](#7-not-modelled-and-limits)
8. [What is left](#8-what-is-left)

How to run, in this directory: `tlc -config RingQueue.cfg MCRingQueue.tla` (the
module of every cfg is in the table of section 3), `tlapm RingQueueProofs.tla`.

## 1. Inventory

Paths are relative to `src/`. "Hard" is what a test would hardly reach;
"correct if" is what the properties are about.

| Component | State | Operations | Interacts with | Hard | Correct if |
|---|---|---|---|---|---|
| `pthread/RingQueue/RingQueue.hpp` | the array, `p_step`, `c_step`, two semaphores, two mutexes | `Push`, `Pop` | any number of producer and consumer threads (`Main.cc`) | a producer and a consumer hold *different* mutexes; threads leave a semaphore in one order and get the lock in another; both indices wrap | no item is overwritten, read twice or left behind; no slot is touched from both sides at once |
| `pthread/blockQueue/BlockQueue.hpp` | `_q`, `_mutex`, two condition variables, the water marks | `push`, `pop` | producers, consumers (`main.cc`) | spurious and stolen wakeups; signals that are only sent beyond a mark | the bound holds, nobody pops an empty queue, the two sides never sleep at once |
| `pthread/threadPool/ThreadPool.hpp` (and the copy in `NetWork/TCP`) | `tasks_`, `threads_`, one mutex, one condition variable | `Start`, `Push`, `HandlerTask` | its workers, the main thread, the tasks | the signal and the sleep; front and pop are two steps; workers start before their own tid is stored | no wakeup is lost, every task runs once, in order |
| `NetWork/TCP` (`TcpServer.hpp`, `Task.hpp`) | the descriptor table, the Task in main's hands | `Start`, `Task::run` | ThreadPool, clients, the kernel | a Task names its connection by a number that the kernel gives out again | a Task only ever touches its own connection, and every descriptor is closed once |
| `IOModel/SelectServer` | `fd_array`, what select returned | `Start`, `Dispatcher`, `Accepter`, `Recver` | clients, the kernel | a full array; numbers reused within one walk; reads that block the only thread | the array names exactly the open descriptors; nobody waits for ever |
| `IOModel/PollServer` | `rds` with `events` and `revents` | the same | the same | the same, and events left behind in a freed entry | the same |
| `IOModel/EpollServer` | the epoll instance, the batch `revs` | `Start`, `Dispatcher`, `Accepter`, `Recver`, `EpollerUpdate` | the same | events of a batch going stale while earlier ones are served; an `EPOLL_CTL_ADD` that fails unnoticed; a write that blocks the only thread, or goes to a client that is gone | events are still true when served; only a failed add leaves a descriptor unwatched; a quit is followed by the close unless another client blocks the write |
| `File/Pip/Pipe1_use/ProcessPool.cc` | the father's `channels` and `oldfds`; who holds which write end; the pipes | `InitProcessPool`, `slaver`, `CtrlSlaver`, `QuitProcess` | father, slavers, the kernel | every child inherits the write ends of its elders, and a slaver ends only when *nobody* holds the write end of its pipe | no slaver keeps another one waiting, none leaves with work undone, the end is reached |
| `IOModel/Reactor` | `_connections`, the epoll instance, the edges not reported yet | `AddConnection`, `Dispatcher`, `Accepter`, `Loop` | clients, the kernel | an edge is reported once; accept must go on until nobody waits; no descriptor is ever closed | no edge is used up while somebody waits; everyone is accepted as long as descriptors are left |
| `NetCalculator` | the stream of a connection, `inbuffer_stream`, the child | `Encode`, `Decode`, `Calculator`, `Start`; the client's request, read, assert | client, kernel, one child per connection | TCP cuts the stream anywhere; a read brings half a package or two | the answers are those to the requests, in order, once |
| `NetWork/UDP` | the list of users, datagrams under way | `UserCheck`, `Broadcast`, `Run`; the client's two threads | clients on several hosts, the network | loss, repetition, reordering; a client that restarts has another port | a user hears everybody who goes on talking |
| `HTTPV1` | a ThreadData and a thread per connection | `Start`, `ThreadRun`, `HandlerHttp`, `ReadHtmlContent` | browsers, the kernel | numbers of closed descriptors go to other connections while threads run | a thread serves its own connection |
| `NetWork/TCP` start-up (`Init.hpp`, `Daemon.hpp`, `GetInstance`) | which process runs, who has threads, `tp_`, `lock_` | `Init`, `InitServer`, `Daemon`, `GetInstance`, `Start` | the kernel, the pool | of the threads only the forking one survives a fork; `lock_` is never unlocked | the process that accepts started its pool itself, after the last fork, and no call hangs |
| `*/Log.hpp` | one Log object per program; the files | `operator()`, `Enable`, `printOneFile`, `printClassFile` | threads, the descriptor table | every message opens and closes its file under a number that another thread gets next, while the method changes | a message is only in the file it was meant for, and no descriptor stays open |
| `pthread/ticket.cc`, `LockGuard.hpp` | `tickets`, the mutex | `getTicket` | four sellers | test, print, decrement are three statements; the loop is left from between them | no ticket is sold twice or left |
| `pthread/mycond.cc`, `pthread/condition/mycond.cc` | `cnt`, a mutex, a condition variable | `Count`, `main` | five threads | a wait without a predicate, broadcasts nobody hears | the counting goes on |
| `File/Pip/testPipe.cpp` | who holds which end, the pipe | `Writer`, `Reader`, `main` | father, child, kernel | the writer only ends by SIGPIPE | the father gets through `waitpid` |
| `File/Pip/Fifo` | the file, who has the FIFO open, its bytes | `Init`, the loops of server and client | clients that come and go, kills | the server ends with the *last* writer; the file outlives a kill | the server follows its clients |
| `File/Pip/shared_mem` | the segment (mode, text) | `CreateShm`, `GetShm`, attach, detach, read, write | two processes in any order, `ipcrm` at any time | the segment outlives both, or goes away under both | processa is never denied the segment it goes on with |
| `File/Huanchong/myStd/Mystdio.c` | `outbuffer`, the policy, the file | `_fopen`, `_fwrite`, `_fflush`, `_fclose` | programs that share a file, kills | the buffer's limit; text that is flushed late | the file, and after it the buffer, is what was written |
| `GoBangGame` | the board, `x`, `y` | `Menu`, `PlayerMove`, `ChessCount`, `IsOver`, `Game` | two players, one terminal | counting only through the last move | the verdict is that of the whole board |
| `return/myshell/myshell.c` | `rdir`, `rdirfilename`, `lastcode`, the child | `interact`, `check_redir`, `buildcommand`, `normalexcute` | the user, the files | the redirection of a line is kept in globals | no line writes to the file of another |

Not modelled: section 7.

## 2. Modules and code

```
BoundedFifo ......... what a queue shared by threads promises   (abstract)
  RingQueue ......... refines it                  RingQueueProofs
  BlockQueue ........ refines it until a pop      BlockQueueProofs
                      comes upon an empty queue
  ThreadPool ........ refines it                  ThreadPoolProofs
    TcpServer ....... EXTENDS ThreadPool          TcpServerProofs
JobLanes ............ what a pool of workers promises           (abstract)
  ProcessPool ....... refines it                  ExercisesProofs
Sockets ............. kernel sockets and clients (external)  SocketsProofs
  SelectServer  PollServer
  EpollServer  Reactor                            ServersProofs
  HttpServer                                      ProgramsProofs
Tickets  Calculator  SharedMemory  Logging
Mystdio  GoBang  Shell                            ProgramsProofs
Startup                                           ExercisesProofs
UdpChat  AnonymousPipe  Fifo  Conditions

MCRingQueue, MCBlockQueue, MCSelectServer, MCTcpServer        one component
MCPools        BlockQueue, ThreadPool, TcpServer              with fairness
MCServers      EpollServer, SelectServer, PollServer, Reactor with fairness
MCPrograms     BlockQueue, Tickets, Calculator, Mystdio, GoBang,
               Shell, Logging, HttpServer, SharedMemory
MCExercises    ProcessPool, Startup, Calculator, UdpChat,
               Fifo, AnonymousPipe, Conditions                with fairness
```

The last four MC modules are *sums*: the programs in them have nothing to do with
each other, so the first state chooses one (`program`), every step is a step of
that one, and the variables of the others rest in their initial state. The states
add up instead of multiplying. The module that is extended gives its names as they
are; the others are instances, and a property of theirs begins with
`program = ... =>`. Assumptions on the constants of instances are plain
definitions that the MC module ASSUMEs.

Operators named "Mutant" in a comment are small variants of a definition that no
specification uses; each breaks one property, which shows that the property can be
broken.

**RingQueue.** One action per statement of `Push` and `Pop`, since the only thing
between a producer and a consumer is the two semaphores: `PushWait` is
`P(pspace_sem)`, `PushLock` the mutex, `PushCopy` line 34, `PushAdvance` lines
36-37, `PushUnlock`, `PushPost` is `V(cdata_sem)`; `Pop` likewise. Blocking is the
guard of the action that returns. `unread` is a history variable: the slots
written and not read since. `Contents`, the queue a caller would see, is computed
from the semaphores, the indices and the threads' positions, and is what
refines `BoundedFifo`.

**BlockQueue.** `pthread_cond_wait` is three steps (`Sleep`, being woken, relock).
`PushRelock` goes back to the test, the `while` of line 35; `PopRelock` goes on
to the copy, the `if` of line 24. Taking from an empty `std::queue` is undefined;
what the standard library does (the front iterator moves on, the size wraps, the
next push only makes up for it) is modelled by `debt`, so the module stays
meaningful behind the fault, and TLC and the proofs say what *still* holds.

**ThreadPool.** `Create` and `StoreTid` are the two halves of
`pthread_create(&threads_[i].tid, ...)`: the new thread may run between them.
`HandlerTask` is `GetThreadName`, `Acquire`, `Sleep`, `Front`, `PopFront`,
`Unlock`, `Run`. A task is a model value; `PushLock` takes only one that is not
in flight, so every push is told apart.

**TcpServer.** Extends ThreadPool; `Run` is replaced by the statements of
`Task::run`. `Accept` returns the lowest free number, as the kernel does. A Task
is `[fd, conn]`; `conn` is a ghost (the code keeps only the descriptor) and lets
`OwnConnection` say what the number should mean. `LogQuit` is line 27 of
`Task.hpp`, whose `%s` receives an `int`: the process ends or goes on.

**Sockets and the servers of IOModel.** `Sockets` has the descriptor table, the
backlog, and clients that connect, send and quit in any order and come back;
data are counted in pieces. How many descriptors the process may have is chosen in
the first state (`DOMAIN fds`). The servers add their loop: `Select`, `Poll` or
`EpollerWait` returns, and each entry of the walk (`Skip`, `Listen`, `Serve`) is
one step, since clients act between any two. A `read` that has nothing to read
is an action that is not enabled: the server hangs there. `accept` may fail
whenever there is a connection to accept, and does when there is no number.
`AcceptAndClose` is the close of a client for which the table of select or poll has
no room. poll returns when there is an entry to answer about (`Answers`); the `revents`
themselves are left out, since Dispatcher never looks at them.

**EpollServer.** `EPOLL_CTL_ADD` adds the descriptor to `tree` or, when epoll_ctl fails, to
`lost`: `EpollerUpdate` logs the failure and returns it to callers who do not look.
`Recver` ends at line 54, and `Write` is that line: it waits while the client's buffers
hold `Room` echoes that were not read (`ReadEcho`), and nothing else of the server
runs meanwhile. A client that is gone, or leaves with echoes unread, may answer
with a reset; a write after that is `Sigpipe`, the end of the process, which closes
every socket.

**ProcessPool.** `holders[k]` is the set of processes that hold the write end of
pipe k. `Fork` gives the child every write end of its father; `CloseOld` and
`CloseOwn` are the closing loop of the child; `Quit` is a read that returns 0,
which needs `holders[c] = {}`. `ForkFails` is line 59 without a test: the father
goes on as if there were a child. `SendToNobody` is the SIGPIPE that follows.

**Reactor.** `edges` are the descriptors whose next event epoll has not reported; a
client's action adds one, `EpollerWait` takes some, at most `num`, or comes back after
its time (`TimeOut`). Only the listening `Connection` has a callback, so an event of
another one is taken and dropped, as in the code (line 140 is a TODO), and no
descriptor is ever closed. `AddConnection` may fail in epoll_ctl as above: the
Connection is in `_connections` and not in `registered`. `Accepter` leaves its loop on
`sock == 0`, which accept never returns: the model stays in it, as the code does.

**Startup.** The statements from `main` to the accept loop. `proc` counts the forks (the
process that goes on is the child); `pool` says in which process the threads were
made and how many there are, possibly none, as nobody looks at what pthread_create
returns. A fork that fails goes on in the father, who does not test for it
(`fork() > 0`). `GetInstance` is its outer test and, if that fails, the lock and the inner test.

**Calculator.** A stream is a sequence of tokens (a number, a newline, a JSON text, whose
own newline is part of what `FastWriter` writes), so a read takes any nonempty
prefix of them. `Encode` and `Decode` are operators on such sequences, and `Calculator` of
the child decodes once per read, as the loop in `TcpServer.hpp` does. One connection is
modelled, since children share nothing.

**UdpChat.** Datagrams are sets, so they overtake each other; `Lose` drops one; a copy that
comes twice is one more step of its sender. A user is known by its ip, its
address is that of the first datagram; a second client of the same host, or one
started again, is heard by the users and hears nothing.

**HttpServer.** `tds` is the `sockfd` in the ThreadData of each thread, which is all a
thread knows of its connection. One recv, the request line, the page, the send and the
close are its steps. `AcceptLinkShared` is the mutant in which threads share one object.

**Logging.** Threads share the Log object and the descriptor table and nothing locks
either. Formatting, the one reading of `printMethod`, the open (which takes the lowest
number and may fail), the write (whose failure nobody notices) and the close are
steps of a thread, and `Enable` comes between any two. Of a message only the file it
was meant for is kept. That the bytes of one `write` with `O_APPEND` stay together is
the kernel's promise, not the code's, and is not a property here.

**Tickets, Conditions.** One action per statement between two unlocks; the LockGuard
unlocks with `Decrement` or with the break. A wait is sleep, wake and relock.

**AnonymousPipe, Fifo, SharedMemory.** The kernel object is state (who holds which end;
the file and who has it open; mode and text of the segment) and each call of the
two programs one action. Killing and starting again are actions of the user. The segment
may be removed at any time: a process that was about to attach it then fails with
`EIDRM` (`invalid`), one that has it keeps memory nobody else can see (`alone`), and
Linux lets it still be attached as long as somebody has it. `ftok` may fail
(`GetKeyFails`).

**Mystdio.** Bytes remember who wrote them. `write` overlays at the program's own
position (mode w) or appends (mode a). `_fwrite` copies and then flushes by policy;
text that steps over `SIZE` overwrites the fields behind the buffer, and that program
is `corrupt` from then on.

**GoBang.** The board is a function of cells; `CountChess` walks from the globals `x` and
`y`. `HasLine` in the property looks at the whole board instead.

**Shell.** A line is a record of the kind of its command, its redirection and its file;
the child copies the globals at the fork, then `dup2`, `exec`, exit. A program that
runs writes once. `wanted` is what each line by itself asked for.

## 3. Runs

| Run | Module | What it shows | Bounds |
|---|---|---|---|
| `RingQueue` | MCRingQueue | nothing is overwritten or raced on; the ring refines the FIFO; every item is read | 2+2 threads, 3 slots, 2 values |
| `TcpServer` | MCTcpServer | a Task only touches its own connection, no descriptor leaks, no wakeup is lost, Tasks leave in order (refinement) | 2 workers, 2 clients, 2 descriptors; spurious wakeups |
| `Pools` | MCPools | `pop` tests before it waits, which with one consumer and no spurious wakeup is enough, and the queue goes on; every task runs; every connection ends | 2+1 threads, capacity 3; 3 workers, 2 tasks; 1 worker, 2 clients, 1 descriptor |
| `Servers` | MCServers | `fd_array` and `rds` name exactly the open descriptors, the epoll instance all but those whose add failed; events stay true until served; nobody is stranded by an edge; a connection ends only at its end, or by being turned away at a full table, or with the process; who is never accepted waits for a descriptor that is never free; a quit is followed unless a write blocks for ever | 3 clients; 1 or 3 descriptors (epoll: 2); arrays of 3 with one entry taken by the listening socket, 2 events at a time, room for 1 echo |
| `Programs` | MCPrograms | nine programs with safety properties: the two sides of the queue never sleep at once (`SomeoneIsAwake`), and the others of section 1 (`AnswersInOrder`, `FileThenBuffer`, `VerdictIsRight`, `OwnLineOnly`, `EachInItsFile`, `EachTicketOnce`, `ServesItsOwn`, `AMayAttach`); none of the programs blocks for ever | in the cfg's comment |
| `Exercises` | MCExercises | the process pool leaves no stray writer, refines JobLanes and ends; the server serves as a daemon and no call of `GetInstance` hangs; requests are answered, users hear each other, the FIFO's server follows, the pipe's father ends, the counting goes on | in the cfg's comment |
| `BlockQueueEmptyPop` | MCBlockQueue | *violated*: two consumers pop an empty queue | 2+2 threads, capacity 3 |
| `SelectServerBlocks` | MCSelectServer | *violated*: a read after select blocks | 3 clients |
| `CalculatorAssert` | MCPrograms | *violated*: half an answer ends the client | as `Programs` |
| `CalculatorCodes` | MCPrograms | *violated*: a valid modulo gets an error code | as `Programs` |
| `SharedMemoryDetached` | MCPrograms | *violated*: processa reads detached memory | as `Programs` |
| `HttpZeros` | MCPrograms | *violated*: a file is sent as zero bytes | as `Programs` |

`EveryoneIsAccepted`, `AQuitIsFollowed` and `EveryConnectionEnds` name one client (`c1`),
and `EveryTaskRuns` one task: clients and tasks enter the specifications only through
quantifiers over the whole set, so what holds of one holds of all.

Why the bounds are enough for the cases that matter:

- *RingQueue.* With three slots and four threads both semaphores reach zero, two
  producers and two consumers stand between a semaphore and a lock at the same
  time, and both indices wrap; three slots are the least with a slot that is
  neither the next to read nor the next to write.
- *BlockQueue.* A capacity of 5 is the one `main.cc` uses and gives marks of 1 and
  3, with room on both sides of each. Two threads on each side are what a stolen
  wakeup needs. `MaxDebt` stops a consumer before a further pop of an empty queue;
  the size only has to stay beyond every mark, which a debt of one already shows.
- *ThreadPool, TcpServer.* A lost wakeup needs one sleeper and one that is on its
  way to sleep; the third worker adds one that was signalled. Two descriptors and
  two clients that return let a number be reused while another Task is queued. One
  descriptor and one worker make accept fail and a silent user hold up the rest.
- *Servers.* `SomeLimits` gives the last descriptor each program is checked with. With
  three, the array or `rds` is full before the descriptors are, and the third client is
  turned away; with one, accept fails while entries are free and somebody waits, and the
  Reactor, which closes nothing, has used it up for good after its first client. The
  epoll server has two: with the listening socket three may be ready, and one waits for
  the next call. Room for one echo is enough to block the write, and one client that
  does not read to keep two others waiting. Data are counted up to `MaxUnread` = 1: a
  read takes what there is.
- *ProcessPool.* The third slaver inherits two write ends, one of which a second
  one inherited as well: the least case in which the order of the closing loop
  and of the waits matters.
- *Calculator.* Two requests, the second before the first answer: one read may bring
  two packages or the end of one and the start of the next.
- *Mystdio.* Two programs on one file, a buffer of two bytes: it is filled to the
  byte, stepped over and left half full.
- *Logging.* Two threads and two descriptors: a number that one thread closes is the
  one the other is given, and the second message finds a number of its own.
- *UdpChat.* Two hosts and three addresses: u3 is a second client on u1's host (or the
  same one started again), which is not registered when u1 was heard first.
- *GoBang.* Three in a row on three by three has lines that touch every border and draws.
- *Shell.* Three lines: one that redirects, one that inherits, one that shows it.
- *Startup.* Three clients: `GetInstance` is called before the loop, when the lock is
  free, and three times in it, when it is taken for good.

`CHECK_DEADLOCK FALSE` is set for `Exercises` only: several of its programs end, and after
a failed fork the father of the process pool may wait, with `waitpid(-1)`, for a child
nobody tells to leave. With forks that succeed `QuitCompletes` shows that the pool
ends. In the other runs a program that has ended is a stuttering step, and everything
else goes on.

The type invariants of the modules that have a proof are theorems. Those of the other
modules (`TypeOK` in each) hold of the instances above but are in no cfg: each would be
one more property to read in a run whose properties are about something else.

## 4. Fairness

Each thread or process gets weak fairness of its own steps: the scheduler runs
what can run. Nothing is assumed about who is granted a mutex or a semaphore, or
which sleeper a signal wakes, since POSIX promises nothing; a thread that can
always lose a race may starve, and the liveness properties are about items, tasks
and connections, not about threads. Spurious wakeups may happen and are never
relied on. Beyond that:

- *Users.* In `Pools` (the TCP server) and for the select and poll servers a connected
  user types something or gives up some day. The code needs this: `read` blocks the
  only thread, or a worker, for as long as its client is silent. The Reactor, the
  calculator and the FIFO assume nothing of users. Neither does the epoll server,
  and its property pays for it: a silent client does not hold it up, but one that
  goes on sending until its buffers are full of echoes, reads none and stays does, for
  ever (`Blocked`, the exception in `AQuitIsFollowed`).
- *accept.* It does not fail for ever while there is a connection to accept and a
  descriptor left: strong fairness of a successful `Listen` in the select and poll
  servers, whose walk comes back to it; in the Reactor, which does nothing else any
  more, weak fairness of a step that changes something. Nothing is assumed about
  descriptors becoming free, so `EveryoneIsAccepted` says who waits for ever: those
  for whom no descriptor is left.
- *epoll.* The kernel reports descriptors that stay ready in turn when there are
  more than `revs` can hold (strong fairness per descriptor): ready descriptors
  are queued again at the end of the kernel's list.
- *UDP.* The network does not lose every datagram of the same kind: what is sent again
  and again arrives some day (strong fairness of `Run`, and of `resv_message` of the
  user the property looks at). A user who stays goes on typing; without that there is
  nothing to hear.
- *Conditions.* The main thread goes on broadcasting, as its loop does.
- *ProcessPool.* What the user chooses from the menu is not assumed; the end is shown
  from the moment the father begins to close pipes.

## 5. Proofs

`tlapm` checks every theorem to the last leaf. All constants are arbitrary, under
the named assumptions of the modules: at least one slot, one process or one unit
of capacity; producers and consumers disjoint, in RingQueue also finite; the names
for "no value" and "nobody" different from every value and thread.

**RingQueueProofs.** `TypeCorrect`, `TokensAreConserved`, `RingKeepsShape`,
`NothingOverwritten`, `NothingReadStale`, `NoRaceOnASlot`, `RingRefinesFifo`.
The inductive invariant is `TypeOK /\ Mutexes /\ TokensConserved /\ RingShape`:
`Mutexes` says that the owner of a mutex is the one thread between lock and unlock,
so at most one thread is between its copy and its advance and `NextRead` and
`NextWrite` mean something. `TokensConserved` bounds `Filled` by `Cap`; `RingShape`
turns that number into *which* slots are unread. `NoOverwrite` alone is not
inductive: that the slot at `p_step` has been read depends on tokens that other
threads hold. The lemmas `PushEffects` and `PopEffects` say how each
statement changes the four counts of threads and the two ends, and `ShapeGrows`,
`ShapeShrinks` and the arithmetic of the ring (`ModWrap`, `ModInjective`) do the
rest. In the refinement `PushCopy` is `Enqueue`, `PopCopy` is `Dequeue`, and every
other statement a stutter.

**BlockQueueProofs.** `TypeCorrect` and `CapacityHolds` for any number of threads, with
spurious wakeups and after empty pops; the invariant adds the mutex's owner, that
a producer about to push has room, and that `debt` is only positive while the queue
is empty (so that `SizeValue` gives the wrapped size a value). `NoGlobalSleep`
assumes `MaxCap >= 3`: below that `low_water` is 0 and a sleeping producer is never
woken; `main.cc` builds 5. `FifoUnlessEmptyPop` needs neither one consumer nor the absence
of spurious wakeups: every behaviour in which no consumer gets to `front()` with the
queue empty is one of the bounded FIFO, so the `if` of line 24 is the *only* thing
that separates the two. That consumers do get there is the first finding below.

**ThreadPoolProofs.** `TypeCorrect`, `TasksAreUnique`, `WakeupsAreNotLost`, `PoolRefinesFifo`.
The invariant says that the mutex covers test, copy and removal, so the task a worker
has copied is still the front when it removes it (`FrontIsMine`), and that what
`Push` is about to append is not in flight (`ArgIsNew`). `NoLostWakeup` is inductive
over the type invariant alone: `Put` signals in the same step as it appends, and a
worker sleeps only with the mutex and an empty queue. The refinement assumes finitely
many tasks: `Put` is `Enqueue`, and there is room because a queue without repetition is
an injection into the tasks (`OnceMeansBounded`); `Front` is `Dequeue`, and `PopFront` a
stutter, since what a worker has copied is no longer on offer.

**TcpServerProofs.** `TcpTypeCorrect`, `TasksOwnTheirConnection`, `NoFdIsLost`, for any number
of workers, clients and descriptors, assuming that the tasks of the pool are the
server's (`Tasks = SocketTasks`). Every step of the server is a step of the pool or
leaves it alone, so the pool's invariant is reused as it stands, and gives what is
missing for `OwnConnection`: a Task is in one place at a time (`RunTakesOne`), and moving
it between main, queue and worker does not change what is in flight (`PoolKeeps`). Then
accept cannot give out a number that a Task in flight carries, since that number is
not free, and a close frees the number of no other Task. `PendingIsNew` covers the Task
between accept and `Push`.

**SocketsProofs, ServersProofs.** `TypeCorrect`, `ArrayInStep` (SelectServer), `EntriesInStep`
(PollServer), `NoneForgotten` and `NoBlockingCall` (EpollServer), `EdgeNotLost` (Reactor)
and `ReadToTheEnd` (all four), for any number of clients, any limit on descriptors, any
length of the tables and of `revs`, any `Room`, and with calls of epoll_ctl that fail.
`OnePlace` is what every one of them needs: a connection is in
the backlog once or behind one descriptor, and its client is not away. SocketsProofs
shows that every operation of `Sockets` keeps it, whatever the server, and that accept
finds a descriptor as long as there is one (`LeastNumber`). `EventsStayTrue` is not
inductive alone: reading one descriptor could empty another, if both meant the same
connection. For the two tables the invariant says that an entry names each open
descriptor *once* (`Lists`), since clearing one entry must not leave a second one behind,
and that only the entries behind the first hold clients. For the Reactor it adds that
`_connections` are the open descriptors with the listening one: an edge of a descriptor
without an entry would be thrown away. `NoneForgotten` has each open descriptor in
exactly one of `tree` and `lost`; what makes it hold across reused numbers is that a
lost descriptor is never closed. `ReadToTheEnd` goes through every way a connection can
end, the array that is full and the signal included: `ClientsEndNone`, `CloseEndsOne` and
`TurningAwayEndsOne` say what each operation of `Sockets` ends, and `EpollEnds`,
`SelectEnds`, `PollEnds` and `ReactEnds` which of them each server's step is; all that
is left besides `Over` is `TurnedAway` and `EndsBySignal`. The servers of MCServers are instances and share
their sockets with EpollServer, so the lemmas on `Sockets` are carried over by lemmas such
as `SelectSockets`, and `StepOfOne` splits a step of the sum.

**ProgramsProofs.** One inductive invariant for each program of MCPrograms, and
`EachIsItself`: whichever program the process is, each of the nine behaves as its own
specification says. From the two follow the properties that the run `Programs` checks, for
all values of the constants:

- *Tickets* (`SoldOnce`). The mutex makes a seller's test hold until its decrement
  (`MutexInv`, `TicketLeft`); `SoldInv` says exactly what has been sold: the numbers above
  the counter, and the counter's own between print and decrement.
- *Shared memory* (`OwnSegment`). While processa is about to attach, the segment is the one
  it made, with the mode that lets it attach: processb makes one only when there is none,
  and a removal, whenever it comes, moves processa on to `removed`.
- *Shell* (`RedirectsOwnLine`). Between lines a file holds what was wanted; within a line
  the difference is `StillToCome`, what the globals, the child at its `dup2` or the program
  at its `exec` will still do to it. Every step moves it closer to 0 or leaves it alone.
- *HTTP server* (`OwnConnection`). A thread that runs has in its ThreadData an open
  descriptor that means its connection (`Serves`): nobody else closes that descriptor, and
  accept gives out none that is open.
- *Logging* (`RightFile`). A thread between its open and its close has a number to itself,
  and the table has its file under it: open takes one that is free (`LowestIsFree`), and
  nobody closes a number but the thread that holds it. So what it writes goes where it
  was meant, and what is open is held by somebody about to close it (`LogsInv`).
- *GoBang* (`JudgedRight`). `ChessCount` looks for the length of the run next to a cell;
  `CountIsLast` and `CountsMakeRow` say what the two counts of an axis together mean:
  there is a line through the cell exactly when they reach `Five` with it
  (`LineThrough`). A move can only have made lines through its own cell (`NewLineIsThere`),
  so the local count is the verdict of the whole board (`MoveIsJudged`).
- *Calculator* (`AnsweredInOrder`). A package has five tokens, so what a token of the stream
  belongs to is a matter of its place: the stream (what has been read, and behind it what
  is on its way) carries, five by five, the values that have not been taken. `EncodeCarries`
  appends one, `ReadMoves` cuts the stream anywhere, `DecodeTakesNext` takes the first.
- *Mystdio* (`NothingLost`). Alone (no other truncates the file), a program in mode w has
  written exactly the front of the file up to its position, and one in mode a has only
  appended; with the buffer, or with what a kill took from it, the two give what was
  written (`Intact`). Both rest on lemmas about `Part`, what is one program's of a text:
  it is a subsequence computed along the text, a text whose front is p's gives that front
  (`PartInFront`), and what is appended is appended to it or ignored (`PartOfMore`).
  `Part` is a recursive function, and what it returns is shown by induction: the
  library's induction theorems cannot be instantiated here, so `EveryNumber` derives
  the principle from `LeastNumber`, for a *set* of numbers in place of a predicate.

`TypeCorrect` of this module collects the types of all of them.

**ExercisesProofs.** `TypeCorrect`, `NoWriterIsLeft`, `NobodyGoesEarly`,
`PoolRefinesLanes` of the ProcessPool, for any number of slavers and with failing forks;
`PoolIsItself` carries them over to the specification of MCExercises. The missing link
is `Phases`: which slavers exist and which pipes the father has open is a function of
where its loops are. Without it a new child could inherit the write end of a pipe younger
than itself, or a command could go to a slaver that has left. `DaemonServes` and
`BootTypeCorrect` are about Startup, for a pool of any size: `BootInv` ties `tp_` and
`lock_` to the statements that can have been reached, and the process in which the pool's
threads live to the last fork, which only statements before `GetInstance` make.

Only model-checked: every liveness property, since neither ENABLED nor fairness is within
the prover's reach (`EveryItemIsRead`, `QueueMovesOn`, `EveryTaskRuns`,
`EveryConnectionEnds`, `EveryoneIsAccepted`, `AQuitIsFollowed`, and those of `Exercises`
from `QuitCompletes` on). UdpChat, Fifo, AnonymousPipe and Conditions have no other
property than these, and no proof. Every invariant, and every action or refinement
property, that a run expects to hold is also a theorem, but for `NoEmptyPop`: it is false of
the code, and `Pools` only has it for one consumer and no spurious wakeups. The
refinement of BlockQueue is a theorem under `[]NoEmptyPop`.

## 6. What the runs found

- **`pop` of an empty queue** (`BlockQueue.hpp:24`, run `BlockQueueEmptyPop`). `push` tests in a
  `while`, with a comment on why; `pop` tests in an `if`. With two consumers one is
  signalled, another takes the item, and the first calls `front()` and `pop()` on an
  empty queue. `main.cc` starts several consumers.
- **Reads that were not asked for** (`SelectServer.hpp:92`, run `SelectServerBlocks`). The dispatcher
  asks about the listening socket for every entry, so a connection is read when
  somebody *else* connects, and the read blocks the server; what clients send
  while nobody connects is not read. A comment promises the contrary.
- **One read for one answer** (`ClientCal.cc:67`, run `CalculatorAssert`). The comment before the
  read says that a whole package is not guaranteed; the assert after it demands one.
- **A missing break** (`ServerCal.hpp:42`, run `CalculatorCodes`). Every modulo, valid or not,
  is answered with the code of an unknown operator.
- **Detached before it is read** (`processa.cc:14`, run `SharedMemoryDetached`). `shmdt` comes
  before the loop that reads.
- **A page of zeros** (`HttpServer.hpp:128`, run `HttpZeros`). The string gets the file's length
  and never its content.

Seen while modelling, and in the models unless section 7 says otherwise (the properties
hold up to them or are stated around them):

- `PollServer.hpp:99` tests what an entry asks for (`events`) and not what poll answered
  (`revents`), with the effect of the second finding.
- `NetWork/TCP/Task.hpp:27` passes an `int` to `%s` when a client quits (`LogQuit`).
- `EpollServer.hpp:54` blocks the only thread when a client does not read its echoes
  (`Write`), and writes to clients that are gone, whose reset turns the next write into
  a SIGPIPE that ends the process (`Sigpipe`).
- `Epoller.hpp:45-49` only logs that `EPOLL_CTL_ADD` failed, and neither of its callers
  (`EpollServer.hpp:39`, `Reactor/TcpServer.hpp:82`) looks at the result: the connection
  stays open and is never served (`lost`, `registered`).
- The Reactor never closes a connection, so its descriptors are all the clients it can
  have in its life.
- `SelectServer.hpp:54` and `PollServer.hpp:57` close the connection of a client when the
  table is full, without a word to it (`TurnedAway`).
- `ProcessPool.cc:59` takes a failed fork for a child, and `Daemon.hpp` leaves the father's
  part to `fork() > 0`, so a failed fork goes on in the foreground.
- `Reactor/TcpServer.hpp`: `Accepter` leaves its loop only on `sock == 0`, so after the first
  edge `Loop` never waits again.
- `ThreadPool.hpp:84` (TCP) never unlocks `lock_`; a second caller would hang. There is none.
- UDP: users are known by ip (`UserCheck`), so a second client of a host, or one started
  again, is not registered, and hears nothing of what it says
  (`TalkersAreUsers` in UdpChat states the contrary and is in no run).
- A FIFO server that is killed leaves its file, and the next one exits.
- `GoBangGame`: letters where `scanf` expects numbers are never consumed (`stuck`), and the
  menu's last label is spelled `defualt` (`main.c:24`), a label nobody jumps to.
- `myshell.c`: an empty line leaves `argv[0]` NULL, and so does the end of the input (`crashed`).
- `Mystdio.c`: text that steps over the buffer's size overwrites what follows it.

## 7. Not modelled, and limits

Components:

- *Thread wrapper* (`pthread/mythread.cc`, `threadPool/Thread`): start and join by one
  thread; nothing is shared.
- *Signals* (`File/Pip/Signal`): demonstrations of what the kernel does with a signal; the
  model would be one of the kernel.
- *Non-blocking input* (`IOModel/TestNonBlock.cc`): a loop over `read` without state.
- *Task arithmetic* (the `task.hpp` of the containers): five operators, the same as
  `CalculatorHelper`, which Calculator models; the containers do not look at their items.
- *Process, exec, file, library and JSON exercises*: straight-line programs that print.
- *Build outputs*: generated by CMake.

Limits of the models:

- Memory is sequentially consistent. All shared data is accessed under a mutex or,
  in RingQueue, ordered by semaphores; `NoSlotRace` shows the latter.
- Bytes are not counted in the servers, the calculator, the chat and the pipes, so the
  read that fills a whole buffer (and makes `buffer[n] = 0` write one past its end) is
  left out. `Service` and `Routine` of the TCP server are earlier versions nothing calls.
- Servers: the timeouts of select and poll change nothing and are stuttering. Echoes
  are counted whole: a write that goes out in part is one that waits.
- ProcessPool: a pipe holds at most `MaxQueued` commands, beyond which the father's
  write blocks. The commands themselves only print.
- HttpServer: the request line is one of a few kinds; the headers and an empty request
  are left out.
- Logging: what a message says, and with it the screen (what `std::cout` makes of several
  threads) and `localtime`, whose one buffer all threads share. A write may fail, but not
  in part.
- Mystdio: every write is complete. Text that steps over the buffer's size makes the program
  `corrupt`, and no property says anything of it from then on, so none would catch that
  overflow.
- UdpChat: the text of a message, and `Daemon`'s `"dev/null"`, a relative path, so that the
  redirection of Startup's process usually fails: nothing modelled depends on it.

## 8. What is left

Worth adding, in this order: invariants and proofs for the four modules that have only
liveness (what the Fifo's server has read is a prefix of what was written; a user of the
chat hears nobody twice under one address), the Reactor's other callbacks once the code
has them, and the counting of bytes in the reads that fill a whole buffer.
