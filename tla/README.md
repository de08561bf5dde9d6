# A TLA+ model of the network and synchronisation programs

The repository is a collection of programs written while learning Unix, network
and thread programming. The code with a design worth checking is of two kinds:
`network_programming/`, with a chat relay and other multiplexing servers, a
family of process and thread servers, a TFTP client and programs on thread
synchronisation; and the implementations of read-write locks, named semaphores
and message queues in `unpv/unpv22e/`. The modules here model those programs. TLC
checks them on small instances, and TLAPS proves the safety results of all of them
for every value of the constants.

Paths below are relative to `network_programming/`, or to `unpv/unpv22e/` for
the `my_...` directories.

## Inventory

| Part | State it keeps | Operations | Interacts through | Hard because | Correct when |
|---|---|---|---|---|---|
| Chat relay `2012.04.14/io-multiplexing/test.c` | `global_conn_list`, read and write sets, `global_maxfd`, exit flag, two growing buffers per connection | accept, read, `exchange_data`, `buffered_send`, write, close, signals, shutdown | `select()`, blocking TCP sockets, signals, `malloc()` | results of `select()` are used after other connections were closed or accepted, descriptors are reused, writes are partial and block, allocations fail | its tables agree, no blocking read without data, every client gets the others' input framed and in order, a signal ends it |
| Receivers `2012.04.16/io-multiplexing/{poll_test,select_test,epoll_test,epoll_test.new}.c` | `global_pollfd` and its index, read set and `global_maxfd`, or an epoll set; `global_conn_list` with growing buffers | accept, read, close, compaction, signals, shutdown | `poll()`, `select()`, `epoll_wait()`, TCP, signals, `malloc()` | the table is appended to while it is scanned, reported events outlive the descriptors they are about, allocations and `epoll_ctl()` fail | the program asks about each open connection once, only ready sockets are read, only closed peers are closed, input is read, a signal ends it |
| Process pool `2012.04.13/tcp/server3.new.c` | shared semaphore and `living_process`, children | fork, `sem_wait`, accept, `sem_post`, exit, SIGCHLD | shared memory, signals, the accept queue | signals merge, interrupt `sem_wait()` and race with an unprotected counter | the handler never blocks, the pool neither runs away nor starves |
| TFTP client `2012.04.13/udp/tftpget.c` | file, socket, block number of the packet at hand | request, receive, `read_data`, `send_acknowledgment` | UDP | datagrams are lost, repeated and reordered; disk errors are ignored | the file is the server's, acknowledgments are of blocks stored, the transfer ends |
| Connection servers `2012.04.13/tcp/server{,1,2,3}.c`, `tcp/server.c` | listening socket, children or threads, `process_count` | accept, fork or create a thread, answer, close, reap | SIGCHLD, SIGPIPE, the accept queue | signals merge, a handler's `wait()` may block, failures leave descriptors open, a reset client raises SIGPIPE | nothing leaks, children are reaped, the pool keeps its size, everyone is answered |
| Select example `tcp/select.c` | table of clients | accept, echo, close | `select()` | free-slot search against the highest slot | every client in the table is served |
| Condition variables `2012.04.09/cond/test{3,4}.c`, `my_pxsem_mmap/sem_{wait,post,trywait}.c` | a list or a count under a mutex | produce, consume, wait, post | threads, processes | signals after the unlock, missed and spurious wake-ups | nobody takes from an empty list or sleeps beside something to take |
| Read-write locks `my_rwlock`, `my_rwlock_cancel` | `rw_refcount`, two wait counts, two condition variables | rdlock, wrlock, the try versions, unlock, destroy, init, cancellation | threads | wake-ups that find the lock taken again, waits that are cancelled, a destroy that takes no mutex | readers or one writer, exact counts, nobody left asleep, destroy overlooks only threads that move |
| Named objects `my_pxsem_mmap/sem_open.c`, `my_pxmsg_mmap/mq_open.c` | a mapped file, its execute bit, what each process has open | open, create, initialise, wait for the creator, close, unlink | the file system | every check is on the name and may be stale; creators fail or die | who opens finds it initialised, all share one file, calls return |
| Message queue `my_pxmsg_mmap` | message list and free list in the file, counts, the process to notify | send, receive, notify, setattr, close, death | processes, one condition variable, signals | one condition variable for both sides, signals only on empty and full | priority order, lists share out the slots, no lost wake-up |
| Other semaphores `my_pxsem_{fifo,svsem}` | a FIFO or a System V semaphore | open, wait, post | kernel | initialisation race | as the mapped one |
| Mutexes and other demonstrations `2012.04.09/{mutex,rwlock,semaphore}` | counters under a lock | lock, update, unlock | threads | `datarace.c` and `deadlock.c` show what happens without | mutual exclusion |
| Threads and processes `2012.04.07`, `2012.04.11` | thread ids, keys | create, join, cancel | threads | little | threads are joined |
| Datagram, multicast, local sockets, DNS | none between requests | send, receive | UDP, local sockets | little | the answer is printed |
| Exercises outside `network_programming/` | lists, files, registers | sequential | none | nothing runs concurrently | not part of this project |
| jpeg-8, textbook code, script collections | | | | third-party | not part of this project |

## Modules

| Module | Models | Used by |
|---|---|---|
| `ChatServer` | the chat relay, its kernel and its clients | `MCChatServer`, `ChatServerProofs` |
| `Relay` | what the chat relay promises, without descriptors, sets and buffers' sizes | instantiated in `ChatServer` |
| `ChatServerProofs` | theorems on `ChatServer` | |
| `Receivers` | the four receivers, `prog` says which one runs | `MCReceivers`, `ReceiversProofs` |
| `ReceiversProofs` | theorems on `Receivers` | |
| `ConnServers` | the five servers of one process, child or thread per connection | `MCConnServers`, `ConnServersProofs` |
| `ConnServersProofs` | theorems on `ConnServers` | |
| `ProcessPool` | the pool: parent, handler, children | `MCProcessPool`, `ProcessPoolProofs` |
| `ProcessPoolProofs` | theorems on `ProcessPool` | |
| `TftpGet` | the TFTP client with a server and a network | `MCTftpGet`, `TftpGetProofs` |
| `TftpGetProofs` | theorems on `TftpGet` | |
| `RwLock` | both read-write locks | `MCRwLock`, `RwLockProofs` |
| `RwLockSpec` | what a read-write lock with writer preference promises | instantiated in `RwLock` |
| `RwLockProofs` | theorems on `RwLock` | |
| `CondWait` | the two list programs, and waiting and posting of the mapped semaphore | `MCCondWait`, `SemaphoreProofs` |
| `NamedOpen` | opening and unlinking of mapped semaphores and message queues | `MCNamedOpen`, `SemaphoreProofs` |
| `SemaphoreProofs` | theorems on `NamedOpen` and `CondWait` | |
| `MsgQueue` | the mapped message queue | `MCMsgQueue`, `MsgQueueProofs` |
| `PrioQueue` | a bounded queue with one FIFO per priority | instantiated in `MsgQueue` |
| `MsgQueueProofs` | theorems on `MsgQueue` | |

Where several programs of the repository do the same work in different ways, one
module models them all: `prog` is chosen in `Init` and the actions branch where
the sources do. A property then says which programs keep it, and a mutant is what
one program would be with its neighbour's habit.

### ChatServer

The server is one thread, so its handlers run to completion; what interleaves
is the environment. A step of the model is what happens between two points
where the environment matters: the test of the exit flag, `select()`, one
descriptor's read or accept, each piece of a blocking `write()`.

* `pc` is where `main()` stands. `CheckExit` and `Select` are separate, so a
  signal may fall between them. `Select` copies the ready part of the registered
  sets to `rset` and `wset`; the scan removes a bit when it has dealt with it,
  lowest descriptor first and read before write, as the `for` loop does.
* `conn_list`, `read_set`, `write_set`, `maxfd` and `exit_flag` are the globals.
  A `conn_t` is a record of its peer and two buffers with their sizes.
* `net_read` is the whole handler: `ReadData` reads, grows the buffer,
  and runs `exchange_data` with all its `buffered_send`s; `ReadEOF` closes;
  `ReadFails` is the path that only prints.
* `net_write` is several steps, because sockets block: `WriteStarts`,
  `WriteCopies` while there is room, `WriteReturns` with a full or (after a
  signal) a short count, `WriteFails` with `EPIPE` or another error. Between them
  clients read, send and reset.
* A failed `malloc()` in `buffered_send` is followed by a copy past the end of
  the old buffer. `ReadOverruns` leads to `pc = "undefined"`, from which nothing
  is claimed.
* Data is counted in units. The k-th unit a client sends is `Data(c, k)`; the
  text put in front of a chunk is one unit, `Header(c, n)`.

External and modelled from use: the descriptor table (lowest free descriptor),
the accept queue, `select()`'s readiness, the socket buffers of `SockCap` units,
FIN and RST with Linux's pending-error rules (`ECONNRESET`, or `EPIPE` after a
FIN, reported once, then end of file).

`Relay` is the abstract specification: clients that join, input taken from one
member and appended, framed, to what each other member is owed, output delivered
from the front, members that leave. `RefinesRelay` maps a client's debt to the
part of the send buffer not yet copied by a running `write()`.

### Receivers

`poll_test.c`: `pollfd` is `global_pollfd` with its first `conn_index` entries in
use; an entry is its descriptor and whether POLLIN or POLLPRI stands in `revents`.
`re_construct_pollfd` compacts it, and `AppendPollfd`, the part of `net_accept`
that appends, leaves `revents` alone. The entries beyond `conn_index` keep their
old contents, because the program's array does. `select_test.c` and the epoll
programs keep a set of `watched` descriptors; `events` is what `select()` or
`epoll_wait()` reported and the scan has not reached, in descriptor order for the
first and in any order and at most `MaxEvents` at a time for the others.

A pass is `PassBegins`, then `Poll` or `Wait` or `TimesOut`, then one step per event
(`net_accept`, `ReadData`, `ReadEOF`, `ReadFails`), then `ScanEnds`. The differences
between the sources are kept: `poll()` is called again after a signal, the
others go round the loop; `select_test.c` doubles its buffer at every read;
`create_conn_object()` may return a `conn_t` it has freed, which is `DANGLING`, and
using one leads to `pc = "undefined"`; `epoll_test.new.c` ignores a failing
`epoll_ctl()`. Nothing calls `buffered_send`, so no program ever asks for
writability, and `net_write` is left out.

### ConnServers

`pc` is the main process, `worker` the children or threads with the client each
serves, `held` the connections the main process has open. `pending` is one bit,
since signals of a kind merge; `HandlerStarts` and `signal_handler` are two steps, and
children exit between them. `Reap` is one `wait()` in `server1.c` and one round of the
`waitpid()` loop in `tcp/server.c`. A write to a client that was reset fails, with SIGPIPE
or without: SIGPIPE ends a child, but a whole threaded or iterative server. `AcceptFails` ends
the loop, also when descriptors run out (`MaxHeld`); `DispatchFails` leaves
the connection open, or ends `tcp/server.c`.

### ProcessPool

Children are interchangeable and counted by state: `idle` in `accept()`,
`accepted` between `accept()` and `sem_post()`, `serving`, `zombie`, `reaped`. `Accept` and
`Post` are two steps, since the parent is another process and may block in `sem_wait()`
between them, with every child past `accept()` and none at its post. `living_process++` is a load and a store,
between which the handler may run. `sigchld` is one bit, since pending signals of
a kind merge. `signal_handler` takes the signal, `Reap` is the return of its
`wait()`; children go on exiting between the two. There is no SA_RESTART, so a
`sem_wait()` that has blocked returns with `EINTR`; its result is not looked at.

### TftpGet

A block stands for its number; the last one is the short one. `read_data` has
three outcomes: the block is stored, the file cannot be opened (then `block_size`
stays unset and the test on it may go either way), or `write()` fails unnoticed.
`diskOK` records whether the disk has worked so far. The external server follows
RFC 1350, answers each acknowledgment once and sends a block again when its timer
expires: whenever block or acknowledgment was lost, and up to `MaxEarly` times
too early.

### RwLock and RwLockSpec

The lock calls and `unlock` work under `rw_mutex`, so a call is one step
up to `pthread_cond_wait()` or the unlock. A waiting thread is asleep or woken; a
woken one runs the loop's test again when it gets the mutex (`rdlock_wakes`,
`wrlock_wakes`). `WakeUp` is what `unlock` signals, and there the two versions
differ. `rwlock_cancelrdwait` and `rwlock_cancelwrwait` are the cleanup handlers;
by POSIX a cancelled thread passes a signal on. `RwLockSpec` knows only who
holds and who wants the lock. `RefinesLock` maps asleep and woken threads to
those who want it.

`pthread_rwlock_destroy` takes no mutex. It is up to five steps, each of which may fall
between those of the threads: `DestroyCalled` (the test of `rw_magic`), the reads of
`rw_refcount`, `rw_nwaitreaders` and `rw_nwaitwriters` in `InUse`, and `Teardown`. It may even
read in the middle of a locked section. There the only value that is not also found before or
after the section is the wait count of a woken thread, which has taken itself off and not yet
counted itself in again or taken the lock; `Seen` adds that value. So destroy can succeed
while a thread is about to hold the lock, and a thread that has passed the test of `rw_magic` may
get the mutex of a lock destroyed meanwhile. The model does not follow what happens then: `Teardown`
sets `misused`, always possible because any thread may be at that point of a call, and nothing is
claimed any more. `steady` is a history variable: the threads that held the lock or slept when
destroy was called and have not moved since. No action tests it; `DestroySpares` is about it.
One thread at a time calls destroy, and init is called for a destroyed lock only.

### CondWait, NamedOpen, MsgQueue and PrioQueue

`CondWait` has three suppliers: `Produce` then `ProducerSignals` after the unlock
(one signal in `test3.c`, a broadcast in `test4.c`), and `mysem_post`, which signals
under the lock and only when the count was zero. The names every module has (`Init`, `Next`,
`Spec`, `TypeOK`) carry the prefix `Wait` here, so that `SemaphoreProofs` can extend it
together with `NamedOpen`.

`NamedOpen` numbers the files created under one name. `xbit` is the set of files
whose user-execute bit says that the creator is not done. The steps of an open call
are separate, as they are separate system calls: `open(O_EXCL)`, the
initialisation, `fchmod()`, `open()`, each `stat()` with its sleep. The error path
unlinks the name, whatever file has it.

`MsgQueue` keeps the program's linked lists, `head`, `free` and `next`, as indexes
into slots. `Walk` follows a list to its 0 and `Queue` is what the walk from `head` reads;
`Place` is `mymq_send`'s search by priority and `Link` what it does to the lists. One condition variable serves senders and receivers, so a signal may wake
either. `PrioQueue` has a FIFO per priority and no lists; `RefinesQueue` maps the
linked list to it, by reading off the messages of each priority where they stand together
(`Fifo`).

## Runs

| Run | Instance | Shows |
|---|---|---|
| `chat_tables` | 3 clients, 2 descriptors, buffers and sockets of 1 unit, failing `malloc()`, a signal | `TypeOK`, `TablesAgree` (no EBADF), `WriteInterest`, `ReadinessNotStale`, `BuffersFit`, `RefinesRelay` |
| `chat_live` | 2 clients of 2 units, buffers and sockets of 2, a signal, fairness | `StreamIntact`: what a client has been sent and is still owed is a sequence of whole frames, in order, for which the sender's units are complete; `ExitsAfterSignal`, `InputIsRelayed`, `OutputIsSent` |
| `receivers` | the four programs, 2 clients of 2 units, 2 descriptors, batches of 2 events, one failing allocation or `epoll_ctl()`, buffers that cannot grow past 2, fairness | `TableMatches`, `EventsNotStale`, `ClosedOnlyByPeer`, `ExitsAfterSignal`, `InputIsRead` |
| `poll_ready` (violation) | `poll_test.c`, 2 clients | `ReadyToRead` fails |
| `servers` | the five programs, 3 clients, 3 worker numbers, a pool of 2, 2 descriptors, one failing call, fairness | `NoLeak`, `HandlersReap`, `PoolBounded`, `EveryoneAnswered` |
| `pool` | pool of 2, 6 connections, up to 3 failing accepts, fairness | `HandlerFindsChild`, `LivingNotLow`, `IdleBound`, `PostComing`, `ConnectionsServed` |
| `tftp_get` | 4 blocks, 3 losses, 2 early timeouts, failing disk, fairness | `AckedIsStored`, `NothingMissing`, `ServedEnds` |
| `tftp_twice` (violation) | 3 blocks, one early timeout | `FileIntact` fails |
| `rwlock` | both locks, 4 threads that make 8 calls together, fairness | `CountsExact`, `DestroySpares`, `CallsReturn`, `RefinesLock`, all until the lock is misused |
| `cond` | three programs, up to 3 consumers and 2 producers of 2 items, fairness | `NoLostWakeup`, `SleepersServed` |
| `open` | 3 processes, 4 calls, 3 files, 2 tries, one unlink, one failure or death, fairness | `OpenedIsInitialized`, `OneFile`, `OpenReturns` |
| `queue` | 3 processes in the roles of `MCRoles`, 2 slots, 2 priorities, 3 sends and receives, one death, 2 other calls, fairness | `ListsPartition`, `ArrivalNotifies`, `BlockedReturn`, `RefinesQueue` |

The runs check what could go wrong. Each module has a type invariant `TypeOK` as well; it
is checked in `chat_tables` and proved for every module, as a part of its inductive
invariant. `SlotFreedBeforeReuse` of `ChatServer` and `StaysUp` of `ConnServers` are proved and
not checked in a run.

Each property of a passing run has a mutant in the module: a definition with a
plausible mistake (a guard dropped, a slot not cleared, an off-by-one) under
which the property fails.

### Bounds, and why they are enough

* Three clients and two descriptors: a descriptor is freed and reused while
  others are being scanned, a third client waits for it, and `accept()` fails.
* Buffers and sockets of one unit in `chat_tables`: every read fills the buffer and makes
  it grow, and every relayed frame blocks in `write()` and is sent in parts.
* Two units per client in `chat_live`, with buffers and sockets of two: one chunk of two
  or two of one, so that frames of different lengths meet partial writes and a frame of three
  units does not fit a socket.
* Receivers with two clients and two descriptors: a closed descriptor is handed
  out again within the pass, the table is compacted around an open entry, and three
  events do not fit a batch of two. Buffers grow once and then cannot.
* One signal: further ones only increment a flag that is tested against zero.
* Pool of two, six connections, three failed accepts: the pool blocks, is
  interrupted, outgrows its size several times, and can lose all its places.
* Four blocks, three losses and two early timeouts: an old repeated block can
  arrive after two newer ones.
* Servers with three clients and two descriptors or places: a third client waits,
  descriptors run out, two children exit before one handler runs.
* Four threads and eight calls among them: a reader holds the lock, a writer and a reader
  wait, and a fourth arrives, again after the first has come back, and some thread may come
  five times while the others wait; destroy meets every mixture of them.
* Three processes that open: a creator, one that waits for it, and one that opens or creates
  after the name has been removed. Two tries are enough to tell the last from the others.
* Three consumers and two producers: two signals for two of three sleepers.
* Two slots, three messages, two priorities: the queue is full and empty, a message
  goes in front of, between and behind others.
* `MaxFd` below 1024: the programs check no descriptor against `FD_SETSIZE` or their
  tables; the models take the usual limit on open files. File sizes stay below
  2^16 blocks, so block numbers do not wrap.

`chat_tables` uses symmetry in the clients; the runs with liveness do not. Deadlock is
checked for the chat relay and the receivers, which stop only after a signal or in the
undefined state. It is not checked where the system rightly waits or ends: servers
without connections, threads that have made their calls, a TFTP client that is done or
waits for a lost request.

### Fairness

* `chat_live`: weak fairness of the server (a process that can run does), and of
  `Receive` for each client: a client that is still connected goes on reading.
  The code needs the second: its sockets block, and a client that neither reads
  nor leaves stops the server. Allocation does not fail in this run.
* `pool`: the parent, its handler, and each child get the processor; a child
  ends its sleep; a failing `fork()` succeeds in the end.
* `receivers`: weak fairness of the server, and strong fairness of each descriptor's
  being reported by `epoll_wait()`: Linux appends a descriptor that is still
  ready to the end of its ready list, so that a batch smaller than the number of ready
  descriptors takes them in turn.
* `servers`: weak fairness of the main process and of every worker. Clients are
  free to leave or to stay.
* `rwlock`: a woken thread gets the mutex, and a thread that holds the lock gives it back.
* `cond`: a woken thread gets the mutex, and a producer that has unlocked goes on to its
  signal. Nobody is forced to produce.
* `open`: a process inside a call goes on, unless it dies.
* `queue`: a woken process gets the mutex. No process is forced to send or receive;
  `BlockedReturn` is about those that can return.
* `tftp_get`: what is not lost arrives, and the server's timer runs. The number
  of losses is bounded; no fairness makes the client resend its request, so
  `ServedEnds` starts when the server has it.

## Findings

* `poll_ready`: `net_accept` does not clear `revents` of the entry it takes. After
  a connection was closed and the table compacted, the entry still has the POLLIN of
  its former user, and the same scan calls a blocking `read()` on the new
  connection: "ready to read" (`poll_test.c:221`) is not true, and all clients wait
  for this one.
* `tftp_twice`: a repeated block is written twice; the file is not the one the header
  (`tftpget.c:2`) says the program gets.

Other facts that the models contain and the properties are worded around:

* A full receive buffer that could not grow gives `read()` no room; it returns 0, and the
  connection is closed as if by its peer (`ClosedOnlyByPeer`).
* `create_conn_object()` of `select_test.c` and `epoll_test.new.c` returns a `conn_t`
  it has freed when one of its buffers cannot be allocated.
* `epoll_test.new.c` keeps a connection it could not add to the epoll set; it is never read.
* `select_test.c` doubles the buffer after every read, not only when it is full.
* `living_process` (`server3.new.c:251`) drifts above the number of living children, by a
  decrement lost inside `living_process++` and by children left unreaped when SIGCHLDs
  merge; it never falls below (`LivingNotLow`).
* `server1.c` reaps one child per signal, so merged signals leave zombies;
  `tcp/server.c` loops and leaves none (`HandlersReap`).
* A client that resets can end `server.c` and `server2.c` by SIGPIPE (`StaysUp`).
* In `server3.new.c` the parent can block in `sem_wait()` while no child is in `accept()`: all
  have accepted and none has posted. What it can rely on is that one is left to post
  (`PostComing`).
* `pthread_rwlock_destroy` can take a lock from under a reader that has been woken: between
  `rw_nwaitreaders--` and `rw_refcount++` all three counts are 0 (`pthread_rwlock_rdlock.c:18-25`).
  It cannot overlook a thread that stays asleep or keeps the lock (`DestroySpares`).
* A reader of `my_rwlock_cancel` can stay asleep on a free lock when the writer it waited for
  is cancelled (`CallsReturn`).
* `mysem_post` signals only at the transition from zero, so of two waiting threads one may
  sleep beside a positive count; the promise holds for one (`Sound` in `CondWait`).
  The message queue has the same rule at empty and full, with one condition variable for
  both sides.
* A process that waits for a creator looks at the name, not at the file it has open, and may
  take a half-made file for a finished one when the name has changed hands
  (`OpenedIsInitialized`).
* When the file cannot be opened, the TFTP client acknowledges blocks all the same and, by
  an unset `block_size`, may print "Finished." (`diskOK` in `AckedIsStored`).

## Proofs

All theorems hold for every value of the constants that the named assumptions
(`ChatAssumption`, `ReceiversAssumption`, `ServersAssumption`, `PoolAssumption`,
`TftpAssumption`, `RwAssumption`, `CondAssumption`, `OpenAssumption`, `QueueAssumption`)
admit: types and positiveness of the parameters and, where something is counted, finite sets;
nothing about their size, with two exceptions. TFTP files have fewer than 2^16 blocks. And the
poll table has more entries than there can be sockets, as in `poll_test.c:38`: it has 1024, the
usual limit on open files, and the standard descriptors come before the sockets.

**ChatServerProofs.** `Invariance` proves `Spec => []IndInv`. The properties are
not inductive one by one, and `IndInv` adds to `TypeOK`, `TablesAgree` and
`WriteInterest`:

* `BetweenPasses`: outside a pass no bit is left in `rset` or `wset`;
* `PassOK`: during a pass a bit in `rset` is of an open, registered, readable
  connection, or of the listening socket with a connection waiting, and bits of
  descriptors that are free belong to closed ones only. This is what makes
  `NoStaleReadiness` inductive: `accept()` takes the lowest free descriptor, the
  listening socket is lower than all connections, and so a descriptor freed in a
  pass is not taken again in it;
* `WriteOK`: a running `write()` is on a connection that is open and has data, and has
  copied no more than there was;
* `QueueOK`: clients waiting for `accept()` are connected, wait once, and have no
  descriptor yet, so two descriptors never share a client;
* `BuffersOK`: the receive buffer is empty between reads and payloads fit.

From it follow `TypeCorrect`, `TablesAlwaysAgree`, `WriteInterestExact`,
`NoStaleReadiness`, `BuffersAlwaysFit`, and the action property
`SlotsFreedBeforeReuse`.

`StreamsAlwaysIntact` and `RelayImplemented` are about the units on their way. `Rest(f)` is
what is still to be written to descriptor `f`, a running `write()` considered, and `Effect`
classifies every step of the running server by what it does to the open connections and
their `Rest`: nothing, a client joins with nothing owed to it, one is refused, a chunk is
published, units move from `Rest` to the client, a connection is closed. `StepEffect` proves
that there are no other steps; the middle of a `write()`, its short count and the `memmove()`
after it turn out to be invisible. It needs `Fresh` (a client that is idle or waits for
`accept()` has been sent nothing) and `Counted` (the server reads no more than was sent) in
the invariant, `RelayInv`. Then each case is a step of `Relay` (`JoinsRelay`,
`PublishesRelay` and so on); a step that ends the process is `Leave(Clients)`, and a heap
overrun is invisible to `Relay`. For the streams the one case that matters is a frame that is
appended (`FrameAdded`): the last unit known of the sender gets its successor; and a
stream holds no data of the client it goes to (`OwnData`), so what that client sends cannot
make it incomplete.

**ReceiversProofs.** `IndInv` is `TypeOK` and, while the server runs, six parts. `PeersOK`: a
client waits once or has one descriptor. `ConnsOK`: the connection list has the open
connections. `RoomOK`: a full buffer is one that could not grow, which is why a
`read()` that returns 0 for want of room is the only false end of a stream. `PollOK`: the
table has the listening socket in front and each open connection once; closed
entries lie behind the scan and are gone before the next `poll()`. `WatchOK` and `EventsOK`:
the same for descriptor sets, and what is left of the answer names watched descriptors
once, each still ready. Two arguments carry the table: an append finds
room because the descriptors in use are distinct and fewer than the entries (`PollBound`),
and compaction is an order-preserving bijection from the live entries to the first ones
(`Ranks`, `Compacts`). The theorems are `TablesAlwaysMatch`, `EventsNeverStale` and the action
property `PeersCloseFirst`.

**ConnServersProofs.** `Places` ties the connection at hand to the place in the loop.
`SignalsOwed` makes `HandlersReap` inductive for `server1.c`: a pending signal and a running
handler need a zombie each, two different ones when both are there, for the handler's single
`wait()` takes one away. `PoolCounted` makes `PoolBounded` inductive: the
counter of `server3.c` is the number of children only until it reaches `PROCESS_NUM`; afterwards
the parent is one child short when it forks and complete when it waits. The theorems
are `NothingElseLeaks`, `HandlersAlwaysReap`, `PoolAlwaysBounded` and `ServersStayUp`.

**RwLockProofs.** Everything is said in terms of `Mode`, what `RwLockSpec` sees of each
thread. `ExactByMode` (the counts are the numbers of threads in each mode) is inductive with
`TypeOK`: a step moves at most one thread from one
mode to another, the two numbers involved change by one (`ExactMoved`), and the code changes
its counts in the same way; wake-ups, retries and signals passed on by cancelled threads
leave modes and counts alone. The same case split proves that each step is a step of
`RwLockSpec` or invisible to it. `ExactByMode` also says that a destroyed lock that was not
misused is out of use, which `init` needs to clear the counts; `Teardown` provides it. `SteadyOK`
is what destroy knows after each of its tests. A count that it reads as 0 is 0, or 1 because of a
woken thread in the middle of its section, and then the one thread counted is that one
(`SeenNobody`): either way nobody sleeps, and nobody who slept before and has not moved is
overlooked. The theorems are `CountsAlwaysExact`, `SteadySpared` and `LockImplemented`.

**ProcessPoolProofs.** `HandlerOK` (a pending SIGCHLD and a running handler have an
exited child each) and `PoolOK` (an upper and a lower bound on the children that have not
posted plus the semaphore) with `LivingNotLow` are inductive. The bounds on the pool are not
inductive without the sum: a child goes from `accept()` to its post and the post to the
semaphore, so only the sum stays. They give `HandlerNeverBlocks`, `LivingNeverLow`, `PoolBounded` and
`PostAlwaysComing`.

**TftpGetProofs.** `AckedIsStored` and `NothingMissing` with `SentByServer`: the
client writes whatever it is sent, so that the short block completes the file
follows only from the server's going one acknowledged block at a time. They give
`AcksAreSafe` and `FinishedIsComplete`.

**SemaphoreProofs, on CondWait.** `NoLostWakeup` compares the count with the woken consumers plus the
signals due. With `OnlyActive` (only consumers of this run sleep) and `SignalsAtOnce`
(`mysem_post` leaves no signal due) it is inductive: each step moves one of the three
numbers by one. The semaphore signals at zero only, and keeps it because its one waiting
thread, if asleep, leaves nobody woken, so the count was zero. `NoWakeupLost` states it.

**SemaphoreProofs, on NamedOpen.** `OpenedIsInitialized` is not inductive: a process in the `stat()` loop
trusts the execute bit of the name. `BitIsTruthful` says that only initialised files have
lost the bit, `CreatedSoFar` that files are numbered as they are created, so that a name
never goes back to an old one, and `TriesLeft` bounds the loop. `FirstFile` (nothing
removed, hence at most one file, and it has the name) gives `OneFile`. The theorems are
`OpenedAlwaysInitialized` and `AllShareOneFile`.

**MsgQueueProofs.** `ListsPartition` says what two walks through `next` meet, and cannot be
carried from step to step in that form. The invariant says instead how the lists lie in the
slots: there are two sequences without repetition, `u` of the used and `v` of the free slots,
that have no slot in common and together as many as there are slots, and each is linked from its
head to a 0 (`Layout`); what the slots of `u` hold is `Sorted` by priority. `LinkLayout` shows
that the assignments of `mymq_send` turn such a layout into one with the first of `v` inserted
into `u`, `UnlinkLayout` that those of `mymq_receive` move the first of `u` to the front of `v`;
`WalkIs` that a walk through a linked sequence meets exactly its slots, so that nothing is lost
when `Queue` and `Place` read the list. For the order, in a sorted list each priority has a
`Span`, the place `Place` finds is the end of one (`PlaceIs`), and an insertion there appends to
the FIFO of that priority and shifts the others (`InsertFifo`), while a removal takes the head of
the highest one (`RestFifo`). `QueueSteps` classifies the steps: one message is enqueued, one is
dequeued, or lists and results stay as they are. `SendersHold` (a blocked sender still
has its message) is needed because it is inserted only when the sender wakes, and
`WaitersCounted` (`mqh_nwait` is the number of receivers that wait or died waiting) because
`mymq_send` decides by that number whether anyone waits. Of the theorems, `SlotsPartitioned` says
that no slot is lost and no `err_dump()` reached, `ArrivalSignalled` that a registered process is
told, and `QueueImplemented` that every step is a step of `PrioQueue` or leaves it alone.

The provers cannot do an induction over the length of a list. Where one would be used, in
`WalkIs`, `SpanExists` and a few others, the proof takes the smallest place at which the
claim fails (`Smallest`, from the well-foundedness of `<` on the naturals) and finds the
contradiction there.

Only model-checked are the liveness properties: fairness and ENABLED are beyond the prover.
They are `ExitsAfterSignal`, `InputIsRelayed`, `OutputIsSent`, `InputIsRead`, `EveryoneAnswered`,
`ConnectionsServed`, `ServedEnds`, `CallsReturn`, `SleepersServed`, `OpenReturns`
and `BlockedReturn`.

## Not modelled

* In all servers: start-up errors, printed text, the leaked `ip` string, and descriptors of
  1024 and more; `net_write` and `buffered_send` of the receivers, which nothing calls.
* TFTP datagrams of other senders and opcodes, which the loop ignores or trusts alike.
* Calls of the locks, semaphores and queues that return an error and change nothing, and
  failing pthread calls, which fail only for invalid objects.
* `my_pxsem_fifo` and `my_pxsem_svsem`: wait and post are one system call each, and
  opening depends on `ftok()` keys and FIFO ends that a model would have to invent.
* `tcp/select.c`: an unfinished program that reads from the connection accepted
  last; a model would show that slip and nothing else.
* Clients, datagram, multicast and local-socket programs, and the thread
  exercises: one call or one request after the other, with no state between them.
* Exercises outside `network_programming/` (word counter, dictionary, games, containers, ARM
  library): sequential, and partly the board's behaviour.
* jpeg-8, the textbook programs other than those above, and the script collections:
  third-party code. They are by far most of the repository's lines, so the models
  cover a small share of it.

## Plan

The order of work was: the chat relay and its abstract specification; the receivers, the
pool and the servers, which share its hazards; the TFTP client; the locks, semaphores and
queues; then the proofs in the same order. What is left:

1. `my_pxsem_svsem`, whose opener removes a semaphore set another process is still
   initialising, once `ftok()` and `semop()` with its undo counts have a model of their own.
2. Proofs of the liveness properties, if a prover for ENABLED becomes available. Until then they
   are checked on the instances above.
