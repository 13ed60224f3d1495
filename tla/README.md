# Zero Tool Kit: a TLA+ model of its event loop, timers, queues, pools and network endpoints

This directory holds TLA+ modules that model parts of the Zero Tool Kit (ZTK),
a C library with an event loop (`ztk_poller`), timers, a lock-free queue, a
thread pool, reference-counted buffers and TCP/UDP/TLS on top; TLC
configurations that check them on small instances; and TLAPS proofs of the most
important invariants for every value of the constants. Paths below are relative
to the directory that holds `src/` and `tla/`; the repository's own root is
`src/`, so its sources are under `src/src/` and its headers under `src/include/`.

## 1. The system: inventory

| Component | State | Operations | Interaction | What is hard |
|---|---|---|---|---|
| poller core (`poller_task.c`, `poller_epoll.c`) | task list under `task_mtx`, wake pipe, fd list, owner thread | `async`, `async_first`, `wake`, `poll`, `run`, `process_pending`, `destroy`, `add/mod/del` | every other component posts tasks to it and gets callbacks from it | posting against draining; coalesced wake-ups; re-entrant posting; stop without wake; drain at destroy |
| timers (`poller_timer.c`, `util/timer.c`) | heap of timer pointers under `timer_mtx`, per timer its place and a cancelled flag | `do_delay`, `timer_cancel`, flush, timeout resolution | inserts and cancels from other threads are tasks of the poller | cancel against flush; lifetime of a timer; stale clock; heap removal from the middle |
| select / wepoll back ends | as above | as above | as above | batches collected before callbacks; closed fds in the table |
| poller pool (`poller_pool.c`, `poller_load.c`) | slots of poller, thread, stop flag, buffer pool; load windows | create, start, stop, destroy, pick by load or key, attach/detach buffer pools | runs one poller per thread | failed start; shutdown order; what is queued when a loop leaves |
| MPSC queue (`util/mpsc.c`) | ring of cells with sequence numbers, head, tail | push, pop | any producers, one consumer | lock-free: every access interleaves |
| thread pool (`thread/thread_pool.c`, semaphore) | task list, semaphore, workers, started flag | start, fini, destroy, async, async_first | blocking work off the loops | tokens against tasks; shutdown with submissions under way; failed start |
| buffers (`util/buf.c`, `poller_buf.c`) | per block a counter; per pool free lists, mutex or owner poller | alloc, ref, try_ref, unref, acquire, release | a last unref on another thread posts a task to the owner poller | lock-free counters; lockless lists; teardown |
| TCP server (`net/tcp_server.c`) | listening socket, session list under a mutex, a manager timer per poller; per session an output queue | start, stop, destroy, accept, send, sendv, send_buf, flush, discard, close, manager | every poller of the pool accepts; application callbacks close sessions | two loops and the application on one list; failed start; callbacks that change what is iterated; partial writes; high-water mark |
| socket (`net/socket.c`, `sock_linux.c`) | fd, registration, connect in progress | connect, attach, detach, send, recv, dispatch | between a poller and the components below and above | which events are watched when; use after a callback |
| TCP client, TLS client | flags, pending bytes, SSL handle | connect, send, close, destroy; handlers | sockets call them, they call the application | reconnect from a callback; order of pending bytes; direction a handshake waits in |
| UDP server, UDP client | a socket per poller, registrations | start, stop, bind, set_peer | pollers' fd tables | failed starts and reused fd numbers; read loops |
| RTP ports (`net/rtp_port.c`) | stack of free ports | acquire, release | | ends of the 16-bit range; double release |
| log, byte buffer, platform | | | | pure I/O or single owner |

## 2. Modules

| Module | Models | Checked by | Proofs |
|---|---|---|---|
| `PollerLoop` | task list, wake pipe and loop of one poller (epoll build) | `PollerLoop.cfg` | `PollerLoopProofs` |
| `TimerSet` | abstract: a set of armed timers | refined by `TimerHeap`, used by `PollerTimer` | |
| `TimerHeap` | the binary heap with stored places | `TimerHeap.cfg` | `TimerHeapProofs` |
| `PollerTimer` | timers of one poller over `TimerSet` | `PollerTimer.cfg`, `PollerTimerCancel.cfg` | `PollerTimerProofs` |
| `TicketQueue` | abstract: bounded queue with claimed places | refined by `Mpsc` | |
| `Mpsc` | the lock-free ring | `Mpsc.cfg` | `MpscProofs` |
| `ThreadPool` | the thread pool | `ThreadPool.cfg` | `ThreadPoolProofs` |
| `BufPool` | buffers, buffer pool, owner poller, shutdown | `BufPool.cfg`, `BufPoolShutdown.cfg` | `BufPoolProofs` |
| `TcpServer` | listening socket, accept loops, session list, manager, start and stop | `TcpServer.cfg` | `TcpServerProofs` |
| `Socket` | one connection's `ztk_socket` and what the kernel makes of it | through `Endpoints` | |
| `SessionOut` | the output side of a server session, over `Socket` | through `Endpoints` | `EndpointsProofs` |
| `Connection` | abstract: what a client's user is promised about callbacks | implemented by the two below | |
| `TcpClient` | `ztk_tcp_client`, over `Socket` | `Endpoints.cfg`, `EndpointsReconnect.cfg` | `EndpointsProofs` |
| `TlsClient` | `ztk_tls_client`, over `TcpClient`'s events and `Socket` | through `Endpoints` | `EndpointsProofs` |
| `Datagram` | UDP server and client over the fd tables of the epoll and the select build | through `Endpoints` | `EndpointsProofs` |
| `PollerPool` | load statistics and the choice of a poller | `PollerPool.cfg` and through `Endpoints` | `EndpointsProofs` |
| `RtpPort` | the pool of RTP port pairs | through `Endpoints` | `EndpointsProofs` |
| `Endpoints` | the six above as one instance: a behaviour is one of one part | `Endpoints.cfg` | `EndpointsProofs` |

### PollerLoop

`queue` is `task_head .. task_tail`, `batch` the list `drain_tasks` has detached,
`pipe` the bytes in the wake pipe, `pc` the place of the loop thread in
`ztk_poller_run` and `ztk_poller_poll`, `ret` where a drain returns to. A producer
takes two steps, the locked insertion and the write to the pipe (`waking` holds
those between the two). The loop thread's steps are the stretches of code between
two accesses to shared state: the wait, the turn of the wake fd (pipe first, then
list), the two looks at the list, the detaching and each task. Callbacks and tasks
may post to the back, to the front, or with `may_sync` (inline on the owner thread,
queued otherwise). A turn may be interrupted (EINTR skips the drains), fail (run
ends), or be filled with other fds so that the wake fd is not reported. `Destroy`
drains on the destroying thread, where nothing is bound, so `may_sync` posts; those
posts are marked `late`. Left out: fd registration (see `Datagram`), the load
statistics (see `PollerPool`), failed
allocations (async returns before it changes anything) and a failing write to the
pipe other than EAGAIN.

### TimerHeap, TimerSet, PollerTimer

`TimerHeap` translates swap, bubble up and down, push, pop and removal literally,
with array places counted from 1 and 0 for `ZTK_TIMER_HEAP_INDEX_NONE`. `Up` and `Down`
are one turn of the two loops; a loop is as many turns as the array has places, of which
those after the `break` change nothing, so that no operator is recursive.
`InsertNoMem` is an insertion whose `realloc` fails: `insert_locked` ignores it, the
deadline is set and the timer is in no heap. The heap is shown
to implement `TimerSet`, and operation by operation for `pop_min`, which must take an
earliest timer and not just remove some timer. `PollerTimer` works on `TimerSet`.

`PollerTimer` follows a timer from `do_delay` (directly on the loop thread, through a
task at the front of the list elsewhere) over the heap and the callback to its end:
freed after a callback that returns 0, freed by the flush if it is cancelled, freed
by `destroy` if it is in the heap. `ztk_poller_run` resolves its timeout twice per
turn (once itself, once in `poll`), a loop around `ztk_poller_poll(p, -1)` once; both
are modelled. The clock may advance at any point, also during callbacks. A thread
that cancels from outside takes two steps, setting the flag, then reading
`timer->poller` and posting. A use of a freed timer leads to `"undefined"`, where the
model stops. Timer callbacks make no timer calls of their own: `timer_mtx` is held
around them and is not recursive. A post and its wake are one step here since
`PollerLoop` treats them apart. The clamp of timeouts to `0x7fffffff` and the wrap of
64-bit deadlines are left out.

### Mpsc, TicketQueue

One step per atomic access (all are sequentially consistent in the code) and per
plain access to a cell. `claimed` and `popped` are histories. The refinement mapping
takes the cells from the first one not handed back up to `tail` as the line of the
abstract queue; a cell is `ready` when its number says it is published. `pop` on an
unpublished head changes nothing and is not a step.

### ThreadPool

Submission is insertion, then post; a client also reads `started` before, without
the lock. Workers take a token, then the head of the list, and exit on an empty one.
One controlling thread starts (a failed thread creation leads to the join that the
code then waits in), finishes, restarts and destroys. `fini` posts its N tokens in
one step. `late` holds the tasks inserted after `fini` began. A task whose function has
been called may be submitted again, by itself too, so behaviours in which submissions
never end are there although only a few tasks exist: `started` stays 1 until the workers
are joined, and a task that resubmits itself keeps a worker, and with it `fini`, for ever.
`FiniReturns` and `SubmittedRuns` name this case (submissions, or insertions at the front,
without end) as the only one in which they fail.

### BufPool

Blocks belong to malloc (`libc`), to the application (`used`) or to the free list
(`cached`). Linking and unlinking take two steps, reading the head and storing it,
under the mutex of a `thread_safe` pool and under none in a lockless one; both kinds
are initial states of the same run. A thread that drops the last reference asks
whether it is the owner's loop thread, then links, frees or posts. `Stop` lets the
loop leave with tasks queued, as `ztk_poller_run` does. `TakeOver` is the application
releasing, after stop, what the loop thread owned. `Detach` waits until the
application has let go of everything. The lock-free read path of `buf.h:49-50` is two
steps: `Load` takes the address of a buffer without a reference, and `ztk_buf_try_ref`
is called at any later time, whatever has become of the block. If it is a `ztk_buf`, the
same or a later one, `TryRef` counts or declines. If it is in the free list or given back
to malloc, where the counter was lies a link or anything (`TryRefStale`): a value that is
not positive is declined, a positive one is incremented, which damages the list or the
heap; the model stops there (`stage = "undefined"`). One bucket stands for nine, a flag for sizes beyond the largest. Left
out: statistics, re-attaching another pool.

### TcpServer

Two or more loop threads (`pc`, one place per poller) and the application's thread
(`app`, `at`). A critical section of `srv->mutex` is one step. So is each call of
`ztk_poller_add`, `ztk_poller_del` and `ztk_poller_timer_cancel`, so stop and start meet
running loops at every poller; that the pollers' entry lists have no lock and that add
and del work on them from the application's thread while the loop reads them is not
modelled beyond that, here and in `Datagram`. Lookup and call of a handler are two steps:
a poller that has found the listening fd's entry (`found`), or popped a manager timer
that is not cancelled (`timer`), calls it later, after a stop has returned if it comes to
that. The entry may have been freed by then (`stale`): it is intact, or its memory has
been reused and the call is undefined (`harm`). Whether there is a manager timer at all is
chosen in the initial state (`manager`). `backlog` is the kernel's queue of connections: several loops are woken for one
connection and the accept loop of each ends with nothing. `session_remove` is three
steps (closing, unlinking under the mutex with the last session moved to the hole,
`on_error` and free); the manager's walk stops at each session of its poller with the
mutex dropped, and callbacks close sessions there. `due`, `seen` and `moved` are
histories of the walk. A listening socket that is opened again drops the registrations
of the old fd; a start that fails half way leaves what it has registered.

The application modelled is one the code can serve: `on_recv` does not close its own
session (the handler goes on using it), sessions are closed on their poller's thread,
and the server is destroyed with the pool stopped. A session may be placed on any poller,
as the default placement does. Then the other poller may read from, remove and free the
session between `session_create` and `session_list_add`, which lists it too late
(`ListLate`, `harm`); `SessionHome` says that this needs a session placed on another
poller than the accepting one, and that short of it every session is in one place.

### Socket, SessionOut

`sk` is the `ztk_socket` with its connection in the kernel (`syn`, `est`, `eof`,
`lost`), which changes on its own at any time. `Sent(s, n)` is what a write of n bytes
may return: any prefix. A byte is a pair of message and position, so `wire` followed by
the queue says what the peer will read. In `SessionOut` a call is its steps: the direct
write, one append per part with the high-water check and its callback (which may
discard, and does not send, flush or close), one flush round per `writev`. Of a vector
with more than `IovMax` parts the first `IovMax` are the message (`Kept`): `sendv` drops
the others and returns `ZTK_OK`. `writev` raises SIGPIPE on a broken connection:
the process may end there (`killed`).

### TcpClient, TlsClient, Connection

The handlers run as the code nests them: the report of the poller, `socket_poller_cb`,
the writable half before the readable half, `fire_error` before and after `on_error`.
`log` is the history of callbacks since the last connect. `TlsClient` leaves the
handshake and the records to OpenSSL: a call is through, waits for one of the two
directions, or fails; a write that waits is owed from the buffer it was tried with
(`owed`), and fails from another one. Its application sends from anywhere, takes
`ZTK_ERR_AGAIN` for queued and does not close from a callback. A message sent from
`on_connect` is written ahead of those queued before; the history `ahead` has these, and
`WireOrder` allows no other message out of order. `Connection` is the
abstract specification of both; the mapping takes the flags to a phase.

### Datagram

Fd numbers are small integers, the lowest free one is given out, and closing takes a
number out of the epoll sets and not out of the tables: what a failed start leaves
behind meets the next socket with that number. The two back ends are initial states of
the same run: epoll reports fds and looks the entry up at dispatch, select collects
entries first and fails on a closed fd, which ends the loop (`dead`). Datagrams are
`data` or `empty`; recvfrom's 0 ends the read loop. An entry that outlives the slot or
client it belongs to is called all the same: the callback then runs on freed memory
(`srv.at = "undefined"`), and nothing is said of what follows.

### PollerPool, RtpPort

`PollerPool` has the account of running and sleeping time per poller with its halving
window, and the scan of `ztk_poller_pool_get`, turn by turn (`Scan`), with the pollers it
has looked at (`seen`), whose accounts it has brought up to date. `RtpPort` has create's
loop over the range, which counts in 32 bits, pushes a port per turn and may run out of
memory, and the stack of free ports with its growth, at the top of the 16-bit range.

## 3. Runs

| Run | Instance | Distinct states | Shows |
|---|---|---|---|
| `poller_loop` | 2 producers, pipe of 1 byte, 3 tasks, 2 runs, 1 signal | 240 932 | order, exactly-once, no lost wake-up, drains, liveness |
| `mpsc` | 2 producers, ring of 2, 3 pushes each | 12 459 | refinement, exclusive cells, no false "full", delivery |
| `thread_pool` | 2 workers, 2 clients, 3 tasks, 2 starts | 29 854 | token balance, shutdown, restart |
| `timer_heap` | 6 timers, 2 deadlines | 85 095 | refinement, earliest popped, stored places |
| `poller_timer` | 2 timers, delays 0 and 2, clock to 3, flush of 1 | about 500 000 | ownership, quiet after cancel, sleep bound, firing |
| `timer_cancel` | the same | violation | a posted cancel task with a freed timer |
| `buf_pool` | 3 blocks, the loop thread and another, list of 2 | 72 744 | no race on the list, one home per block, reclaim |
| `buf_pool_shutdown` | the same with a third thread | violation | a release still queued when the pool is destroyed |
| `tcp_server` | 2 pollers, 2 connections, 2 starts | 319 290 | one home per session, manager rounds, quiet after stop, clients served |
| `endpoints` | see below | 212 318 | order of bytes, balance of the queue, callbacks, connects resolved, UDP reachable and served, choice of a poller, port pairs |
| `tcp_reconnect` | a TCP client that reconnects in `on_error` | violation | the new socket is detached |
| `pool_pick` | 3 pollers, window of 4, clock to 4 | violation | a lighter poller is skipped |

Why the bounds are enough. A pipe of one byte makes every second wake coalesce, and
three tasks allow a task that posts a task while a third is posted from outside. A
ring of two with six pushes laps three times. Two workers with three tasks allow one
worker to run a task that submits while the other takes a shutdown token. Six is the
smallest number of timers for which a removal must move the replacement up. A flush
limit of one makes every pair of due timers exceed it. Three blocks over a list of
two reach hit, miss, push and drop. Two connections on two pollers allow a removal on
one thread while the other walks, and two starts a start after a failed one.

`endpoints`: two messages of up to three parts of up to two bytes with vectors of at most
two and a mark of three bytes, so that `sendv` cuts a vector, a message crosses the mark in
its middle, a write ends inside a part and a queue holds more chunks than one vector; two connects, so that
one connection's flags meet the next; room for two pending TLS messages; two pollers,
three fd numbers and three starts or binds, enough for a failed start, a socket of
someone else under its number, and a start after that; two datagrams, an empty one
before another; three pollers in the pool, the smallest number for which the scan misses
one, with a window of one tick that is halved at the second; ports 65528 to 65534 with a
stack that starts with two places and has to grow.

`CHECK_DEADLOCK FALSE` is set for `ThreadPool` (the pool may be destroyed, or stuck in
the join of a failed start), `TcpServer` (destroyed), `Endpoints` and `PollerPool`
(bounds reached, the client destroyed, the process ended).

`TypeOK` of `PollerLoop`, `Mpsc`, `TimerHeap`, `PollerTimer`, `BufPool`, `TcpServer` and `Endpoints`
holds on the same instances and is not part of the runs.

Fairness. Threads that can go on do (weak fairness on the loop thread's own steps, on
a producer that has inserted and not yet written, on workers, on a producer that has
claimed a cell, on the clock); `BufPool` uses strong fairness for threads that wait
for the pool's mutex, which a mutex grants in turn, and for the loop's drain, which
competes with the loop's own allocations. `TcpServer`: handlers and a call of stop
return, and epoll reports a listening fd that stays ready, in turn with the others.
`Endpoints`: handlers return; a pending connect is answered by the kernel sooner or
later; the peer of a handshake sends what is waited for and a handshake does not go on
for ever; a manager timer, in the behaviours whose server has one (`manager`: `on_manager`
set and the interval positive, `tcp_server.c:487`), flushes again and again, and a socket
asked again and again takes something; every poller's loop turns. A server without the timer
flushes only when the application does, so `SessionDrains` is stated for those with it. Nothing is assumed of fds, signals, stop
requests, submissions, or the order of events.

## 4. Findings

* A timer cancelled on another thread may be freed by the flush before the posted
  cancel task reads it; `ztk_poller_destroy` frees the heap before draining too
  (`poller.h:54`, `poller_timer.c:186, 276, 303`).
* `ztk_poller_pool_destroy` destroys the buffer pools with releases still queued,
  against its own comment (`poller_pool.c:74`).
* A TCP client that closes and connects again in `on_error` is left with a socket no
  poller knows (`tcp_client.c:29`, `tcp_client.h:34`).
* `ztk_poller_pool_get` may skip the lightest of three or more pollers
  (`poller_pool.c:195`, `poller_pool.h:53`).

Met on the way and not stated as properties, because no document says otherwise or
because it lies outside of what the properties are about:

* a failed `ztk_thread_pool_start` joins workers that wait forever (`thread_pool.c:161,
  169`; modelled by `CreateFails` and `Rollback`); a failed `ztk_poller_pool_start`,
  `ztk_tcp_server_start` or `ztk_udp_server_start` calls a `stop` that does nothing;
* `ztk_mpsc_pop` returns NULL with completed pushes behind a stalled one (`mpsc.h:20`
  says NULL is for empty);
* cancelled timers are never freed; delays near 2^64 wrap; `ztk_timer_stop` frees what a
  running callback still reads;
* a session listed after it was freed, when it is placed on another poller
  (`tcp_server.c:447`, see `TcpServer`); a session used after `on_recv` closed it;
* the high-water flag is reset by appends and by discard, not by a flush: a queue flushed below the mark and
  brought over it by one append is not reported again (`tcp_server.c:207`; modelled, and no
  document says whether it should be);
* a listening fd's or manager timer's handler that runs after `ztk_tcp_server_stop` has
  returned, because it was looked up before (`poller_epoll.c:234, 247`, `poller_timer.c:185,
  193`), with its entry freed; manager timers that a failed start leaves and no stop cancels;
* a `ztk_buf_try_ref` that increments the link of a cached block (`buf.c:134`), though
  `buf.h:49-50` has it return NULL for a destroyed object;
* a TLS client whose `tls_flush_pending` waits for POLL_OUT goes on to `tls_drain_plain`, whose
  wait to read stops watching POLL_OUT (`tls_client.c:76, 145`): the pending bytes stay until
  the peer sends something;
* a `fini` that never returns because a task resubmits itself (`thread_pool.c:183, 219`);
* a UDP slot or client freed with an entry left in a table (`udp_server.c:44`);
* `sendv` drops parts beyond 16 and reports `ZTK_OK` (`tcp_server.c:721`); `writev` may
  raise SIGPIPE (`sock_linux.c:384`, while `src/src/net/README.md:15` lists
  `MSG_NOSIGNAL`);
* a TLS client keeps the first host as its SNI name on later connects
  (`tls_client.c:301`, `tls_client.h:31`), stays `closing` after an error, and calls
  `SSL_read` on a handle that a send in `on_recv` has freed (`tls_client.c:121`);
* with a shared fd every UDP slot but the first ignores its events, and its poller
  spins while a datagram waits (`udp_server.c:50`);
* `ztk_tcp_pick_poller_from_pool` never prefers the current poller
  (`poller_pool.c:227`, `poller_pool.h:54`);
* a double release in the RTP pool hands a pair out twice (`rtp_port.c:99`).

## 5. Proofs

All theorems are about `Spec`, for every value of the constants that satisfies the
module's named assumption. The properties are those the runs of section 3 check.

`PollerLoopProofs`
* `TypeCorrect`: `TypeOK` is inductive. The flags and the rest are proved apart, since
  Boolean variables and arithmetic need different provers.
* `NoWakeupIsLost`: `NoLostWakeup` speaks of the waiting loop only and is not inductive.
  `WakeInv` says that a non-empty list with an empty pipe and no writer under way can
  only exist while the loop is about to detach that list: this is what emptying the
  pipe before the list achieves.
* `DestroyDrains`: `DrainInv` says that nothing is detached outside a drain and that,
  once the last drain has taken the list, only tasks it runs itself put anything there.
* `NothingOvertakes`, `RunExactlyOnce`: both follow from `Accounted` of the trail, the
  sequence of the tasks run, detached and queued. A step appends to it, puts something
  into it (`async_first`) or leaves it alone; `GrownAccounted` covers
  putting a task in, at any place.

`ThreadPoolProofs`
* `TypeCorrect`; the semaphore is a natural number because a token is waited for.
* `TokensBalance` and `WorkersStay`: proved together as `BalanceInv`. A worker that has
  taken a token finds the list empty only if demand is left without tasks, that is, if
  shutdown has begun; so the balance excludes early exits, and early exits would break
  the balance. Cardinalities of the sets of workers and clients at each place are
  tracked with the theorems about finite sets.
* `ShutdownRunsAll`: `FiniInv` says that every task is taken, late or in the list, and
  that as soon as one worker has exited during shutdown, the list had been empty, so
  everything inserted before is taken.

`MpscProofs`: the argument is about places, the values `head` and `tail` go through, and
not about cells. `MpscInv` says that the `Cap` places from the first one not handed back
have a cell each, whose number says whether the place is free, claimed or published; and
what a producer with an old `tail` may still find in the cell it looks at. Two places
closer than `Cap` never share a cell (arithmetic of `%`, lemmas `Multiples`, `CellsApart`).
* `CellsExclusive`: a claimed place has one owner, and the consumer is at a published one.
* `AgainMeansFull`: a producer that compares with an old `tail` finds a number below its
  own only in a cell that is still a lap behind, and no cell is unless the ring is full.
* `RingIsQueue`: the refinement of `TicketQueue`, action by action; steps of producers
  that lose the compare-and-swap stutter.

`PollerTimerProofs`, from `TimerInv`: every timer is in the heap, in its callback or in
one posted insertion, in one of them only, and live then (`Homes`); no two tasks insert
the same timer, in the list and in the detached batch together; the flag is set before
anything acts on a cancellation; and the timeout of a wait was computed from the heap as
it still is, since only the loop thread changes it.
* `TimersHaveOneOwner`, `CancelledStaysQuiet`, `NoOversleep`.

`BufPoolProofs`: the number of other threads is any finite one (`BufPoolAssumption`: a
counter can only be right if finitely many threads exist).
* `FreelistExclusive`: `Guarded` alone is inductive: the threads inside hold the mutex,
  or are the loop thread, which is what the detour through the owner's task list is for.
* `BlocksHaveOneHome`: `PoolInv` adds that a thread inside has the current head of the
  list, that a block on its way back is with one thread or in one task, that the counter
  of a block is the cardinality of the set of its holders, and that it is 0 only on that
  way. Pointers loaded earlier are in no invariant: whatever they point to, `TryRef` keeps
  it, and `TryRefStale` touches no buffer.

`TcpServerProofs`
* `SessionsAccounted`, for any placement of sessions. `HomeInv`: the session a loop thread
  is removing is its own by `home`, which no other thread's callbacks touch, so what one
  thread is about to unlink or free is never what another is about to; the one it is
  creating is on its way to the list unless the poller it was given to has dealt with it
  first, which then is another thread.
* `StopIsQuiet`: `Arming` relates timers, registrations and the place of a running start
  or stop: pollers before that place are done, those after it are not, and what a failed
  start has left is in `halfway` and `left`.
* `RoundsVisitOnce`: `WalkInv` says that a visited session is
  behind the index of the walk wherever a removal moved it, and that one still due is in
  front of it unless something was removed.

`EndpointsProofs`
* `ClientsKeepPromise`: the refinement of `Connection` by both clients, also with an
  application that reconnects in `on_error`. `ClientInv` ties the flags and the place of the
  handler to what has been called since the last connect. For TLS it needs that the
  handshake is not tried before the connect is known to be through, which follows from
  what the socket is watched for (`TlsFirst`), and where each nested call returns to
  (`TlsPlaces`).
* `PortsAccounted`: `RtpInv`: the stack and the set of ports handed out are disjoint,
  without repetition and together the even ports below the loop's counter, which is even
  and past the range when create has returned; no port of the range is the last number of
  16 bits.
* `UdpIsReachable`, for both back ends and both modes of the server. `UdpInv` says that
  every open fd belongs to one slot or to the client (`Owned`), that the slots a running
  start has been through are registered (`Starting`), and that an attached client is.
  Ownership is what keeps a step on one socket from touching the entry of another,
  although entries of closed fds stay in the tables and numbers are used again. There is
  always a free number, because one is closed before one is opened and there are more
  numbers than pollers (`FdLeft`, a cardinality argument).

The bytes of `EndpointsProofs`: messages of any number, parts and lengths, any limit on the
vector of one write, any high-water mark. A queue's length is the number of places for a byte its
chunks have (a cardinality, so that no definition is recursive), and what follows for every
prefix of a queue is shown by counting: a set of numbers with 0 and each successor has them
all (`Counting`, from the least number outside). From there `AdvanceIs` says what a partial
write leaves: the chunks after those it covers, the first one shortened, with exactly the
bytes that were not taken.
* `CountersBalance`, from `Counted`: the queue and the parts to come are sequences of chunks,
  and `bytes` and `refs` are those of the queue. The high-water callback may discard,
  so the invariant also holds between an append and the rest of the call.
* `BytesInOrder`, from `OrderInv`: the wire is sorted and of messages sent so far
  (`WireGood`); wire, queue and the parts of the call under way follow one another
  (`Lined`), so that a message cut by a failed allocation leaves a gap and never a byte out
  of place; a message reported as accepted has every byte on the wire or queued unless a
  discard cut it (`AllThere`). For the clients the wire is in order but for the messages in
  `ahead`, and the messages a TLS client holds back are sorted and later than all others on
  the wire (`Wired`, `Queued`).

The choice of a poller, in `EndpointsProofs`, from `PoolInv`: no account is ahead of the
clock, so that every load is a natural number, and `thread_pos` is a place of the pool.
`Scanning` is the invariant of the scan's turns: the poller taken is where the scan is, as
light as any it has looked at, and an early end means a load of 0. The index of each turn
is counted from the poller taken last, so nothing says that all are looked at.
* `PoolTakesLightestSeen`: `TakesLightestSeen`, for a pool of any size, is what the code does
  guarantee. `PickLightest`, which the header promises, is false from three pollers on
  (`pool_pick`).

`TimerHeapProofs`: any set of timers, deadlines that are natural numbers
(`HeapAssumption`). `HeapInv` says that the stored places are those of the array (`Sound`)
and that no key is earlier than its parent's (`Ordered`), which `pop_min` relies on. Inside an
operation the order is broken at one place: `Hole` says that all is in order but for the key
there, whose parent and children are in order across it. A turn of `timer_heap_bubble_up`
moves the hole to the parent (`RiseStep`), one of `timer_heap_bubble_down` to the smaller
child (`SinkStep`), and the heap stays the same set (`Permuted`). The place falls or grows
with every turn, so as many turns as there are places are enough (`BubbleUpIs`,
`BubbleDownIs`). In `timer_heap_remove` the timer from the end may be too early or too late
for the hole: it goes down, and if it was not too late it has not moved
(`BubbleDownStays`), so that going up from the same place is right. That the runs of turns
exist as functions, and what holds along them, is shown with `Counting`, from the least
number outside a set.
* `PlacesExact`: `IndexExact`.
* `HeapIsSet`: `Refines`, action by action; a removal of a timer that is not in the heap
  changes nothing, and `FirstIsLeast` says that the first of an ordered array is an earliest one.

Only model-checked:
* liveness (`TimerFires`, `UdpServed`, ...): the prover has no fairness reasoning;
* the violations of section 4, which are statements about single behaviours.

Every other invariant, action property and refinement of the passing runs is proved.

## 6. Not modelled

Not modelled: wepoll and the Win32 and stub variants (third-party code, or the same
control over other system calls); logging; byte buffers; setting socket options,
addresses and multicast; `ssl_ctx.c` and what OpenSSL does; the hash behind
`get_by_key`; statistics; `ztk_timer`, a wrapper around `do_delay`. About half of the
implementation's lines are of these kinds.
